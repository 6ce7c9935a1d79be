-------------------------------- MODULE Feed --------------------------------
(***************************************************************************)
(* The live notifications of the web application: the hook                 *)
(* useDockerEventNotifications, which connects again three seconds after   *)
(* each close, and the subscribers of DockerEventBroadcaster on the        *)
(* server.  What the broadcaster publishes is the module DockerEvents.     *)
(***************************************************************************)
EXTENDS Sockets

CONSTANTS NoFeed,     \* before the first connection
          Twins,      \* events of the container and the second of the one before them
          MaxEvents   \* bound: events broadcast

ASSUME FeedAssumption == NoFeed \notin Socks /\ MaxEvents \in Nat /\ Twins \subseteq Nat

VARIABLES
  stopped,      \* the hook was cleaned up
  feedRef,      \* `ws`, the last connection
  reconnect,    \* reconnectTimer is set
  subscribers,  \* DockerEventBroadcaster.subscribers
  events,       \* events broadcast so far
  notified,     \* the notifications shown, in order
  missed        \* history: events broadcast while this tab was no subscriber, or lost on the way

feedHookVars == <<stopped, feedRef, reconnect, notified>>
allFeedVars == <<sockVars, feedHookVars, subscribers, events, missed>>

Event(n) == [type |-> "container_event", event |-> n]

\* The key of a notification: the container and the second.
Key(n) == IF n \in Twins THEN n - 1 ELSE n

FeedTypeOK ==
  /\ SocketsTypeOK
  /\ stopped \in BOOLEAN /\ reconnect \in BOOLEAN
  /\ feedRef \in Socks \cup {NoFeed}
  /\ subscribers \subseteq Socks
  /\ events \in 0 .. MaxEvents
  /\ notified \in Seq(1 .. MaxEvents)
  /\ missed \subseteq 1 .. MaxEvents

FeedInit ==
  /\ SocketsInit
  /\ stopped = FALSE /\ feedRef = NoFeed /\ reconnect = TRUE
  /\ subscribers = {} /\ events = 0 /\ notified = <<>> /\ missed = {}

-----------------------------------------------------------------------------
\* connect(): when the hook is mounted, and when the timer runs out.  The
\* state before the first call is that of a timer that is due.
FeedConnects(c) ==
  /\ reconnect
  /\ Constructed(c)
  /\ feedRef' = c /\ reconnect' = FALSE
  /\ UNCHANGED <<server, upstream, downstream, stopped, notified, subscribers, events, missed>>

FeedOpens(c) ==
  /\ BrowserOpens(c)
  /\ UNCHANGED <<upstream, feedHookVars, subscribers, events, missed>>

\* The notifications without those of the key of n.
OfOtherKeys(n) ==
  LET upTo[i \in 0 .. Len(notified)] ==
        IF i = 0 THEN <<>>
        ELSE IF Key(notified[i]) # Key(n) THEN Append(upTo[i - 1], notified[i]) ELSE upTo[i - 1]
  IN upTo[Len(notified)]

\* onmessage: a notification replaces one of the same key.
Notifies(c) ==
  /\ BrowserReceives(c)
  /\ LET n == Head(downstream[c]).event IN
     notified' = Append(OfOtherKeys(n), n)
  /\ UNCHANGED <<browser, server, upstream, stopped, feedRef, reconnect, subscribers, events, missed>>

FeedClosesForGood(c) ==    \* mutant: no timer is set
  /\ BrowserCloses(c)
  /\ UNCHANGED <<feedHookVars, subscribers, events, missed>>

\* onclose
FeedCloses(c) ==
  /\ BrowserCloses(c)
  /\ reconnect' = (reconnect \/ ~stopped)
  /\ UNCHANGED <<stopped, feedRef, notified, subscribers, events, missed>>

FeedStopsLater ==    \* mutant: clearTimeout dropped
  /\ ~stopped /\ feedRef # NoFeed
  /\ stopped' = TRUE
  /\ browser' = AfterClose(feedRef) /\ upstream' = UpAfterClose(feedRef) /\ downstream' = DownAfterClose(feedRef)
  /\ UNCHANGED <<server, feedRef, reconnect, notified, subscribers, events, missed>>

\* The cleanup: the user signed out.
FeedStops ==
  /\ ~stopped /\ feedRef # NoFeed
  /\ stopped' = TRUE /\ reconnect' = FALSE
  /\ browser' = AfterClose(feedRef) /\ upstream' = UpAfterClose(feedRef) /\ downstream' = DownAfterClose(feedRef)
  /\ UNCHANGED <<server, feedRef, notified, subscribers, events, missed>>

-----------------------------------------------------------------------------
\* subscribe()
FeedAdmitted(c) ==
  /\ Upgraded(c)
  /\ subscribers' = subscribers \cup {c}
  /\ UNCHANGED <<feedHookVars, events, missed>>

FeedRejected(c) ==
  /\ Upgrade(c) \/ UpgradeRefused(c)
  /\ UNCHANGED <<feedHookVars, subscribers, events, missed>>

\* broadcast(): to every subscriber whose socket is open
Broadcast ==
  LET Reached == {c \in subscribers : server[c] = "open"}
      Heard == {c \in Reached : ToBrowser(c, Event(events')) # downstream} IN
  /\ events < MaxEvents
  /\ events' = events + 1
  /\ downstream' = Sent(downstream, Heard, Event(events'))
  /\ missed' = IF feedRef \in Heard THEN missed ELSE missed \cup {events'}
  /\ UNCHANGED <<browser, server, upstream, feedHookVars, subscribers>>

\* the close listener of subscribe()
FeedGone(c) ==
  /\ ServerClosed(c)
  /\ subscribers' = subscribers \ {c}
  /\ UNCHANGED <<feedHookVars, events, missed>>

FeedLost(c) ==
  /\ Drop(c)
  /\ missed' = missed \cup {n \in 1 .. events : \E i \in DOMAIN downstream[c] : downstream[c][i] = Event(n)}
  /\ UNCHANGED <<feedHookVars, subscribers, events>>

-----------------------------------------------------------------------------
FeedPlatform(c) ==
  \/ FeedConnects(c) \/ FeedOpens(c) \/ Notifies(c) \/ FeedCloses(c)
  \/ FeedAdmitted(c) \/ FeedRejected(c) \/ FeedGone(c)

FeedNext == FeedStops \/ Broadcast \/ \E c \in Socks : FeedPlatform(c) \/ FeedLost(c)

\* The timer fires and both ends handle what arrives.
FeedFairness == WF_allFeedVars(\E c \in Socks : FeedConnects(c)) /\ \A c \in Socks : WF_allFeedVars(FeedPlatform(c))

FeedSpec == FeedInit /\ [][FeedNext]_allFeedVars /\ FeedFairness

-----------------------------------------------------------------------------
\* No event is notified twice or before an earlier one, however often the
\* connection is lost and made again.
NotifiedOnce == \A i, j \in DOMAIN notified : i < j => notified[i] < notified[j]

\* There is one connection, none after the hook was cleaned up, and none while
\* the timer of the next one runs.
OneFeed ==
  \A c \in Socks : Connected(c) => c = feedRef /\ ~stopped /\ ~reconnect

\* While the feed is connected, every event since the hook was mounted is shown
\* or on its way, unless there was no subscription or the connection was lost,
\* or a later one of the same container and second is shown in its place.
NothingForgotten ==
  \A c \in Socks :
    c = feedRef /\ browser[c] = "open" /\ server[c] = "open" /\ Lossless(downstream, c) =>
      \A n \in 1 .. events \ missed :
        \/ \E i \in DOMAIN notified : notified[i] \in {n, n + 1} /\ Key(notified[i]) = Key(n)
        \/ \E i \in DOMAIN downstream[c] : downstream[c][i] = Event(n)

\* The subscribers of the server go with their sockets: however a connection
\* ends, its entry is removed.
NoDeadSubscriber == \A c \in subscribers : server[c] # "closed"

\* The feed comes back after every loss, as long as the hook is there.
FeedComesBack ==
  \A c \in Socks :
    (c = feedRef /\ browser[c] = "closed" /\ \E d \in Socks : browser[d] = "new")
      ~> (stopped \/ feedRef # c)

\* A tab is told of each event once, in order, and of all it could be told of
\* (useDockerEventNotifications.ts, dockerEvents.ts broadcast and subscribe).
FeedTellsAll == NotifiedOnce /\ OneFeed /\ NothingForgotten /\ NoDeadSubscriber

=============================================================================
