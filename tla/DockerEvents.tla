--------------------------- MODULE DockerEvents ---------------------------
(***************************************************************************)
(* The broadcaster of Docker events (dockerEvents.ts): one upstream event  *)
(* stream per host, kept alive by 5 s retry timers, over the SSH clients   *)
(* of HostManager.  Every other caller of hostManager.getClient (the REST  *)
(* routes, the container WebSockets, the resource watchdog) is             *)
(* OtherGetClient; only these may spell an id otherwise than String(id).   *)
(*                                                                         *)
(* A stream is one call of startEventStream, from its start to its end:    *)
(*   connecting  it awaits the SSH connection via[s] that getClient opened *)
(*   attaching   it awaits client.getEvents                                *)
(*   live        events arrive                                             *)
(*   broken      its connection is gone; the error is still to be emitted  *)
(*   idle        not in use                                                *)
(* The resulting stream emits 'error' or 'end', and only one of the two.   *)
(***************************************************************************)
EXTENDS HostManager

CONSTANTS
  Local,       \* the id 'local': always there, reached without SSH
  Streams,     \* BOUND: the calls of startEventStream under way at a time
  FeedOf,      \* FeedOf[s]: the host that s is a stream of
  MaxTimers    \* BOUND: no new subscriber beyond so many timers of a host

Feeds == Hosts \cup {Local}

ASSUME LocalAssumption == Local \notin Spellings
ASSUME FeedOfAssumption == FeedOf \in [Streams -> Feeds]

VARIABLES
  up,          \* the server is running
  active,      \* activeHosts
  phase,       \* phase[s]
  via,         \* via[s]: the connection s uses, NoConn for Local
  timers       \* timers[f]: setTimeouts of scheduleRetry(f) not yet fired

feedVars == <<active, phase, via, timers>>
vars == <<hostVars, up, feedVars>>

Phases == {"idle", "connecting", "attaching", "live", "broken"}

TypeOK ==
  /\ HostTypeOK
  /\ up \in BOOLEAN
  /\ active \in SUBSET Feeds
  /\ phase \in [Streams -> Phases]
  /\ via \in [Streams -> Conns \cup {NoConn}]
  /\ timers \in [Feeds -> Nat]

StreamsOf(f) == {s \in Streams : FeedOf[s] = f /\ phase[s] # "idle"}
IsIdleOf(f, s) == FeedOf[s] = f /\ phase[s] = "idle"
NextStream(f) == CHOOSE s \in Streams : IsIdleOf(f, s)

(* Before the server has run: rows of earlier runs, nothing in memory.     *)
Init ==
  /\ HostInit
  /\ up = FALSE
  /\ active = {}
  /\ phase = [s \in Streams |-> "idle"]
  /\ via = [s \in Streams |-> NoConn]
  /\ timers = [f \in Feeds |-> 0]

-----------------------------------------------------------------------------
(* startHost for each of F, in one handler.  A host that is active is left *)
(* alone; getClient gives null for one that has no row and is not cached,  *)
(* and activeHosts is as it was; else startEventStream runs to its await.  *)
MissesCache(f) == f # Local /\ Misses(f)
Resolves(f) == f = Local \/ clients[f] # NoConn

ToStartNoGuard(F) ==                 \* mutant: `if (activeHosts.has)` dropped
  {f \in F : MissesCache(f) \/ Resolves(f)}

ToStart(F) == {f \in F \ active : MissesCache(f) \/ Resolves(f)}

Launched(G) == {s \in Streams : FeedOf[s] \in G /\ s = NextStream(FeedOf[s])}

Client(f) == IF f = Local THEN NoConn ELSE clients[f]

StartHostsDeadActive(F) ==           \* mutant: a dead id stays in activeHosts
  LET G == ToStart(F) IN
  /\ ConnectSsh({f \in G : MissesCache(f)})
  /\ \A f \in G : \E s \in Streams : IsIdleOf(f, s)
  /\ active' = active \cup F
  /\ phase' = [s \in Streams |->
                 IF s \notin Launched(G) THEN phase[s]
                 ELSE IF MissesCache(FeedOf[s]) THEN "connecting" ELSE "attaching"]
  /\ via' = [s \in Streams |->
               IF s \notin Launched(G) THEN via[s]
               ELSE IF MissesCache(FeedOf[s]) THEN Fresh(FeedOf[s]) ELSE Client(FeedOf[s])]

StartHosts(F) ==
  LET G == ToStart(F) IN
  /\ ConnectSsh({f \in G : MissesCache(f)})
  /\ \A f \in G : \E s \in Streams : IsIdleOf(f, s)
  /\ active' = active \cup G
  /\ phase' = [s \in Streams |->
                 IF s \notin Launched(G) THEN phase[s]
                 ELSE IF MissesCache(FeedOf[s]) THEN "connecting" ELSE "attaching"]
  /\ via' = [s \in Streams |->
               IF s \notin Launched(G) THEN via[s]
               ELSE IF MissesCache(FeedOf[s]) THEN Fresh(FeedOf[s]) ELSE Client(FeedOf[s])]

(* scheduleRetry for each stream of S, which thereby ends.                 *)
ScheduleRetryKeepsActive(S) ==       \* mutant: activeHosts.delete dropped
  /\ active' = active
  /\ phase' = [s \in Streams |-> IF s \in S THEN "idle" ELSE phase[s]]
  /\ via' = [s \in Streams |-> IF s \in S THEN NoConn ELSE via[s]]
  /\ timers' = [f \in Feeds |->
                  IF \E s \in S : FeedOf[s] = f THEN timers[f] + 1 ELSE timers[f]]

ScheduleRetryNoTimer(S) ==           \* mutant: no timer is armed
  /\ active' = active \ {FeedOf[s] : s \in S}
  /\ phase' = [s \in Streams |-> IF s \in S THEN "idle" ELSE phase[s]]
  /\ via' = [s \in Streams |-> IF s \in S THEN NoConn ELSE via[s]]
  /\ timers' = timers

ScheduleRetry(S) ==
  /\ active' = active \ {FeedOf[s] : s \in S}
  /\ phase' = [s \in Streams |-> IF s \in S THEN "idle" ELSE phase[s]]
  /\ via' = [s \in Streams |-> IF s \in S THEN NoConn ELSE via[s]]
  /\ timers' = [f \in Feeds |->
                  IF \E s \in S : FeedOf[s] = f THEN timers[f] + 1 ELSE timers[f]]

Awaiting(c) == {s \in Streams : phase[s] = "connecting" /\ via[s] = c}
Using(c) == {s \in Streams : phase[s] \in {"attaching", "live"} /\ via[s] = c}

-----------------------------------------------------------------------------
(* The SSH connection a stream awaits: getClient returns or rejects.       *)
Ready(c) ==
  /\ ConnReady(c)
  /\ phase' = [s \in Streams |-> IF s \in Awaiting(c) THEN "attaching" ELSE phase[s]]
  /\ UNCHANGED <<active, via, timers>>

Failed(c) ==
  /\ ConnFailed(c)
  /\ ScheduleRetry(Awaiting(c))

(* A connection that closes takes the streams over it with it.             *)
Closed(c) ==
  /\ ConnClose(c)
  /\ phase' = [s \in Streams |-> IF s \in Using(c) THEN "broken" ELSE phase[s]]
  /\ via' = [s \in Streams |-> IF s \in Using(c) THEN NoConn ELSE via[s]]
  /\ UNCHANGED <<active, timers>>

Errored(c) == ConnError(c) /\ UNCHANGED feedVars

(* getEvents resolves; it rejects, or the stream ends or fails by itself;  *)
(* the error of a stream whose connection has closed is emitted.           *)
Attached(s) ==
  /\ phase[s] = "attaching"
  /\ phase' = [phase EXCEPT ![s] = "live"]
  /\ UNCHANGED <<hostVars, active, via, timers>>

Rejected(s) ==
  /\ phase[s] = "attaching"
  /\ ScheduleRetry({s})
  /\ UNCHANGED hostVars

Ends(s) ==
  /\ phase[s] = "live"
  /\ ScheduleRetry({s})
  /\ UNCHANGED hostVars

Breaks(s) ==
  /\ phase[s] = "broken"
  /\ ScheduleRetry({s})
  /\ UNCHANGED hostVars

(* The timer of scheduleRetry: startHost.                                  *)
RetryTimer(f) ==
  /\ timers[f] > 0
  /\ timers' = [timers EXCEPT ![f] = @ - 1]
  /\ UNCHANGED <<registered, version>>
  /\ StartHosts({f})

(* A WebSocket subscribes: start() once more, for every host.              *)
AllHostIds == registered \cup {Local}

Subscribe ==
  /\ \A f \in Feeds : timers[f] < MaxTimers
  /\ UNCHANGED <<registered, version, timers>>
  /\ StartHosts(AllHostIds)

(* The hosts controller: create inserts the row and starts the host.       *)
Create(h) ==
  /\ version[h] = 0
  /\ registered' = registered \cup {h}
  /\ version' = [version EXCEPT ![h] = 1]
  /\ StartHosts({h})
  /\ UNCHANGED timers

Update(h) == UpdateHost(h) /\ UNCHANGED feedVars
Remove(h) == RemoveHost(h) /\ UNCHANGED feedVars

(* Any other caller.  BOUND: it leaves the broadcaster a free connection.  *)
OtherGetClient(k) ==
  /\ k \in Hosts => \E c \in Conns : IsFreeOf(k, c) /\ c # Fresh(k)
  /\ GetClient(k)
  /\ UNCHANGED feedVars

-----------------------------------------------------------------------------
(* index.ts starts every host before it listens.  A crash loses all but    *)
(* the database.                                                           *)
Boot ==
  /\ ~up
  /\ up' = TRUE
  /\ UNCHANGED <<registered, version, timers>>
  /\ StartHosts(AllHostIds)

Crash ==
  /\ up
  /\ up' = FALSE
  /\ clients' = [k \in Spellings |-> NoConn]
  /\ state' = [c \in Conns |-> "free"]
  /\ cred' = [c \in Conns |-> 0]
  /\ crossed' = {} /\ solo' = {}
  /\ active' = {}
  /\ phase' = [s \in Streams |-> "idle"]
  /\ via' = [s \in Streams |-> NoConn]
  /\ timers' = [f \in Feeds |-> 0]
  /\ UNCHANGED <<registered, version>>

Running ==
  /\ up
  /\ UNCHANGED up
  /\ \/ \E c \in Conns : Ready(c) \/ Failed(c) \/ Closed(c) \/ Errored(c)
     \/ \E s \in Streams : Attached(s) \/ Rejected(s) \/ Ends(s) \/ Breaks(s)
     \/ \E f \in Feeds : RetryTimer(f)
     \/ \E h \in Hosts : Create(h) \/ Update(h) \/ Remove(h)
     \/ \E k \in Spellings : OtherGetClient(k)
     \/ Subscribe

Next == Boot \/ Crash \/ Running

Spec == Init /\ [][Next]_vars

(***************************************************************************)
(* What the environment and the event loop guarantee: a server that is     *)
(* down is started again, timers fire, an ssh2 connect settles within its  *)
(* readyTimeout, an ended connection closes, getEvents settles and a       *)
(* broken stream emits its error.  A host that is tried again and again is *)
(* reached some time.  Nobody has to do anything else: no connection has   *)
(* to close, no stream to end, no user to act.                             *)
(***************************************************************************)
WhileUp(A) == up /\ UNCHANGED up /\ A

FeedReady(h) == \E c \in Conns : KeyOf[c] = h /\ Awaiting(c) # {} /\ Ready(c)
FeedAttached(f) == \E s \in Streams : FeedOf[s] = f /\ Attached(s)

Fairness ==
  /\ WF_vars(Boot)
  /\ \A c \in Conns : /\ WF_vars(WhileUp(Ready(c) \/ Failed(c)))
                      /\ WF_vars(WhileUp(state[c] = "ended" /\ Closed(c)))
  /\ \A s \in Streams : /\ WF_vars(WhileUp(Attached(s) \/ Rejected(s)))
                        /\ WF_vars(WhileUp(Breaks(s)))
  /\ \A f \in Feeds : /\ WF_vars(WhileUp(RetryTimer(f)))
                      /\ SF_vars(WhileUp(FeedAttached(f)))
  /\ \A h \in Hosts : SF_vars(WhileUp(FeedReady(h)))

FairSpec == Spec /\ Fairness

-----------------------------------------------------------------------------
(* No double subscription: a host in activeHosts has exactly one stream    *)
(* under way, any other host none - whichever of boot, subscribers, retry  *)
(* timers and the hosts controller start it (dockerEvents.ts 147-156).     *)
OneStreamPerHost ==
  /\ \A s, t \in Streams :
       phase[s] # "idle" /\ phase[t] # "idle" /\ FeedOf[s] = FeedOf[t] => s = t
  /\ active = {FeedOf[s] : s \in {t \in Streams : phase[t] # "idle"}}

(* No registered host is forgotten: while the server runs it has a stream  *)
(* under way or a retry timer armed (dockerEvents.ts 100-145).             *)
NeverAbandoned ==
  up => \A f \in AllHostIds : f \in active \/ timers[f] > 0

(* Events come from the host as it is registered now: a stream over an     *)
(* open connection that neither met an invalidate() while connecting nor   *)
(* a rival connection is one of a registered host, opened with its present *)
(* row: a stream never uses a client cached under another spelling of the  *)
(* id (hostManager.ts 60-86, hosts.controller.ts 71, 99).                 *)
StreamIsCurrent ==
  \A s \in Streams : LET c == via[s] IN
    c \in solo \ crossed /\ state[c] = "open" =>
      HostOf(c) \in registered /\ cred[c] = version[HostOf(c)]

(* A host that can be reached is followed: for every host that is and      *)
(* stays registered its events arrive some time, again and again.          *)
IsLive(f) == \E s \in Streams : FeedOf[s] = f /\ phase[s] = "live"

EveryHostFollowed ==
  \A f \in Feeds : f \in AllHostIds ~> (IsLive(f) \/ f \notin AllHostIds)

(* A removed host is let go: once none of the connections opened for its   *)
(* String(id) is connecting or open, its stream and its timers are gone for good (dockerEvents.ts 108- *)
(* 112).                                                                   *)
Removed(h) == version[h] # 0 /\ h \notin registered
NoneOpen(h) == \A c \in Live(h) : state[c] = "ended"

RemovedHostLetGo ==
  \A h \in Hosts :
    Removed(h) /\ NoneOpen(h) ~> [](h \notin active /\ timers[h] = 0)

(* What the comment at dockerEvents.ts 109 says: a removed host is not     *)
(* tried again, so a retry timer that fires for one starts nothing.        *)
RetryEndsForRemovedHost ==
  [][\A h \in Hosts :
       Removed(h) /\ timers'[h] < timers[h] /\ h \in active' => h \in active]_vars
=============================================================================
