------------------------------ MODULE Sockets ------------------------------
(***************************************************************************)
(* The WebSockets between a page of the web application and the server.    *)
(* The browser's WebSocket object and the server's `ws` library are        *)
(* external; what is modelled is what their users rely on: messages arrive *)
(* in order, a close frame is behind the messages sent before it, nothing  *)
(* is handed to a page after it called close(), and a connection that is   *)
(* lost takes the messages in flight with it.  The upgrade handler is      *)
(* attachWebSocketServer of apps/server/src/ws.ts.                         *)
(***************************************************************************)
EXTENDS Naturals, Sequences

CONSTANT Socks  \* WebSocket objects, numbered in the order of their construction

ASSUME SocketsAssumption == Socks \subseteq Nat

VARIABLES
  browser,  \* readyState of the browser's end; "failing" is CLOSING before it was open
  server,   \* the server's end: no request yet, awaiting the upgrade, open, ...
  upstream,       \* messages from the browser to the server, with the close frame
  downstream      \* messages from the server to the browser

sockVars == <<browser, server, upstream, downstream>>

\* What travels besides the messages of the application.
Open    == [type |-> "open"]
Refused == [type |-> "refused"]
Bye     == [type |-> "bye"]
Lost    == [type |-> "lost"]

SocketsTypeOK ==
  /\ browser \in [Socks -> {"new", "connecting", "open", "closing", "failing", "closed"}]
  /\ server \in [Socks -> {"idle", "upgrading", "open", "closing", "closed"}]
  /\ DOMAIN upstream = Socks /\ DOMAIN downstream = Socks

SocketsInit ==
  /\ browser = [c \in Socks |-> "new"]
  /\ server = [c \in Socks |-> "idle"]
  /\ upstream = [c \in Socks |-> <<>>]
  /\ downstream = [c \in Socks |-> <<>>]

Connected(c) == browser[c] \in {"connecting", "open"}

\* The head of a queue is about to be handled.
Arrives(queue, c) == queue[c] # <<>>
Sent(queue, S, m) == [c \in Socks |-> IF c \in S THEN Append(queue[c], m) ELSE queue[c]]
\* Nobody reads what is sent to an end that is gone, or after the connection.
Lossless(queue, c) == queue[c] # <<Lost>>
ToServer(S, m)  == Sent(upstream, {c \in S : server[c] # "closed" /\ Lossless(upstream, c)}, m)
ToBrowser(c, m) ==
  LET heard == CASE browser[c] \in {"failing", "closed"} -> {}
                 [] browser[c] = "closing"               -> {Bye, Lost}
                 [] OTHER                                -> {m}
  IN Sent(downstream, IF m \in heard /\ Lossless(downstream, c) THEN {c} ELSE {}, m)
Taken(queue, c)   == [queue EXCEPT ![c] = Tail(@)]

-----------------------------------------------------------------------------
\* new WebSocket(url)
Unused(c) == browser[c] = "new" /\ \A d \in Socks : d < c => browser[d] # "new"
Constructed(c) ==
  /\ Unused(c)
  /\ browser' = [browser EXCEPT ![c] = "connecting"]

\* ws.close() by the page: before the connection is open it makes it fail,
\* later it sends the close frame; what arrives afterwards is dropped.
AfterClose(c) ==
  [browser EXCEPT ![c] = CASE @ = "connecting" -> "failing"
                           [] @ = "open"       -> "closing"
                           [] OTHER            -> @]
UpAfterClose(c) == IF browser[c] = "open" THEN ToServer({c}, Bye) ELSE upstream
DownAfterClose(c) == [downstream EXCEPT ![c] = SelectSeq(@, LAMBDA m : m \in {Bye, Lost})]

\* ws.close() by the server.
ServerCloses(c) ==
  /\ server' = [server EXCEPT ![c] = IF @ = "open" THEN "closing" ELSE @]
  /\ downstream' = IF server[c] = "open" THEN ToBrowser(c, Bye) ELSE downstream

-----------------------------------------------------------------------------
\* The upgrade request reaches the server: it is refused (origin, path,
\* session, feature, permission) or the handler awaits the host's client.
Upgrade(c) ==
  /\ server[c] = "idle" /\ browser[c] \notin {"new", "closed"}
  /\ \/ /\ server' = [server EXCEPT ![c] = "upgrading"]
        /\ UNCHANGED downstream
     \/ /\ server' = [server EXCEPT ![c] = "closed"]
        /\ downstream' = ToBrowser(c, Refused)
  /\ UNCHANGED <<browser, upstream>>

\* getClient() found no host, failed, or the browser is gone.
UpgradeRefused(c) ==
  /\ server[c] = "upgrading"
  /\ server' = [server EXCEPT ![c] = "closed"]
  /\ downstream' = ToBrowser(c, Refused)
  /\ UNCHANGED <<browser, upstream>>

\* handleUpgrade(): the handler of the path takes over from here.
Upgraded(c) ==
  /\ server[c] = "upgrading"
  /\ server' = [server EXCEPT ![c] = "open"]
  /\ downstream' = ToBrowser(c, Open)
  /\ UNCHANGED <<browser, upstream>>

\* The open event of the browser.
BrowserOpens(c) ==
  /\ browser[c] = "connecting" /\ Arrives(downstream, c) /\ Head(downstream[c]) = Open
  /\ browser' = [browser EXCEPT ![c] = "open"]
  /\ downstream' = Taken(downstream, c)
  /\ UNCHANGED server

\* A message of the application is handed to the page.
BrowserReceives(c) ==
  /\ browser[c] = "open" /\ Arrives(downstream, c) /\ Head(downstream[c]) \notin {Bye, Lost}
  /\ downstream' = Taken(downstream, c)

\* The close event of the browser.  An open end answers the close frame.  The
\* error event comes first when the connection failed; when it was lost, perhaps.
Unopened(c) ==
  \/ browser[c] = "failing"
  \/ browser[c] = "connecting" /\ Arrives(downstream, c) /\ Head(downstream[c]) \in {Refused, Lost}
BrowserCloses(c) ==
  /\ \/ Unopened(c)
     \/ browser[c] \in {"open", "closing"} /\ Arrives(downstream, c) /\ Head(downstream[c]) \in {Bye, Lost}
  /\ browser' = [browser EXCEPT ![c] = "closed"]
  /\ upstream' = CASE browser[c] = "failing"                     -> ToServer({c}, Lost)
             [] browser[c] = "open" /\ Head(downstream[c]) = Bye -> ToServer({c}, Bye)
             [] OTHER                                      -> upstream
  /\ downstream' = [downstream EXCEPT ![c] = <<>>]
  /\ UNCHANGED server
MayRaiseError(c) == Unopened(c) \/ (Arrives(downstream, c) /\ Head(downstream[c]) = Lost)

\* The message event of the server: also while it is closing.
ServerReceives(c) ==
  /\ server[c] \in {"open", "closing"} /\ Arrives(upstream, c) /\ Head(upstream[c]) \notin {Bye, Lost}
  /\ upstream' = Taken(upstream, c)

\* The close event of the server; an open end answers the close frame.
ServerClosed(c) ==
  /\ server[c] \in {"open", "closing"} /\ Arrives(upstream, c) /\ Head(upstream[c]) \in {Bye, Lost}
  /\ server' = [server EXCEPT ![c] = "closed"]
  /\ upstream' = [upstream EXCEPT ![c] = <<>>]
  /\ downstream' = IF server[c] = "open" /\ Head(upstream[c]) = Bye THEN ToBrowser(c, Bye) ELSE downstream
  /\ UNCHANGED browser

\* The network fails, or the server process is killed: what is in flight is
\* lost, and each end learns of it in its own time.
Drop(c) ==
  /\ server[c] \in {"upgrading", "open", "closing"} /\ browser[c] # "closed"
  /\ Lossless(upstream, c)
  /\ upstream' = [upstream EXCEPT ![c] = <<Lost>>]
  /\ downstream' = [downstream EXCEPT ![c] = IF browser[c] = "failing" THEN @ ELSE <<Lost>>]
  /\ UNCHANGED <<browser, server>>

=============================================================================
