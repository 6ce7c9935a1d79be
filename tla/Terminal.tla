------------------------------ MODULE Terminal ------------------------------
(***************************************************************************)
(* The container terminal: ContainerTerminal.tsx in the browser, and       *)
(* handleExec in apps/server/src/ws.ts, which attaches a shell through the *)
(* Docker daemon.  The shell is created, resized and started by three      *)
(* awaited calls; keys may be typed, the socket closed, the page left and  *)
(* the container stopped between any two of them.                          *)
(***************************************************************************)
EXTENDS Sockets

CONSTANTS NoSock,    \* wsRef.current before the first connection
          MaxFaults, \* bound: refusals, failures, lost connections and stops
          MaxKeys,   \* bound: keys typed and changes of the window
          MaxInputs  \* bound: both together

ASSUME TerminalAssumption ==
  /\ NoSock \notin Socks
  /\ MaxFaults \in Nat /\ MaxKeys \in Nat /\ MaxInputs \in Nat

VARIABLES
  running,   \* the container runs
  mounted,   \* the component is mounted
  term,      \* the xterm: never made, in the page, or in a removed element
  wsRef,     \* the socket that Disconnect and unmounting close
  connected, \* state: which of the two buttons is shown
  listening, \* sockets whose xterm listeners are attached
  screen,    \* sockets whose output is on the screen
  keys,      \* keys typed and changes of the window so far
  typed,     \* per socket, the keys sent over it
  task,      \* per socket, where handleExec's asynchronous function is
  pending,   \* per socket, pendingInput
  resize,    \* per socket, pendingResize is set
  shell,     \* per socket, the shell: none, running, told to end ("eof"), gone
  faults,    \* refusals, failures, lost connections and stops so far
  shellGot,  \* per socket, what the shell has read
  twice      \* history: Connect was pressed beside a socket that was still in use

clientVars == <<running, mounted, term, wsRef, connected, listening, screen, keys, typed, twice>>
execVars == <<task, pending, resize, shell, shellGot>>
terminalVars == <<sockVars, clientVars, execVars, faults>>

\* Something goes wrong; or nothing does.
Fault   == faults < MaxFaults /\ keys + faults < MaxInputs /\ faults' = faults + 1
NoFault == UNCHANGED faults

Keys == 1 .. MaxKeys

TerminalTypeOK ==
  /\ SocketsTypeOK
  /\ running \in BOOLEAN /\ mounted \in BOOLEAN /\ connected \in BOOLEAN /\ twice \in BOOLEAN
  /\ term \in {"none", "shown", "hidden"}
  /\ wsRef \in Socks \cup {NoSock}
  /\ listening \subseteq Socks /\ screen \subseteq Socks
  /\ keys \in 0 .. MaxKeys
  /\ typed \in [Socks -> Seq(Keys)]
  /\ task \in [Socks -> {"none", "create", "resize", "start", "attached", "left"}]
  /\ pending \in [Socks -> Seq(Keys)]
  /\ resize \in [Socks -> BOOLEAN]
  /\ shell \in [Socks -> {"none", "running", "eof", "gone"}]
  /\ shellGot \in [Socks -> Seq(Keys)]
  /\ faults \in 0 .. MaxFaults

Input(k) == [type |-> "input", data |-> k]
Resize   == [type |-> "resize"]
Output   == [type |-> "output"]

TerminalInit ==
  /\ SocketsInit
  /\ running \in BOOLEAN
  /\ term = IF running THEN "shown" ELSE "none"
  /\ mounted = TRUE /\ wsRef = NoSock /\ connected = FALSE /\ twice = FALSE
  /\ listening = {} /\ screen = {} /\ keys = 0
  /\ typed = [c \in Socks |-> <<>>]
  /\ task = [c \in Socks |-> "none"]
  /\ pending = [c \in Socks |-> <<>>]
  /\ resize = [c \in Socks |-> FALSE]
  /\ shell = [c \in Socks |-> "none"]
  /\ shellGot = [c \in Socks |-> <<>>]
  /\ faults = 0

-----------------------------------------------------------------------------
\* The component.

\* The `running` prop changes.  The element the xterm was opened in is removed
\* with the container's stop and is not the one rendered after its start.
ContainerStops ==
  /\ running /\ mounted /\ Fault
  /\ running' = FALSE
  /\ term' = IF term = "shown" THEN "hidden" ELSE term
  /\ UNCHANGED <<sockVars, mounted, wsRef, connected, listening, screen, keys, typed, twice, execVars>>
ContainerStarts ==
  /\ NoFault
  /\ ~running /\ mounted
  /\ running' = TRUE
  /\ UNCHANGED <<sockVars, mounted, term, wsRef, connected, listening, screen, keys, typed, twice, execVars>>

\* connect(): the button is there as long as `connected` is false, also while
\* an earlier socket is still connecting.
Connect(c) ==
  /\ mounted /\ running /\ ~connected /\ term # "none"
  /\ Constructed(c)
  /\ wsRef' = c
  /\ listening' = listening \cup {c}
  /\ screen' = {}
  /\ IF \E d \in Socks : Connected(d) THEN twice' = TRUE /\ Fault ELSE UNCHANGED twice /\ NoFault
  /\ UNCHANGED <<server, upstream, downstream, running, mounted, term, connected, keys, typed, execVars>>

\* wsRef.current?.close()
CloseRef ==
  IF wsRef = NoSock THEN UNCHANGED <<browser, upstream, downstream>>
  ELSE browser' = AfterClose(wsRef) /\ upstream' = UpAfterClose(wsRef) /\ downstream' = DownAfterClose(wsRef)

Disconnect ==
  /\ NoFault
  /\ mounted /\ running /\ connected
  /\ CloseRef
  /\ UNCHANGED <<server, clientVars, execVars>>

\* The cleanup of the effect that made the xterm, if it made one.
Unmount ==
  /\ NoFault
  /\ mounted
  /\ mounted' = FALSE
  /\ term' = "none"
  /\ IF term = "none" THEN UNCHANGED <<browser, upstream, downstream>> ELSE CloseRef
  /\ UNCHANGED <<server, running, wsRef, connected, listening, screen, keys, typed, twice, execVars>>

\* term.onData: every attached listener sends if its socket is open.
OpenListeners == {c \in listening : browser[c] = "open"}
TypeKey ==
  /\ NoFault
  /\ mounted /\ term = "shown" /\ keys < MaxKeys /\ keys + faults < MaxInputs
  /\ keys' = keys + 1
  /\ upstream' = ToServer(OpenListeners, Input(keys'))
  /\ typed' = Sent(typed, OpenListeners, keys')
  /\ UNCHANGED <<browser, server, downstream, running, mounted, term, wsRef, connected,
                 listening, screen, twice, execVars>>

\* term.onResize, when the window changes
ResizeWindow ==
  /\ NoFault
  /\ mounted /\ term = "shown" /\ keys < MaxKeys /\ keys + faults < MaxInputs
  /\ keys' = keys + 1
  /\ upstream' = ToServer(OpenListeners, Resize)
  /\ UNCHANGED <<browser, server, downstream, running, mounted, term, wsRef, connected,
                 listening, screen, typed, twice, execVars>>

\* onopen
Opens(c) ==
  /\ NoFault
  /\ BrowserOpens(c)
  /\ connected' = TRUE
  /\ upstream' = ToServer({c}, Resize)
  /\ UNCHANGED <<running, mounted, term, wsRef, listening, screen, keys, typed, twice, execVars>>

\* onmessage
Prints(c) ==
  /\ NoFault
  /\ BrowserReceives(c)
  /\ screen' = screen \cup {c}
  /\ UNCHANGED <<browser, server, upstream, running, mounted, term, wsRef, connected,
                 listening, keys, typed, twice, execVars>>

\* onclose, and the listener that takes the xterm listeners away
Closes(c) ==
  /\ NoFault
  /\ BrowserCloses(c)
  /\ connected' = FALSE
  /\ listening' = listening \ {c}
  /\ UNCHANGED <<running, mounted, term, wsRef, screen, keys, typed, twice, execVars>>

-----------------------------------------------------------------------------
\* handleExec.

Admit(c) ==
  /\ NoFault
  /\ Upgraded(c)
  /\ task' = [task EXCEPT ![c] = "create"]
  /\ UNCHANGED <<clientVars, pending, resize, shell, shellGot>>

\* The upgrade handler refuses, or goes on to await the client.
Reject(c) ==
  /\ Upgrade(c) \/ UpgradeRefused(c)
  /\ IF server'[c] = "closed" /\ browser[c] # "failing" THEN Fault ELSE NoFault
  /\ UNCHANGED <<clientVars, execVars>>

\* container.exec() resolves.  `exec` is set: a resize goes to it from here on.
ExecCreated(c) ==
  /\ NoFault
  /\ task[c] = "create"
  /\ task' = [task EXCEPT ![c] = CASE server[c] = "closed" -> "left"
                                   [] resize[c]            -> "resize"
                                   [] OTHER                -> "start"]
  /\ UNCHANGED <<sockVars, clientVars, pending, resize, shell, shellGot>>

\* e.resize() settles, its failure is ignored
ExecResized(c) ==
  /\ NoFault
  /\ task[c] = "resize"
  /\ task' = [task EXCEPT ![c] = "start"]
  /\ UNCHANGED <<sockVars, clientVars, pending, resize, shell, shellGot>>

ExecStartedUnchecked(c) ==    \* mutant: `if (closed)` after start() dropped
  /\ NoFault
  /\ task[c] = "start"
  /\ task' = [task EXCEPT ![c] = "attached"]
  /\ shell' = [shell EXCEPT ![c] = "running"]
  /\ shellGot' = [shellGot EXCEPT ![c] = pending[c]]
  /\ UNCHANGED <<sockVars, clientVars, pending, resize>>

ExecStartedEmpty(c) ==    \* mutant: pendingInput is not written
  /\ NoFault
  /\ task[c] = "start"
  /\ task' = [task EXCEPT ![c] = IF server[c] = "closed" THEN "left" ELSE "attached"]
  /\ shell' = [shell EXCEPT ![c] = IF server[c] = "closed" THEN "eof" ELSE "running"]
  /\ UNCHANGED <<sockVars, clientVars, pending, resize, shellGot>>

\* e.start() resolves: the shell runs.  A socket closed meanwhile has it
\* destroyed; otherwise it gets what was typed until now.
ExecStarted(c) ==
  /\ NoFault
  /\ task[c] = "start"
  /\ IF server[c] = "closed"
     THEN /\ task' = [task EXCEPT ![c] = "left"]
          /\ shell' = [shell EXCEPT ![c] = "eof"]
          /\ UNCHANGED shellGot
     ELSE /\ task' = [task EXCEPT ![c] = "attached"]
          /\ shell' = [shell EXCEPT ![c] = "running"]
          /\ shellGot' = [shellGot EXCEPT ![c] = pending[c]]
  /\ UNCHANGED <<sockVars, clientVars, pending, resize>>

\* container.exec() or e.start() rejects
ExecFailed(c) ==
  /\ task[c] \in {"create", "start"} /\ Fault
  /\ task' = [task EXCEPT ![c] = "left"]
  /\ ServerCloses(c)
  /\ UNCHANGED <<browser, upstream, clientVars, pending, resize, shell, shellGot>>

\* The message listener.  What is written to a shell that has ended is lost.
Receives(c) ==
  /\ NoFault
  /\ ServerReceives(c)
  /\ LET m == Head(upstream[c]) IN
     \/ /\ m.type = "input" /\ task[c] = "attached"
        /\ shellGot' = IF shell[c] = "running" THEN Sent(shellGot, {c}, m.data) ELSE shellGot
        /\ UNCHANGED <<pending, resize>>
     \/ /\ m.type = "input" /\ task[c] # "attached"
        /\ pending' = Sent(pending, {c}, m.data)
        /\ UNCHANGED <<shellGot, resize>>
     \/ /\ m.type = "resize"
        /\ resize' = [resize EXCEPT ![c] = @ \/ task[c] \in {"none", "create"}]
        /\ UNCHANGED <<shellGot, pending>>
  /\ UNCHANGED <<browser, server, downstream, clientVars, task, shell>>

\* The close listener: closed = true, stream?.end()
CloseHandled(c) ==
  /\ NoFault
  /\ ServerClosed(c)
  /\ shell' = [shell EXCEPT ![c] = IF task[c] = "attached" /\ @ = "running" THEN "eof" ELSE @]
  /\ UNCHANGED <<clientVars, task, pending, resize, shellGot>>

\* The data listener of the stream; more output than is on the screen already
\* would show nothing new.
ShellPrints(c) ==
  /\ NoFault
  /\ task[c] = "attached" /\ shell[c] = "running" /\ server[c] = "open" /\ c \notin screen
  /\ \A i \in DOMAIN downstream[c] : downstream[c][i] # Output
  /\ downstream' = ToBrowser(c, Output)
  /\ UNCHANGED <<browser, server, upstream, clientVars, execVars>>

\* The shell exits or its stream breaks: the end and error listeners.
ShellEnds(c) ==
  /\ NoFault
  /\ task[c] = "attached" /\ shell[c] \in {"running", "eof"}
  /\ shell' = [shell EXCEPT ![c] = "gone"]
  /\ ServerCloses(c)
  /\ UNCHANGED <<browser, upstream, clientVars, task, pending, resize, shellGot>>

Breaks(c) ==
  /\ Drop(c) /\ Fault
  /\ UNCHANGED <<clientVars, execVars>>

-----------------------------------------------------------------------------
PlatformStep(c) ==
  \/ Opens(c) \/ Prints(c) \/ Closes(c) \/ Admit(c) \/ Reject(c)
  \/ ExecCreated(c) \/ ExecResized(c) \/ ExecStarted(c) \/ ExecFailed(c)
  \/ Receives(c) \/ CloseHandled(c) \/ ShellEnds(c)

TerminalNext ==
  \/ ContainerStops \/ ContainerStarts \/ Disconnect \/ Unmount \/ TypeKey \/ ResizeWindow
  \/ \E c \in Socks : Connect(c) \/ PlatformStep(c) \/ ShellPrints(c) \/ Breaks(c)

TerminalSpec == TerminalInit /\ [][TerminalNext]_terminalVars

-----------------------------------------------------------------------------
\* Whatever is typed into one connection reaches its shell in order, each key
\* once and none left out before a later one, although keys are first kept in
\* pendingInput and then written to the stream: handleExec implements a pipe.
InputPipe == INSTANCE Pipe WITH Chans <- Socks, Items <- Keys, put <- typed, got <- shellGot
InputIsPipe == InputPipe!Spec

\* No shell goes on after its socket was closed, at whatever moment of the
\* three calls that start it the close comes.
NoShellWithoutSocket == \A c \in Socks : server[c] = "closed" => shell[c] # "running"

\* The component has one connection, and none after it was unmounted; unless
\* Connect was pressed beside a socket still in use, the only way to a second
\* one, which wsRef then no longer knows.
OneConnection ==
  ~twice => \A c \in Socks : Connected(c) => c = wsRef /\ mounted

\* The screen shows the output of one shell; with the same exception.
OneShellOnScreen == ~twice => screen \subseteq {wsRef}

\* One page has one live shell, and a shell has a page (ContainerTerminal.tsx
\* connect and the cleanup, ws.ts handleExec).
OneLiveShell == NoShellWithoutSocket /\ OneConnection /\ OneShellOnScreen

=============================================================================
