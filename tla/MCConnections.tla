--------------------------- MODULE MCConnections ---------------------------
(***************************************************************************)
(* The connections of the server, for TLC: the SSH clients it keeps for    *)
(* its remote hosts and the WebSockets of a page, which carry a terminal,  *)
(* the logs or statistics of a container, or a one-shot answer.  `part` is *)
(* chosen in the initial state and says which of them moves; the others    *)
(* keep an initial state.                                                  *)
(***************************************************************************)
EXTENDS Terminal, Streams, OneShot, MCHostManager

VARIABLE part

socketOnly   == <<clientVars, execVars, faults>>
streamOnly   == <<kind, viewVars, feedVars>>
oneShotOnly  == <<askVars, reply, tokens>>
connectionsVars == <<part, hostVars, sockVars, socketOnly, streamOnly, oneShotOnly>>

ConnectionsInit ==
  /\ part \in {"hosts", "terminal", "streams", "oneShot"}
  /\ HostInit /\ (part = "hosts" \/ registered = {})
  /\ TerminalInit /\ (part = "terminal" \/ running)
  /\ StreamsInit /\ (part = "streams" \/ kind = "logs")
  /\ OneShotInit /\ (part = "oneShot" \/ prompted)

InPart(p, A) == part = p /\ UNCHANGED part /\ A

ConnectionsNext ==
  \/ InPart("hosts",    UNCHANGED <<sockVars, socketOnly, streamOnly, oneShotOnly>> /\ HostNext)
  \/ InPart("terminal", UNCHANGED <<hostVars, streamOnly, oneShotOnly>> /\ TerminalNext)
  \/ InPart("streams",  UNCHANGED <<hostVars, socketOnly, oneShotOnly>> /\ StreamsNext)
  \/ InPart("oneShot",  UNCHANGED <<hostVars, socketOnly, streamOnly>> /\ OneShotNext)

ConnectionsSpec == ConnectionsInit /\ [][ConnectionsNext]_connectionsVars

\* What tells two states apart: the others keep an initial state.
ConnectionsView ==
  <<part, CASE part = "hosts"    -> hostVars
            [] part = "terminal" -> <<sockVars, socketOnly>>
            [] part = "streams"  -> <<sockVars, streamOnly>>
            [] part = "oneShot"  -> <<sockVars, oneShotOnly>>>>

\* Every component keeps its types.
ConnectionsTypeOK ==
  CASE part = "hosts"    -> HostTypeOK
    [] part = "terminal" -> TerminalTypeOK
    [] part = "streams"  -> StreamsTypeOK
    [] part = "oneShot"  -> OneShotTypeOK

\* The properties of the parts that use sockets are about their own.
PageHasItsSockets ==
  CASE part = "terminal" -> OneLiveShell
    [] part = "streams"  -> ViewIsOfTarget
    [] part = "oneShot"  -> LastAskIsShown
    [] OTHER             -> TRUE

-----------------------------------------------------------------------------
\* What Docker sends: two units of each kind, of different lengths.
Unit(u, body, total) == [i \in 1 .. total |-> [unit |-> u, at |-> i, size |-> body]]
MCWire == [logs  |-> Unit(1, 1, 3) \o Unit(2, 0, 2),
           tty   |-> Unit(1, 2, 2),
           stats |-> Unit(1, 1, 2) \o Unit(2, 0, 1)]

=============================================================================
