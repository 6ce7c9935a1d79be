-------------------------- MODULE MCDockerEvents --------------------------
(* DockerEvents for TLC: the local daemon and one remote host, with one    *)
(* stream more of each than the code should ever have.                     *)
EXTENDS DockerEvents

CONSTANTS h1, NConns

MCHosts == {h1}           \* also the keys: nobody spells the id otherwise
MCIdOf == [k \in MCHosts |-> k]
MCConns == 1..NConns
MCKeyOf == [c \in MCConns |-> h1]
MCStreams == 1..4
MCFeedOf == [s \in MCStreams |-> IF s <= 2 THEN h1 ELSE Local]
=============================================================================
