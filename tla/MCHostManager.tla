-------------------------- MODULE MCHostManager --------------------------
(* HostManager for TLC: two remote hosts, and a second spelling of the id  *)
(* of the first one.  The first has two connections, the others one each.  *)
EXTENDS HostManager

CONSTANTS h1, h2,
          other   \* another spelling of h1: '01' for '1'

MCHosts == {h1, h2}
MCSpellings == {h1, h2, other}
MCIdOf == [k \in MCSpellings |-> IF k = other THEN h1 ELSE k]
MCConns == 1..4
MCKeyOf == [c \in MCConns |-> CASE c <= 2 -> h1 [] c = 3 -> other [] c = 4 -> h2]
=============================================================================
