-------------------------------- MODULE Pipe --------------------------------
(***************************************************************************)
(* What the bridge between a socket and a stream promises: what comes out  *)
(* of a channel is what went in, in order, each item once, nothing left    *)
(* out.  An end that goes away may leave the rest undelivered.             *)
(***************************************************************************)
EXTENDS Naturals, Sequences

CONSTANTS Chans,        \* channels, independent of each other
          Items         \* what can be put into one

VARIABLES put,   \* per channel, everything that was put in
          got    \* per channel, everything that came out

pipeVars == <<put, got>>

Init == put = [c \in Chans |-> <<>>] /\ got = [c \in Chans |-> <<>>]

\* The sender adds an item.
Put(c) == /\ \E x \in Items : put'[c] = Append(put[c], x)
          /\ got'[c] = got[c]

\* The receiver gets the next items, one or several at once.
Get(c) == /\ \E n \in Len(got[c]) + 1 .. Len(put[c]) : got'[c] = SubSeq(put[c], 1, n)
          /\ put'[c] = put[c]

Rest(c) == put'[c] = put[c] /\ got'[c] = got[c]

\* One step may move items in several channels.
Next == \A c \in Chans : Put(c) \/ Get(c) \/ Rest(c)
Spec == Init /\ [][Next]_pipeVars

=============================================================================
