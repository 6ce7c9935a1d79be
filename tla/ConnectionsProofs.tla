-------------------------- MODULE ConnectionsProofs -------------------------
(* Proofs about the connections of the web application: the live views of    *)
(* logs and statistics, which show what Docker sends whole however its bytes *)
(* are cut, and beside them the terminal, the one-shot answers and the cache *)
(* of SSH clients, whose own proofs are in SocketProofs and LinkProofs.      *)
EXTENDS MCConnections, SocketProofs, SequenceTheorems

(***************************************************************************)
(* LogDemuxer: where the frames end.                                       *)
(***************************************************************************)
NextFrame(b, o) == o + HeaderLen + SizeAt(b, o)
EndFrom(b, all, end, o) ==    \* all: a frame cut short counts as far as it goes
  IF o + HeaderLen <= Len(b)
  THEN IF NextFrame(b, o) <= Len(b) THEN end[NextFrame(b, o)] ELSE IF all THEN Len(b) ELSE o
  ELSE o
EndsOf(b, all, end) == end = [o \in 0 .. Len(b) |-> EndFrom(b, all, end, o)]

LEMMA NextFrameIsLater ==
  ASSUME NEW b \in Seq(Byte), NEW o \in Nat, o + HeaderLen <= Len(b)
  PROVE  NextFrame(b, o) \in Nat /\ NextFrame(b, o) > o
<1>1. HeaderLen \in Nat \ {0} /\ Len(b) \in Nat
  BY StreamsAssumption
<1>2. o + HeaderLen \in 1 .. Len(b)
  BY <1>1
<1>3. b[o + HeaderLen] \in Byte
  BY <1>2
<1>4. SizeAt(b, o) \in Nat
  BY <1>3 DEF SizeAt, Byte
<1> QED BY <1>1, <1>4 DEF NextFrame

(* The recursion is well founded: the function exists.                       *)
LEMMA EndsExist ==
  ASSUME NEW b \in Seq(Byte), NEW all \in BOOLEAN
  PROVE  \E end : EndsOf(b, all, end)
<1> DEFINE L == Len(b)
           Good(m, g) == g = [o \in m .. L |-> EndFrom(b, all, g, o)]
           S == {k \in 0 .. L : \E g : Good(L - k, g)}
<1>0. L \in Nat /\ HeaderLen \in Nat \ {0}
  BY StreamsAssumption
<1> HIDE DEF L
<1>1. 0 \in S
  <2> DEFINE g == [o \in L .. L |-> o]
  <2>1. EndFrom(b, all, g, L) = L /\ L .. L = {L}
    BY <1>0 DEF EndFrom, L
  <2>2. Good(L, g) /\ L - 0 = L /\ 0 \in 0 .. L
    BY <2>1, <1>0
  <2> QED BY <2>2
<1>2. ASSUME NEW k \in 0 .. L - 1, k \in S PROVE k + 1 \in S
  <2> DEFINE m == L - (k + 1)
  <2>1. PICK g : Good(L - k, g)
    BY <1>2
  <2>2. m \in 0 .. L /\ L - k = m + 1 /\ k + 1 \in 0 .. L
    BY <1>0
  <2>3. Good(m + 1, g)
    BY <2>1, <2>2
  <2> DEFINE h == [o \in m .. L |-> IF o = m THEN EndFrom(b, all, g, m) ELSE g[o]]
  <2> HIDE DEF m
  <2>4. ASSUME NEW o \in m .. L PROVE EndFrom(b, all, g, o) = EndFrom(b, all, h, o)
    <3>1. CASE o + HeaderLen <= L /\ NextFrame(b, o) <= L
      <4>1. NextFrame(b, o) \in m .. L /\ NextFrame(b, o) # m
        BY <3>1, <2>2, <1>0, NextFrameIsLater DEF L
      <4>2. h[NextFrame(b, o)] = g[NextFrame(b, o)]
        BY <4>1
      <4> QED BY <4>2 DEF EndFrom
    <3>2. CASE ~(o + HeaderLen <= L /\ NextFrame(b, o) <= L)
      BY <3>2 DEF EndFrom, L
    <3> QED BY <3>1, <3>2
  <2>5. ASSUME NEW o \in m .. L PROVE h[o] = EndFrom(b, all, h, o)
    <3>1. CASE o = m
      BY <3>1, <2>4
    <3>2. CASE o # m
      <4>1. o \in m + 1 .. L
        BY <2>2, <1>0, <3>2
      <4>2. g[o] = EndFrom(b, all, g, o)
        BY <4>1, <2>3
      <4> QED BY <4>2, <3>2, <2>4
    <3> QED BY <3>1, <3>2
  <2>6. Good(m, h)
    BY <2>5
  <2> QED BY <2>6, <2>2 DEF m
<1>3. L \in S
  <2>1. \A k \in 0 .. L - 1 : k \in S => k + 1 \in S
    BY <1>2
  <2> HIDE DEF S
  <2>2. \A k \in 0 .. L : k \in S
    BY <1>0, <1>1, <2>1, UpTo
  <2> QED BY <1>0, <2>2
<1>4. L - L = 0
  BY <1>0
<1> QED BY <1>3, <1>4 DEF EndsOf, L

FrameEnds(b, all) == CHOOSE end : EndsOf(b, all, end)

LEMMA FrameEndsAre ==
  ASSUME NEW b \in Seq(Byte), NEW all \in BOOLEAN
  PROVE  /\ FramesEnd(b) = FrameEnds(b, FALSE)[0] /\ DemuxLogs(b) = Bodies(SubSeq(b, 1, FrameEnds(b, TRUE)[0]))
         /\ \A o \in 0 .. Len(b) : FrameEnds(b, all)[o] = EndFrom(b, all, FrameEnds(b, all), o)
<1>1. FramesEnd(b) = FrameEnds(b, FALSE)[0]
  BY DEF FramesEnd, FrameEnds, EndsOf, EndFrom, NextFrame
<1>0. DemuxLogs(b) = Bodies(SubSeq(b, 1, FrameEnds(b, TRUE)[0]))
  BY DEF DemuxLogs, FrameEnds, EndsOf, EndFrom, NextFrame
<1>2. EndsOf(b, all, FrameEnds(b, all))
  BY EndsExist DEF FrameEnds
<1>3. FrameEnds(b, all) = [o \in 0 .. Len(b) |-> EndFrom(b, all, FrameEnds(b, all), o)]
  BY <1>2 DEF EndsOf
<1> HIDE DEF FrameEnds
<1> QED BY <1>0, <1>1, <1>3

(* No frame ends beyond the buffer.                                          *)
LEMMA FramesEndIn ==
  ASSUME NEW b \in Seq(Byte), NEW all \in BOOLEAN
  PROVE  /\ FrameEnds(b, all)[0] \in 0 .. Len(b)
         /\ \A o \in 0 .. Len(b) : FrameEnds(b, all)[o] \in o .. Len(b)
<1> DEFINE L == Len(b)
           S == {k \in 0 .. L : \A o \in L - k .. L : FrameEnds(b, all)[o] \in o .. L}
<1>0. L \in Nat /\ HeaderLen \in Nat \ {0}
  BY StreamsAssumption
<1>1. \A o \in 0 .. L : FrameEnds(b, all)[o] = EndFrom(b, all, FrameEnds(b, all), o)
  BY FrameEndsAre
<1> HIDE DEF L
<1>2. 0 \in S
  <2>1. EndFrom(b, all, FrameEnds(b, all), L) = L /\ L - 0 = L /\ L .. L = {L} /\ 0 \in 0 .. L /\ L \in 0 .. L
    BY <1>0 DEF EndFrom, L
  <2>2. FrameEnds(b, all)[L] = L
    BY <2>1, <1>1
  <2> QED BY <2>1, <2>2
<1>3. ASSUME NEW k \in 0 .. L - 1, k \in S PROVE k + 1 \in S
  <2>1. ASSUME NEW o \in L - (k + 1) .. L PROVE FrameEnds(b, all)[o] \in o .. L
    <3>1. o \in 0 .. L /\ o \in Nat
      BY <1>0
    <3>2. FrameEnds(b, all)[o] = EndFrom(b, all, FrameEnds(b, all), o)
      BY <3>1, <1>1
    <3>3. CASE o + HeaderLen <= L /\ NextFrame(b, o) <= L
      <4>1. NextFrame(b, o) \in L - k .. L /\ NextFrame(b, o) > o
        BY <3>1, <3>3, <1>0, NextFrameIsLater DEF L
      <4>2. FrameEnds(b, all)[NextFrame(b, o)] \in NextFrame(b, o) .. L
        BY <4>1, <1>3
      <4>3. EndFrom(b, all, FrameEnds(b, all), o) = FrameEnds(b, all)[NextFrame(b, o)]
        BY <3>3 DEF EndFrom, L
      <4> QED BY <4>1, <4>2, <4>3, <3>1, <3>2, <1>0
    <3>4. CASE ~(o + HeaderLen <= L /\ NextFrame(b, o) <= L)
      <4>1. EndFrom(b, all, FrameEnds(b, all), o) \in {o, L}
        BY <3>4 DEF EndFrom, L
      <4> QED BY <4>1, <3>1, <3>2, <1>0
    <3> QED BY <3>3, <3>4
  <2>2. k + 1 \in 0 .. L
    BY <1>0
  <2> QED BY <2>1, <2>2
<1>4. \A k \in 0 .. L - 1 : k \in S => k + 1 \in S
  BY <1>3
<1>5. L \in S
  <2> HIDE DEF S
  <2>1. \A k \in 0 .. L : k \in S
    BY <1>0, <1>2, <1>4, UpTo
  <2> QED BY <1>0, <2>1
<1>6. \A o \in 0 .. L : FrameEnds(b, all)[o] \in o .. L
  <2>1. L - L = 0
    BY <1>0
  <2> QED BY <1>5, <2>1
<1>7. FrameEnds(b, all)[0] \in 0 .. L
  BY <1>0, <1>6
<1> QED BY <1>6, <1>7, FrameEndsAre DEF L

(***************************************************************************)
(* The frames without their headers.                                       *)
(***************************************************************************)
BodiesFrom(b, f, i) ==
  IF i = 0 THEN <<>> ELSE IF IsBody(b[i]) THEN Append(f[i - 1], b[i]) ELSE f[i - 1]
BodiesTo(b) == CHOOSE f : f = [i \in 0 .. Len(b) |-> BodiesFrom(b, f, i)]

LEMMA BodiesToAre ==
  ASSUME NEW b \in Seq(Byte)
  PROVE  /\ Bodies(b) = BodiesTo(b)[Len(b)] /\ BodiesTo(b)[0] = <<>>
         /\ \A i \in 1 .. Len(b) :
              BodiesTo(b)[i] = IF IsBody(b[i]) THEN Append(BodiesTo(b)[i - 1], b[i]) ELSE BodiesTo(b)[i - 1]
<1> DEFINE L == Len(b)
           step == [i \in 1 .. L |-> [s \in Seq(Byte) |-> IF IsBody(b[i]) THEN Append(s, b[i]) ELSE s]]
<1>1. L \in Nat /\ \A i \in 1 .. L : b[i] \in Byte
  OBVIOUS
<1>2. \A i \in 1 .. L : \A s \in Seq(Byte) : step[i][s] \in Seq(Byte)
  BY <1>1
<1>3. <<>> \in Seq(Byte)
  OBVIOUS
<1> HIDE DEF step
<1>4. PICK f \in [0 .. L -> Seq(Byte)] : f[0] = <<>> /\ \A i \in 1 .. L : f[i] = step[i][f[i - 1]]
  <2>1. Steps(Seq(Byte), L, <<>>, step)
    BY <1>1, <1>2, <1>3 DEF Steps
  <2>2. Walk(Seq(Byte), L, <<>>, step)
    BY <2>1, StepByStep
  <2> QED BY <2>2 DEF Walk
<1>5. ASSUME NEW i \in 0 .. L PROVE f[i] = BodiesFrom(b, f, i)
  <2>1. CASE i = 0
    BY <2>1, <1>4 DEF BodiesFrom
  <2>2. CASE i # 0
    <3>1. i \in 1 .. L /\ i - 1 \in 0 .. L
      BY <2>2, <1>1
    <3>2. f[i] = step[i][f[i - 1]] /\ f[i - 1] \in Seq(Byte)
      BY <3>1, <1>4
    <3> QED BY <3>1, <3>2, <2>2 DEF BodiesFrom, step
  <2> QED BY <2>1, <2>2
<1>6. f = [i \in 0 .. L |-> BodiesFrom(b, f, i)]
  BY <1>5
<1>7. BodiesTo(b) = [i \in 0 .. L |-> BodiesFrom(b, BodiesTo(b), i)]
  BY <1>6 DEF BodiesTo
<1>8. Bodies(b) = BodiesTo(b)[Len(b)]
  BY DEF Bodies, BodiesTo, BodiesFrom
<1> HIDE DEF BodiesTo
<1>9. BodiesTo(b)[0] = <<>>
  BY <1>7, <1>1 DEF BodiesFrom
<1>10. ASSUME NEW i \in 1 .. L
       PROVE  BodiesTo(b)[i] = IF IsBody(b[i]) THEN Append(BodiesTo(b)[i - 1], b[i]) ELSE BodiesTo(b)[i - 1]
  <2>1. i \in 0 .. L /\ i # 0
    BY <1>1
  <2>2. BodiesTo(b)[i] = BodiesFrom(b, BodiesTo(b), i)
    BY <2>1, <1>7
  <2> QED BY <2>1, <2>2 DEF BodiesFrom
<1> QED BY <1>8, <1>9, <1>10

LEMMA BodiesAreBytes ==
  ASSUME NEW b \in Seq(Byte)
  PROVE  Bodies(b) \in Seq(Byte) /\ \A i \in 0 .. Len(b) : BodiesTo(b)[i] \in Seq(Byte)
<1> DEFINE S == {i \in 0 .. Len(b) : BodiesTo(b)[i] \in Seq(Byte)}
<1>0. /\ BodiesTo(b)[0] = <<>>
      /\ \A i \in 1 .. Len(b) :
           BodiesTo(b)[i] = IF IsBody(b[i]) THEN Append(BodiesTo(b)[i - 1], b[i]) ELSE BodiesTo(b)[i - 1]
  BY BodiesToAre
<1>1. 0 \in S
  <2>1. <<>> \in Seq(Byte) /\ 0 \in 0 .. Len(b)
    OBVIOUS
  <2> QED BY <1>0, <2>1
<1>2. ASSUME NEW i \in 0 .. Len(b) - 1, i \in S PROVE i + 1 \in S
  <2>1. i + 1 \in 1 .. Len(b) /\ b[i + 1] \in Byte /\ (i + 1) - 1 = i /\ i + 1 \in 0 .. Len(b)
    OBVIOUS
  <2>2. BodiesTo(b)[i] \in Seq(Byte)
    BY <1>2
  <2>3. BodiesTo(b)[i + 1] = IF IsBody(b[i + 1]) THEN Append(BodiesTo(b)[i], b[i + 1]) ELSE BodiesTo(b)[i]
    BY <2>1, <1>0
  <2>4. Append(BodiesTo(b)[i], b[i + 1]) \in Seq(Byte)
    BY <2>1, <2>2
  <2>5. BodiesTo(b)[i + 1] \in Seq(Byte)
    BY <2>2, <2>3, <2>4
  <2> QED BY <2>1, <2>5
<1>3. \A i \in 0 .. Len(b) - 1 : i \in S => i + 1 \in S
  BY <1>2
<1> HIDE DEF S
<1>4. \A i \in 0 .. Len(b) : i \in S
  BY <1>1, <1>3, UpTo
<1>5. Len(b) \in 0 .. Len(b)
  OBVIOUS
<1> QED BY <1>4, <1>5, BodiesToAre DEF S


(***************************************************************************)
(* What the data listener keeps and sends is bytes again.                  *)
(***************************************************************************)
LEMMA LinesEndIn ==
  ASSUME NEW b \in Seq(Byte)
  PROVE  LinesEnd(b) \in 0 .. Len(b)
<1> DEFINE ends == {i \in 1 .. Len(b) : b[i].at > b[i].size}
<1>1. CASE ends = {}
  BY <1>1 DEF LinesEnd
<1>2. CASE ends # {}
  <2>1. ends \subseteq 0 .. Len(b) /\ Len(b) \in Nat
    OBVIOUS
  <2>2. LinesEnd(b) = CHOOSE i \in ends : \A j \in ends : j <= i
    BY <1>2 DEF LinesEnd
  <2> HIDE DEF ends
  <2>3. \E i \in ends : \A j \in ends : j <= i
    BY <1>2, <2>1, Greatest
  <2>4. LinesEnd(b) \in ends
    BY <2>2, <2>3
  <2> QED BY <2>1, <2>4
<1> QED BY <1>1, <1>2

LEMMA KeptIsBytes ==
  ASSUME NEW b \in Seq(Byte), kind \in ViewKinds
  PROVE  /\ Kept(b) \in Seq(Byte) /\ Len(Kept(b)) \in 0 .. Len(b)
         /\ Passed(b) \in Seq(Byte)
<1> DEFINE end == CASE kind = "logs"  -> FramesEnd(b)
                    [] kind = "stats" -> LinesEnd(b)
                    [] kind = "tty"   -> Len(b)
           whole == SubSeq(b, 1, Len(b) - Len(Kept(b)))
<1>1. end \in 0 .. Len(b)
  <2>1. FramesEnd(b) \in 0 .. Len(b)
    BY FramesEndIn, FrameEndsAre
  <2>2. LinesEnd(b) \in 0 .. Len(b)
    BY LinesEndIn
  <2> QED BY <2>1, <2>2 DEF ViewKinds
<1>2. Kept(b) = SubSeq(b, end + 1, Len(b))
  BY DEF Kept
<1> HIDE DEF end
<1>3. Kept(b) \in Seq(Byte) /\ Len(Kept(b)) \in 0 .. Len(b)
  BY <1>1, <1>2
<1>4. whole \in Seq(Byte)
  BY <1>3
<1>5. Bodies(whole) \in Seq(Byte)
  BY <1>4, BodiesAreBytes
<1> QED BY <1>3, <1>4, <1>5 DEF Passed

LEMMA DecodedIsBytes ==
  ASSUME NEW b \in Seq(Byte)
  PROVE  Decoded(b) \in Seq(Byte) /\ Len(Decoded(b)) = Len(b)
<1>1. \A x \in Byte : [x EXCEPT !.unit = 0] \in Byte
  BY DEF Byte
<1>2. \A i \in 1 .. Len(b) : b[i] \in Byte
  OBVIOUS
<1>3. Decoded(b) = [i \in 1 .. Len(b) |-> Decoded(b)[i]]
  BY DEF Decoded
<1>4. ASSUME NEW i \in 1 .. Len(b) PROVE Decoded(b)[i] \in Byte
  <2>1. b[i] \in Byte /\ [b[i] EXCEPT !.unit = 0] \in Byte
    BY <1>1, <1>2
  <2>2. Decoded(b)[i] \in {b[i], [b[i] EXCEPT !.unit = 0]}
    BY DEF Decoded
  <2> QED BY <2>1, <2>2
<1>5. Len(b) \in Nat
  OBVIOUS
<1> QED BY <1>3, <1>4, <1>5

(***************************************************************************)
(* The live views, Streams.                                                *)
(***************************************************************************)
Data == [type : {"data"}, bytes : Seq(Byte)]
Deliveries == {Open, Refused, Bye, Lost} \cup Data
Shown == [sock : Socks, byte : Byte]

ViewTypes ==
  /\ target \in Targets /\ viewRef \in Socks \cup {NoView} /\ of \in [Socks -> Targets]
  /\ text \in Seq(Shown) /\ linked \in BOOLEAN

FeedTypes ==
  /\ kind \in ViewKinds /\ cut \in BOOLEAN /\ losses \in 0 .. MaxLosses
  /\ attach \in [Socks -> {"none", "inspect", "logs", "attached", "left"}]
  /\ feed \in [Socks -> {"none", "open", "ended", "destroyed"}]
  /\ sent \in [Socks -> 0 .. Len(Wire[kind])] /\ held \in [Socks -> Seq(Byte)]

(* The messages q come to a page that listens to a socket in the state b,    *)
(* from a handler in the state s: the open event, or the refusal, is first.  *)
Coming(b, s, q) ==
  /\ q \in Seq(Deliveries)
  /\ \A k \in 1 .. Len(q) : q[k] \in {Open, Refused} => k = 1 /\ b = "connecting"
  /\ s \in {"idle", "upgrading"} => b = "connecting" /\ q \in {<<>>, <<Lost>>}

(* Docker is asked only for a connection that was made, and the page listens *)
(* to the socket of its view alone.                                          *)
Viewing(c) ==
  /\ browser[c] = "new" => server[c] = "idle" /\ downstream[c] = <<>>
  /\ server[c] \in {"idle", "upgrading"} => attach[c] = "none" /\ feed[c] = "none"
  /\ server[c] = "closed" => feed[c] # "open"
  /\ Connected(c) => c = viewRef /\ Coming(browser[c], server[c], downstream[c])

ViewPage ==
  /\ viewRef # NoView => of[viewRef] = target /\ browser[viewRef] # "new"
  /\ TextOfTarget /\ ConnectedIsTrue

StreamsInv == PerSocket /\ ViewTypes /\ FeedTypes /\ (\A c \in Socks : Viewing(c)) /\ ViewPage

LEMMA DeliveriesAre ==
  /\ Open \notin {Bye, Lost} /\ Refused \notin {Bye, Lost}
  /\ \A m \in Data : m \notin {Open, Refused, Bye, Lost} /\ m.bytes \in Seq(Byte) /\ m.type = "data"
  /\ \A m : m \in Deliveries <=> m \in {Open, Refused, Bye, Lost} \/ m \in Data
BY DEF Data, Deliveries, Open, Refused, Bye, Lost

LEMMA ComingAppends ==
  ASSUME NEW b, NEW s, NEW q, Coming(b, s, q), s \notin {"idle", "upgrading"},
         NEW m \in Deliveries \ {Open, Refused}, NEW t, t \notin {"idle", "upgrading"}
  PROVE  Coming(b, t, Append(q, m))
<1> DEFINE p == Append(q, m)
<1>1. /\ p \in Seq(Deliveries) /\ q \in Seq(Deliveries)
      /\ \A k \in 1 .. Len(p) : p[k] = m \/ (k \in 1 .. Len(q) /\ p[k] = q[k])
  BY DEF Coming
<1> HIDE DEF p
<1>2. ASSUME NEW k \in 1 .. Len(p), p[k] \in {Open, Refused} PROVE k = 1 /\ b = "connecting"
  BY <1>1, <1>2 DEF Coming
<1>3. Coming(b, t, p)
  BY <1>1, <1>2 DEF Coming
<1> QED BY <1>3 DEF p

LEMMA ComingGoesOn ==
  ASSUME NEW b, NEW s, NEW q, Coming(b, s, q), NEW t, t \notin {"idle", "upgrading"}
  PROVE  Coming(b, t, q) /\ Coming(b, t, <<Lost>>)
<1>1. Lost \in Deliveries /\ Lost \notin {Open, Refused}
  BY DeliveriesAre
<1>2. <<Lost>> \in Seq(Deliveries) /\ \A k \in 1 .. Len(<<Lost>>) : <<Lost>>[k] = Lost
  BY <1>1
<1> QED BY <1>1, <1>2 DEF Coming

(* A message is handled: those behind it come to a page that is connected.   *)
LEMMA ComingAdvances ==
  ASSUME NEW b, NEW s, NEW q, Coming(b, s, q), q # <<>>, q # <<Lost>>
  PROVE  Coming("open", s, Tail(q)) /\ s \notin {"idle", "upgrading"}
<1> DEFINE p == Tail(q)
<1>1. /\ q \in Seq(Deliveries) /\ p \in Seq(Deliveries) /\ s \notin {"idle", "upgrading"}
      /\ \A k \in 1 .. Len(p) : p[k] = q[k + 1] /\ k + 1 \in 1 .. Len(q) /\ k + 1 # 1
  BY DEF Coming
<1> HIDE DEF p
<1>2. \A k \in 1 .. Len(p) : p[k] \notin {Open, Refused}
  BY <1>1 DEF Coming
<1>3. Coming("open", s, p)
  BY <1>1, <1>2 DEF Coming
<1> QED BY <1>1, <1>3 DEF p

(* The upgrade is answered: nothing came before.                             *)
LEMMA ComingFirst ==
  ASSUME NEW s, NEW q, NEW p, NEW m \in {Open, Refused}, Coming("connecting", s, q), q \in {<<>>, <<Lost>>},
         p \in {q, Append(q, m)}, q = <<Lost>> => p = q, NEW t
  PROVE  (p # q => t \notin {"idle", "upgrading"}) => Coming("connecting", t, p)
<1>1. CASE p = q
  BY <1>1 DEF Coming
<1>2. CASE p # q
  <2>1. q = <<>> /\ p = Append(q, m)
    BY <1>2
  <2>2. p = Append(<<>>, m)
    BY <2>1
  <2>3. Append(<<>>, m) = <<m>>
    OBVIOUS
  <2>4. m \in Deliveries
    BY DeliveriesAre
  <2>5. p \in Seq(Deliveries) /\ \A k \in 1 .. Len(p) : k = 1
    BY <2>2, <2>3, <2>4
  <2> QED BY <1>2, <2>5 DEF Coming
<1> QED BY <1>1, <1>2

(***************************************************************************)
(* Steps of one socket leave what is said of the others.                   *)
(***************************************************************************)
ViewStill(c) == Still(c) /\ attach'[c] = attach[c] /\ feed'[c] = feed[c]

LEMMA ViewingStays ==
  ASSUME NEW c \in Socks, Viewing(c), ViewStill(c), Connected(c) => viewRef' = viewRef
  PROVE  Viewing(c)'
BY DEF Viewing, ViewStill, Still, Connected

LEMMA ViewPageStays ==
  ASSUME ViewPage, UNCHANGED viewVars,
         \A c \in Socks : browser'[c] = browser[c],
         viewRef \in Socks \cup {NoView}
  PROVE  ViewPage'
BY DEF ViewPage, TextOfTarget, ConnectedIsTrue, viewVars

(* A step of the handler of c.                                               *)
LEMMA HandlerStep ==
  ASSUME StreamsInv, NEW c \in Socks, PerSocket', Others(c), FeedTypes',
         browser'[c] = browser[c], UNCHANGED viewVars,
         \A d \in Socks \ {c} : attach'[d] = attach[d] /\ feed'[d] = feed[d],
         server[c] \notin {"idle", "upgrading"} => server'[c] \notin {"idle", "upgrading"},
         server'[c] \in {"idle", "upgrading"} => attach'[c] = "none" /\ feed'[c] = "none",
         server'[c] = "closed" => feed'[c] # "open",
         browser[c] = "new" => server'[c] = "idle" /\ downstream'[c] = <<>>,
         Connected(c) => Coming(browser[c], server'[c], downstream'[c])
  PROVE  StreamsInv'
<1>1. ASSUME NEW d \in Socks \ {c} PROVE Viewing(d)'
  BY ViewingStays DEF StreamsInv, Others, ViewStill, viewVars
<1>2. Viewing(c)'
  BY DEF StreamsInv, Viewing, Connected, viewVars
<1>3. ViewTypes'
  BY DEF StreamsInv, ViewTypes, viewVars
<1>4. ViewPage'
  <2>1. \A d \in Socks : browser'[d] = browser[d]
    BY DEF Others, Still
  <2> QED BY <2>1, ViewPageStays DEF StreamsInv, ViewTypes
<1> QED BY <1>1, <1>2, <1>3, <1>4 DEF StreamsInv

LEMMA AdmittedStep ==
  ASSUME StreamsInv, NEW c \in Socks, ViewAdmitted(c)
  PROVE  StreamsInv'
<1>1. PerSocket /\ Viewing(c) /\ FeedTypes
  BY DEF StreamsInv
<1>2. /\ PerSocket' /\ Others(c) /\ browser'[c] = browser[c]
      /\ server[c] = "upgrading" /\ server'[c] = "open"
      /\ downstream'[c] \in {downstream[c], Append(downstream[c], Open)}
      /\ downstream[c] = <<Lost>> => downstream'[c] = downstream[c]
  BY <1>1, UpgradedAt DEF ViewAdmitted
<1>3. FeedTypes' /\ \A d \in Socks \ {c} : attach'[d] = attach[d] /\ feed'[d] = feed[d]
  BY <1>1 DEF ViewAdmitted, FeedTypes
<1>4. feed'[c] = "none" /\ browser[c] # "new" /\ UNCHANGED viewVars
  BY <1>1, <1>2 DEF ViewAdmitted, Viewing
<1>5. ASSUME Connected(c) PROVE Coming(browser[c], "open", downstream'[c])
  <2>1. browser[c] = "connecting" /\ downstream[c] \in {<<>>, <<Lost>>} /\ Coming("connecting", server[c], downstream[c])
    BY <1>1, <1>2, <1>5 DEF Viewing, Coming
  <2> QED BY <1>2, <2>1, ComingFirst
<1> QED BY <1>2, <1>3, <1>4, <1>5, HandlerStep

LEMMA RejectedStep ==
  ASSUME StreamsInv, NEW c \in Socks, ViewRejected(c)
  PROVE  StreamsInv'
<1>1. PerSocket /\ Viewing(c) /\ FeedTypes /\ MaxLosses \in Nat
  BY StreamsAssumption DEF StreamsInv
<1>2. /\ PerSocket' /\ Others(c) /\ browser'[c] = browser[c]
      /\ server[c] \in {"idle", "upgrading"} /\ browser[c] # "new"
      /\ server'[c] \in {"upgrading", "closed"}
      /\ downstream'[c] \in {downstream[c], Append(downstream[c], Refused)}
      /\ server'[c] = "upgrading" => downstream'[c] = downstream[c]
      /\ downstream[c] = <<Lost>> => downstream'[c] = downstream[c]
  <2>1. CASE Upgrade(c)
    BY <1>1, <2>1, UpgradeAt
  <2>2. CASE UpgradeRefused(c)
    BY <1>1, <2>2, UpgradeRefusedAt DEF Viewing
  <2> QED BY <2>1, <2>2 DEF ViewRejected
<1>3. losses' \in 0 .. MaxLosses
  BY <1>1 DEF ViewRejected, FeedTypes, Loss
<1>4. FeedTypes' /\ UNCHANGED <<viewVars, attach, feed>>
  BY <1>1, <1>3 DEF ViewRejected, FeedTypes
<1>5. attach[c] = "none" /\ feed[c] = "none"
  BY <1>1, <1>2 DEF Viewing
<1>6. ASSUME Connected(c) PROVE Coming(browser[c], server'[c], downstream'[c])
  <2>1. browser[c] = "connecting" /\ downstream[c] \in {<<>>, <<Lost>>} /\ Coming("connecting", server[c], downstream[c])
    BY <1>1, <1>2, <1>6 DEF Viewing, Coming
  <2>2. downstream'[c] # downstream[c] => server'[c] \notin {"idle", "upgrading"}
    BY <1>2
  <2> QED BY <1>2, <2>1, <2>2, ComingFirst
<1> QED BY <1>2, <1>4, <1>5, <1>6, HandlerStep DEF viewVars

(* inspect() and logs() answer: the connection may be gone.                  *)
LEMMA AttachingStep ==
  ASSUME StreamsInv, NEW c \in Socks, Inspected(c) \/ Attached(c)
  PROVE  StreamsInv'
<1>1. PerSocket /\ Viewing(c) /\ FeedTypes
  BY DEF StreamsInv
<1>2. UNCHANGED <<browser, server, upstream, downstream>> /\ UNCHANGED viewVars
  BY DEF Inspected, Attached, sockVars
<1>3. PerSocket' /\ Others(c)
  BY <1>1, <1>2 DEF PerSocket, Others, Still
<1>4. FeedTypes' /\ \A d \in Socks \ {c} : attach'[d] = attach[d] /\ feed'[d] = feed[d]
  BY <1>1, ZenonT(60) DEF Inspected, Attached, FeedTypes
<1>5. server[c] \notin {"idle", "upgrading"}
  BY <1>1 DEF Inspected, Attached, Viewing
<1>6. server[c] = "closed" => feed'[c] # "open"
  BY <1>1 DEF Inspected, Attached, Viewing, FeedTypes
<1>7. Connected(c) => Coming(browser[c], server[c], downstream[c])
  BY <1>1 DEF Viewing
<1> QED BY <1>1, <1>2, <1>3, <1>4, <1>5, <1>6, <1>7, HandlerStep DEF Viewing

(* The server closes c, in its own time or because Docker's stream ended.    *)
LEMMA ServerEndsStep ==
  ASSUME StreamsInv, NEW c \in Socks, AttachFailed(c) \/ FeedEnds(c) \/ ViewClosed(c)
  PROVE  StreamsInv'
<1>1. PerSocket /\ Viewing(c) /\ FeedTypes /\ MaxLosses \in Nat
  BY StreamsAssumption DEF StreamsInv
<1>2. server[c] \notin {"idle", "upgrading"}
  BY <1>1 DEF AttachFailed, FeedEnds, ViewClosed, ServerClosed, Viewing
<1>3. /\ PerSocket' /\ Others(c) /\ browser'[c] = browser[c]
      /\ server'[c] \in {"closing", "closed", server[c]}
      /\ downstream'[c] \in {downstream[c], Append(downstream[c], Bye)}
  <2>1. CASE ServerCloses(c) /\ UNCHANGED <<browser, upstream>>
    BY <1>1, <2>1, ServerClosesAt
  <2>2. CASE ServerClosed(c)
    BY <1>1, <2>2, ServerClosedAt
  <2> QED BY <2>1, <2>2 DEF AttachFailed, FeedEnds, ViewClosed
<1>4. losses' \in 0 .. MaxLosses
  BY <1>1 DEF AttachFailed, FeedEnds, ViewClosed, FeedTypes, Loss
<1>5. /\ FeedTypes' /\ UNCHANGED viewVars
      /\ \A d \in Socks \ {c} : attach'[d] = attach[d] /\ feed'[d] = feed[d]
  BY <1>1, <1>4 DEF AttachFailed, FeedEnds, ViewClosed, FeedTypes
<1>6. server'[c] = "closed" => feed'[c] # "open"
  <2>1. CASE AttachFailed(c)
    <3>1. feed' = feed /\ (server'[c] = "closed" => server[c] = "closed")
      BY <1>1, <2>1 DEF AttachFailed, ServerCloses, PerSocket
    <3> QED BY <1>1, <3>1 DEF Viewing
  <2>2. CASE FeedEnds(c) \/ ViewClosed(c)
    BY <1>1, <2>2 DEF FeedEnds, ViewClosed, FeedTypes
  <2> QED BY <2>1, <2>2
<1>7. ASSUME Connected(c) PROVE Coming(browser[c], server'[c], downstream'[c])
  <2>1. Coming(browser[c], server[c], downstream[c]) /\ server'[c] \notin {"idle", "upgrading"}
    BY <1>1, <1>2, <1>3, <1>7 DEF Viewing
  <2>2. Bye \in Deliveries \ {Open, Refused}
    BY DeliveriesAre
  <2>3. Coming(browser[c], server'[c], downstream[c]) /\ Coming(browser[c], server'[c], Append(downstream[c], Bye))
    BY <1>2, <2>1, <2>2, ComingAppends, ComingGoesOn
  <2> QED BY <1>3, <2>3
<1>8. browser[c] # "new"
  BY <1>1, <1>2 DEF Viewing
<1> QED BY <1>2, <1>3, <1>5, <1>6, <1>7, <1>8, HandlerStep

LEMMA ChunkStep ==
  ASSUME StreamsInv, NEW c \in Socks, NEW n \in 1 .. Len(Wire[kind]), Chunk(c, n)
  PROVE  StreamsInv'
<1> DEFINE chunk  == Decoded(SubSeq(Wire[kind], sent[c] + 1, sent[c] + n))
           buffer == held[c] \o chunk
           m      == [type |-> "data", bytes |-> Passed(buffer)]
<1>1. PerSocket /\ Viewing(c) /\ FeedTypes /\ kind \in ViewKinds
  BY DEF StreamsInv, FeedTypes
<1>2. Wire[kind] \in Seq(Byte) /\ sent[c] \in 0 .. Len(Wire[kind]) /\ held[c] \in Seq(Byte)
  BY <1>1, StreamsAssumption DEF FeedTypes
<1>3. /\ UNCHANGED <<browser, server, upstream, kind, viewVars, attach, feed, losses>> /\ feed[c] = "open"
      /\ n \in 1 .. Len(Wire[kind]) - sent[c] /\ sent' = [sent EXCEPT ![c] = @ + n]
      /\ held' = [held EXCEPT ![c] = Kept(buffer)] /\ cut' \in BOOLEAN
      /\ downstream' = downstream \/ downstream' = ToBrowser(c, m)
  BY <1>1 DEF Chunk, FeedTypes
<1>4. SubSeq(Wire[kind], sent[c] + 1, sent[c] + n) \in Seq(Byte)
  BY <1>2, <1>3
<1>5. chunk \in Seq(Byte)
  BY <1>4, DecodedIsBytes
<1> HIDE DEF chunk
<1>6. buffer \in Seq(Byte)
  BY <1>2, <1>5
<1> HIDE DEF buffer
<1>7. Kept(buffer) \in Seq(Byte) /\ Passed(buffer) \in Seq(Byte)
  BY <1>1, <1>6, KeptIsBytes
<1>8. m \in Data
  BY <1>7 DEF Data
<1> HIDE DEF m
<1>9. m \in Deliveries \ {Open, Refused}
  BY <1>8, DeliveriesAre
<1>10. FeedTypes'
  <2>1. sent[c] + n \in 0 .. Len(Wire[kind])
    BY <1>2, <1>3
  <2> QED BY <1>1, <1>3, <1>7, <2>1 DEF FeedTypes
<1>11. /\ downstream' = [d \in Socks |-> downstream'[d]]
       /\ \A d \in Socks \ {c} : downstream'[d] = downstream[d]
       /\ downstream'[c] \in {downstream[c], Append(downstream[c], m)}
  <2>1. CASE downstream' = downstream
    BY <1>1, <2>1 DEF PerSocket
  <2>2. CASE downstream' = ToBrowser(c, m)
    <3> HIDE DEF ToBrowser
    <3> QED BY <2>2, ToBrowserAt
  <2> QED BY <1>3, <2>1, <2>2
<1>12. PerSocket' /\ Others(c) /\ browser'[c] = browser[c] /\ server'[c] = server[c]
  BY <1>1, <1>3, <1>11 DEF PerSocket, Others, Still
<1>13. server[c] \notin {"idle", "upgrading", "closed"} /\ browser[c] # "new"
  BY <1>1, <1>3 DEF Viewing
<1>14. ASSUME Connected(c) PROVE Coming(browser[c], server[c], downstream'[c])
  <2>1. Coming(browser[c], server[c], downstream[c])
    BY <1>1, <1>14 DEF Viewing
  <2>2. Coming(browser[c], server[c], Append(downstream[c], m))
    BY <1>9, <1>13, <2>1, ComingAppends
  <2> QED BY <1>11, <2>1, <2>2
<1> QED BY <1>3, <1>10, <1>12, <1>13, <1>14, HandlerStep

LEMMA ViewLostStep ==
  ASSUME StreamsInv, NEW c \in Socks, ViewLost(c)
  PROVE  StreamsInv'
<1>1. PerSocket /\ Viewing(c) /\ FeedTypes /\ MaxLosses \in Nat
  BY StreamsAssumption DEF StreamsInv
<1>2. /\ PerSocket' /\ Others(c) /\ browser'[c] = browser[c] /\ server'[c] = server[c]
      /\ server[c] # "idle" /\ server[c] # "closed"
      /\ downstream'[c] = IF browser[c] = "failing" THEN downstream[c] ELSE <<Lost>>
  BY <1>1, DropAt DEF ViewLost
<1>3. losses' \in 0 .. MaxLosses
  BY <1>1 DEF ViewLost, FeedTypes, Loss
<1>4. FeedTypes' /\ UNCHANGED <<viewVars, attach, feed>>
  BY <1>1, <1>3 DEF ViewLost, FeedTypes
<1>5. ASSUME Connected(c) PROVE Coming(browser[c], server[c], downstream'[c])
  <2>1. downstream'[c] = <<Lost>> /\ Coming(browser[c], server[c], downstream[c])
    BY <1>1, <1>2, <1>5 DEF Viewing, Connected
  <2>2. Lost \in Deliveries /\ Lost \notin {Open, Refused}
    BY DeliveriesAre
  <2>3. <<Lost>> \in Seq(Deliveries) /\ \A k \in 1 .. Len(<<Lost>>) : <<Lost>>[k] = Lost
    BY <2>2
  <2> QED BY <2>1, <2>2, <2>3 DEF Coming
<1> QED BY <1>1, <1>2, <1>4, <1>5, HandlerStep DEF Viewing, viewVars

(***************************************************************************)
(* Steps of the page.                                                      *)
(***************************************************************************)

(* The last lines of a text are lines of it, in their order.                 *)
LEMMA LastLinesAre ==
  ASSUME NEW S, NEW s \in Seq(S)
  PROVE  /\ LastLines(s) \in Seq(S)
         /\ \A i \in 1 .. Len(LastLines(s)) : \E j \in 1 .. Len(s) : LastLines(s)[i] = s[j]
<1>1. Len(s) \in Nat /\ MaxText \in Nat
  BY StreamsAssumption
<1> DEFINE from == IF Len(s) > MaxText THEN Len(s) - MaxText + 1 ELSE 1
<1>2. from \in 1 .. Len(s) + 1 /\ LastLines(s) = SubSeq(s, from, Len(s))
  BY <1>1 DEF LastLines
<1> HIDE DEF from
<1>3. LastLines(s) \in Seq(S) /\ Len(LastLines(s)) = Len(s) + 1 - from
  BY <1>1, <1>2
<1>4. ASSUME NEW i \in 1 .. Len(LastLines(s)) PROVE \E j \in 1 .. Len(s) : LastLines(s)[i] = s[j]
  <2>1. i + from - 1 \in 1 .. Len(s)
    BY <1>1, <1>2, <1>3
  <2>2. LastLines(s)[i] = s[i + from - 1]
    BY <1>1, <1>2, <1>3
  <2> QED BY <2>1, <2>2
<1> QED BY <1>3, <1>4

(* Nobody is shown what comes over a socket the page has closed.             *)
LEMMA NotListening ==
  ASSUME NEW c \in Socks, Viewing(c), ~Connected(c)', server'[c] = server[c],
         attach'[c] = attach[c], feed'[c] = feed[c], browser'[c] = "new" <=> browser[c] = "new",
         browser[c] = "new" => downstream'[c] = <<>>
  PROVE  Viewing(c)'
BY DEF Viewing

LEMMA ShowTargetStep ==
  ASSUME StreamsInv, NEW c \in Socks, NEW t \in Targets, ShowTarget(c, t)
  PROVE  StreamsInv'
<1>1. /\ PerSocket /\ ViewTypes /\ FeedTypes /\ ViewPage /\ Viewing(c) /\ browser[c] = "new"
      /\ target' = t /\ viewRef' = c /\ of' = [of EXCEPT ![c] = t] /\ text' = <<>> /\ linked' = FALSE
      /\ UNCHANGED <<server, kind, feedVars>> /\ NoView \notin Socks
  BY StreamsAssumption DEF StreamsInv, ShowTarget, Unused
<1>2. ViewTypes' /\ FeedTypes'
  <2>1. FeedTypes'
    BY <1>1 DEF FeedTypes, feedVars
  <2>2. of' \in [Socks -> Targets] /\ <<>> \in Seq(Shown)
    BY <1>1 DEF ViewTypes
  <2> QED BY <1>1, <2>1, <2>2 DEF ViewTypes
<1>3. viewRef # NoView => viewRef \in Socks /\ viewRef # c
  BY <1>1 DEF ViewTypes, ViewPage
<1>4. /\ browser' \in [Socks -> {"new", "connecting", "open", "closing", "failing", "closed"}]
      /\ PerSocket'
      /\ browser'[c] = "connecting" /\ downstream'[c] = downstream[c]
      /\ \A d \in Socks \ {c} : d # viewRef => Still(d)
      /\ \A d \in Socks \ {c} : d = viewRef => /\ browser'[d] \notin {"connecting", "open"}
                                               /\ (browser'[d] = "new" <=> browser[d] = "new")
  <2>1. CASE viewRef = NoView
    BY <1>1, <2>1 DEF ShowTarget, PerSocket, Still
  <2>2. CASE viewRef # NoView
    <3>1. /\ browser' = [AfterClose(viewRef) EXCEPT ![c] = "connecting"]
          /\ upstream' = UpAfterClose(viewRef) /\ downstream' = DownAfterClose(viewRef)
      BY <2>2 DEF ShowTarget
    <3>2. /\ upstream' = [d \in Socks |-> upstream'[d]]
          /\ \A d \in Socks : d # viewRef => upstream'[d] = upstream[d]
      <4> HIDE DEF UpAfterClose
      <4> QED BY <1>1, <1>3, <2>2, <3>1, UpAfterCloseAt
    <3>3. /\ downstream' = [d \in Socks |-> downstream'[d]]
          /\ \A d \in Socks : d # viewRef => downstream'[d] = downstream[d]
      BY <1>1, <3>1 DEF DownAfterClose, PerSocket
    <3>4. /\ browser' \in [Socks -> {"new", "connecting", "open", "closing", "failing", "closed"}]
          /\ browser'[c] = "connecting" /\ \A d \in Socks \ {c} : d # viewRef => browser'[d] = browser[d]
          /\ browser'[viewRef] \notin {"connecting", "open"} /\ (browser'[viewRef] = "new" <=> browser[viewRef] = "new")
      BY <1>1, <1>3, <2>2, <3>1 DEF AfterClose, PerSocket
    <3> QED BY <1>1, <1>3, <2>2, <3>2, <3>3, <3>4 DEF PerSocket, Still
  <2> QED BY <2>1, <2>2
<1>5. Viewing(c)'
  <2>1. server'[c] = "idle" /\ downstream'[c] = <<>>
    BY <1>1, <1>4 DEF Viewing
  <2>2. Coming("connecting", "idle", <<>>)
    BY DEF Coming
  <2> QED BY <1>1, <1>4, <2>1, <2>2 DEF Viewing, feedVars
<1>6. ASSUME NEW d \in Socks \ {c} PROVE Viewing(d)'
  <2>1. Viewing(d) /\ attach' = attach /\ feed' = feed /\ server' = server
    BY <1>1 DEF StreamsInv, feedVars
  <2>2. CASE d = viewRef
    <3>1. browser[d] # "new"
      BY <1>1, <2>2 DEF ViewPage
    <3> QED BY <1>4, <2>1, <2>2, <3>1, NotListening DEF Connected
  <2>3. CASE d # viewRef
    <3>1. Still(d) /\ ~Connected(d)
      BY <1>4, <2>1, <2>3 DEF Viewing
    <3> QED BY <2>1, <3>1, ViewingStays DEF ViewStill
  <2> QED BY <2>2, <2>3
<1>7. ViewPage'
  <2>1. of'[c] = t
    BY <1>1 DEF ViewTypes
  <2> QED BY <1>1, <1>4, <2>1 DEF ViewPage, TextOfTarget, ConnectedIsTrue
<1> QED BY <1>2, <1>4, <1>5, <1>6, <1>7 DEF StreamsInv

LEMMA CleanupStep ==
  ASSUME StreamsInv, Cleanup
  PROVE  StreamsInv'
<1>1. /\ PerSocket /\ ViewTypes /\ FeedTypes /\ ViewPage /\ viewRef \in Socks /\ viewRef' = NoView
      /\ text' \in {text, <<>>} /\ linked' = FALSE /\ UNCHANGED <<server, kind, target, of, feedVars>>
      /\ NoView \notin Socks /\ browser[viewRef] # "new"
  BY StreamsAssumption DEF StreamsInv, Cleanup, ViewTypes, ViewPage
<1>2. ViewTypes' /\ FeedTypes'
  <2>1. FeedTypes'
    BY <1>1 DEF FeedTypes, feedVars
  <2>2. text \in Seq(Shown) /\ <<>> \in Seq(Shown)
    BY <1>1 DEF ViewTypes
  <2>3. text' \in Seq(Shown)
    BY <1>1, <2>2
  <2> QED BY <1>1, <2>1, <2>3 DEF ViewTypes
<1>3. /\ PerSocket' /\ Others(viewRef) /\ browser'[viewRef] \notin {"connecting", "open"}
      /\ browser'[viewRef] # "new"
  <2>1. Closing(viewRef) /\ server' = server
    BY <1>1 DEF Cleanup, Closing
  <2> QED BY <1>1, <2>1, CloseAt
<1>4. ASSUME NEW d \in Socks PROVE Viewing(d)'
  <2>1. Viewing(d) /\ attach' = attach /\ feed' = feed /\ server' = server
    BY <1>1 DEF StreamsInv, feedVars
  <2>2. CASE d = viewRef
    BY <1>1, <1>3, <2>1, <2>2, NotListening DEF Connected
  <2>3. CASE d # viewRef
    <3>1. Still(d) /\ ~Connected(d)
      BY <1>3, <2>1, <2>3 DEF Viewing, Others
    <3> QED BY <2>1, <3>1, ViewingStays DEF ViewStill
  <2> QED BY <2>2, <2>3
<1>5. ViewPage'
  BY <1>1 DEF ViewPage, TextOfTarget, ConnectedIsTrue
<1> QED BY <1>2, <1>3, <1>4, <1>5 DEF StreamsInv

LEMMA ViewOpensStep ==
  ASSUME StreamsInv, NEW c \in Socks, ViewOpens(c)
  PROVE  StreamsInv'
<1>1. /\ PerSocket /\ ViewTypes /\ FeedTypes /\ ViewPage /\ Viewing(c)
      /\ UNCHANGED <<upstream, kind, target, viewRef, of, text, feedVars>> /\ linked' = (kind = "stats")
  BY DEF StreamsInv, ViewOpens
<1>2. /\ browser' \in [Socks -> {"new", "connecting", "open", "closing", "failing", "closed"}]
      /\ server' = server /\ downstream' = [d \in Socks |-> downstream'[d]]
      /\ browser[c] = "connecting" /\ browser'[c] = "open"
      /\ downstream[c] # <<>> /\ Head(downstream[c]) = Open /\ downstream'[c] = Tail(downstream[c])
      /\ \A d \in Socks \ {c} : browser'[d] = browser[d] /\ downstream'[d] = downstream[d]
  BY <1>1, BrowserOpensAt DEF ViewOpens
<1>3. ViewTypes' /\ FeedTypes' /\ PerSocket'
  BY <1>1, <1>2 DEF ViewTypes, FeedTypes, feedVars, PerSocket
<1>4. c = viewRef /\ Coming("connecting", server[c], downstream[c])
  BY <1>1, <1>2 DEF Viewing, Connected
<1>5. Viewing(c)'
  <2>1. downstream[c] # <<Lost>>
    <3>1. Head(<<Lost>>) = Lost /\ Lost # Open
      BY DeliveriesAre
    <3> QED BY <1>2, <3>1
  <2>2. Coming("open", server[c], downstream'[c]) /\ server[c] \notin {"idle", "upgrading"}
    BY <1>2, <1>4, <2>1, ComingAdvances
  <2> QED BY <1>1, <1>2, <1>4, <2>2 DEF Viewing, feedVars
<1>6. ASSUME NEW d \in Socks \ {c} PROVE Viewing(d)'
  <2>1. Viewing(d) /\ ViewStill(d)
    BY <1>1, <1>2 DEF StreamsInv, ViewStill, Still, feedVars
  <2> QED BY <1>1, <2>1, ViewingStays
<1>7. ViewPage'
  <2>1. TextOfTarget'
    BY <1>1 DEF ViewPage, TextOfTarget
  <2>2. viewRef' # NoView /\ viewRef' = c /\ browser'[c] = "open" /\ of'[c] = target'
    BY <1>1, <1>2, <1>4, StreamsAssumption DEF ViewPage
  <2> QED BY <2>1, <2>2 DEF ViewPage, ConnectedIsTrue
<1> QED BY <1>3, <1>5, <1>6, <1>7 DEF StreamsInv

LEMMA ViewReceivesStep ==
  ASSUME StreamsInv, NEW c \in Socks, ViewReceives(c)
  PROVE  StreamsInv'
<1> DEFINE bytes == Head(downstream[c]).bytes
           more  == [i \in DOMAIN bytes |-> [sock |-> c, byte |-> bytes[i]]]
<1>1. /\ PerSocket /\ ViewTypes /\ FeedTypes /\ ViewPage /\ Viewing(c) /\ NoView \notin Socks
      /\ UNCHANGED <<browser, server, upstream, kind, target, viewRef, of, feedVars>>
      /\ linked' = (kind = "stats") /\ text' = LastLines(text \o more)
  BY StreamsAssumption DEF StreamsInv, ViewReceives
<1>2. /\ PerSocket' /\ Others(c) /\ browser[c] = "open" /\ downstream[c] # <<>>
      /\ Head(downstream[c]) \notin {Bye, Lost} /\ downstream'[c] = Tail(downstream[c])
  BY <1>1, BrowserReceivesAt DEF ViewReceives
<1>3. c = viewRef /\ Coming("open", server[c], downstream[c])
  BY <1>1, <1>2 DEF Viewing, Connected
<1>4. bytes \in Seq(Byte)
  <2>1. Head(downstream[c]) \in Deliveries /\ Head(downstream[c]) \notin {Open, Refused}
    <3>1. downstream[c] \in Seq(Deliveries) /\ 1 \in 1 .. Len(downstream[c]) /\ Head(downstream[c]) = downstream[c][1]
      BY <1>2, <1>3 DEF Coming
    <3> QED BY <3>1, <1>3 DEF Coming
  <2> QED BY <1>2, <2>1, DeliveriesAre
<1> HIDE DEF bytes
<1>5. more \in Seq(Shown) /\ \A i \in 1 .. Len(more) : more[i].sock = c
  <2>1. \A i \in 1 .. Len(bytes) : bytes[i] \in Byte
    BY <1>4
  <2>2. \A i \in 1 .. Len(bytes) : [sock |-> c, byte |-> bytes[i]] \in Shown
    BY <2>1 DEF Shown
  <2>3. more = [i \in 1 .. Len(bytes) |-> [sock |-> c, byte |-> bytes[i]]] /\ Len(bytes) \in Nat
    BY <1>4
  <2> QED BY <2>2, <2>3
<1> HIDE DEF more
<1>6. /\ text \o more \in Seq(Shown) /\ text \in Seq(Shown)
      /\ \A i \in 1 .. Len(text \o more) :
           (text \o more)[i].sock = c \/ (i \in 1 .. Len(text) /\ (text \o more)[i] = text[i])
  BY <1>1, <1>5 DEF ViewTypes
<1>7. /\ text' \in Seq(Shown)
      /\ \A i \in 1 .. Len(text') : \E j \in 1 .. Len(text \o more) : text'[i] = (text \o more)[j]
  BY <1>1, <1>6, LastLinesAre, ZenonT(60)
<1>8. of[c] = target /\ viewRef # NoView
  BY <1>1, <1>3 DEF ViewPage
<1>9. TextOfTarget'
  <2>1. ASSUME NEW i \in 1 .. Len(text') PROVE text'[i].sock = c
    <3>1. PICK j \in 1 .. Len(text \o more) : text'[i] = (text \o more)[j]
      BY <1>7
    <3>2. CASE j \in 1 .. Len(text) /\ (text \o more)[j] = text[j]
      <4>1. text[j].sock = viewRef
        BY <1>1, <1>6, <1>8, <3>2 DEF ViewPage, TextOfTarget
      <4> QED BY <1>3, <3>1, <3>2, <4>1
    <3> QED BY <1>6, <3>1, <3>2
  <2>2. DOMAIN text' = 1 .. Len(text')
    BY <1>7
  <2> QED BY <1>1, <1>3, <1>8, <2>1, <2>2 DEF TextOfTarget
<1>10. ViewTypes' /\ FeedTypes'
  BY <1>1, <1>7 DEF ViewTypes, FeedTypes, feedVars
<1>11. ViewPage'
  BY <1>1, <1>2, <1>3, <1>8, <1>9 DEF ViewPage, ConnectedIsTrue
<1>12. Viewing(c)'
  <2>1. downstream[c] # <<Lost>>
    <3>1. Head(<<Lost>>) = Lost
      OBVIOUS
    <3> QED BY <1>2, <3>1
  <2>2. Coming("open", server[c], downstream'[c]) /\ server[c] \notin {"idle", "upgrading"}
    BY <1>2, <1>3, <2>1, ComingAdvances
  <2> QED BY <1>1, <1>2, <1>3, <2>2 DEF Viewing, feedVars
<1>13. ASSUME NEW d \in Socks \ {c} PROVE Viewing(d)'
  <2>1. Viewing(d) /\ ViewStill(d)
    BY <1>1, <1>2 DEF StreamsInv, ViewStill, Others, feedVars
  <2> QED BY <1>1, <2>1, ViewingStays
<1> QED BY <1>2, <1>10, <1>11, <1>12, <1>13 DEF StreamsInv

LEMMA ViewClosesStep ==
  ASSUME StreamsInv, NEW c \in Socks, ViewCloses(c)
  PROVE  StreamsInv'
<1>1. /\ PerSocket /\ ViewTypes /\ FeedTypes /\ ViewPage /\ Viewing(c)
      /\ UNCHANGED <<kind, target, viewRef, of, text, feedVars>> /\ linked' = FALSE
  BY DEF StreamsInv, ViewCloses
<1>2. /\ PerSocket' /\ Others(c) /\ browser[c] # "new" /\ browser'[c] = "closed" /\ server'[c] = server[c]
  BY <1>1, BrowserClosesAt DEF ViewCloses
<1>3. ViewTypes' /\ FeedTypes'
  BY <1>1 DEF ViewTypes, FeedTypes, feedVars
<1>4. Viewing(c)'
  BY <1>1, <1>2, NotListening DEF Connected, feedVars
<1>5. ASSUME NEW d \in Socks \ {c} PROVE Viewing(d)'
  <2>1. Viewing(d) /\ ViewStill(d)
    BY <1>1, <1>2 DEF StreamsInv, ViewStill, Others, feedVars
  <2> QED BY <1>1, <2>1, ViewingStays
<1>6. ViewPage'
  <2>1. viewRef # NoView => browser'[viewRef] # "new"
    BY <1>1, <1>2 DEF ViewPage, ViewTypes, Others, Still
  <2> QED BY <1>1, <2>1 DEF ViewPage, TextOfTarget, ConnectedIsTrue
<1> QED BY <1>2, <1>3, <1>4, <1>5, <1>6 DEF StreamsInv

LEMMA StreamsInitOK ==
  ASSUME StreamsInit PROVE StreamsInv
<1>1. Targets # {} /\ MaxLosses \in Nat /\ \A k \in ViewKinds : Len(Wire[k]) \in Nat
  BY StreamsAssumption
<1>2. target \in Targets
  BY <1>1 DEF StreamsInit
<1>3. PerSocket
  BY DEF StreamsInit, SocketsInit, PerSocket
<1>4. ViewTypes /\ FeedTypes
  <2>1. Len(Wire[kind]) \in Nat
    BY <1>1 DEF StreamsInit
  <2>2. <<>> \in Seq(Byte) /\ <<>> \in Seq(Shown)
    OBVIOUS
  <2>3. sent \in [Socks -> 0 .. Len(Wire[kind])] /\ held \in [Socks -> Seq(Byte)]
    BY <2>1, <2>2 DEF StreamsInit
  <2>4. FeedTypes
    <3>1. /\ kind \in ViewKinds /\ cut = FALSE /\ losses = 0
          /\ attach = [c \in Socks |-> "none"] /\ feed = [c \in Socks |-> "none"]
      BY DEF StreamsInit
    <3>2. cut \in BOOLEAN
      BY <3>1, Zenon
    <3>5. losses \in 0 .. MaxLosses
      BY <1>1, <3>1
    <3>3. attach \in [Socks -> {"none", "inspect", "logs", "attached", "left"}]
      BY <3>1
    <3>4. feed \in [Socks -> {"none", "open", "ended", "destroyed"}]
      BY <3>1
    <3> QED BY <2>3, <3>1, <3>2, <3>3, <3>4, <3>5 DEF FeedTypes
  <2>5. of \in [Socks -> Targets] /\ text \in Seq(Shown)
    BY <1>2, <2>2 DEF StreamsInit
  <2> QED BY <1>2, <2>4, <2>5 DEF StreamsInit, ViewTypes
<1>5. \A c \in Socks : Viewing(c)
  BY DEF StreamsInit, SocketsInit, Viewing, Connected
<1>6. ViewPage
  BY DEF StreamsInit, ViewPage, TextOfTarget, ConnectedIsTrue
<1> QED BY <1>3, <1>4, <1>5, <1>6 DEF StreamsInv

LEMMA StreamsStep ==
  ASSUME StreamsInv, [StreamsNext]_streamVars PROVE StreamsInv'
<1>1. CASE Cleanup
  BY <1>1, CleanupStep
<1>2. ASSUME NEW c \in Socks,
             \/ \E t \in Targets : ShowTarget(c, t)
             \/ ViewOpens(c) \/ ViewReceives(c) \/ ViewCloses(c)
             \/ ViewAdmitted(c) \/ ViewRejected(c) \/ Inspected(c) \/ Attached(c) \/ AttachFailed(c)
             \/ \E n \in 1 .. Len(Wire[kind]) : Chunk(c, n)
             \/ FeedEnds(c) \/ ViewClosed(c) \/ ViewLost(c)
      PROVE  StreamsInv'
  BY <1>2, ShowTargetStep, ViewOpensStep, ViewReceivesStep, ViewClosesStep, AdmittedStep, RejectedStep,
     AttachingStep, ServerEndsStep, ChunkStep, ViewLostStep
<1>3. CASE UNCHANGED streamVars
  <2>1. UNCHANGED <<browser, server, upstream, downstream, kind, viewVars, attach, feed, sent, held, cut, losses>>
    BY <1>3 DEF streamVars, sockVars, feedVars
  <2> QED BY <2>1 DEF StreamsInv, PerSocket, ViewTypes, FeedTypes, Viewing, Connected, ViewPage, TextOfTarget,
                      ConnectedIsTrue, viewVars
<1> QED BY <1>1, <1>2, <1>3 DEF StreamsNext

THEOREM StreamsInvariant == StreamsSpec => []StreamsInv
<1> QED BY StreamsInitOK, StreamsStep, PTL DEF StreamsSpec

THEOREM StreamsView == StreamsSpec => []ViewIsOfTarget
<1>1. StreamsInv => ViewIsOfTarget
  BY DEF StreamsInv, ViewPage, Viewing, ViewIsOfTarget, NoFeedWithoutSocket
<1> QED BY <1>1, StreamsInvariant, PTL

(***************************************************************************)
(* Where the units of what Docker sends begin and end.                     *)
(***************************************************************************)
Edge(k, e) == e \in 0 .. Len(Wire[k]) /\ (e = 0 \/ Wire[k][e].at = Extent(k, Wire[k][e]))

(* The x bytes behind the byte s are a unit, and the byte i is one of them.  *)
IsUnit(k, s, x) ==
  /\ s \in Nat /\ x \in Nat \ {0} /\ s + x <= Len(Wire[k])
  /\ \A j \in 1 .. x : /\ Wire[k][s + j].at = j /\ Wire[k][s + j].size = Wire[k][s + 1].size
                       /\ Extent(k, Wire[k][s + j]) = x
InUnit(k, i, s, x) ==
  /\ IsUnit(k, s, x)
  /\ s < i /\ i <= s + x /\ i = s + Wire[k][i].at /\ x = Extent(k, Wire[k][i])

LEMMA UnitOf ==
  ASSUME NEW k \in ViewKinds, NEW i \in 1 .. Len(Wire[k])
  PROVE  \E s \in Nat, x \in Nat : InUnit(k, i, s, x)
<1> DEFINE w == Wire[k]
           b == w[i]
           x == Extent(k, b)
           s == i - b.at
<1>1. w \in Seq(Byte) /\ Len(w) \in Nat /\ DOMAIN w = 1 .. Len(w)
  BY StreamsAssumption
<1>2. b \in Byte
  BY <1>1
<1>3. x \in Nat
  <2>1. b.size \in Nat /\ HeaderLen \in Nat
    BY <1>2, StreamsAssumption DEF Byte
  <2> HIDE DEF b
  <2>2. HeaderLen + b.size \in Nat /\ b.size + 1 \in Nat
    BY <2>1
  <2>3. k = "logs" \/ k = "stats" \/ k = "tty"
    BY DEF ViewKinds
  <2> QED BY <2>1, <2>2, <2>3 DEF Extent
<1>4. b.at \in 1 .. x /\ b.at <= i /\ s + x <= Len(w) /\ \A j \in 1 .. x : w[s + j] = [b EXCEPT !.at = j]
  BY <1>1, WireAssumption
<1>5. b.at \in Nat /\ s \in Nat /\ i = s + b.at /\ s < i /\ i <= s + x /\ x # 0
  <2>1. b.at \in Nat /\ b.at \in 1 .. x /\ b.at <= i /\ i \in Nat
    BY <1>2, <1>4 DEF Byte
  <2> HIDE DEF b, x
  <2> QED BY <1>3, <2>1
<1>6. ASSUME NEW j \in 1 .. x PROVE w[s + j].at = j /\ w[s + j].size = b.size /\ Extent(k, w[s + j]) = x
  <2>1. w[s + j] = [b EXCEPT !.at = j]
    BY <1>4
  <2>2. w[s + j].at = j /\ w[s + j].size = b.size
    BY <1>2, <2>1 DEF Byte
  <2> QED BY <2>2 DEF Extent
<1>7. 1 \in 1 .. x
  <2> HIDE DEF x
  <2> QED BY <1>3, <1>5
<1>8. s + x <= Len(w) /\ x = Extent(k, b)
  BY <1>4
<1> HIDE DEF s, x
<1>9. IsUnit(k, s, x)
  BY <1>3, <1>5, <1>6, <1>7, <1>8 DEF IsUnit
<1> QED BY <1>3, <1>5, <1>8, <1>9 DEF InUnit

(* An edge is not inside of a unit.                                          *)
LEMMA EdgesApart ==
  ASSUME NEW k, NEW s, NEW x, IsUnit(k, s, x), NEW e \in Nat, Edge(k, e)
  PROVE  e <= s \/ e >= s + x
<1>1. SUFFICES ASSUME s < e, e < s + x PROVE FALSE
  BY DEF IsUnit
<1>2. e - s \in 1 .. x /\ s + (e - s) = e /\ e - s # x /\ e # 0
  BY <1>1 DEF IsUnit
<1>3. Wire[k][s + (e - s)].at = e - s /\ Extent(k, Wire[k][s + (e - s)]) = x
  BY <1>2 DEF IsUnit
<1>4. Wire[k][e].at = Extent(k, Wire[k][e])
  BY <1>2 DEF Edge
<1> QED BY <1>2, <1>3, <1>4

(* Behind an edge a unit begins, and it ends at the next edge.               *)
UnitFrom(k, e, x) ==
  IsUnit(k, e, x) /\ Edge(k, e + x) /\ \A f \in e + 1 .. e + x - 1 : ~Edge(k, f)

LEMMA UnitAt ==
  ASSUME NEW k \in ViewKinds, NEW e \in Nat, Edge(k, e), e < Len(Wire[k])
  PROVE  \E x \in Nat : UnitFrom(k, e, x)
<1>1. e + 1 \in 1 .. Len(Wire[k]) /\ Len(Wire[k]) \in Nat
  BY StreamsAssumption
<1>2. PICK s \in Nat, x \in Nat : InUnit(k, e + 1, s, x)
  BY <1>1, UnitOf
<1>3. IsUnit(k, s, x) /\ s < e + 1 /\ e + 1 <= s + x
  BY <1>2 DEF InUnit
<1>4. e <= s \/ e >= s + x
  BY <1>3, EdgesApart
<1>5. s = e
  BY <1>3, <1>4
<1>6. IsUnit(k, e, x)
  BY <1>3, <1>5
<1>7. x \in Nat \ {0} /\ e + x <= Len(Wire[k])
  BY <1>6 DEF IsUnit
<1>8. Edge(k, e + x)
  <2>1. x \in 1 .. x /\ e + x \in 0 .. Len(Wire[k])
    BY <1>1, <1>7
  <2>2. Wire[k][e + x].at = x /\ Extent(k, Wire[k][e + x]) = x
    BY <1>6, <2>1 DEF IsUnit
  <2> QED BY <2>1, <2>2 DEF Edge
<1>9. ASSUME NEW f \in e + 1 .. e + x - 1 PROVE ~Edge(k, f)
  <2>1. f \in Nat /\ e < f /\ f < e + x
    BY <1>7
  <2>2. SUFFICES ASSUME Edge(k, f) PROVE FALSE
    OBVIOUS
  <2>3. f <= e \/ f >= e + x
    BY <1>6, <2>1, <2>2, EdgesApart
  <2> QED BY <1>7, <2>1, <2>3
<1> QED BY <1>6, <1>8, <1>9 DEF UnitFrom

(* A stream ends with a unit.                                                *)
LEMMA LastEdge == ASSUME NEW k \in ViewKinds PROVE Edge(k, Len(Wire[k]))
<1> DEFINE L == Len(Wire[k])
<1>1. L \in Nat
  BY StreamsAssumption
<1>2. CASE L = 0
  BY <1>2 DEF Edge
<1>3. CASE L # 0
  <2>1. L \in 1 .. L
    BY <1>1, <1>3
  <2>2. PICK s \in Nat, x \in Nat : InUnit(k, L, s, x)
    BY <2>1, UnitOf
  <2>3. s < L /\ L <= s + x /\ s + x <= L /\ L = s + Wire[k][L].at /\ x = Extent(k, Wire[k][L])
    BY <2>2 DEF InUnit, IsUnit
  <2>4. Wire[k][L].at \in Nat
    <3>1. Wire[k] \in Seq(Byte)
      BY StreamsAssumption
    <3>2. Wire[k][L] \in Byte
      BY <2>1, <3>1
    <3> QED BY <3>2 DEF Byte
  <2> DEFINE a == Wire[k][L].at
  <2>5. a \in Nat /\ L = s + a /\ L <= s + x /\ s + x <= L
    BY <2>3, <2>4
  <2> HIDE DEF a, L
  <2>6. a = x
    BY <1>1, <2>5
  <2> QED BY <1>1, <2>1, <2>3, <2>6 DEF Edge, a, L
<1> QED BY <1>2, <1>3

(* The edge p is the last one up to q; a terminal's bytes need no edge.      *)
Ends(k, p, q) ==
  /\ p \in 0 .. q
  /\ IF k = "tty" THEN p = q ELSE Edge(k, p) /\ \A f \in p + 1 .. q : ~Edge(k, f)

LEMMA OneEnd ==
  ASSUME NEW k, NEW p, NEW g, NEW q \in Nat, Ends(k, p, q), Ends(k, g, q)
  PROVE  p = g
<1>1. p \in 0 .. q /\ g \in 0 .. q
  BY DEF Ends
<1>2. CASE k = "tty"
  BY <1>2 DEF Ends
<1>3. CASE k # "tty"
  BY <1>1, <1>3 DEF Ends
<1> QED BY <1>2, <1>3

(* What is cut out of Docker's bytes.                                        *)
LEMMA CutOut ==
  ASSUME NEW k \in ViewKinds, NEW p \in Nat, NEW q \in p .. Len(Wire[k])
  PROVE  /\ SubSeq(Wire[k], p + 1, q) \in Seq(Byte) /\ Len(SubSeq(Wire[k], p + 1, q)) = q - p
         /\ \A i \in 1 .. q - p : SubSeq(Wire[k], p + 1, q)[i] = Wire[k][p + i]
<1>1. Wire[k] \in Seq(Byte) /\ Len(Wire[k]) \in Nat /\ q \in Nat
  BY StreamsAssumption
<1> QED BY <1>1

LEMMA PutTogether ==
  ASSUME NEW k \in ViewKinds, NEW p \in Nat, NEW g \in Nat, NEW q \in Nat, p <= g, g <= q, q <= Len(Wire[k])
  PROVE  SubSeq(Wire[k], p + 1, g) \o SubSeq(Wire[k], g + 1, q) = SubSeq(Wire[k], p + 1, q)
<1> DEFINE a == SubSeq(Wire[k], p + 1, g)
           b == SubSeq(Wire[k], g + 1, q)
           z == SubSeq(Wire[k], p + 1, q)
<1>1. g \in p .. Len(Wire[k]) /\ q \in g .. Len(Wire[k]) /\ q \in p .. Len(Wire[k])
  BY StreamsAssumption
<1>2. a \in Seq(Byte) /\ Len(a) = g - p /\ \A i \in 1 .. g - p : a[i] = Wire[k][p + i]
  BY <1>1, CutOut
<1>3. b \in Seq(Byte) /\ Len(b) = q - g /\ \A i \in 1 .. q - g : b[i] = Wire[k][g + i]
  BY <1>1, CutOut
<1>4. z \in Seq(Byte) /\ Len(z) = q - p /\ \A i \in 1 .. q - p : z[i] = Wire[k][p + i]
  BY <1>1, CutOut
<1> HIDE DEF a, b, z
<1>5. a \o b \in Seq(Byte) /\ Len(a \o b) = q - p
  <2>1. a \o b \in Seq(Byte) /\ Len(a \o b) = Len(a) + Len(b)
    BY <1>2, <1>3, ConcatProperties, ZenonT(30)
  <2> QED BY <1>2, <1>3, <2>1
<1>6. ASSUME NEW i \in 1 .. q - p PROVE (a \o b)[i] = z[i]
  <2>1. CASE i <= g - p
    <3>1. i \in 1 .. Len(a) + Len(b) /\ i <= Len(a) /\ i \in 1 .. g - p
      BY <1>2, <1>3, <2>1
    <3>2. (a \o b)[i] = a[i]
      BY <1>2, <1>3, <3>1, ConcatProperties, SMTT(30)
    <3> QED BY <1>2, <1>4, <3>1, <3>2
  <2>2. CASE i > g - p
    <3>1. i - (g - p) \in 1 .. q - g /\ g + (i - (g - p)) = p + i
      BY <2>2
    <3>2. (a \o b)[i] = b[i - (g - p)]
      <4>1. i \in 1 .. Len(a) + Len(b) /\ ~(i <= Len(a))
        BY <1>2, <1>3, <2>2
      <4> QED BY <1>2, <1>3, <4>1, ConcatProperties, SMTT(30)
    <3>3. b[i - (g - p)] = Wire[k][g + (i - (g - p))]
      BY <1>3, <3>1
    <3> QED BY <1>4, <3>1, <3>2, <3>3
  <2>3. i <= g - p \/ i > g - p
    OBVIOUS
  <2> QED BY <2>1, <2>2, <2>3, Zenon
<1> QED BY <1>4, <1>5, <1>6, SeqEqual, SMTT(30)

(* LogDemuxer stops where the last frame ends that is whole.                 *)
LEMMA FramesStop ==
  ASSUME NEW p \in Nat, Edge("logs", p), NEW q \in p .. Len(Wire["logs"]), NEW all \in BOOLEAN
  PROVE  \E g \in p .. q :
           /\ Ends("logs", g, q)
           /\ FrameEnds(SubSeq(Wire["logs"], p + 1, q), all)[0] \in {g - p, IF all THEN q - p ELSE g - p}
<1> DEFINE W == Wire["logs"]
           b == SubSeq(W, p + 1, q)
           F == FrameEnds(b, all)
           L == q - p
           T == {o \in 0 .. L : Edge("logs", p + o) /\ F[0] = F[o]}
<1>1. "logs" \in ViewKinds /\ q \in Nat /\ L \in Nat /\ Len(W) \in Nat
  BY StreamsAssumption DEF ViewKinds
<1>2. b \in Seq(Byte) /\ Len(b) = L /\ \A i \in 1 .. L : b[i] = W[p + i]
  BY <1>1, CutOut
<1> HIDE DEF b, W
<1>3. \A o \in 0 .. L : F[o] = EndFrom(b, all, F, o)
  BY <1>2, FrameEndsAre
<1> HIDE DEF F, L
<1>4. PICK o \in T : \A y \in T : y <= o
  <2>1. T \subseteq 0 .. L /\ 0 \in T
    BY <1>1
  <2> HIDE DEF T
  <2> QED BY <1>1, <2>1, Greatest
<1>5. o \in 0 .. L /\ Edge("logs", p + o) /\ F[0] = F[o] /\ F[o] = EndFrom(b, all, F, o) /\ o \in Nat
  BY <1>1, <1>3, <1>4
<1>6. p + o \in p .. q /\ (p + o) - p = o
  BY <1>1, <1>5 DEF L
<1>7. HeaderLen \in Nat \ {0}
  BY StreamsAssumption
<1>8. CASE o = L
  <2>1. ~(o + HeaderLen <= Len(b))
    BY <1>2, <1>5, <1>7, <1>8
  <2>2. F[o] = o
    BY <1>5, <2>1 DEF EndFrom
  <2>3. Ends("logs", p + o, q)
    <3>1. p + o = q
      BY <1>1, <1>8 DEF L
    <3> QED BY <1>1, <1>5, <3>1 DEF Ends
  <2> QED BY <1>5, <1>6, <2>2, <2>3 DEF F, b, W
<1>9. CASE o # L
  <2>1. p + o \in Nat /\ p + o < Len(W) /\ p + o < q
    BY <1>1, <1>5, <1>9 DEF L, W
  <2>a. PICK x \in Nat : UnitFrom("logs", p + o, x)
    BY <1>1, <1>5, <2>1, UnitAt DEF W
  <2>2. /\ x # 0 /\ Edge("logs", (p + o) + x) /\ \A f \in (p + o) + 1 .. (p + o) + x - 1 : ~Edge("logs", f)
        /\ \A j \in 1 .. x : /\ W[(p + o) + j].at = j /\ W[(p + o) + j].size = W[p + o + 1].size
                             /\ Extent("logs", W[(p + o) + j]) = x
    BY <2>a DEF UnitFrom, IsUnit, W
  <2>3. x = HeaderLen + W[p + o + 1].size /\ W[p + o + 1].size \in Nat
    <3>1. 1 \in 1 .. x /\ p + o + 1 \in 1 .. Len(W)
      BY <1>1, <2>1, <2>2
    <3>2. W[p + o + 1] \in Byte
      BY <1>1, <3>1, StreamsAssumption DEF W
    <3>3. Extent("logs", W[p + o + 1]) = x
      BY <2>2, <3>1
    <3> QED BY <3>2, <3>3 DEF Extent, Byte
  <2>4. ASSUME o + HeaderLen <= L PROVE NextFrame(b, o) = o + x
    <3>1. HeaderLen \in 1 .. x /\ o + HeaderLen \in 1 .. L
      BY <1>1, <1>5, <1>7, <2>3, <2>4
    <3>2. b[o + HeaderLen] = W[(p + o) + HeaderLen]
      <4>1. p + (o + HeaderLen) = (p + o) + HeaderLen
        BY <1>5, <1>7
      <4> QED BY <1>2, <3>1, <4>1
    <3>3. SizeAt(b, o) = W[p + o + 1].size
      BY <2>2, <3>1, <3>2 DEF SizeAt
    <3> QED BY <1>5, <1>7, <2>3, <3>3 DEF NextFrame
  <2>5. ~(o + x <= L /\ F[o] = F[o + x])
    <3>1. SUFFICES ASSUME o + x <= L, F[o] = F[o + x] PROVE FALSE
      OBVIOUS
    <3>2. o + x \in 0 .. L /\ (p + o) + x = p + (o + x)
      BY <1>1, <1>5, <2>2, <3>1
    <3>3. o + x \in T
      BY <1>5, <2>2, <3>1, <3>2
    <3>4. o + x <= o
      BY <1>4, <3>3
    <3> QED BY <1>5, <2>2, <3>4
  <2>6. ~(o + x <= L)
    <3>1. SUFFICES ASSUME o + x <= L PROVE FALSE
      OBVIOUS
    <3>2. o + HeaderLen <= L
      <4> DEFINE z == W[p + o + 1].size
      <4>1. x = HeaderLen + z /\ z \in Nat
        BY <2>3
      <4> HIDE DEF z
      <4> QED BY <1>1, <1>5, <1>7, <3>1, <4>1
    <3>3. NextFrame(b, o) = o + x
      BY <2>4, <3>2
    <3>4. F[o] = F[o + x]
      BY <1>2, <1>5, <3>1, <3>2, <3>3 DEF EndFrom
    <3> QED BY <2>5, <3>1, <3>4
  <2>7. F[o] \in {o, IF all THEN L ELSE o}
    BY <1>2, <1>5, <2>4, <2>6 DEF EndFrom
  <2>8. Ends("logs", p + o, q)
    <3>1. p + o \in 0 .. q /\ q < (p + o) + x
      BY <1>1, <1>5, <2>1, <2>2, <2>6 DEF L
    <3>2. \A f \in (p + o) + 1 .. q : f \in (p + o) + 1 .. (p + o) + x - 1
      BY <1>1, <1>5, <2>2, <3>1
    <3> QED BY <1>5, <2>2, <3>1, <3>2 DEF Ends
  <2> QED BY <1>5, <1>6, <2>7, <2>8 DEF F, b, W, L
<1> QED BY <1>8, <1>9

(* handleStats stops at the last newline.                                    *)
LEMMA LinesStop ==
  ASSUME NEW p \in Nat, Edge("stats", p), NEW q \in p .. Len(Wire["stats"])
  PROVE  \E g \in p .. q : Ends("stats", g, q) /\ LinesEnd(SubSeq(Wire["stats"], p + 1, q)) = g - p
<1> DEFINE W == Wire["stats"]
           b == SubSeq(W, p + 1, q)
           L == q - p
           ends == {i \in 1 .. Len(b) : b[i].at > b[i].size}
<1>1. "stats" \in ViewKinds /\ q \in Nat /\ L \in Nat /\ Len(W) \in Nat
  BY StreamsAssumption DEF ViewKinds
<1>2. b \in Seq(Byte) /\ Len(b) = L /\ \A i \in 1 .. L : b[i] = W[p + i]
  BY <1>1, CutOut, Zenon
<1>3. ASSUME NEW i \in 1 .. L PROVE b[i].at > b[i].size <=> Edge("stats", p + i)
  <2>1. p + i \in 1 .. Len(W) /\ b[i] = W[p + i]
    <3>1. b[i] = W[p + i]
      BY <1>2
    <3> HIDE DEF b
    <3>2. p + i \in 1 .. Len(W)
      BY <1>1
    <3> QED BY <3>1, <3>2
  <2>2. W[p + i] \in Byte
    BY <1>1, <2>1, StreamsAssumption
  <2>0. PICK s \in Nat, x \in Nat : InUnit("stats", p + i, s, x)
    BY <1>1, <2>1, UnitOf
  <2>3. p + i = s + W[p + i].at /\ p + i <= s + x /\ x = Extent("stats", W[p + i])
    BY <2>0 DEF InUnit
  <2>4. x = W[p + i].size + 1 /\ W[p + i].at \in Nat /\ W[p + i].size \in Nat /\ W[p + i].at <= x
    <3>1. x = W[p + i].size + 1
      BY <2>3 DEF Extent
    <3>2. W[p + i].at \in Nat /\ W[p + i].size \in Nat
      BY <2>2 DEF Byte
    <3> DEFINE a == W[p + i].at
               r == p + i
    <3>3. r = s + a /\ r <= s + x /\ a \in Nat
      BY <2>3, <3>2
    <3> HIDE DEF a, r
    <3>4. a <= x
      BY <3>3
    <3> QED BY <3>1, <3>2, <3>4 DEF a
  <2>5. Edge("stats", p + i) <=> W[p + i].at = x
    <3>1. p + i # 0 /\ p + i \in 0 .. Len(W)
      BY <1>1, <2>1
    <3>2. x = Extent("stats", W[p + i])
      BY <2>3
    <3> DEFINE r == p + i
    <3> HIDE DEF r, W
    <3> QED BY <3>1, <3>2 DEF Edge, W
  <2>6. b[i].at = W[p + i].at /\ b[i].size = W[p + i].size
    BY <2>1
  <2> DEFINE u == W[p + i].at
             v == W[p + i].size
  <2>7. u \in Nat /\ v \in Nat /\ x = v + 1 /\ u <= x
    BY <2>4
  <2> HIDE DEF u, v
  <2>8. u > v <=> u = x
    BY <2>7
  <2> QED BY <2>5, <2>6, <2>8, Zenon DEF u, v
<1>4. LinesEnd(b) = IF ends = {} THEN 0 ELSE CHOOSE i \in ends : \A j \in ends : j <= i
  BY DEF LinesEnd
<1> HIDE DEF b, W
<1>5. \A i : i \in ends <=> i \in 1 .. L /\ Edge("stats", p + i)
  BY <1>2, <1>3
<1> HIDE DEF L, ends
<1>6. CASE ends = {}
  <2>1. \A f \in p + 1 .. q : ~Edge("stats", f)
    <3>1. SUFFICES ASSUME NEW f \in p + 1 .. q, Edge("stats", f) PROVE FALSE
      OBVIOUS
    <3>2. f - p \in 1 .. L /\ p + (f - p) = f
      BY <1>1 DEF L
    <3> QED BY <1>5, <1>6, <3>1, <3>2
  <2>2. Ends("stats", p, q) /\ p \in p .. q /\ p - p = 0
    BY <1>1, <2>1 DEF Ends
  <2>3. LinesEnd(b) = 0
    BY <1>4, <1>6
  <2> QED BY <2>2, <2>3 DEF b, W
<1>7. CASE ends # {}
  <2>1. ends \subseteq 0 .. L
    BY <1>1, <1>5
  <2>2. \E i \in ends : \A j \in ends : j <= i
    BY <1>1, <1>7, <2>1, Greatest
  <2>3. LinesEnd(b) \in ends /\ \A j \in ends : j <= LinesEnd(b)
    BY <1>4, <1>7, <2>2
  <2> DEFINE g == p + LinesEnd(b)
  <2>4. LinesEnd(b) \in 1 .. L /\ Edge("stats", g)
    BY <1>5, <2>3
  <2>5. g \in p .. q /\ g - p = LinesEnd(b)
    BY <1>1, <2>4 DEF L
  <2>6. \A f \in g + 1 .. q : ~Edge("stats", f)
    <3>1. SUFFICES ASSUME NEW f \in g + 1 .. q, Edge("stats", f) PROVE FALSE
      OBVIOUS
    <3>2. f - p \in 1 .. L /\ p + (f - p) = f /\ f - p > LinesEnd(b)
      BY <1>1, <2>4 DEF L
    <3>3. f - p \in ends
      BY <1>5, <3>1, <3>2
    <3> QED BY <1>1, <2>3, <2>4, <3>2, <3>3
  <2>7. Ends("stats", g, q)
    BY <1>1, <2>4, <2>5, <2>6 DEF Ends
  <2> QED BY <2>5, <2>7 DEF b, W
<1> QED BY <1>6, <1>7

(* What is shown of whole units.                                             *)
Plain(s) == IF kind = "logs" THEN Bodies(s) ELSE s

(* Of what Docker sends from p to q, the bytes up to g are passed on.        *)
CutAt(p, g, q) ==
  LET b == SubSeq(Wire[kind], p + 1, q)
  IN  /\ Ends(kind, g, q) /\ Kept(b) = SubSeq(Wire[kind], g + 1, q)
      /\ Passed(b) = Plain(SubSeq(Wire[kind], p + 1, g))

(* From an edge on, the listener passes on the units that are whole and      *)
(* keeps the rest.                                                           *)
LEMMA KeptIsRest ==
  ASSUME kind \in ViewKinds, NEW p \in Nat, kind = "tty" \/ Edge(kind, p), NEW q \in p .. Len(Wire[kind])
  PROVE  \E g \in p .. q : CutAt(p, g, q)
<1> DEFINE W == Wire[kind]
           b == SubSeq(W, p + 1, q)
           end == CASE kind = "logs"  -> FramesEnd(b)
                    [] kind = "stats" -> LinesEnd(b)
                    [] kind = "tty"   -> Len(b)
<1>1. q \in Nat /\ Len(W) \in Nat /\ W \in Seq(Byte)
  BY StreamsAssumption
<1>2. b \in Seq(Byte) /\ Len(b) = q - p /\ \A i \in 1 .. q - p : b[i] = W[p + i]
  BY CutOut
<1>3. Kept(b) = SubSeq(b, end + 1, Len(b))
  BY DEF Kept
<1>4. PICK g \in p .. q : Ends(kind, g, q) /\ end = g - p
  <2>1. CASE kind = "logs"
    <3>1. PICK g \in p .. q : Ends("logs", g, q) /\ FrameEnds(b, FALSE)[0] = g - p
      BY <2>1, FramesStop
    <3>2. FramesEnd(b) = FrameEnds(b, FALSE)[0]
      BY <1>2, FrameEndsAre
    <3> QED BY <2>1, <3>1, <3>2
  <2>2. CASE kind = "stats"
    BY <2>2, LinesStop
  <2>3. CASE kind = "tty"
    <3>1. Ends(kind, q, q) /\ q \in p .. q /\ end = q - p
      BY <1>1, <1>2, <2>3 DEF Ends
    <3> QED BY <3>1
  <2> QED BY <2>1, <2>2, <2>3 DEF ViewKinds
<1> HIDE DEF end, b, W
<1>5. g \in Nat /\ g - p \in 0 .. q - p /\ Len(b) - (q - g) = g - p
  BY <1>1, <1>2
<1>6. SubSeq(b, (g - p) + 1, q - p) = SubSeq(W, g + 1, q)
  <2> DEFINE x == SubSeq(b, (g - p) + 1, q - p)
             y == SubSeq(W, g + 1, q)
  <2>1. x \in Seq(Byte) /\ Len(x) = q - g /\ \A i \in 1 .. q - g : x[i] = b[(g - p) + i]
    BY <1>1, <1>2, <1>5
  <2>2. y \in Seq(Byte) /\ Len(y) = q - g /\ \A i \in 1 .. q - g : y[i] = W[g + i]
    BY <1>1, CutOut DEF W
  <2>3. ASSUME NEW i \in 1 .. q - g PROVE x[i] = y[i]
    <3>1. (g - p) + i \in 1 .. q - p /\ p + ((g - p) + i) = g + i
      BY <1>1, <1>5
    <3> QED BY <1>2, <2>1, <2>2, <3>1
  <2> HIDE DEF x, y
  <2>4. Len(x) = Len(y) /\ \A i \in 1 .. Len(x) : x[i] = y[i]
    BY <2>1, <2>2, <2>3
  <2>5. x = y
    BY <2>1, <2>2, <2>4, SeqEqual
  <2> QED BY <2>5 DEF x, y
<1>7. SubSeq(b, 1, g - p) = SubSeq(W, p + 1, g)
  <2> DEFINE x == SubSeq(b, 1, g - p)
             y == SubSeq(W, p + 1, g)
  <2>1. x \in Seq(Byte) /\ Len(x) = g - p /\ \A i \in 1 .. g - p : x[i] = b[i]
    BY <1>1, <1>2, <1>5
  <2>2. y \in Seq(Byte) /\ Len(y) = g - p /\ \A i \in 1 .. g - p : y[i] = W[p + i]
    BY <1>1, CutOut DEF W
  <2>3. ASSUME NEW i \in 1 .. g - p PROVE x[i] = y[i]
    BY <1>1, <1>2, <1>5, <2>1, <2>2
  <2> HIDE DEF x, y
  <2>4. Len(x) = Len(y) /\ \A i \in 1 .. Len(x) : x[i] = y[i]
    BY <2>1, <2>2, <2>3
  <2>5. x = y
    BY <2>1, <2>2, <2>4, SeqEqual
  <2> QED BY <2>5 DEF x, y
<1>8. Kept(b) = SubSeq(W, g + 1, q)
  BY <1>2, <1>3, <1>4, <1>6
<1>9. Len(Kept(b)) = q - g
  BY <1>1, <1>8, CutOut DEF W
<1>10. Passed(b) = Plain(SubSeq(b, 1, g - p))
  BY <1>5, <1>9 DEF Passed, Plain
<1>11. CutAt(p, g, q)
  BY <1>4, <1>7, <1>8, <1>10 DEF CutAt, b, W
<1> QED BY <1>11

LEMMA BodiesConcat ==
  ASSUME NEW x \in Seq(Byte), NEW y \in Seq(Byte)
  PROVE  Bodies(x \o y) = Bodies(x) \o Bodies(y)
<1> DEFINE z == x \o y
           X == BodiesTo(x)
           Y == BodiesTo(y)
           Z == BodiesTo(z)
           S == {i \in 0 .. Len(x) : Z[i] = X[i]}
           T == {j \in 0 .. Len(y) : Z[Len(x) + j] = X[Len(x)] \o Y[j]}
<1>1. /\ z \in Seq(Byte) /\ Len(z) = Len(x) + Len(y)
      /\ \A i \in 1 .. Len(x) + Len(y) : z[i] = IF i <= Len(x) THEN x[i] ELSE y[i - Len(x)]
  BY ConcatProperties
<1>2. Len(x) \in Nat /\ Len(y) \in Nat
  OBVIOUS
<1> HIDE DEF z
<1>3. /\ Bodies(x) = X[Len(x)] /\ X[0] = <<>> /\ \A i \in 0 .. Len(x) : X[i] \in Seq(Byte)
      /\ \A i \in 1 .. Len(x) : X[i] = IF IsBody(x[i]) THEN Append(X[i - 1], x[i]) ELSE X[i - 1]
  BY BodiesToAre, BodiesAreBytes
<1>4. /\ Bodies(y) = Y[Len(y)] /\ Y[0] = <<>> /\ \A i \in 0 .. Len(y) : Y[i] \in Seq(Byte)
      /\ \A i \in 1 .. Len(y) : Y[i] = IF IsBody(y[i]) THEN Append(Y[i - 1], y[i]) ELSE Y[i - 1]
  BY BodiesToAre, BodiesAreBytes
<1>5. /\ Bodies(z) = Z[Len(z)] /\ Z[0] = <<>>
      /\ \A i \in 1 .. Len(z) : Z[i] = IF IsBody(z[i]) THEN Append(Z[i - 1], z[i]) ELSE Z[i - 1]
  BY <1>1, BodiesToAre
<1> HIDE DEF X, Y, Z
<1>6. Z[Len(x)] = X[Len(x)]
  <2>1. 0 \in S
    BY <1>2, <1>3, <1>5
  <2>2. ASSUME NEW k \in 0 .. Len(x) - 1, k \in S PROVE k + 1 \in S
    <3>1. k + 1 \in 1 .. Len(x) /\ k + 1 \in 1 .. Len(z) /\ (k + 1) - 1 = k /\ k + 1 \in 0 .. Len(x)
      BY <1>1, <1>2
    <3>2. z[k + 1] = x[k + 1]
      BY <1>1, <1>2, <3>1
    <3>3. X[k + 1] = IF IsBody(x[k + 1]) THEN Append(X[k], x[k + 1]) ELSE X[k]
      BY <1>3, <3>1
    <3>4. Z[k + 1] = IF IsBody(z[k + 1]) THEN Append(Z[k], z[k + 1]) ELSE Z[k]
      BY <1>5, <3>1
    <3>5. Z[k] = X[k]
      BY <2>2
    <3> QED BY <3>1, <3>2, <3>3, <3>4, <3>5
  <2>3. \A k \in 0 .. Len(x) - 1 : k \in S => k + 1 \in S
    BY <2>2
  <2> HIDE DEF S
  <2>4. \A k \in 0 .. Len(x) : k \in S
    BY <1>2, <2>1, <2>3, UpTo
  <2>5. Len(x) \in S
    BY <1>2, <2>4
  <2> QED BY <2>5 DEF S
<1>7. Z[Len(x) + Len(y)] = X[Len(x)] \o Y[Len(y)]
  <2>0. X[Len(x)] \in Seq(Byte)
    BY <1>2, <1>3
  <2>1. 0 \in T
    <3>1. X[Len(x)] \o <<>> = X[Len(x)]
      BY <2>0, ConcatEmptySeq
    <3>2. Len(x) + 0 = Len(x) /\ 0 \in 0 .. Len(y)
      BY <1>2
    <3>3. Z[Len(x) + 0] = X[Len(x)] \o Y[0]
      BY <1>4, <1>6, <3>1, <3>2
    <3> QED BY <3>2, <3>3
  <2>2. ASSUME NEW k \in 0 .. Len(y) - 1, k \in T PROVE k + 1 \in T
    <3>1. /\ k + 1 \in 1 .. Len(y) /\ Len(x) + (k + 1) \in 1 .. Len(z) /\ (Len(x) + (k + 1)) - 1 = Len(x) + k
          /\ (k + 1) - 1 = k /\ k + 1 \in 0 .. Len(y) /\ k \in 0 .. Len(y)
          /\ Len(x) + (k + 1) > Len(x) /\ (Len(x) + (k + 1)) - Len(x) = k + 1
      BY <1>1, <1>2
    <3>2. z[Len(x) + (k + 1)] = y[k + 1]
      BY <1>1, <1>2, <3>1
    <3>3. Y[k + 1] = IF IsBody(y[k + 1]) THEN Append(Y[k], y[k + 1]) ELSE Y[k]
      BY <1>4, <3>1
    <3>4. Z[Len(x) + (k + 1)] = IF IsBody(z[Len(x) + (k + 1)]) THEN Append(Z[Len(x) + k], z[Len(x) + (k + 1)]) ELSE Z[Len(x) + k]
      BY <1>5, <3>1
    <3>5. Z[Len(x) + k] = X[Len(x)] \o Y[k] /\ Y[k] \in Seq(Byte) /\ y[k + 1] \in Byte
      <4>1. y[k + 1] \in Byte
        BY <3>1
      <4>2. Y[k] \in Seq(Byte)
        BY <1>4, <3>1
      <4> QED BY <2>2, <4>1, <4>2
    <3>6. Append(X[Len(x)] \o Y[k], y[k + 1]) = X[Len(x)] \o Append(Y[k], y[k + 1])
      <4> DEFINE a == X[Len(x)]
                 b == Y[k]
                 e == y[k + 1]
      <4>1. a \in Seq(Byte) /\ b \in Seq(Byte) /\ e \in Byte /\ <<e>> \in Seq(Byte)
        BY <2>0, <3>5
      <4> HIDE DEF a, b, e
      <4>2. a \o b \in Seq(Byte)
        BY <4>1, ConcatProperties
      <4>3. Append(a \o b, e) = (a \o b) \o <<e>> /\ Append(b, e) = b \o <<e>>
        BY <4>1, <4>2, AppendIsConcat
      <4>4. (a \o b) \o <<e>> = a \o (b \o <<e>>)
        BY <4>1, ConcatAssociative, SMTT(30)
      <4>5. Append(a \o b, e) = a \o Append(b, e)
        BY <4>3, <4>4
      <4> QED BY <4>5 DEF a, b, e
    <3>7. Z[Len(x) + (k + 1)] = X[Len(x)] \o Y[k + 1]
      BY <3>2, <3>3, <3>4, <3>5, <3>6
    <3> QED BY <3>1, <3>7
  <2>3. \A k \in 0 .. Len(y) - 1 : k \in T => k + 1 \in T
    BY <2>2
  <2> HIDE DEF T
  <2>4. \A k \in 0 .. Len(y) : k \in T
    BY <1>2, <2>1, <2>3, UpTo
  <2>5. Len(y) \in T
    BY <1>2, <2>4
  <2> QED BY <2>5 DEF T
<1>8. Bodies(z) = Bodies(x) \o Bodies(y)
  BY <1>1, <1>3, <1>4, <1>5, <1>7
<1> QED BY <1>8 DEF z

LEMMA PlainConcat ==
  ASSUME NEW x \in Seq(Byte), NEW y \in Seq(Byte)
  PROVE  Plain(x \o y) = Plain(x) \o Plain(y) /\ Plain(x) \in Seq(Byte)
BY BodiesConcat, BodiesAreBytes DEF Plain

LEMMA PlainOfNone == Plain(<<>>) = <<>>
<1>1. <<>> \in Seq(Byte) /\ Len(<<>>) = 0
  BY EmptySeq
<1>2. Bodies(<<>>) = <<>>
  BY <1>1, BodiesToAre
<1> QED BY <1>2 DEF Plain

(***************************************************************************)
(* The end of what was shown.                                              *)
(***************************************************************************)
Fewer(n) == IF n > MaxText THEN MaxText ELSE n

LEMMA LastLinesAt ==
  ASSUME NEW S, NEW s \in Seq(S)
  PROVE  /\ LastLines(s) \in Seq(S) /\ Len(LastLines(s)) = Fewer(Len(s)) /\ Fewer(Len(s)) \in 0 .. Len(s)
         /\ \A i \in 1 .. Fewer(Len(s)) : LastLines(s)[i] = s[Len(s) - Fewer(Len(s)) + i]
<1> DEFINE from == IF Len(s) > MaxText THEN Len(s) - MaxText + 1 ELSE 1
           n == Fewer(Len(s))
<1>1. Len(s) \in Nat /\ MaxText \in Nat
  BY StreamsAssumption
<1>2. n \in 0 .. Len(s) /\ from = Len(s) - n + 1
  BY <1>1 DEF Fewer
<1>3. LastLines(s) = SubSeq(s, from, Len(s))
  BY DEF LastLines
<1> HIDE DEF from, n
<1>4. LastLines(s) \in Seq(S) /\ Len(LastLines(s)) = n /\ \A i \in 1 .. n : LastLines(s)[i] = s[from + i - 1]
  BY <1>1, <1>2, <1>3
<1>5. ASSUME NEW i \in 1 .. n PROVE LastLines(s)[i] = s[Len(s) - n + i]
  <2>1. from + i - 1 = Len(s) - n + i
    BY <1>1, <1>2
  <2> QED BY <1>4, <2>1
<1> QED BY <1>2, <1>4, <1>5 DEF n

(* What comes later pushes out the same, whether the end was taken before.   *)
LEMMA LastLinesLater ==
  ASSUME NEW S, NEW x \in Seq(S), NEW y \in Seq(S)
  PROVE  LastLines(LastLines(x) \o y) = LastLines(x \o y)
<1> DEFINE l == LastLines(x)
           u == l \o y
           v == x \o y
           a == LastLines(u)
           b == LastLines(v)
<1>1. Len(x) \in Nat /\ Len(y) \in Nat /\ MaxText \in Nat
  BY StreamsAssumption
<1>2. /\ l \in Seq(S) /\ Len(l) = Fewer(Len(x)) /\ Len(l) \in 0 .. Len(x)
      /\ \A i \in 1 .. Len(l) : l[i] = x[Len(x) - Len(l) + i]
  BY LastLinesAt
<1> HIDE DEF l
<1>3. /\ u \in Seq(S) /\ Len(u) = Len(l) + Len(y)
      /\ \A i \in 1 .. Len(l) + Len(y) : u[i] = IF i <= Len(l) THEN l[i] ELSE y[i - Len(l)]
  BY <1>2, ConcatProperties
<1>4. /\ v \in Seq(S) /\ Len(v) = Len(x) + Len(y)
      /\ \A i \in 1 .. Len(x) + Len(y) : v[i] = IF i <= Len(x) THEN x[i] ELSE y[i - Len(x)]
  BY ConcatProperties
<1> HIDE DEF u, v
<1>5. /\ a \in Seq(S) /\ Len(a) = Fewer(Len(u)) /\ Len(a) \in 0 .. Len(u)
      /\ \A i \in 1 .. Len(a) : a[i] = u[Len(u) - Len(a) + i]
  <2>1. /\ a \in Seq(S) /\ Len(a) = Fewer(Len(u)) /\ Fewer(Len(u)) \in 0 .. Len(u)
        /\ \A i \in 1 .. Fewer(Len(u)) : a[i] = u[Len(u) - Fewer(Len(u)) + i]
    BY <1>3, LastLinesAt
  <2> HIDE DEF a, Fewer
  <2> QED BY <2>1
<1>6. /\ b \in Seq(S) /\ Len(b) = Fewer(Len(v)) /\ Len(b) \in 0 .. Len(v)
      /\ \A i \in 1 .. Len(b) : b[i] = v[Len(v) - Len(b) + i]
  <2>1. /\ b \in Seq(S) /\ Len(b) = Fewer(Len(v)) /\ Fewer(Len(v)) \in 0 .. Len(v)
        /\ \A i \in 1 .. Fewer(Len(v)) : b[i] = v[Len(v) - Fewer(Len(v)) + i]
    BY <1>4, LastLinesAt
  <2> HIDE DEF b, Fewer
  <2> QED BY <2>1
<1> HIDE DEF a, b
<1>7. Len(a) = Len(b) /\ Len(a) \in Nat /\ Len(a) \in 0 .. Len(u) /\ Len(b) \in 0 .. Len(v)
  <2>1. \A p, q, r \in Nat : p = Fewer(q) => Fewer(p + r) = Fewer(q + r)
    BY <1>1 DEF Fewer
  <2>2. Fewer(Len(u)) = Fewer(Len(v))
    BY <1>1, <1>2, <1>3, <1>4, <2>1
  <2>3. Len(a) = Len(b)
    BY <1>5, <1>6, <2>2
  <2>4. Len(u) \in Nat /\ Len(v) \in Nat
    BY <1>1, <1>2, <1>3, <1>4
  <2>5. Len(a) \in 0 .. Len(u)
    BY <1>5
  <2>6. Len(b) \in 0 .. Len(v)
    BY <1>6
  <2> QED BY <2>3, <2>4, <2>5, <2>6
<1>8. ASSUME NEW i \in 1 .. Len(a) PROVE a[i] = b[i]
  <2> DEFINE j == Len(u) - Len(a) + i
             k == Len(v) - Len(b) + i
             d == Len(x) - Len(l)
  <2>0. Len(l) \in 0 .. Len(x) /\ Len(u) = Len(l) + Len(y) /\ Len(v) = Len(x) + Len(y)
    BY <1>2, <1>3, <1>4
  <2>1. j \in 1 .. Len(u) /\ k \in 1 .. Len(v) /\ k = j + d /\ d \in Nat
    BY <1>1, <1>7, <2>0
  <2>2. a[i] = u[j] /\ b[i] = v[k]
    BY <1>5, <1>6, <1>7
  <2> HIDE DEF j, k, d
  <2>3. CASE j <= Len(l)
    <3>1. j \in 1 .. Len(l) /\ k \in 1 .. Len(x) /\ j \in 1 .. Len(l) + Len(y) /\ k \in 1 .. Len(x) + Len(y)
      BY <1>1, <2>0, <2>1, <2>3 DEF d
    <3>2. u[j] = l[j]
      BY <1>3, <2>3, <3>1
    <3>3. v[k] = x[k]
      BY <1>1, <1>4, <3>1
    <3>4. l[j] = x[k]
      BY <1>2, <2>1, <3>1, SMTT(30) DEF d
    <3> QED BY <2>2, <3>2, <3>3, <3>4
  <2>4. CASE ~(j <= Len(l))
    <3>1. j - Len(l) = k - Len(x) /\ ~(k <= Len(x)) /\ j \in 1 .. Len(l) + Len(y) /\ k \in 1 .. Len(x) + Len(y)
      BY <1>1, <2>0, <2>1, <2>4 DEF d
    <3>2. u[j] = y[j - Len(l)]
      BY <1>3, <2>4, <3>1
    <3>3. v[k] = y[k - Len(x)]
      BY <1>4, <3>1
    <3> QED BY <2>2, <3>1, <3>2, <3>3
  <2> QED BY <2>3, <2>4
<1>9. a = b
  BY <1>5, <1>6, <1>7, <1>8, SeqEqual
<1> QED BY <1>9 DEF a, b, u, v, l

LEMMA SameLines ==
  ASSUME NEW S, NEW x \in Seq(S), NEW y \in Seq(S), NEW z \in Seq(S), LastLines(x) = LastLines(y)
  PROVE  LastLines(x \o z) = LastLines(y \o z)
<1>1. LastLines(LastLines(x) \o z) = LastLines(x \o z)
  BY LastLinesLater
<1>2. LastLines(LastLines(y) \o z) = LastLines(y \o z)
  BY LastLinesLater
<1> QED BY <1>1, <1>2

(* The bytes of what is on the page.                                         *)
BytesOf(t) == [i \in DOMAIN t |-> t[i].byte]

LEMMA BytesOfShown ==
  ASSUME NEW t \in Seq(Shown)
  PROVE  BytesOf(t) \in Seq(Byte) /\ Len(BytesOf(t)) = Len(t) /\ \A i \in 1 .. Len(t) : BytesOf(t)[i] = t[i].byte
<1>1. Len(t) \in Nat /\ DOMAIN t = 1 .. Len(t) /\ \A i \in 1 .. Len(t) : t[i].byte \in Byte
  <2>1. \A i \in 1 .. Len(t) : t[i] \in Shown
    OBVIOUS
  <2>2. \A z \in Shown : z.byte \in Byte
    BY DEF Shown
  <2> QED BY <2>1, <2>2
<1>2. BytesOf(t) = [i \in 1 .. Len(t) |-> t[i].byte]
  BY <1>1 DEF BytesOf
<1> QED BY <1>1, <1>2

LEMMA BytesOfMore ==
  ASSUME NEW t \in Seq(Shown), NEW m \in Seq(Byte), NEW c \in Socks
  PROVE  BytesOf(LastLines(t \o [i \in DOMAIN m |-> [sock |-> c, byte |-> m[i]]])) = LastLines(BytesOf(t) \o m)
<1> DEFINE s == [i \in DOMAIN m |-> [sock |-> c, byte |-> m[i]]]
           u == t \o s
           v == BytesOf(t) \o m
           a == BytesOf(LastLines(u))
           b == LastLines(v)
<1>1. s \in Seq(Shown) /\ Len(s) = Len(m) /\ \A i \in 1 .. Len(m) : s[i].byte = m[i]
  <2>1. Len(m) \in Nat /\ DOMAIN m = 1 .. Len(m) /\ \A i \in 1 .. Len(m) : m[i] \in Byte
    OBVIOUS
  <2>2. \A i \in 1 .. Len(m) : [sock |-> c, byte |-> m[i]] \in Shown /\ [sock |-> c, byte |-> m[i]].byte = m[i]
    BY <2>1 DEF Shown
  <2>3. s = [i \in 1 .. Len(m) |-> [sock |-> c, byte |-> m[i]]]
    BY <2>1
  <2> QED BY <2>1, <2>2, <2>3
<1> HIDE DEF s
<1>2. BytesOf(t) \in Seq(Byte) /\ Len(BytesOf(t)) = Len(t) /\ \A i \in 1 .. Len(t) : BytesOf(t)[i] = t[i].byte
  BY BytesOfShown
<1>3. /\ u \in Seq(Shown) /\ Len(u) = Len(t) + Len(m)
      /\ \A i \in 1 .. Len(t) + Len(m) : u[i] = IF i <= Len(t) THEN t[i] ELSE s[i - Len(t)]
  <2>1. /\ u \in Seq(Shown) /\ Len(u) = Len(t) + Len(s)
        /\ \A i \in 1 .. Len(t) + Len(s) : u[i] = IF i <= Len(t) THEN t[i] ELSE s[i - Len(t)]
    BY <1>1, ConcatProperties, ZenonT(40)
  <2>2. Len(s) = Len(m)
    BY <1>1
  <2> HIDE DEF u
  <2> QED BY <2>1, <2>2
<1>4. /\ v \in Seq(Byte) /\ Len(v) = Len(t) + Len(m)
      /\ \A i \in 1 .. Len(t) + Len(m) : v[i] = IF i <= Len(t) THEN BytesOf(t)[i] ELSE m[i - Len(t)]
  <2> DEFINE w == BytesOf(t)
  <2> HIDE DEF w
  <2>1. w \in Seq(Byte) /\ Len(w) = Len(t)
    BY <1>2 DEF w
  <2>2. /\ w \o m \in Seq(Byte) /\ Len(w \o m) = Len(w) + Len(m)
        /\ \A i \in 1 .. Len(w) + Len(m) : (w \o m)[i] = IF i <= Len(w) THEN w[i] ELSE m[i - Len(w)]
    BY <2>1, ConcatProperties
  <2>3. /\ w \o m \in Seq(Byte) /\ Len(w \o m) = Len(t) + Len(m)
        /\ \A i \in 1 .. Len(t) + Len(m) : (w \o m)[i] = IF i <= Len(t) THEN w[i] ELSE m[i - Len(t)]
    BY <2>1, <2>2
  <2> QED BY <2>3 DEF w
<1>5. Len(t) \in Nat /\ Len(m) \in Nat
  OBVIOUS
<1>6. \A i \in 1 .. Len(t) + Len(m) : u[i].byte = v[i]
  <2>1. SUFFICES ASSUME NEW i \in 1 .. Len(t) + Len(m) PROVE u[i].byte = v[i]
    OBVIOUS
  <2>2. CASE i <= Len(t)
    BY <1>2, <1>3, <1>4, <1>5, <2>2
  <2>3. CASE ~(i <= Len(t))
    <3>1. i - Len(t) \in 1 .. Len(m)
      BY <1>5, <2>3
    <3> QED BY <1>1, <1>3, <1>4, <2>3, <3>1
  <2> QED BY <2>2, <2>3
<1> HIDE DEF u, v
<1>7. /\ LastLines(u) \in Seq(Shown) /\ Len(LastLines(u)) = Fewer(Len(u)) /\ Fewer(Len(u)) \in 0 .. Len(u)
      /\ \A i \in 1 .. Fewer(Len(u)) : LastLines(u)[i] = u[Len(u) - Fewer(Len(u)) + i]
  BY <1>3, LastLinesAt
<1>8. /\ b \in Seq(Byte) /\ Len(b) = Fewer(Len(v))
      /\ \A i \in 1 .. Fewer(Len(v)) : b[i] = v[Len(v) - Fewer(Len(v)) + i]
  BY <1>4, LastLinesAt
<1>9. a \in Seq(Byte) /\ Len(a) = Fewer(Len(u)) /\ \A i \in 1 .. Fewer(Len(u)) : a[i] = LastLines(u)[i].byte
  BY <1>7, BytesOfShown
<1> HIDE DEF a, b
<1>10. Len(a) = Len(b) /\ \A i \in 1 .. Len(a) : a[i] = b[i]
  <2>1. Len(u) = Len(v) /\ Len(u) \in Nat /\ Len(u) = Len(t) + Len(m)
    BY <1>3, <1>4, <1>5
  <2>2. ASSUME NEW i \in 1 .. Len(a) PROVE a[i] = b[i]
    <3>1. i \in 1 .. Fewer(Len(u)) /\ Len(u) - Fewer(Len(u)) + i \in 1 .. Len(u)
      BY <1>7, <1>9, <2>1
    <3>2. a[i] = u[Len(u) - Fewer(Len(u)) + i].byte
      BY <1>7, <1>9, <3>1
    <3>3. b[i] = v[Len(u) - Fewer(Len(u)) + i]
      BY <1>8, <2>1, <3>1
    <3> QED BY <1>6, <2>1, <3>1, <3>2, <3>3
  <2> QED BY <1>8, <1>9, <2>1, <2>2
<1>11. a = b
  BY <1>8, <1>9, <1>10, SeqEqual
<1> QED BY <1>11 DEF a, b, u, v, s

(***************************************************************************)
(* What the messages on the way to the page say.                           *)
(***************************************************************************)
Said(m) == IF m.type = "data" THEN m.bytes ELSE <<>>
FlowFrom(q, f, i) ==
  IF i = 0 THEN <<>> ELSE IF q[i].type = "data" THEN f[i - 1] \o q[i].bytes ELSE f[i - 1]
FlowTo(q) == CHOOSE f : f = [i \in 0 .. Len(q) |-> FlowFrom(q, f, i)]
Flow(q) == FlowTo(q)[Len(q)]

LEMMA FlowIs == ASSUME NEW c PROVE OnTheWay(c) = Flow(downstream[c])
BY DEF OnTheWay, Flow, FlowTo, FlowFrom

LEMMA SaidIsBytes ==
  /\ \A m \in Deliveries : Said(m) \in Seq(Byte)
  /\ Said(Bye) = <<>> /\ Said(Lost) = <<>> /\ Said(Open) = <<>> /\ Said(Refused) = <<>>
  /\ \A m \in Data : Said(m) = m.bytes
<1>1. <<>> \in Seq(Byte)
  OBVIOUS
<1>2. Said(Bye) = <<>> /\ Said(Lost) = <<>> /\ Said(Open) = <<>> /\ Said(Refused) = <<>>
  BY DEF Said, Bye, Lost, Open, Refused
<1>3. \A m \in Data : Said(m) = m.bytes /\ m.bytes \in Seq(Byte)
  BY DEF Said, Data
<1> QED BY <1>1, <1>2, <1>3 DEF Deliveries

LEMMA FlowToIs ==
  ASSUME NEW q \in Seq(Deliveries)
  PROVE  /\ FlowTo(q)[0] = <<>> /\ \A i \in 0 .. Len(q) : FlowTo(q)[i] \in Seq(Byte)
         /\ \A i \in 1 .. Len(q) : FlowTo(q)[i] = FlowTo(q)[i - 1] \o Said(q[i])
<1> DEFINE L == Len(q)
           X == Seq(Byte)
           step == [i \in 1 .. L |-> [s \in X |-> s \o Said(q[i])]]
<1>1. L \in Nat /\ <<>> \in X
  OBVIOUS
<1>2. \A i \in 1 .. L : Said(q[i]) \in X
  <2>1. \A i \in 1 .. L : q[i] \in Deliveries
    OBVIOUS
  <2> QED BY <2>1, SaidIsBytes
<1>3. \A i \in 1 .. L : \A s \in X : s \o Said(q[i]) \in X
  BY <1>2, ConcatProperties
<1> HIDE DEF X, L
<1>4. \A i \in 1 .. L : \A s \in X : step[i][s] = s \o Said(q[i]) /\ step[i][s] \in X
  BY <1>3
<1> HIDE DEF step
<1>5. PICK f \in [0 .. L -> X] : f[0] = <<>> /\ \A i \in 1 .. L : f[i] = step[i][f[i - 1]]
  <2>1. Steps(X, L, <<>>, step)
    BY <1>1, <1>4 DEF Steps
  <2>2. Walk(X, L, <<>>, step)
    BY <2>1, StepByStep
  <2> QED BY <2>2 DEF Walk
<1>6. ASSUME NEW i \in 1 .. L PROVE f[i] = f[i - 1] \o Said(q[i]) /\ f[i - 1] \in X
  <2>1. i - 1 \in 0 .. L
    BY <1>1
  <2> QED BY <2>1, <1>4, <1>5
<1>7. ASSUME NEW i \in 0 .. L PROVE f[i] = FlowFrom(q, f, i)
  <2>1. CASE i = 0
    BY <2>1, <1>5 DEF FlowFrom
  <2>2. CASE i # 0
    <3>1. i \in 1 .. L
      BY <2>2, <1>1
    <3>2. f[i] = f[i - 1] \o Said(q[i]) /\ f[i - 1] \in X
      BY <3>1, <1>6
    <3>3. f[i - 1] \o <<>> = f[i - 1]
      BY <3>2, ConcatEmptySeq DEF X
    <3> QED BY <2>2, <3>2, <3>3 DEF FlowFrom, Said
  <2> QED BY <2>1, <2>2
<1>8. f = [i \in 0 .. L |-> FlowFrom(q, f, i)]
  BY <1>5, <1>7
<1>9. FlowTo(q) = [i \in 0 .. L |-> FlowFrom(q, FlowTo(q), i)]
  BY <1>8 DEF FlowTo, L
<1> HIDE DEF FlowTo
<1> DEFINE T == {i \in 0 .. L : FlowTo(q)[i] = f[i]}
<1>10. 0 \in T
  BY <1>1, <1>5, <1>9 DEF FlowFrom
<1>11. ASSUME NEW k \in 0 .. L - 1, k \in T PROVE k + 1 \in T
  <2>1. k + 1 \in 1 .. L /\ k + 1 \in 0 .. L /\ (k + 1) - 1 = k /\ k + 1 # 0
    BY <1>1
  <2>2. FlowTo(q)[k + 1] = FlowFrom(q, FlowTo(q), k + 1) /\ f[k + 1] = FlowFrom(q, f, k + 1) /\ FlowTo(q)[k] = f[k]
    BY <2>1, <1>7, <1>9, <1>11
  <2> QED BY <2>1, <2>2 DEF FlowFrom
<1>12. \A k \in 0 .. L - 1 : k \in T => k + 1 \in T
  BY <1>11
<1>13. \A i \in 0 .. L : FlowTo(q)[i] = f[i]
  <2> HIDE DEF T
  <2>1. \A i \in 0 .. L : i \in T
    BY <1>1, <1>10, <1>12, UpTo
  <2> QED BY <2>1 DEF T
<1>14. \A i \in 1 .. L : i \in 0 .. L /\ i - 1 \in 0 .. L
  BY <1>1
<1>15. FlowTo(q)[0] = <<>> /\ \A i \in 0 .. L : FlowTo(q)[i] \in X
  BY <1>1, <1>5, <1>13
<1>16. \A i \in 1 .. L : FlowTo(q)[i] = FlowTo(q)[i - 1] \o Said(q[i])
  BY <1>6, <1>13, <1>14
<1> QED BY <1>15, <1>16 DEF L, X

LEMMA FlowConcat ==
  ASSUME NEW x \in Seq(Deliveries), NEW y \in Seq(Deliveries)
  PROVE  Flow(x \o y) = Flow(x) \o Flow(y)
<1> DEFINE z == x \o y
           X == FlowTo(x)
           Y == FlowTo(y)
           Z == FlowTo(z)
           S == {i \in 0 .. Len(x) : Z[i] = X[i]}
           T == {j \in 0 .. Len(y) : Z[Len(x) + j] = X[Len(x)] \o Y[j]}
<1>1. /\ z \in Seq(Deliveries) /\ Len(z) = Len(x) + Len(y)
      /\ \A i \in 1 .. Len(x) + Len(y) : z[i] = IF i <= Len(x) THEN x[i] ELSE y[i - Len(x)]
  BY ConcatProperties
<1>2. Len(x) \in Nat /\ Len(y) \in Nat
  OBVIOUS
<1> HIDE DEF z
<1>3. /\ X[0] = <<>> /\ \A i \in 0 .. Len(x) : X[i] \in Seq(Byte)
      /\ \A i \in 1 .. Len(x) : X[i] = X[i - 1] \o Said(x[i])
  BY FlowToIs
<1>4. /\ Y[0] = <<>> /\ \A i \in 0 .. Len(y) : Y[i] \in Seq(Byte)
      /\ \A i \in 1 .. Len(y) : Y[i] = Y[i - 1] \o Said(y[i])
  BY FlowToIs
<1>5. Z[0] = <<>> /\ \A i \in 1 .. Len(z) : Z[i] = Z[i - 1] \o Said(z[i])
  BY <1>1, FlowToIs
<1>6. \A i \in 1 .. Len(y) : Said(y[i]) \in Seq(Byte)
  <2>1. \A i \in 1 .. Len(y) : y[i] \in Deliveries
    OBVIOUS
  <2> QED BY <2>1, SaidIsBytes
<1>7. Flow(x) = X[Len(x)] /\ Flow(y) = Y[Len(y)] /\ Flow(z) = Z[Len(z)]
  BY DEF Flow
<1> HIDE DEF X, Y, Z
<1>8. Z[Len(x)] = X[Len(x)]
  <2>1. 0 \in S
    BY <1>2, <1>3, <1>5
  <2>2. ASSUME NEW k \in 0 .. Len(x) - 1, k \in S PROVE k + 1 \in S
    <3>1. k + 1 \in 1 .. Len(x) /\ k + 1 \in 1 .. Len(z) /\ (k + 1) - 1 = k /\ k + 1 \in 0 .. Len(x)
      BY <1>1, <1>2
    <3>2. z[k + 1] = x[k + 1]
      BY <1>1, <1>2, <3>1
    <3>3. X[k + 1] = X[k] \o Said(x[k + 1])
      BY <1>3, <3>1
    <3>4. Z[k + 1] = Z[k] \o Said(z[k + 1])
      BY <1>5, <3>1
    <3>5. Z[k] = X[k]
      BY <2>2
    <3> QED BY <3>1, <3>2, <3>3, <3>4, <3>5
  <2>3. \A k \in 0 .. Len(x) - 1 : k \in S => k + 1 \in S
    BY <2>2
  <2> HIDE DEF S
  <2>4. \A k \in 0 .. Len(x) : k \in S
    BY <1>2, <2>1, <2>3, UpTo
  <2>5. Len(x) \in S
    BY <1>2, <2>4
  <2> QED BY <2>5 DEF S
<1>9. Z[Len(x) + Len(y)] = X[Len(x)] \o Y[Len(y)]
  <2>0. X[Len(x)] \in Seq(Byte)
    BY <1>2, <1>3
  <2>1. 0 \in T
    <3>1. X[Len(x)] \o <<>> = X[Len(x)]
      BY <2>0, ConcatEmptySeq
    <3>2. Len(x) + 0 = Len(x) /\ 0 \in 0 .. Len(y)
      BY <1>2
    <3>3. Z[Len(x) + 0] = X[Len(x)] \o Y[0]
      BY <1>4, <1>8, <3>1, <3>2
    <3> QED BY <3>2, <3>3
  <2>2. ASSUME NEW k \in 0 .. Len(y) - 1, k \in T PROVE k + 1 \in T
    <3>1. /\ k + 1 \in 1 .. Len(y) /\ Len(x) + (k + 1) \in 1 .. Len(z) /\ (Len(x) + (k + 1)) - 1 = Len(x) + k
          /\ (k + 1) - 1 = k /\ k + 1 \in 0 .. Len(y) /\ k \in 0 .. Len(y)
          /\ Len(x) + (k + 1) > Len(x) /\ (Len(x) + (k + 1)) - Len(x) = k + 1
      BY <1>1, <1>2
    <3>2. z[Len(x) + (k + 1)] = y[k + 1]
      BY <1>1, <1>2, <3>1
    <3>3. Y[k + 1] = Y[k] \o Said(y[k + 1])
      BY <1>4, <3>1
    <3>4. Z[Len(x) + (k + 1)] = Z[Len(x) + k] \o Said(z[Len(x) + (k + 1)])
      BY <1>5, <3>1
    <3>5. Y[k] \in Seq(Byte)
      BY <1>4, <3>1
    <3>6. Said(y[k + 1]) \in Seq(Byte)
      BY <1>6, <3>1
    <3>7. (X[Len(x)] \o Y[k]) \o Said(y[k + 1]) = X[Len(x)] \o (Y[k] \o Said(y[k + 1]))
      <4> DEFINE a == X[Len(x)]
                 b == Y[k]
                 e == Said(y[k + 1])
      <4> HIDE DEF a, b, e
      <4>1. a \in Seq(Byte) /\ b \in Seq(Byte) /\ e \in Seq(Byte)
        BY <2>0, <3>5, <3>6 DEF a, b, e
      <4>2. (a \o b) \o e = a \o (b \o e)
        BY <4>1, ConcatAssociative, SMTT(30)
      <4> QED BY <4>2 DEF a, b, e
    <3>8. Z[Len(x) + k] = X[Len(x)] \o Y[k]
      BY <2>2
    <3>9. Z[Len(x) + (k + 1)] = X[Len(x)] \o Y[k + 1]
      BY <3>2, <3>3, <3>4, <3>7, <3>8
    <3> QED BY <3>1, <3>9
  <2>3. \A k \in 0 .. Len(y) - 1 : k \in T => k + 1 \in T
    BY <2>2
  <2> HIDE DEF T
  <2>4. \A k \in 0 .. Len(y) : k \in T
    BY <1>2, <2>1, <2>3, UpTo
  <2>5. Len(y) \in T
    BY <1>2, <2>4
  <2> QED BY <2>5 DEF T
<1>10. Flow(z) = Flow(x) \o Flow(y)
  BY <1>1, <1>7, <1>9
<1> QED BY <1>10 DEF z

LEMMA FlowOfOne ==
  /\ Flow(<<>>) = <<>>
  /\ \A m \in Deliveries : Flow(<<m>>) = Said(m)
<1>1. <<>> \in Seq(Deliveries) /\ Len(<<>>) = 0
  BY EmptySeq
<1>2. Flow(<<>>) = <<>>
  BY <1>1, FlowToIs DEF Flow
<1>3. ASSUME NEW m \in Deliveries PROVE Flow(<<m>>) = Said(m)
  <2> DEFINE q == <<m>>
  <2>1. q \in Seq(Deliveries) /\ Len(q) = 1 /\ q[1] = m
    OBVIOUS
  <2> HIDE DEF q
  <2>2. FlowTo(q)[0] = <<>> /\ FlowTo(q)[1] = FlowTo(q)[0] \o Said(q[1])
    <3>1. 1 \in 1 .. Len(q) /\ 1 - 1 = 0
      BY <2>1
    <3> QED BY <2>1, <3>1, FlowToIs
  <2>3. Said(m) \in Seq(Byte)
    BY SaidIsBytes
  <2>4. <<>> \o Said(m) = Said(m)
    BY <2>3, ConcatEmptySeq
  <2>5. Flow(q) = Said(m)
    BY <2>1, <2>2, <2>4 DEF Flow
  <2> QED BY <2>5 DEF q
<1> QED BY <1>2, <1>3

(* A message is sent, a message arrives.                                     *)
LEMMA FlowMoves ==
  ASSUME NEW q \in Seq(Deliveries)
  PROVE  /\ Flow(q) \in Seq(Byte)
         /\ \A m \in Deliveries : Flow(Append(q, m)) = Flow(q) \o Said(m)
         /\ q # <<>> => Flow(q) = Said(Head(q)) \o Flow(Tail(q)) /\ Said(Head(q)) \in Seq(Byte)
<1>1. Flow(q) \in Seq(Byte)
  <2>1. Len(q) \in 0 .. Len(q)
    OBVIOUS
  <2> QED BY <2>1, FlowToIs DEF Flow
<1>2. ASSUME NEW m \in Deliveries PROVE Flow(Append(q, m)) = Flow(q) \o Said(m)
  <2>1. Append(q, m) = q \o <<m>> /\ <<m>> \in Seq(Deliveries)
    BY AppendIsConcat
  <2>2. Flow(q \o <<m>>) = Flow(q) \o Flow(<<m>>)
    BY <2>1, FlowConcat
  <2> QED BY <2>1, <2>2, FlowOfOne
<1>3. ASSUME q # <<>> PROVE Flow(q) = Said(Head(q)) \o Flow(Tail(q)) /\ Said(Head(q)) \in Seq(Byte)
  <2>1. Head(q) \in Deliveries /\ Tail(q) \in Seq(Deliveries) /\ <<Head(q)>> \in Seq(Deliveries)
    BY <1>3
  <2>2. <<Head(q)>> \o Tail(q) = q
    BY <1>3
  <2>3. Flow(<<Head(q)>> \o Tail(q)) = Flow(<<Head(q)>>) \o Flow(Tail(q))
    BY <2>1, FlowConcat
  <2> QED BY <2>1, <2>2, <2>3, FlowOfOne, SaidIsBytes
<1> QED BY <1>1, <1>2, <1>3

(***************************************************************************)
(* What the listener keeps of each chunk, however the chunks are cut.      *)
(***************************************************************************)

(* h is the rest of the s bytes that Docker has sent, from the last edge on. *)
RestOf(k, s, h) == Ends(k, s - Len(h), s) /\ h = SubSeq(Wire[k], s - Len(h) + 1, s)
Before(k, s, h) == SubSeq(Wire[k], 1, s - Len(h))

LEMMA RestIs ==
  ASSUME NEW k \in ViewKinds, NEW s \in 0 .. Len(Wire[k]), NEW h, RestOf(k, s, h)
  PROVE  /\ h \in Seq(Byte) /\ s - Len(h) \in 0 .. s /\ Len(h) \in 0 .. s
         /\ k = "tty" => Len(h) = 0
         /\ k # "tty" => Edge(k, s - Len(h))
<1> DEFINE p == s - Len(h)
           z == SubSeq(Wire[k], p + 1, s)
<1>1. Wire[k] \in Seq(Byte) /\ Len(Wire[k]) \in Nat
  BY StreamsAssumption
<1>2. Ends(k, p, s) /\ h = z
  BY DEF RestOf
<1>3. p \in 0 .. s /\ (k = "tty" => p = s) /\ (k # "tty" => Edge(k, p))
  BY <1>2 DEF Ends
<1> HIDE DEF p
<1>4. p \in Nat /\ s \in p .. Len(Wire[k])
  BY <1>1, <1>3
<1>5. z \in Seq(Byte) /\ Len(z) = s - p
  BY <1>4, CutOut
<1> HIDE DEF z
<1>6. h \in Seq(Byte) /\ Len(h) = s - p
  BY <1>2, <1>5
<1>7. Len(h) \in 0 .. s /\ (p = s => Len(h) = 0)
  BY <1>3, <1>6
<1> QED BY <1>3, <1>6, <1>7 DEF p

LEMMA NotDecoded ==
  ASSUME NEW b \in Seq(Byte), kind # "tty"
  PROVE  Decoded(b) = b
<1>1. Decoded(b) = [i \in DOMAIN b |-> b[i]]
  BY DEF Decoded
<1>2. b = [i \in DOMAIN b |-> b[i]]
  OBVIOUS
<1> QED BY <1>1, <1>2

(* A chunk of a TTY that begins and ends between two characters.             *)
LEMMA DecodedAtEdges ==
  ASSUME kind = "tty", NEW s \in Nat, NEW n \in 1 .. Len(Wire["tty"]) - s, Edge("tty", s),
         Decoded(SubSeq(Wire["tty"], s + 1, s + n))[n].unit # 0
  PROVE  /\ Edge("tty", s + n)
         /\ Decoded(SubSeq(Wire["tty"], s + 1, s + n)) = SubSeq(Wire["tty"], s + 1, s + n)
<1> DEFINE W == Wire["tty"]
           raw == SubSeq(W, s + 1, s + n)
<1>1. W \in Seq(Byte) /\ Len(W) \in Nat /\ "tty" \in ViewKinds
  BY StreamsAssumption DEF ViewKinds
<1>2. s + n \in s .. Len(W) /\ (s + n) - s = n /\ n \in Nat /\ s + n \in 1 .. Len(W) /\ s + n \in Nat
  BY <1>1
<1>3. raw \in Seq(Byte) /\ Len(raw) = n /\ \A i \in 1 .. n : raw[i] = W[s + i]
  BY <1>1, <1>2, CutOut
<1>4. \A b : Extent("tty", b) = b.size
  BY DEF Extent
<1>5. Decoded(raw)[n].unit # 0
  OBVIOUS
<1> HIDE DEF raw
<1>6. DOMAIN raw = 1 .. n
  BY <1>3
<1>7. \A i \in 1 .. n : Decoded(raw)[i] =
        IF i < W[s + i].at \/ i + W[s + i].size - W[s + i].at > n THEN [W[s + i] EXCEPT !.unit = 0] ELSE W[s + i]
  BY <1>3, <1>6 DEF Decoded
<1>8. ASSUME NEW i \in 1 .. n
      PROVE  W[s + i] \in Byte /\ W[s + i].at \in Nat /\ W[s + i].size \in Nat /\ s + i \in 1 .. Len(W)
  <2>1. s + i \in 1 .. Len(W)
    BY <1>1, <1>2
  <2>2. W[s + i] \in Byte
    BY <1>1, <2>1
  <2> QED BY <2>1, <2>2 DEF Byte
<1>9. n \in 1 .. n
  BY <1>2
<1>10. Edge("tty", s + n)
  <2>1. W[s + n].size <= W[s + n].at
    <3>1. SUFFICES ASSUME ~(W[s + n].size <= W[s + n].at) PROVE FALSE
      OBVIOUS
    <3>2. n + W[s + n].size - W[s + n].at > n
      <4>1. W[s + n].at \in Nat /\ W[s + n].size \in Nat
        BY <1>8, <1>9
      <4> DEFINE a == W[s + n].at
                 z == W[s + n].size
      <4> HIDE DEF a, z
      <4>2. a \in Nat /\ z \in Nat /\ ~(z <= a) => n + z - a > n
        BY <1>2
      <4> QED BY <3>1, <4>1, <4>2 DEF a, z
    <3>3. Decoded(raw)[n] = [W[s + n] EXCEPT !.unit = 0]
      BY <1>7, <1>9, <3>2
    <3>4. [W[s + n] EXCEPT !.unit = 0].unit = 0
      BY <1>8, <1>9 DEF Byte
    <3> QED BY <1>5, <3>3, <3>4
  <2>2. W[s + n].at <= W[s + n].size
    <3> HIDE DEF W
    <3>0. PICK u \in Nat, x \in Nat : InUnit("tty", s + n, u, x)
      BY <1>1, <1>2, UnitOf DEF W
    <3>1. s + n = u + W[s + n].at /\ s + n <= u + x /\ x = Extent("tty", W[s + n])
      BY <3>0 DEF InUnit, W
    <3>2. x = W[s + n].size /\ W[s + n].at \in Nat
      BY <1>4, <1>8, <1>9, <3>1
    <3> DEFINE a == W[s + n].at
               q == s + n
    <3> HIDE DEF a, q
    <3>3. a \in Nat /\ q \in Nat /\ q = u + a /\ q <= u + x => a <= x
      OBVIOUS
    <3> QED BY <1>2, <3>1, <3>2, <3>3 DEF a, q
  <2>3. W[s + n].at = Extent("tty", W[s + n])
    <3>1. W[s + n].at \in Nat /\ W[s + n].size \in Nat
      BY <1>8, <1>9
    <3>2. \A a, z \in Nat : z <= a /\ a <= z => a = z
      OBVIOUS
    <3> QED BY <1>4, <2>1, <2>2, <3>1, <3>2
  <2> QED BY <1>2, <2>3 DEF Edge
<1>11. ASSUME NEW i \in 1 .. n PROVE Decoded(raw)[i] = raw[i]
  <2> HIDE DEF W
  <2>a. PICK u \in Nat, x \in Nat : InUnit("tty", s + i, u, x)
    BY <1>1, <1>8, UnitOf DEF W
  <2>0. IsUnit("tty", u, x)
    BY <2>a DEF InUnit
  <2>1. s + i = u + W[s + i].at /\ u < s + i /\ s + i <= u + x /\ x = Extent("tty", W[s + i])
    BY <2>a DEF InUnit, W
  <2>2. s <= u \/ s >= u + x
    BY <2>0, EdgesApart
  <2>3. s + n <= u \/ s + n >= u + x
    <3> DEFINE q == s + n
    <3> HIDE DEF q
    <3>1. q \in Nat /\ Edge("tty", q)
      BY <1>2, <1>10 DEF q
    <3>2. q <= u \/ q >= u + x
      BY <2>0, <3>1, EdgesApart
    <3> QED BY <3>2 DEF q
  <2>4. ~(i < W[s + i].at)
    <3>1. W[s + i].at \in Nat /\ s + i = u + W[s + i].at /\ u < s + i /\ s + i <= u + x
      BY <1>8, <2>1
    <3> DEFINE a == W[s + i].at
    <3> HIDE DEF a
    <3>2. a \in Nat /\ s + i = u + a /\ u < s + i /\ s + i <= u + x /\ (s <= u \/ s >= u + x) => ~(i < a)
      OBVIOUS
    <3> QED BY <2>2, <3>1, <3>2 DEF a
  <2>5. ~(i + W[s + i].size - W[s + i].at > n)
    <3>1. x = W[s + i].size /\ W[s + i].at \in Nat /\ s + i = u + W[s + i].at /\ u < s + i
      BY <1>4, <1>8, <2>1
    <3> DEFINE a == W[s + i].at
    <3> HIDE DEF a
    <3>2. a \in Nat /\ s + i = u + a /\ u < s + i /\ (s + n <= u \/ s + n >= u + x) => ~(i + x - a > n)
      BY <1>2
    <3> QED BY <2>3, <3>1, <3>2 DEF a
  <2> QED BY <1>3, <1>7, <2>4, <2>5
<1>12. Decoded(raw) = raw
  <2>1. Decoded(raw) \in Seq(Byte) /\ Len(Decoded(raw)) = Len(raw)
    BY <1>3, DecodedIsBytes
  <2>2. Len(Decoded(raw)) = Len(raw) /\ \A i \in 1 .. Len(Decoded(raw)) : Decoded(raw)[i] = raw[i]
    BY <1>3, <1>11, <2>1
  <2> HIDE DEF Decoded
  <2> QED BY <1>3, <2>1, <2>2, SeqEqual
<1> QED BY <1>10, <1>12 DEF raw

LEMMA ChunkKept ==
  ASSUME kind \in ViewKinds, NEW s \in 0 .. Len(Wire[kind]), NEW n \in 1 .. Len(Wire[kind]) - s,
         NEW h, RestOf(kind, s, h), NEW b, b = h \o SubSeq(Wire[kind], s + 1, s + n)
  PROVE  /\ RestOf(kind, s + n, Kept(b)) /\ Passed(b) \in Seq(Byte)
         /\ Plain(Before(kind, s + n, Kept(b))) = Plain(Before(kind, s, h)) \o Passed(b)
<1> DEFINE W == Wire[kind]
           p == s - Len(h)
           q == s + n
<1>1. W \in Seq(Byte) /\ Len(W) \in Nat
  BY StreamsAssumption
<1>2. p \in 0 .. s /\ h = SubSeq(W, p + 1, s) /\ (kind = "tty" \/ Edge(kind, p))
  BY RestIs DEF RestOf
<1>3. Before(kind, s, h) = SubSeq(W, 1, p)
  BY DEF Before
<1> HIDE DEF p
<1>4. p \in Nat /\ s \in Nat /\ q \in Nat /\ p <= s /\ s <= q /\ q <= Len(W) /\ q \in p .. Len(W)
  BY <1>1, <1>2
<1>5. b = SubSeq(W, p + 1, q)
  <2>1. SubSeq(W, p + 1, s) \o SubSeq(W, s + 1, q) = SubSeq(W, p + 1, q)
    <3>1. \A x, y, z \in Nat : x <= y /\ y <= z /\ z <= Len(Wire[kind]) =>
            SubSeq(Wire[kind], x + 1, y) \o SubSeq(Wire[kind], y + 1, z) = SubSeq(Wire[kind], x + 1, z)
      BY PutTogether
    <3> HIDE DEF q
    <3> QED BY <1>4, <3>1
  <2> QED BY <1>2, <2>1
<1> HIDE DEF q
<1>a. PICK g \in p .. q : CutAt(p, g, q)
  BY <1>2, <1>4, KeptIsRest
<1>6. Ends(kind, g, q) /\ Kept(b) = SubSeq(W, g + 1, q) /\ Passed(b) = Plain(SubSeq(W, p + 1, g))
  BY <1>5, <1>a DEF CutAt
<1>7. g \in Nat /\ q \in g .. Len(W) /\ g \in p .. Len(W) /\ p <= g /\ g <= q /\ g <= Len(W)
  BY <1>4
<1>8. Len(Kept(b)) = q - g
  <2>1. Len(SubSeq(W, g + 1, q)) = q - g
    BY <1>7, CutOut
  <2> QED BY <1>6, <2>1
<1>9. q - Len(Kept(b)) = g
  BY <1>4, <1>7, <1>8
<1>10. RestOf(kind, q, Kept(b))
  BY <1>6, <1>9 DEF RestOf
<1>11. SubSeq(W, p + 1, g) \in Seq(Byte) /\ SubSeq(W, 1, p) \in Seq(Byte)
  <2>1. SubSeq(W, p + 1, g) \in Seq(Byte)
    BY <1>4, <1>7, CutOut
  <2>2. SubSeq(W, 1, p) \in Seq(Byte)
    BY <1>1, <1>4
  <2> QED BY <2>1, <2>2
<1>12. SubSeq(W, 1, p) \o SubSeq(W, p + 1, g) = SubSeq(W, 1, g)
  <2>1. SubSeq(W, 0 + 1, p) \o SubSeq(W, p + 1, g) = SubSeq(W, 0 + 1, g)
    <3>1. \A x, y, z \in Nat : x <= y /\ y <= z /\ z <= Len(Wire[kind]) =>
            SubSeq(Wire[kind], x + 1, y) \o SubSeq(Wire[kind], y + 1, z) = SubSeq(Wire[kind], x + 1, z)
      BY PutTogether
    <3>2. 0 \in Nat /\ 0 <= p
      BY <1>4
    <3> QED BY <1>4, <1>7, <3>1, <3>2
  <2>2. 0 + 1 = 1
    OBVIOUS
  <2> QED BY <2>1, <2>2
<1>13. Plain(SubSeq(W, 1, g)) = Plain(SubSeq(W, 1, p)) \o Plain(SubSeq(W, p + 1, g))
  BY <1>11, <1>12, PlainConcat
<1>14. Before(kind, q, Kept(b)) = SubSeq(W, 1, g)
  BY <1>9 DEF Before
<1>15. Passed(b) \in Seq(Byte)
  BY <1>6, <1>11, PlainConcat
<1> HIDE DEF Plain
<1> QED BY <1>3, <1>6, <1>10, <1>13, <1>14, <1>15 DEF q

LEMMA TtyKept ==
  ASSUME kind = "tty", NEW b \in Seq(Byte), NEW s \in 0 .. Len(Wire[kind])
  PROVE  RestOf(kind, s, Kept(b))
<1>1. Wire[kind] \in Seq(Byte) /\ Len(Wire[kind]) \in Nat /\ kind \in ViewKinds
  BY StreamsAssumption DEF ViewKinds
<1>2. Kept(b) = SubSeq(b, Len(b) + 1, Len(b))
  BY DEF Kept
<1>3. Kept(b) = <<>> /\ Len(Kept(b)) = 0
  BY <1>2
<1> HIDE DEF Kept
<1>4. SubSeq(Wire[kind], s + 1, s) = <<>>
  BY <1>1
<1>5. s - Len(Kept(b)) = s /\ s \in 0 .. s
  BY <1>3
<1> QED BY <1>3, <1>4, <1>5 DEF RestOf, Ends

(***************************************************************************)
(* The whole of what Docker sends is shown, Streams.                       *)
(***************************************************************************)

(* The page c belongs to sees what is sent over it.                          *)
Watched(c) ==
  viewRef = c /\ ~cut /\ Connected(c) /\ server[c] = "open" /\ Lossless(downstream, c)

(* The text, and what is on the way to it, end as what was passed on does.   *)
Shows(c) ==
  /\ viewRef = c /\ browser[c] = "connecting" => text = <<>>
  /\ Watched(c) => LastLines(BytesOf(text) \o Flow(downstream[c]))
                     = LastLines(Plain(Before(kind, sent[c], held[c])))

Fed(c) == RestOf(kind, sent[c], held[c]) /\ (feed[c] = "none" => sent[c] = 0)
UncutAtEdges == kind = "tty" /\ ~cut => \A c \in Socks : Edge("tty", sent[c])

WholeInv == (\A c \in Socks : Fed(c)) /\ UncutAtEdges /\ (\A c \in Socks : Shows(c))

(* What is sent stays, and what is shown of c too, when nothing comes.       *)
LEMMA FedStays ==
  ASSUME NEW c \in Socks, Fed(c), kind' = kind, sent'[c] = sent[c], held'[c] = held[c],
         feed'[c] = "none" => feed[c] = "none"
  PROVE  Fed(c)'
BY DEF Fed

LEMMA NotWatched ==
  ASSUME NEW c \in Socks, Shows(c), viewRef' = viewRef, text' = text,
         browser'[c] = "connecting" => browser[c] = "connecting", ~Watched(c)'
  PROVE  Shows(c)'
BY DEF Shows

LEMMA ShowsStays ==
  ASSUME NEW c \in Socks, Shows(c), UNCHANGED <<viewRef, text, kind>>, ~cut' => ~cut, Still(c),
         sent'[c] = sent[c], held'[c] = held[c]
  PROVE  Shows(c)'
<1>1. Watched(c)' => Watched(c)
  BY DEF Watched, Still, Connected, Lossless
<1>2. Plain(Before(kind, sent[c], held[c]))' = Plain(Before(kind, sent[c], held[c]))
  BY DEF Plain, Before
<1>3. Flow(downstream[c])' = Flow(downstream[c]) /\ BytesOf(text)' = BytesOf(text)
  BY DEF Still
<1> HIDE DEF Plain, Before, Flow, BytesOf, LastLines, Watched
<1>4. LastLines(BytesOf(text) \o Flow(downstream[c]))' = LastLines(BytesOf(text) \o Flow(downstream[c]))
  BY <1>3
<1> QED BY <1>1, <1>2, <1>4 DEF Shows, Still

LEMMA WholeInitOK == ASSUME StreamsInit PROVE WholeInv
<1>1. /\ kind \in ViewKinds /\ text = <<>> /\ viewRef = NoView /\ NoView \notin Socks
      /\ \A c \in Socks : sent[c] = 0 /\ held[c] = <<>>
  BY StreamsAssumption DEF StreamsInit
<1>2. RestOf(kind, 0, <<>>)
  <2>1. Wire[kind] \in Seq(Byte) /\ Len(Wire[kind]) \in Nat
    BY <1>1, StreamsAssumption
  <2>2. SubSeq(Wire[kind], 0 + 1, 0) = <<>> /\ Len(<<>>) = 0 /\ 0 - 0 = 0 /\ 0 + 1 .. 0 = {} /\ 0 \in 0 .. 0
    BY <2>1
  <2>3. Edge(kind, 0)
    BY <2>1 DEF Edge
  <2>4. Ends(kind, 0, 0)
    BY <2>2, <2>3 DEF Ends
  <2> QED BY <2>2, <2>4 DEF RestOf
<1>3. \A c \in Socks : Fed(c)
  BY <1>1, <1>2 DEF Fed
<1>4. UncutAtEdges
  <2>1. Len(Wire["tty"]) \in Nat
    BY StreamsAssumption DEF ViewKinds
  <2>2. Edge("tty", 0)
    BY <2>1 DEF Edge
  <2> QED BY <1>1, <2>2 DEF UncutAtEdges
<1>5. \A c \in Socks : Shows(c)
  BY <1>1 DEF Shows, Watched
<1> QED BY <1>3, <1>4, <1>5 DEF WholeInv

(* Steps that bring no bytes: the sockets that are watched stay as they are. *)
LEMMA QuietWhole ==
  ASSUME WholeInv, UNCHANGED <<kind, sent, held, cut>>,
         \A c \in Socks : feed'[c] = "none" => feed[c] = "none",
         \A c \in Socks : Shows(c)'
  PROVE  WholeInv'
<1>1. \A c \in Socks : Fed(c)'
  BY FedStays DEF WholeInv
<1>2. UncutAtEdges'
  BY DEF WholeInv, UncutAtEdges
<1> QED BY <1>1, <1>2 DEF WholeInv

(* A step of the handler of c that leaves it open only as it was.            *)
LEMMA QuietHandler ==
  ASSUME StreamsInv, WholeInv, NEW c \in Socks, Others(c), browser'[c] = browser[c], UNCHANGED <<viewVars, kind, sent, held, cut>>,
         \A d \in Socks : feed'[d] = "none" => feed[d] = "none",
         Watched(c)' => Shows(c)'
  PROVE  WholeInv'
<1>1. UNCHANGED <<viewRef, text>>
  BY DEF viewVars
<1>2. Shows(c)'
  BY <1>1, NotWatched DEF WholeInv
<1>3. ASSUME NEW d \in Socks \ {c} PROVE Shows(d)'
  BY <1>1, ShowsStays DEF WholeInv, Others
<1> QED BY <1>2, <1>3, QuietWhole

LEMMA HandlerWhole ==
  ASSUME StreamsInv, WholeInv, NEW c \in Socks,
         \/ ViewAdmitted(c) \/ ViewRejected(c) \/ Inspected(c) \/ Attached(c)
         \/ AttachFailed(c) \/ FeedEnds(c) \/ ViewClosed(c) \/ ViewLost(c)
  PROVE  WholeInv'
<1>1. PerSocket /\ Viewing(c) /\ FeedTypes
  BY DEF StreamsInv
<1>2. UNCHANGED <<viewVars, kind, sent, held, cut>>
  BY DEF ViewAdmitted, ViewRejected, Inspected, Attached, AttachFailed, FeedEnds, ViewClosed, ViewLost
<1>3. \A d \in Socks : feed'[d] = "none" => feed[d] = "none"
  BY <1>1 DEF ViewAdmitted, ViewRejected, Inspected, Attached, AttachFailed, FeedEnds, ViewClosed, ViewLost, FeedTypes
<1>4. CASE ViewAdmitted(c)
  <2>1. /\ Others(c) /\ browser'[c] = browser[c] /\ server[c] = "upgrading"
        /\ downstream'[c] \in {downstream[c], Append(downstream[c], Open)}
    BY <1>1, <1>4, UpgradedAt DEF ViewAdmitted
  <2>2. ASSUME Watched(c)' PROVE Shows(c)'
    <3>1. viewRef = c /\ Connected(c) /\ downstream'[c] # <<Lost>> /\ text' = text /\ viewRef' = viewRef
      BY <1>2, <2>1, <2>2 DEF Watched, Connected, Lossless, viewVars
    <3>2. browser[c] = "connecting" /\ downstream[c] \in {<<>>, <<Lost>>}
      BY <1>1, <2>1, <3>1 DEF Viewing, Coming
    <3>3. text = <<>> /\ sent[c] = 0 /\ RestOf(kind, sent[c], held[c])
      BY <1>1, <2>1, <3>1, <3>2 DEF WholeInv, Shows, Fed, Viewing
    <3>4. downstream[c] = <<>>
      <4>1. SUFFICES ASSUME downstream[c] = <<Lost>> PROVE FALSE
        BY <3>2
      <4>2. downstream'[c] = downstream[c]
        BY <1>1, <1>4, <4>1, UpgradedAt DEF ViewAdmitted
      <4> QED BY <3>1, <4>1, <4>2
    <3>5. Flow(downstream'[c]) = <<>>
      <4>1. <<>> \in Seq(Deliveries) /\ Open \in Deliveries
        BY EmptySeq, DeliveriesAre
      <4>2. Flow(Append(<<>>, Open)) = Flow(<<>>) \o Said(Open) /\ Flow(<<>>) = <<>> /\ Said(Open) = <<>>
        BY <4>1, FlowMoves, FlowOfOne, SaidIsBytes
      <4>3. <<>> \o <<>> = <<>>
        OBVIOUS
      <4> QED BY <2>1, <3>4, <4>2, <4>3
    <3>6. Plain(Before(kind, sent[c], held[c])) = <<>>
      <4>1. Wire[kind] \in Seq(Byte) /\ Len(Wire[kind]) \in Nat /\ kind \in ViewKinds
        BY <1>1, StreamsAssumption DEF FeedTypes
      <4>2. 0 - Len(held[c]) = 0
        BY <3>3, <4>1, RestIs
      <4>3. Before(kind, sent[c], held[c]) = <<>>
        BY <3>3, <4>1, <4>2 DEF Before
      <4> QED BY <4>3, PlainOfNone
    <3>7. Plain(Before(kind, sent[c], held[c]))' = Plain(Before(kind, sent[c], held[c]))
      BY <1>2 DEF Plain, Before
    <3>8. BytesOf(text) \o Flow(downstream'[c]) = <<>>
      <4>1. BytesOf(<<>>) = <<>>
        BY DEF BytesOf
      <4>2. <<>> \o <<>> = <<>>
        OBVIOUS
      <4> HIDE DEF BytesOf, Flow
      <4> QED BY <3>3, <3>5, <4>1, <4>2
    <3>9. BytesOf(text)' = BytesOf(text) /\ Flow(downstream[c])' = Flow(downstream'[c])
      BY <3>1
    <3> HIDE DEF BytesOf, Flow, Plain, Before, LastLines
    <3> QED BY <3>1, <3>3, <3>6, <3>7, <3>8, <3>9 DEF Shows
  <2> QED BY <1>2, <1>3, <2>1, <2>2, QuietHandler
<1>5. CASE Inspected(c) \/ Attached(c)
  <2>1. UNCHANGED <<browser, server, upstream, downstream>>
    BY <1>5 DEF Inspected, Attached, sockVars
  <2>2. Others(c) /\ browser'[c] = browser[c] /\ Still(c)
    BY <2>1 DEF Others, Still
  <2>3. Shows(c)'
    BY <1>2, <2>2, ShowsStays DEF WholeInv, viewVars
  <2> QED BY <1>2, <1>3, <2>2, <2>3, QuietHandler
<1>6. CASE ViewRejected(c) \/ AttachFailed(c) \/ FeedEnds(c) \/ ViewClosed(c) \/ ViewLost(c)
  <2>1. Others(c) /\ browser'[c] = browser[c] /\ ~Watched(c)'
    <3>1. CASE ViewRejected(c)
      BY <1>1, <3>1, UpgradeAt, UpgradeRefusedAt DEF ViewRejected, Watched
    <3>2. CASE AttachFailed(c) \/ FeedEnds(c)
      <4>1. ServerCloses(c) /\ UNCHANGED <<browser, upstream>>
        BY <3>2 DEF AttachFailed, FeedEnds
      <4> QED BY <1>1, <4>1, ServerClosesAt DEF Watched
    <3>3. CASE ViewClosed(c)
      BY <1>1, <3>3, ServerClosedAt DEF ViewClosed, Watched
    <3>4. CASE ViewLost(c)
      BY <1>1, <3>4, DropAt DEF ViewLost, Watched, Connected, Lossless
    <3> QED BY <1>6, <3>1, <3>2, <3>3, <3>4
  <2> QED BY <1>2, <1>3, <2>1, QuietHandler
<1> QED BY <1>4, <1>5, <1>6

(* The page goes to another container, or away: it begins anew.              *)
LEMMA ShowTargetWhole ==
  ASSUME StreamsInv, WholeInv, NEW c \in Socks, NEW t \in Targets, ShowTarget(c, t)
  PROVE  WholeInv'
<1>1. /\ viewRef' = c /\ text' = <<>> /\ UNCHANGED <<server, kind, feedVars>> /\ server[c] = "idle"
  BY DEF StreamsInv, ShowTarget, Unused, Viewing
<1>2. ASSUME NEW d \in Socks PROVE Shows(d)'
  BY <1>1 DEF Shows, Watched
<1> QED BY <1>1, <1>2, QuietWhole DEF feedVars

LEMMA CleanupWhole ==
  ASSUME StreamsInv, WholeInv, Cleanup
  PROVE  WholeInv'
<1>1. viewRef' = NoView /\ NoView \notin Socks /\ UNCHANGED <<kind, feedVars>>
  BY StreamsAssumption DEF Cleanup
<1>2. ASSUME NEW d \in Socks PROVE Shows(d)'
  BY <1>1 DEF Shows, Watched
<1> QED BY <1>1, <1>2, QuietWhole DEF feedVars

LEMMA ViewClosesWhole ==
  ASSUME StreamsInv, WholeInv, NEW c \in Socks, ViewCloses(c)
  PROVE  WholeInv'
<1>1. PerSocket /\ UNCHANGED <<kind, viewRef, text, feedVars>>
  BY DEF StreamsInv, ViewCloses
<1>2. Others(c) /\ browser'[c] = "closed"
  BY <1>1, BrowserClosesAt DEF ViewCloses
<1>3. Shows(c)'
  BY <1>1, <1>2, NotWatched DEF WholeInv, Watched, Connected
<1>4. ASSUME NEW d \in Socks \ {c} PROVE Shows(d)'
  BY <1>1, <1>2, ShowsStays DEF WholeInv, Others, feedVars
<1> QED BY <1>1, <1>3, <1>4, QuietWhole DEF feedVars

LEMMA ViewOpensWhole ==
  ASSUME StreamsInv, WholeInv, NEW c \in Socks, ViewOpens(c)
  PROVE  WholeInv'
<1>1. PerSocket /\ Viewing(c) /\ Shows(c) /\ UNCHANGED <<upstream, kind, viewRef, text, feedVars>>
  BY DEF StreamsInv, WholeInv, ViewOpens
<1>2. /\ server' = server /\ browser[c] = "connecting" /\ browser'[c] = "open"
      /\ downstream[c] # <<>> /\ Head(downstream[c]) = Open /\ downstream'[c] = Tail(downstream[c])
      /\ \A d \in Socks \ {c} : browser'[d] = browser[d] /\ downstream'[d] = downstream[d]
  BY <1>1, BrowserOpensAt DEF ViewOpens
<1>3. downstream[c] \in Seq(Deliveries)
  BY <1>1, <1>2 DEF Viewing, Connected, Coming
<1>4. ASSUME Watched(c)' PROVE Watched(c)
  <2>1. downstream[c] # <<Lost>>
    <3>1. Head(<<Lost>>) = Lost /\ Lost # Open
      BY DeliveriesAre
    <3> QED BY <1>2, <3>1
  <2> QED BY <1>1, <1>2, <1>4, <2>1 DEF Watched, Connected, Lossless, feedVars
<1>5. Flow(downstream'[c]) = Flow(downstream[c])
  <2> DEFINE q == downstream[c]
  <2>1. Flow(q) = Said(Open) \o Flow(Tail(q)) /\ Said(Open) = <<>>
    BY <1>2, <1>3, FlowMoves, SaidIsBytes
  <2>2. Tail(q) \in Seq(Deliveries)
    BY <1>2, <1>3
  <2>3. Flow(Tail(q)) \in Seq(Byte)
    BY <2>2, FlowMoves
  <2> HIDE DEF Flow
  <2>4. <<>> \o Flow(Tail(q)) = Flow(Tail(q))
    BY <2>3, ConcatEmptySeq
  <2> QED BY <1>2, <2>1, <2>4
<1>6. Shows(c)'
  <2>1. Plain(Before(kind, sent[c], held[c]))' = Plain(Before(kind, sent[c], held[c]))
    BY <1>1 DEF Plain, Before, feedVars
  <2>2. Flow(downstream[c])' = Flow(downstream'[c]) /\ BytesOf(text)' = BytesOf(text)
    BY <1>1
  <2>3. LastLines(BytesOf(text) \o Flow(downstream[c]))' = LastLines(BytesOf(text) \o Flow(downstream[c]))
    <3> HIDE DEF Flow, BytesOf, LastLines
    <3> QED BY <1>5, <2>2
  <2> HIDE DEF Flow, BytesOf, LastLines, Plain, Before, Watched
  <2>4. Watched(c)' => LastLines(BytesOf(text) \o Flow(downstream[c]))'
                         = LastLines(Plain(Before(kind, sent[c], held[c])))'
    BY <1>1, <1>4, <2>1, <2>3 DEF Shows
  <2> QED BY <1>2, <2>4 DEF Shows
<1>7. ASSUME NEW d \in Socks \ {c} PROVE Shows(d)'
  BY <1>1, <1>2, ShowsStays DEF WholeInv, Still, feedVars
<1> QED BY <1>1, <1>6, <1>7, QuietWhole DEF feedVars

(* What comes is put behind the text, and what is pushed out is gone.        *)
LEMMA ViewReceivesWhole ==
  ASSUME StreamsInv, WholeInv, NEW c \in Socks, ViewReceives(c)
  PROVE  WholeInv'
<1> DEFINE m == Head(downstream[c])
           x == BytesOf(text)
           y == Flow(Tail(downstream[c]))
<1>1. /\ PerSocket /\ Viewing(c) /\ Shows(c) /\ text \in Seq(Shown) /\ viewRef \in Socks \cup {NoView}
      /\ UNCHANGED <<browser, server, upstream, kind, viewRef, feedVars>>
      /\ text' = LastLines(text \o [i \in DOMAIN m.bytes |-> [sock |-> c, byte |-> m.bytes[i]]])
  BY DEF StreamsInv, WholeInv, ViewReceives, ViewTypes
<1>2. /\ Others(c) /\ browser[c] = "open" /\ browser'[c] = browser[c] /\ downstream[c] # <<>>
      /\ m \notin {Bye, Lost} /\ downstream'[c] = Tail(downstream[c])
  BY <1>1, BrowserReceivesAt DEF ViewReceives
<1>3. c = viewRef /\ Coming("open", server[c], downstream[c])
  BY <1>1, <1>2 DEF Viewing, Connected
<1>4. downstream[c] \in Seq(Deliveries) /\ m \in Data
  <2>1. downstream[c] \in Seq(Deliveries) /\ 1 \in 1 .. Len(downstream[c]) /\ m = downstream[c][1]
    BY <1>2, <1>3 DEF Coming
  <2>2. m \in Deliveries /\ m \notin {Open, Refused}
    BY <2>1, <1>3 DEF Coming
  <2> QED BY <1>2, <2>1, <2>2, DeliveriesAre
<1>5. m.bytes \in Seq(Byte) /\ Said(m) = m.bytes
  BY <1>4, SaidIsBytes, DeliveriesAre
<1>6. Flow(downstream[c]) = m.bytes \o y /\ y \in Seq(Byte)
  <2>1. Tail(downstream[c]) \in Seq(Deliveries)
    BY <1>2, <1>4
  <2> HIDE DEF Flow
  <2> QED BY <1>2, <1>4, <1>5, <2>1, FlowMoves
<1>7. BytesOf(text') = LastLines(x \o m.bytes) /\ x \in Seq(Byte)
  <2> HIDE DEF m, BytesOf, LastLines
  <2> QED BY <1>1, <1>5, BytesOfMore, BytesOfShown
<1>8. LastLines(LastLines(x \o m.bytes) \o y) = LastLines(x \o (m.bytes \o y))
  <2> HIDE DEF m, x, y, LastLines
  <2>1. x \o m.bytes \in Seq(Byte)
    BY <1>5, <1>7, ConcatProperties
  <2>2. LastLines(LastLines(x \o m.bytes) \o y) = LastLines((x \o m.bytes) \o y)
    BY <1>6, <2>1, LastLinesLater
  <2>3. (x \o m.bytes) \o y = x \o (m.bytes \o y)
    <3>1. \A a, b, e \in Seq(Byte) : (a \o b) \o e = a \o (b \o e)
      BY ConcatAssociative, SMTT(30)
    <3> QED BY <1>5, <1>6, <1>7, <3>1
  <2> QED BY <2>2, <2>3
<1>9. ASSUME Watched(c)' PROVE Watched(c)
  <2>1. downstream[c] # <<Lost>>
    <3>1. Head(<<Lost>>) = Lost
      OBVIOUS
    <3> QED BY <1>2, <3>1
  <2> QED BY <1>1, <1>9, <2>1 DEF Watched, Connected, Lossless, feedVars
<1>10. Shows(c)'
  <2>1. Plain(Before(kind, sent[c], held[c]))' = Plain(Before(kind, sent[c], held[c]))
    BY <1>1 DEF Plain, Before, feedVars
  <2>2. Flow(downstream[c])' = y /\ BytesOf(text)' = LastLines(x \o m.bytes)
    <3>1. Flow(downstream[c])' = Flow(downstream'[c]) /\ BytesOf(text)' = BytesOf(text')
      OBVIOUS
    <3> HIDE DEF Flow, BytesOf, LastLines
    <3> QED BY <1>2, <1>7, <3>1
  <2>3. LastLines(BytesOf(text) \o Flow(downstream[c]))' = LastLines(BytesOf(text) \o Flow(downstream[c]))
    <3>1. LastLines(BytesOf(text) \o Flow(downstream[c]))' = LastLines(LastLines(x \o m.bytes) \o y)
      <4> HIDE DEF Flow, BytesOf, m, x, y
      <4> QED BY <2>2 DEF LastLines
    <3> HIDE DEF Flow, BytesOf, LastLines, m, y
    <3> QED BY <1>6, <1>8, <3>1
  <2> HIDE DEF Flow, BytesOf, LastLines, Plain, Before, Watched
  <2>4. Watched(c)' => LastLines(BytesOf(text) \o Flow(downstream[c]))'
                         = LastLines(Plain(Before(kind, sent[c], held[c])))'
    BY <1>1, <1>9, <2>1, <2>3 DEF Shows
  <2> QED BY <1>2, <2>4 DEF Shows
<1>11. ASSUME NEW d \in Socks \ {c} PROVE Shows(d)'
  <2>1. viewRef' # d /\ ~Watched(d)'
    BY <1>1, <1>3 DEF Watched
  <2> QED BY <2>1 DEF Shows
<1> QED BY <1>1, <1>10, <1>11, QuietWhole DEF feedVars

(* A chunk of Docker's.                                                      *)
LEMMA ChunkWhole ==
  ASSUME StreamsInv, WholeInv, NEW c \in Socks, NEW n \in 1 .. Len(Wire[kind]), Chunk(c, n)
  PROVE  WholeInv'
<1> DEFINE W == Wire[kind]
           s == sent[c]
           h == held[c]
           raw == SubSeq(W, s + 1, s + n)
           chunk == Decoded(raw)
           b == h \o chunk
           m == [type |-> "data", bytes |-> Passed(b)]
<1>1. PerSocket /\ Viewing(c) /\ FeedTypes /\ kind \in ViewKinds /\ Fed(c) /\ Shows(c) /\ UncutAtEdges
  BY DEF StreamsInv, FeedTypes, WholeInv
<1>2. W \in Seq(Byte) /\ Len(W) \in Nat /\ s \in 0 .. Len(W) /\ h \in Seq(Byte) /\ RestOf(kind, s, h)
  BY <1>1, StreamsAssumption DEF FeedTypes, Fed
<1>3. /\ UNCHANGED <<browser, server, upstream, kind, viewVars, attach, feed, losses>> /\ feed[c] = "open"
      /\ n \in 1 .. Len(W) - s /\ sent' = [sent EXCEPT ![c] = s + n] /\ held' = [held EXCEPT ![c] = Kept(b)]
      /\ downstream' = IF Passed(b) = <<>> \/ server[c] # "open" THEN downstream ELSE ToBrowser(c, m)
      /\ cut' = (cut \/ (kind = "tty" /\ chunk[n].unit = 0))
  BY DEF Chunk
<1>4. sent'[c] = s + n /\ held'[c] = Kept(b) /\ \A d \in Socks \ {c} : sent'[d] = sent[d] /\ held'[d] = held[d]
  BY <1>1, <1>3 DEF FeedTypes
<1>5. raw \in Seq(Byte) /\ s + n \in 0 .. Len(W) /\ s \in Nat
  BY <1>2, <1>3
<1>6. b \in Seq(Byte)
  <2>1. chunk \in Seq(Byte)
    BY <1>5, DecodedIsBytes
  <2> HIDE DEF chunk
  <2> QED BY <1>2, <2>1, ConcatProperties
<1>7. ASSUME kind = "tty" => ~cut'
      PROVE  chunk = raw /\ (kind = "tty" => Edge("tty", s + n))
  <2>1. CASE kind # "tty"
    BY <1>5, <2>1, NotDecoded
  <2>2. CASE kind = "tty"
    <3>1. ~cut /\ chunk[n].unit # 0
      BY <1>3, <1>7, <2>2
    <3>2. Edge("tty", s)
      BY <1>1, <2>2, <3>1 DEF UncutAtEdges
    <3> HIDE DEF Decoded
    <3> QED BY <1>3, <1>5, <2>2, <3>1, <3>2, DecodedAtEdges
  <2> QED BY <2>1, <2>2
<1> HIDE DEF chunk
<1>8. ASSUME kind = "tty" => ~cut'
      PROVE  /\ RestOf(kind, s + n, Kept(b)) /\ Passed(b) \in Seq(Byte)
             /\ Plain(Before(kind, s + n, Kept(b))) = Plain(Before(kind, s, h)) \o Passed(b)
  <2>1. b = h \o SubSeq(Wire[kind], s + 1, s + n)
    BY <1>7, <1>8
  <2> HIDE DEF b, h, s
  <2> QED BY <1>1, <1>2, <1>3, <2>1, ChunkKept, ZenonT(40)
<1>9. RestOf(kind, s + n, Kept(b))
  <2>1. CASE kind = "tty"
    <3> HIDE DEF b, s
    <3> QED BY <1>5, <1>6, <2>1, TtyKept
  <2>2. CASE kind # "tty"
    BY <1>8, <2>2
  <2> QED BY <2>1, <2>2
<1> HIDE DEF b
<1>10. \A d \in Socks : Fed(d)'
  <2>1. Fed(c)'
    <3> HIDE DEF s
    <3> QED BY <1>3, <1>4, <1>9 DEF Fed
  <2>2. ASSUME NEW d \in Socks \ {c} PROVE Fed(d)'
    BY <1>3, <1>4, FedStays DEF WholeInv
  <2> QED BY <2>1, <2>2
<1>11. UncutAtEdges'
  <2>1. SUFFICES ASSUME kind = "tty", ~cut', NEW d \in Socks PROVE Edge("tty", sent'[d])
    BY <1>3 DEF UncutAtEdges
  <2>2. ~cut
    BY <1>3, <2>1
  <2>3. CASE d = c
    BY <1>4, <1>7, <2>1, <2>3
  <2>4. CASE d # c
    BY <1>1, <1>4, <2>1, <2>2, <2>4 DEF UncutAtEdges
  <2> QED BY <2>3, <2>4
<1>12. \A d \in Socks \ {c} : downstream'[d] = downstream[d]
  <2>1. CASE downstream' = downstream
    BY <2>1
  <2>2. CASE downstream' = ToBrowser(c, m)
    <3> HIDE DEF ToBrowser, m
    <3> QED BY <2>2, ToBrowserAt
  <2> QED BY <1>3, <2>1, <2>2
<1>13. ASSUME NEW d \in Socks \ {c} PROVE Shows(d)'
  <2>1. Still(d) /\ UNCHANGED <<viewRef, text, kind>> /\ (~cut' => ~cut)
    BY <1>3, <1>12 DEF Still, viewVars
  <2> QED BY <1>4, <2>1, ShowsStays DEF WholeInv
<1>14. ASSUME Watched(c)' PROVE Shows(c)'
  <2> DEFINE x == BytesOf(text)
             y == Flow(downstream[c])
             z == Plain(Before(kind, s, h))
             r == Passed(b)
  <2>1. viewRef = c /\ ~cut' /\ ~cut /\ Connected(c) /\ server[c] = "open" /\ downstream'[c] # <<Lost>>
    BY <1>3, <1>14 DEF Watched, Connected, Lossless, viewVars
  <2>2. r \in Seq(Byte) /\ Plain(Before(kind, s + n, Kept(b))) = z \o r
    BY <1>8, <2>1
  <2>3. downstream[c] # <<Lost>>
    <3>1. SUFFICES ASSUME downstream[c] = <<Lost>> PROVE FALSE
      OBVIOUS
    <3>2. ToBrowser(c, m)[c] = downstream[c]
      <4> HIDE DEF ToBrowser, m
      <4> QED BY <3>1, ToBrowserAt
    <3>3. downstream'[c] = downstream[c]
      <4> HIDE DEF ToBrowser, m
      <4> QED BY <1>3, <3>2
    <3> QED BY <2>1, <3>1, <3>3
  <2>4. LastLines(x \o y) = LastLines(z)
    <3>1. Watched(c)
      BY <2>1, <2>3 DEF Watched, Lossless
    <3> HIDE DEF Watched
    <3> QED BY <1>1, <3>1 DEF Shows
  <2>5. downstream[c] \in Seq(Deliveries) /\ y \in Seq(Byte) /\ x \in Seq(Byte) /\ z \in Seq(Byte)
    <3>1. downstream[c] \in Seq(Deliveries)
      BY <1>1, <2>1 DEF Viewing, Coming
    <3>2. text \in Seq(Shown)
      BY DEF StreamsInv, ViewTypes
    <3>3. Before(kind, s, h) \in Seq(Byte)
      <4>1. s - Len(h) \in 0 .. s
        BY <1>1, <1>2, RestIs
      <4> QED BY <1>2, <4>1 DEF Before
    <3>4. z \in Seq(Byte)
      <4> HIDE DEF Before, Plain
      <4> QED BY <3>3, PlainConcat
    <3> HIDE DEF Flow, BytesOf
    <3> QED BY <3>1, <3>2, <3>4, FlowMoves, BytesOfShown
  <2>6. Flow(downstream'[c]) = y \o r
    <3>1. CASE r = <<>>
      <4>1. downstream'[c] = downstream[c]
        BY <1>3, <3>1
      <4>2. y \o <<>> = y
        <5> HIDE DEF y
        <5> QED BY <2>5, ConcatEmptySeq
      <4> HIDE DEF r, Flow
      <4> QED BY <3>1, <4>1, <4>2
    <3>2. CASE r # <<>>
      <4>1. downstream'[c] = Append(downstream[c], m)
        <5> HIDE DEF ToBrowser, m
        <5> QED BY <1>3, <2>1, <2>3, <3>2, ToBrowserAt
      <4>2. m \in Data /\ m.bytes = r
        BY <2>2 DEF Data
      <4>3. m \in Deliveries /\ Said(m) = r
        <5> HIDE DEF m, r
        <5> QED BY <4>2, DeliveriesAre, SaidIsBytes
      <4> HIDE DEF m, r, Flow
      <4> QED BY <2>5, <4>1, <4>3, FlowMoves
    <3> QED BY <3>1, <3>2
  <2>7. LastLines(x \o (y \o r)) = LastLines(z \o r)
    <3> HIDE DEF x, y, z, r, LastLines
    <3>1. x \o y \in Seq(Byte)
      BY <2>5, ConcatProperties
    <3>2. LastLines((x \o y) \o r) = LastLines(z \o r)
      BY <2>2, <2>4, <2>5, <3>1, SameLines
    <3>3. (x \o y) \o r = x \o (y \o r)
      BY <2>2, <2>5, ConcatAssociative, SMTT(30)
    <3> QED BY <3>2, <3>3
  <2>8. BytesOf(text)' = x /\ Flow(downstream[c])' = Flow(downstream'[c])
    BY <1>3 DEF viewVars
  <2>9. Plain(Before(kind, sent[c], held[c]))' = z \o r
    <3>1. Plain(Before(kind, sent[c], held[c]))' = Plain(Before(kind, s + n, Kept(b)))
      <4>1. kind' = kind /\ sent'[c] = s + n /\ held'[c] = Kept(b)
        BY <1>3, <1>4
      <4> HIDE DEF s, b, Bodies, Kept
      <4> QED BY <4>1 DEF Plain, Before
    <3> HIDE DEF Plain, Before, z, r
    <3> QED BY <2>2, <3>1
  <2>10. LastLines(BytesOf(text) \o Flow(downstream[c]))' = LastLines(x \o (y \o r))
    <3> HIDE DEF x, y, r, BytesOf, Flow
    <3> QED BY <2>6, <2>8 DEF LastLines
  <2>11. LastLines(Plain(Before(kind, sent[c], held[c])))' = LastLines(z \o r)
    <3> HIDE DEF z, r, Plain, Before
    <3> QED BY <2>9 DEF LastLines
  <2>12. browser'[c] = "connecting" => text' = <<>>
    BY <1>1, <1>3, <2>1 DEF Shows, viewVars
  <2> HIDE DEF x, y, z, r, BytesOf, Flow, Plain, Before, LastLines, Watched
  <2> QED BY <2>7, <2>10, <2>11, <2>12 DEF Shows
<1>15. Shows(c)'
  <2>1. UNCHANGED <<viewRef, text, browser>>
    BY <1>3 DEF viewVars
  <2> QED BY <1>1, <1>14, <2>1, NotWatched
<1> QED BY <1>10, <1>11, <1>13, <1>15 DEF WholeInv

LEMMA WholeStep ==
  ASSUME StreamsInv, WholeInv, [StreamsNext]_streamVars PROVE WholeInv'
<1>1. CASE Cleanup
  BY <1>1, CleanupWhole
<1>2. ASSUME NEW c \in Socks,
             \/ \E t \in Targets : ShowTarget(c, t)
             \/ ViewOpens(c) \/ ViewReceives(c) \/ ViewCloses(c)
             \/ ViewAdmitted(c) \/ ViewRejected(c) \/ Inspected(c) \/ Attached(c) \/ AttachFailed(c)
             \/ \E n \in 1 .. Len(Wire[kind]) : Chunk(c, n)
             \/ FeedEnds(c) \/ ViewClosed(c) \/ ViewLost(c)
      PROVE  WholeInv'
  BY <1>2, ShowTargetWhole, ViewOpensWhole, ViewReceivesWhole, ViewClosesWhole, HandlerWhole, ChunkWhole
<1>3. CASE UNCHANGED streamVars
  <2>1. UNCHANGED <<browser, server, upstream, downstream, kind, viewRef, text, feed, sent, held, cut>>
    BY <1>3 DEF streamVars, sockVars, feedVars, viewVars
  <2>2. ASSUME NEW d \in Socks PROVE Shows(d)'
    BY <2>1, ShowsStays DEF WholeInv, Still
  <2> QED BY <2>1, <2>2, QuietWhole
<1> QED BY <1>1, <1>2, <1>3 DEF StreamsNext

(* What the listener has passed on and kept is what LogDemuxer makes of all  *)
(* of it at once.                                                            *)
LEMMA DemuxWhole ==
  ASSUME FeedTypes, \A c \in Socks : Fed(c)
  PROVE  DemuxIsDemuxLogs
<1> SUFFICES ASSUME NEW c \in Socks
    PROVE  LET all   == SubSeq(Wire[kind], 1, sent[c])
               given == SubSeq(all, 1, sent[c] - Len(held[c]))
           IN /\ held[c] = SubSeq(all, sent[c] - Len(held[c]) + 1, sent[c])
              /\ held[c] # <<>> => held[c][1].at = 1
              /\ kind = "logs" => Bodies(given) = SubSeq(DemuxLogs(all), 1, Len(Bodies(given)))
              /\ sent[c] = Len(Wire[kind]) => held[c] = <<>>
  BY DEF DemuxIsDemuxLogs
<1> DEFINE W == Wire[kind]
           s == sent[c]
           h == held[c]
           g == s - Len(h)
           all == SubSeq(W, 1, s)
           given == SubSeq(all, 1, g)
<1>1. kind \in ViewKinds /\ W \in Seq(Byte) /\ Len(W) \in Nat /\ s \in 0 .. Len(W) /\ RestOf(kind, s, h)
  BY StreamsAssumption DEF FeedTypes, Fed
<1>2. /\ h \in Seq(Byte) /\ g \in 0 .. s /\ Len(h) \in 0 .. s /\ (kind = "tty" => Len(h) = 0)
      /\ (kind # "tty" => Edge(kind, g))
  BY <1>1, RestIs
<1>3. Ends(kind, g, s) /\ h = SubSeq(W, g + 1, s) /\ Len(h) = s - g
  BY <1>1, <1>2 DEF RestOf
<1>4. Edge(kind, 0)
  BY <1>1 DEF Edge
<1> HIDE DEF W, s, g
<1>5. all \in Seq(Byte) /\ Len(all) = s /\ \A i \in 1 .. s : all[i] = W[i]
  BY <1>1
<1>6. \A i \in 1 .. s - g : h[i] = W[g + i]
  BY <1>1, <1>2, <1>3
<1>7. h = SubSeq(all, g + 1, s)
  <2> DEFINE z == SubSeq(all, g + 1, s)
  <2> HIDE DEF all, h
  <2>0. g \in Nat /\ s \in Nat /\ g <= s /\ s <= Len(all) /\ Len(all) \in Nat
    BY <1>1, <1>2, <1>5
  <2>1. z \in Seq(Byte) /\ Len(z) = s - g /\ \A i \in 1 .. s - g : z[i] = all[g + i]
    BY <1>5, <2>0
  <2>2. \A i \in 1 .. s - g : z[i] = h[i]
    BY <1>1, <1>2, <1>5, <1>6, <2>1, SMTT(30)
  <2> HIDE DEF z
  <2>3. Len(h) = Len(z) /\ \A i \in 1 .. Len(h) : h[i] = z[i]
    BY <1>3, <2>1, <2>2
  <2>4. h = z
    BY <1>2, <2>1, <2>3, SeqEqual
  <2> QED BY <2>4 DEF z
<1>8. ASSUME h # <<>> PROVE h[1].at = 1
  <2>1. Len(h) # 0
    <3> HIDE DEF h
    <3> QED BY <1>2, <1>8
  <2>2. g \in Nat /\ Edge(kind, g) /\ g < Len(W) /\ 1 \in 1 .. s - g
    BY <1>1, <1>2, <1>3, <2>1
  <2>a. PICK x \in Nat : UnitFrom(kind, g, x)
    <3>1. g < Len(Wire[kind])
      BY <2>2 DEF W
    <3> QED BY <1>1, <2>2, <3>1, UnitAt
  <2>3. x # 0 /\ \A j \in 1 .. x : Wire[kind][g + j].at = j
    BY <2>a DEF UnitFrom, IsUnit
  <2>4. 1 \in 1 .. x
    BY <2>3
  <2>5. W[g + 1].at = 1
    BY <2>3, <2>4 DEF W
  <2> HIDE DEF h
  <2> QED BY <1>6, <2>2, <2>5
<1>9. ASSUME kind = "logs" PROVE Bodies(given) = SubSeq(DemuxLogs(all), 1, Len(Bodies(given)))
  <2> DEFINE F == FrameEnds(all, TRUE)[0]
  <2>1. given \in Seq(Byte) /\ h \in Seq(Byte) /\ all = given \o h
    <3>1. given = SubSeq(W, 1, g)
      <4> DEFINE z == SubSeq(W, 1, g)
      <4>0. g \in Nat /\ g <= Len(W) /\ W \in Seq(Byte) /\ Len(W) \in Nat
        BY <1>1, <1>2
      <4>1. z \in Seq(Byte) /\ Len(z) = g /\ \A i \in 1 .. g : z[i] = W[i]
        BY <4>0
      <4>2. given \in Seq(Byte) /\ Len(given) = g /\ \A i \in 1 .. g : given[i] = all[i]
        <5>1. g <= Len(all) /\ Len(all) \in Nat
          BY <1>1, <1>2, <1>5
        <5> HIDE DEF all
        <5> QED BY <1>5, <4>0, <5>1
      <4>3. \A i \in 1 .. g : i \in 1 .. s
        BY <1>1, <1>2
      <4> HIDE DEF z, given, all
      <4>4. Len(given) = Len(z) /\ \A i \in 1 .. Len(given) : given[i] = z[i]
        BY <1>5, <4>1, <4>2, <4>3
      <4>5. given = z
        BY <4>1, <4>2, <4>4, SeqEqual
      <4> QED BY <4>5 DEF z
    <3>2. SubSeq(W, 0 + 1, g) \o SubSeq(W, g + 1, s) = SubSeq(W, 0 + 1, s)
      <4>1. \A x, y, z \in Nat : x <= y /\ y <= z /\ z <= Len(Wire[kind]) =>
              SubSeq(Wire[kind], x + 1, y) \o SubSeq(Wire[kind], y + 1, z) = SubSeq(Wire[kind], x + 1, z)
        BY <1>1, PutTogether
      <4>2. 0 \in Nat /\ g \in Nat /\ s \in Nat /\ 0 <= g /\ g <= s /\ s <= Len(W)
        BY <1>1, <1>2
      <4> QED BY <4>1, <4>2 DEF W
    <3>3. SubSeq(W, 1, g) \in Seq(Byte)
      BY <1>1, <1>2
    <3>4. 0 + 1 = 1
      OBVIOUS
    <3>5. SubSeq(W, 1, g) \o h = all
      BY <1>3, <3>2, <3>4, Zenon
    <3> HIDE DEF given, h, all
    <3> QED BY <1>2, <3>1, <3>3, <3>5
  <2>2. F \in {g, s} /\ DemuxLogs(all) = Bodies(SubSeq(all, 1, F))
    <3>1. Edge("logs", 0) /\ s \in 0 .. Len(Wire["logs"]) /\ 0 \in Nat /\ TRUE \in BOOLEAN
      BY <1>1, <1>4, <1>9 DEF W
    <3>2. PICK e \in 0 .. s : /\ Ends("logs", e, s)
                              /\ FrameEnds(SubSeq(Wire["logs"], 0 + 1, s), TRUE)[0] \in {e - 0, IF TRUE THEN s - 0 ELSE e - 0}
      BY <3>1, FramesStop
    <3>3. e = g
      BY <1>1, <1>3, <1>9, <3>2, OneEnd
    <3>4. SubSeq(Wire["logs"], 0 + 1, s) = all
      BY <1>9 DEF W
    <3>5. e - 0 = e /\ s - 0 = s
      BY <1>1
    <3>6. DemuxLogs(all) = Bodies(SubSeq(all, 1, F))
      <4> HIDE DEF all, Bodies
      <4> QED BY <1>5, FrameEndsAre
    <3>7. F \in {g, s}
      <4> HIDE DEF all
      <4> QED BY <3>2, <3>3, <3>4, <3>5
    <3> QED BY <3>6, <3>7
  <2>3. Bodies(given) \in Seq(Byte) /\ Bodies(h) \in Seq(Byte) /\ Bodies(all) = Bodies(given) \o Bodies(h)
    <3> HIDE DEF given, all, h, Bodies
    <3> QED BY <2>1, BodiesConcat, BodiesAreBytes
  <2>4. SubSeq(all, 1, s) = all
    <3> HIDE DEF all
    <3>1. SubSeq(all, 1, Len(all)) = all
      BY <1>5
    <3> QED BY <1>5, <3>1
  <2>5. DemuxLogs(all) \in {Bodies(given), Bodies(given) \o Bodies(h)}
    <3>1. CASE F = g
      BY <2>2, <3>1
    <3>2. CASE F = s
      <4> HIDE DEF F, all, Bodies
      <4> QED BY <2>2, <2>3, <2>4, <3>2
    <3> HIDE DEF F
    <3> QED BY <2>2, <3>1, <3>2
  <2>6. \A x, y \in Seq(Byte) : SubSeq(x, 1, Len(x)) = x /\ SubSeq(x \o y, 1, Len(x)) = x
    <3>1. SUFFICES ASSUME NEW x \in Seq(Byte), NEW y \in Seq(Byte)
          PROVE  SubSeq(x, 1, Len(x)) = x /\ SubSeq(x \o y, 1, Len(x)) = x
      OBVIOUS
    <3> DEFINE z == x \o y
               u == SubSeq(z, 1, Len(x))
    <3>2. z \in Seq(Byte) /\ Len(z) = Len(x) + Len(y) /\ \A i \in 1 .. Len(x) + Len(y) : i <= Len(x) => z[i] = x[i]
      BY ConcatProperties
    <3>3. Len(x) \in Nat /\ Len(y) \in Nat
      OBVIOUS
    <3> HIDE DEF z
    <3>4. u \in Seq(Byte) /\ Len(u) = Len(x) /\ \A i \in 1 .. Len(x) : u[i] = z[i]
      BY <3>2, <3>3
    <3>5. \A i \in 1 .. Len(x) : z[i] = x[i]
      BY <3>2, <3>3
    <3> HIDE DEF u
    <3>6. Len(u) = Len(x) /\ \A i \in 1 .. Len(u) : u[i] = x[i]
      BY <3>4, <3>5
    <3>7. u = x
      BY <3>4, <3>6, SeqEqual
    <3>8. SubSeq(x, 1, Len(x)) = x
      OBVIOUS
    <3> QED BY <3>7, <3>8 DEF u, z
  <2> HIDE DEF given, all, h, Bodies
  <2> QED BY <2>3, <2>5, <2>6
<1>10. ASSUME s = Len(W) PROVE h = <<>>
  <2>1. Edge(kind, s)
    BY <1>1, <1>10, LastEdge DEF W
  <2>2. Len(h) = 0
    <3>1. CASE kind = "tty"
      BY <1>2, <3>1
    <3>2. CASE kind # "tty"
      <4>1. SUFFICES ASSUME g # s PROVE FALSE
        BY <1>1, <1>2, <1>3
      <4>2. s \in g + 1 .. s
        BY <1>1, <1>2, <4>1
      <4>3. ~Edge(kind, s)
        BY <1>3, <3>2, <4>2 DEF Ends
      <4> QED BY <2>1, <4>3
    <3> QED BY <3>1, <3>2
  <2> HIDE DEF h
  <2> QED BY <1>2, <2>2
<1> HIDE DEF Bodies, DemuxLogs, RestOf
<1> QED BY <1>7, <1>8, <1>9, <1>10 DEF W, s, h, g, all, given

LEMMA TextWhole == ASSUME StreamsInv, WholeInv PROVE TextIsFeed
<1> DEFINE c == viewRef
           W == Wire[kind]
           s == sent[c]
<1>1. SUFFICES ASSUME c # NoView, ~cut, Connected(c), server[c] = "open", Lossless(downstream, c)
      PROVE  LastLines(BytesOf(text) \o OnTheWay(c)) = LastLines(Passed(SubSeq(W, 1, s)))
  BY DEF TextIsFeed, BytesOf
<1>2. c \in Socks /\ kind \in ViewKinds /\ W \in Seq(Byte) /\ Len(W) \in Nat /\ s \in 0 .. Len(W)
  BY <1>1, StreamsAssumption DEF StreamsInv, ViewTypes, FeedTypes
<1>3. Fed(c) /\ Shows(c) /\ Watched(c)
  BY <1>1, <1>2 DEF WholeInv, Watched
<1> DEFINE g == s - Len(held[c])
<1>4. Ends(kind, g, s) /\ Before(kind, s, held[c]) = SubSeq(W, 1, g)
  BY <1>3 DEF Fed, RestOf, Before
<1>5. Passed(SubSeq(W, 1, s)) = Plain(SubSeq(W, 1, g))
  <2>1. Edge(kind, 0)
    BY <1>2 DEF Edge
  <2>a. PICK e \in 0 .. s : CutAt(0, e, s)
    <3>1. 0 \in Nat /\ s \in 0 .. Len(Wire[kind])
      BY <1>2
    <3> HIDE DEF s
    <3> QED BY <1>2, <2>1, <3>1, KeptIsRest
  <2>2. Ends(kind, e, s) /\ Passed(SubSeq(W, 0 + 1, s)) = Plain(SubSeq(W, 0 + 1, e))
    BY <2>a DEF CutAt
  <2>3. e = g
    <3> HIDE DEF g, s
    <3> QED BY <1>2, <1>4, <2>2, OneEnd
  <2> HIDE DEF Passed, Plain, g, s
  <2> QED BY <2>2, <2>3
<1>6. OnTheWay(c) = Flow(downstream[c])
  BY FlowIs
<1>7. LastLines(BytesOf(text) \o Flow(downstream[c])) = LastLines(Plain(Before(kind, s, held[c])))
  <2> HIDE DEF Watched, Flow, BytesOf, LastLines, Plain, Before
  <2> QED BY <1>3 DEF Shows
<1> HIDE DEF Flow, BytesOf, LastLines, Plain, Before, OnTheWay, Passed, g, s
<1> QED BY <1>4, <1>5, <1>6, <1>7

(***************************************************************************)
(* The connections together, MCConnections.                                *)
(***************************************************************************)

(* What the terminal's properties do not need: its types.                    *)
TermFlags ==
  /\ running \in BOOLEAN /\ mounted \in BOOLEAN /\ connected \in BOOLEAN /\ twice \in BOOLEAN
  /\ term \in {"none", "shown", "hidden"} /\ screen \subseteq Socks
  /\ resize \in [Socks -> BOOLEAN] /\ faults \in 0 .. MaxFaults
TermRest == TermFlags /\ downstream = [c \in Socks |-> downstream[c]]

LEMMA FaultsCounted == ASSUME faults \in 0 .. MaxFaults, Fault \/ NoFault PROVE faults' \in 0 .. MaxFaults
BY TerminalAssumption DEF Fault, NoFault

LEMMA TermFlagsStep ==
  ASSUME TermFlags, TerminalNext PROVE TermFlags'
<1>1. faults \in 0 .. MaxFaults
  BY DEF TermFlags
<1>2. CASE ContainerStops \/ ContainerStarts \/ Disconnect \/ Unmount \/ TypeKey \/ ResizeWindow
  <2>1. faults' \in 0 .. MaxFaults
    BY <1>1, <1>2, FaultsCounted DEF ContainerStops, ContainerStarts, Disconnect, Unmount, TypeKey, ResizeWindow
  <2> QED BY <1>2, <2>1 DEF TermFlags, ContainerStops, ContainerStarts, Disconnect, Unmount, TypeKey, ResizeWindow,
                            execVars, clientVars
<1>3. ASSUME NEW c \in Socks, Connect(c) \/ ShellPrints(c) \/ Breaks(c) PROVE TermFlags'
  <2>1. faults' \in 0 .. MaxFaults
    BY <1>1, <1>3, FaultsCounted DEF Connect, ShellPrints, Breaks
  <2> QED BY <1>3, <2>1 DEF TermFlags, Connect, ShellPrints, Breaks, execVars, clientVars
<1>4. ASSUME NEW c \in Socks, Opens(c) \/ Prints(c) \/ Closes(c) PROVE TermFlags'
  <2>1. faults' \in 0 .. MaxFaults
    BY <1>1, <1>4, FaultsCounted DEF Opens, Prints, Closes
  <2> QED BY <1>4, <2>1 DEF TermFlags, Opens, Prints, Closes, execVars
<1>5. ASSUME NEW c \in Socks, Admit(c) \/ Reject(c) \/ ExecCreated(c) \/ ExecResized(c) \/ ExecStarted(c)
                             \/ ExecFailed(c) \/ CloseHandled(c) \/ ShellEnds(c)
      PROVE  TermFlags'
  <2>1. faults' \in 0 .. MaxFaults
    BY <1>1, <1>5, FaultsCounted
       DEF Admit, Reject, ExecCreated, ExecResized, ExecStarted, ExecFailed, CloseHandled, ShellEnds
  <2>2. UNCHANGED <<running, mounted, connected, twice, term, screen, resize>>
    BY <1>5 DEF Admit, Reject, ExecCreated, ExecResized, ExecStarted, ExecFailed, CloseHandled, ShellEnds,
                clientVars, execVars
  <2> QED BY <2>1, <2>2 DEF TermFlags
<1>6. ASSUME NEW c \in Socks, Receives(c) PROVE TermFlags'
  <2>1. faults' \in 0 .. MaxFaults /\ UNCHANGED clientVars
    BY <1>1, <1>6, FaultsCounted DEF Receives
  <2>2. resize' = resize \/ resize' = [resize EXCEPT ![c] = @ \/ task[c] \in {"none", "create"}]
    BY <1>6 DEF Receives
  <2>3. resize' \in [Socks -> BOOLEAN]
    BY <2>2 DEF TermFlags
  <2> QED BY <2>1, <2>3 DEF TermFlags, clientVars
<1> QED BY <1>2, <1>3, <1>4, <1>5, <1>6 DEF TerminalNext, PlatformStep

LEMMA DownstreamStep ==
  ASSUME PerSocket, wsRef \in Socks \cup {NoSock}, TerminalNext
  PROVE  downstream' = [c \in Socks |-> downstream'[c]]
<1> DEFINE Down == downstream' = [c \in Socks |-> downstream'[c]]
<1>1. CASE UNCHANGED downstream
  BY <1>1 DEF PerSocket
<1>2. CASE CloseRef
  BY <1>1, <1>2 DEF CloseRef, DownAfterClose, PerSocket
<1>3. CASE ContainerStops \/ ContainerStarts \/ Disconnect \/ Unmount \/ TypeKey \/ ResizeWindow
  BY <1>1, <1>2, <1>3 DEF ContainerStops, ContainerStarts, Disconnect, Unmount, TypeKey, ResizeWindow, sockVars
<1>4. ASSUME NEW c \in Socks, Connect(c) \/ ExecCreated(c) \/ ExecResized(c) \/ ExecStarted(c) \/ Receives(c)
      PROVE  Down
  <2>1. UNCHANGED downstream
    BY <1>4 DEF Connect, ExecCreated, ExecResized, ExecStarted, Receives, sockVars
  <2> QED BY <1>1, <2>1
<1>5. ASSUME NEW c \in Socks, NEW m, downstream' = ToBrowser(c, m) PROVE Down
  <2> HIDE DEF ToBrowser
  <2> QED BY <1>5, ToBrowserAt
<1>6. ASSUME NEW c \in Socks, ExecFailed(c) \/ ShellEnds(c) \/ CloseHandled(c) \/ ShellPrints(c) PROVE Down
  <2>1. ServerCloses(c) \/ ServerClosed(c) \/ downstream' = ToBrowser(c, Output)
    BY <1>6 DEF ExecFailed, ShellEnds, CloseHandled, ShellPrints
  <2>2. UNCHANGED downstream \/ downstream' = ToBrowser(c, Bye) \/ downstream' = ToBrowser(c, Output)
    <3>1. CASE server[c] = "open" /\ Head(upstream[c]) = Bye
      BY <2>1, <3>1 DEF ServerCloses, ServerClosed
    <3>2. CASE server[c] = "open" /\ Head(upstream[c]) # Bye
      BY <2>1, <3>2 DEF ServerCloses, ServerClosed
    <3>3. CASE server[c] # "open"
      BY <2>1, <3>3 DEF ServerCloses, ServerClosed
    <3> QED BY <3>1, <3>2, <3>3
  <2> QED BY <1>1, <1>5, <2>2
<1>7. ASSUME NEW c \in Socks, Admit(c) \/ Reject(c) PROVE Down
  <2>1. UNCHANGED downstream \/ downstream' = ToBrowser(c, Open) \/ downstream' = ToBrowser(c, Refused)
    BY <1>7 DEF Admit, Reject, Upgraded, Upgrade, UpgradeRefused
  <2> QED BY <1>1, <1>5, <2>1
<1>8. ASSUME NEW c \in Socks, Opens(c) \/ Prints(c) \/ Closes(c) \/ Breaks(c) PROVE Down
  BY <1>8 DEF Opens, Prints, Closes, Breaks, BrowserOpens, BrowserReceives, BrowserCloses, Drop, Taken, PerSocket
<1> QED BY <1>3, <1>4, <1>6, <1>7, <1>8 DEF TerminalNext, PlatformStep

LEMMA TermRestStep ==
  ASSUME TerminalInv, TermRest, [TerminalNext]_terminalVars PROVE TermRest'
<1>1. CASE UNCHANGED terminalVars
  BY <1>1 DEF terminalVars, sockVars, clientVars, execVars, TermRest, TermFlags
<1>2. CASE TerminalNext
  <2>1. PerSocket /\ wsRef \in Socks \cup {NoSock}
    BY DEF TerminalInv, TermTypes, TermRest, PerSocket
  <2> QED BY <1>2, <2>1, TermFlagsStep, DownstreamStep DEF TermRest
<1> QED BY <1>1, <1>2

LEMMA TermRestInit == ASSUME TerminalInit PROVE TermRest
<1>1. /\ downstream = [c \in Socks |-> <<>>] /\ resize = [c \in Socks |-> FALSE] /\ running \in BOOLEAN
      /\ mounted = TRUE /\ connected = FALSE /\ twice = FALSE /\ screen = {} /\ faults = 0
      /\ term = IF running THEN "shown" ELSE "none"
  BY DEF TerminalInit, SocketsInit
<1>2. mounted \in BOOLEAN /\ connected \in BOOLEAN /\ twice \in BOOLEAN /\ running \in BOOLEAN
  BY <1>1, Zenon
<1>3. downstream = [c \in Socks |-> downstream[c]]
  BY <1>1
<1>4. resize \in [Socks -> BOOLEAN]
  BY <1>1
<1>5. term \in {"none", "shown", "hidden"} /\ screen \subseteq Socks /\ faults \in 0 .. MaxFaults
  BY <1>1, TerminalAssumption
<1> QED BY <1>2, <1>3, <1>4, <1>5 DEF TermRest, TermFlags

(***************************************************************************)
(* The connections together: each part keeps its own invariant, and the    *)
(* sockets are those of the part that moves.                               *)
(***************************************************************************)
ConnectionsInv ==
  /\ part = "hosts" => HostInv
  /\ part = "terminal" => TerminalInv /\ TermRest
  /\ part = "streams" => StreamsInv
  /\ part = "oneShot" => OneShotInv
  /\ part \in {"hosts", "terminal", "streams", "oneShot"}

LEMMA ConnectionsInitOK == ASSUME ConnectionsInit PROVE ConnectionsInv
BY HostInitInv, TerminalInitOK, TermRestInit, StreamsInitOK, OneShotInitOK DEF ConnectionsInit, ConnectionsInv

LEMMA ConnectionsStep ==
  ASSUME ConnectionsInv, [ConnectionsNext]_connectionsVars PROVE ConnectionsInv'
<1>1. CASE part = "hosts" /\ part' = part /\ HostNext
  BY <1>1, HostStep DEF ConnectionsInv
<1>2. CASE part = "terminal" /\ part' = part /\ TerminalNext
  BY <1>2, TerminalStep, TermRestStep DEF ConnectionsInv
<1>3. CASE part = "streams" /\ part' = part /\ StreamsNext
  BY <1>3, StreamsStep DEF ConnectionsInv
<1>4. CASE part = "oneShot" /\ part' = part /\ OneShotNext
  BY <1>4, OneShotStep DEF ConnectionsInv
<1>5. CASE UNCHANGED connectionsVars
  <2>1. /\ part' = part /\ UNCHANGED hostVars /\ UNCHANGED terminalVars
        /\ UNCHANGED streamVars /\ UNCHANGED oneShotVars
    BY <1>5 DEF connectionsVars, socketOnly, streamOnly, oneShotOnly, terminalVars, streamVars, oneShotVars
  <2> QED BY <2>1, HostStep, TerminalRests, TermRestStep, StreamsStep, OneShotStep DEF ConnectionsInv
<1> QED BY <1>1, <1>2, <1>3, <1>4, <1>5 DEF ConnectionsNext, InPart

THEOREM ConnectionsInvariant == ConnectionsSpec => []ConnectionsInv
<1> QED BY ConnectionsInitOK, ConnectionsStep, PTL DEF ConnectionsSpec

LEMMA SocketsTyped == ASSUME PerSocket PROVE SocketsTypeOK
BY DEF PerSocket, SocketsTypeOK

LEMMA TerminalTyped == ASSUME TerminalInv, TermRest PROVE TerminalTypeOK
BY DEF TerminalInv, TermTypes, TermRest, TermFlags, TerminalTypeOK, SocketsTypeOK

LEMMA StreamsTyped == ASSUME StreamsInv PROVE StreamsTypeOK
BY SocketsTyped DEF StreamsInv, ViewTypes, FeedTypes, StreamsTypeOK

LEMMA OneShotTyped == ASSUME OneShotInv PROVE OneShotTypeOK
<1> DEFINE T == [type : {"token"}, sock : Socks, at : 1 .. MaxAnswer]
<1>1. \A t \in Tokens : t \in T
  BY DEF Tokens, Piece
<1>2. answer \in Seq(Tokens)
  BY DEF OneShotInv, OneShotTypes
<1> HIDE DEF T
<1>3. answer \in Seq(T)
  BY <1>1, <1>2
<1> QED BY <1>3, SocketsTyped DEF OneShotInv, OneShotTypes, OneShotTypeOK, T

(* Every connection of the server keeps its types.                           *)
THEOREM ConnectionsTypes == ConnectionsSpec => []ConnectionsTypeOK
<1>1. ConnectionsInv => ConnectionsTypeOK
  BY TerminalTyped, StreamsTyped, OneShotTyped DEF ConnectionsInv, ConnectionsTypeOK, HostInv
<1> QED BY <1>1, ConnectionsInvariant, PTL

THEOREM SocketsServeTheirPage == ConnectionsSpec => []PageHasItsSockets
<1>1. TerminalInv => OneLiveShell
  BY DEF TerminalInv, PageInv, ShellInv, OneLiveShell, NoShellWithoutSocket
<1>2. StreamsInv => ViewIsOfTarget
  BY DEF StreamsInv, ViewPage, Viewing, ViewIsOfTarget, NoFeedWithoutSocket
<1>3. OneShotInv => LastAskIsShown
  BY DEF OneShotInv, AskPage
<1>4. ConnectionsInv => PageHasItsSockets
  BY <1>1, <1>2, <1>3 DEF ConnectionsInv, PageHasItsSockets
<1> QED BY <1>4, ConnectionsInvariant, PTL

(* A view that is closed shows nothing.                                      *)
NothingShown == viewRef = NoView /\ FeedTypes /\ \A c \in Socks : Fed(c)
WholeConnections == IF part = "streams" THEN WholeInv ELSE NothingShown

LEMMA WholeConnectionsInit == ASSUME ConnectionsInit PROVE WholeConnections
<1>1. WholeInv /\ StreamsInv /\ viewRef = NoView
  BY WholeInitOK, StreamsInitOK DEF ConnectionsInit, StreamsInit
<1> QED BY <1>1 DEF WholeConnections, NothingShown, WholeInv, StreamsInv

LEMMA WholeConnectionsStep ==
  ASSUME ConnectionsInv, WholeConnections, [ConnectionsNext]_connectionsVars PROVE WholeConnections'
<1>1. CASE part = "streams" /\ part' = part /\ StreamsNext
  BY <1>1, WholeStep DEF ConnectionsInv, WholeConnections
<1>2. ASSUME part' = part, part # "streams", UNCHANGED streamOnly PROVE WholeConnections'
  <2>1. UNCHANGED <<kind, viewRef, attach, feed, sent, held, cut, losses>>
    BY <1>2 DEF streamOnly, viewVars, feedVars
  <2> QED BY <1>2, <2>1 DEF WholeConnections, NothingShown, FeedTypes, Fed
<1>3. CASE UNCHANGED connectionsVars
  <2>1. part' = part /\ UNCHANGED streamVars /\ UNCHANGED streamOnly
    BY <1>3 DEF connectionsVars, streamOnly, streamVars
  <2> QED BY <1>2, <2>1, WholeStep DEF ConnectionsInv, WholeConnections
<1> QED BY <1>1, <1>2, <1>3 DEF ConnectionsNext, InPart

(* Logs and statistics are shown whole, however Docker's bytes are cut.      *)
THEOREM FeedIsShownWhole == ConnectionsSpec => []FeedIsWhole
<1>1. ConnectionsInv /\ WholeConnections => FeedIsWhole
  <2>1. SUFFICES ASSUME ConnectionsInv, WholeConnections PROVE TextIsFeed /\ DemuxIsDemuxLogs
    BY DEF FeedIsWhole
  <2>2. CASE part = "streams"
    <3>1. StreamsInv /\ WholeInv
      BY <2>1, <2>2 DEF ConnectionsInv, WholeConnections
    <3> QED BY <3>1, DemuxWhole, TextWhole DEF StreamsInv, WholeInv
  <2>3. CASE part # "streams"
    <3>1. NothingShown
      BY <2>1, <2>3 DEF WholeConnections
    <3> QED BY <3>1, DemuxWhole DEF NothingShown, TextIsFeed
  <2> QED BY <2>2, <2>3
<1>2. ConnectionsSpec => [](ConnectionsInv /\ WholeConnections)
  BY ConnectionsInitOK, WholeConnectionsInit, ConnectionsStep, WholeConnectionsStep, PTL DEF ConnectionsSpec
<1> QED BY <1>1, <1>2, PTL

=============================================================================
