---------------------------- MODULE SocketProofs ----------------------------
(* Proofs about what the pages do over their web sockets: the container      *)
(* terminal, Terminal (a shell has a socket and the page, and what is typed  *)
(* reaches it as through a pipe), and the one-shot answers of the assistant, *)
(* OneShot (the last question is shown, and its answer in order).            *)
EXTENDS Terminal, OneShot, LinkProofs

(***************************************************************************)
(* The container terminal, Terminal.                                       *)
(***************************************************************************)

(***************************************************************************)
(* Queues of messages and the keys they carry.                             *)
(***************************************************************************)

(* The inputs in the queue q carry the keys after the first `from`, in order *)
(* and up to the last: r[i] is the number of keys up to message i.           *)
Ranks(q, from, keysOf, r) ==
  /\ r \in [0 .. Len(q) -> 0 .. Len(keysOf)]
  /\ r[0] = from /\ r[Len(q)] = Len(keysOf)
  /\ \A i \in 1 .. Len(q) :
       IF q[i].type = "input" THEN r[i] = r[i-1] + 1 /\ q[i].data = keysOf[r[i]]
       ELSE r[i] = r[i-1]
Carries(q, from, keysOf) == \E r : Ranks(q, from, keysOf, r)

Messages == {Input(k) : k \in Keys} \cup {Resize, Bye, Lost}

(* The part of a sequence that came out of another one.                      *)
IsPart(piece, whole) == Len(piece) <= Len(whole) /\ \A i \in 1 .. Len(piece) : piece[i] = whole[i]

LEMMA PartGrows ==
  ASSUME NEW p \in Seq(Keys), NEW w \in Seq(Keys), NEW k \in Keys, IsPart(p, w)
  PROVE  IsPart(p, Append(w, k))
BY DEF IsPart

LEMMA PartTakes ==
  ASSUME NEW p \in Seq(Keys), NEW w \in Seq(Keys), IsPart(p, w), Len(p) + 1 <= Len(w)
  PROVE  IsPart(Append(p, w[Len(p) + 1]), w)
BY DEF IsPart

LEMMA PartIsBeginning ==
  ASSUME NEW p \in Seq(Keys), NEW w \in Seq(Keys), IsPart(p, w)
  PROVE  p = SubSeq(w, 1, Len(p))
<1>1. Len(p) \in Nat /\ Len(p) <= Len(w) /\ \A i \in 1 .. Len(p) : p[i] = w[i]
  BY DEF IsPart
<1>2. Len(SubSeq(w, 1, Len(p))) = Len(p) /\ \A i \in 1 .. Len(p) : SubSeq(w, 1, Len(p))[i] = w[i]
  BY <1>1
<1>3. SubSeq(w, 1, Len(p)) \in Seq(Keys)
  BY <1>1
<1> QED BY <1>1, <1>2, <1>3

LEMMA EmptyCarries ==
  ASSUME NEW ks \in Seq(Keys) PROVE Carries(<<>>, Len(ks), ks)
<1> DEFINE r == [i \in 0 .. 0 |-> Len(ks)]
<1>1. Ranks(<<>>, Len(ks), ks, r)
  BY DEF Ranks
<1> QED BY <1>1 DEF Carries

LEMMA InputCarried ==
  ASSUME NEW q \in Seq(Messages), NEW ks \in Seq(Keys), NEW from \in Nat, NEW k \in Keys,
         Carries(q, from, ks)
  PROVE  Carries(Append(q, Input(k)), from, Append(ks, k))
<1> DEFINE p == Append(q, Input(k))
           all == Append(ks, k)
<1>1. PICK r : Ranks(q, from, ks, r)
  BY DEF Carries
<1> DEFINE t == [i \in 0 .. Len(p) |-> IF i = Len(p) THEN Len(all) ELSE r[i]]
<1>2. /\ Len(p) = Len(q) + 1 /\ p[Len(p)] = Input(k) /\ \A i \in 1 .. Len(q) : p[i] = q[i]
      /\ Len(all) = Len(ks) + 1 /\ all[Len(all)] = k /\ \A i \in 1 .. Len(ks) : all[i] = ks[i]
      /\ Len(q) \in Nat /\ Len(ks) \in Nat
  OBVIOUS
<1>3. r \in [0 .. Len(q) -> 0 .. Len(ks)] /\ r[0] = from /\ r[Len(q)] = Len(ks)
  BY <1>1 DEF Ranks
<1>4. \A i \in 1 .. Len(q) :
        IF q[i].type = "input" THEN r[i] = r[i-1] + 1 /\ q[i].data = ks[r[i]] ELSE r[i] = r[i-1]
  BY <1>1 DEF Ranks
<1> HIDE DEF p, all
<1>5. t \in [0 .. Len(p) -> 0 .. Len(all)] /\ t[0] = from /\ t[Len(p)] = Len(all)
  BY <1>2, <1>3
<1>6. ASSUME NEW i \in 1 .. Len(p)
      PROVE  IF p[i].type = "input" THEN t[i] = t[i-1] + 1 /\ p[i].data = all[t[i]] ELSE t[i] = t[i-1]
  <2>1. CASE i = Len(p)
    <3>1. t[i] = Len(all) /\ t[i-1] = Len(ks)
      BY <1>2, <1>3, <2>1
    <3>2. p[i].type = "input" /\ p[i].data = all[Len(all)]
      BY <1>2, <2>1 DEF Input
    <3> QED BY <1>2, <3>1, <3>2
  <2>2. CASE i # Len(p)
    <3>1. i \in 1 .. Len(q) /\ i - 1 \in 0 .. Len(q) /\ p[i] = q[i]
      BY <1>2, <2>2
    <3>2. t[i] = r[i] /\ t[i-1] = r[i-1]
      BY <1>2, <3>1
    <3>3. r[i] \in 0 .. Len(ks) /\ r[i-1] \in 0 .. Len(ks)
      BY <1>2, <1>3, <3>1, SMTT(60)
    <3>4. CASE q[i].type = "input"
      <4>1. r[i] = r[i-1] + 1 /\ q[i].data = ks[r[i]]
        BY <1>4, <3>1, <3>4
      <4>2. r[i] \in 1 .. Len(ks)
        BY <1>2, <3>3, <4>1
      <4> QED BY <1>2, <3>1, <3>2, <3>4, <4>1, <4>2
    <3>5. CASE q[i].type # "input"
      BY <1>4, <3>1, <3>2, <3>5
    <3> QED BY <3>4, <3>5
  <2> QED BY <2>1, <2>2
<1> QED BY <1>5, <1>6 DEF Ranks, Carries, p, all

LEMMA OtherCarried ==
  ASSUME NEW q \in Seq(Messages), NEW ks \in Seq(Keys), NEW from \in Nat,
         NEW m \in {Resize, Bye, Lost}, Carries(q, from, ks)
  PROVE  Carries(Append(q, m), from, ks)
<1> DEFINE p == Append(q, m)
<1>1. PICK r : Ranks(q, from, ks, r)
  BY DEF Carries
<1> DEFINE t == [i \in 0 .. Len(p) |-> IF i = Len(p) THEN Len(ks) ELSE r[i]]
<1>2. /\ Len(p) = Len(q) + 1 /\ p[Len(p)] = m /\ \A i \in 1 .. Len(q) : p[i] = q[i]
      /\ Len(q) \in Nat /\ Len(ks) \in Nat
  OBVIOUS
<1>3. r \in [0 .. Len(q) -> 0 .. Len(ks)] /\ r[0] = from /\ r[Len(q)] = Len(ks)
  BY <1>1 DEF Ranks
<1>4. \A i \in 1 .. Len(q) :
        IF q[i].type = "input" THEN r[i] = r[i-1] + 1 /\ q[i].data = ks[r[i]] ELSE r[i] = r[i-1]
  BY <1>1 DEF Ranks
<1>5. m.type # "input"
  BY DEF Resize, Bye, Lost
<1> HIDE DEF p
<1>6. t \in [0 .. Len(p) -> 0 .. Len(ks)] /\ t[0] = from /\ t[Len(p)] = Len(ks)
  BY <1>2, <1>3
<1>7. ASSUME NEW i \in 1 .. Len(p)
      PROVE  IF p[i].type = "input" THEN t[i] = t[i-1] + 1 /\ p[i].data = ks[t[i]] ELSE t[i] = t[i-1]
  <2>1. CASE i = Len(p)
    BY <1>2, <1>3, <1>5, <2>1
  <2>2. CASE i # Len(p)
    <3>1. i \in 1 .. Len(q) /\ i - 1 \in 0 .. Len(q) /\ p[i] = q[i]
      BY <1>2, <2>2
    <3>2. t[i] = r[i] /\ t[i-1] = r[i-1]
      BY <1>2, <3>1
    <3> QED BY <1>4, <3>1, <3>2
  <2> QED BY <2>1, <2>2
<1> QED BY <1>6, <1>7 DEF Ranks, Carries, p

(* The next message is read: a key that is read is the next one.             *)
LEMMA HeadCarried ==
  ASSUME NEW q \in Seq(Messages), q # <<>>, NEW ks \in Seq(Keys), NEW from \in Nat,
         Carries(q, from, ks)
  PROVE  IF Head(q).type = "input"
         THEN /\ from + 1 <= Len(ks) /\ Head(q).data = ks[from + 1]
              /\ Carries(Tail(q), from + 1, ks)
         ELSE Carries(Tail(q), from, ks)
<1> DEFINE p == Tail(q)
<1>1. PICK r : Ranks(q, from, ks, r)
  BY DEF Carries
<1> DEFINE t == [i \in 0 .. Len(p) |-> r[i+1]]
<1>2. /\ Len(q) \in Nat \ {0} /\ Len(ks) \in Nat /\ Len(p) = Len(q) - 1 /\ Head(q) = q[1]
      /\ \A i \in 1 .. Len(p) : p[i] = q[i+1]
  OBVIOUS
<1>3. r \in [0 .. Len(q) -> 0 .. Len(ks)] /\ r[0] = from /\ r[Len(q)] = Len(ks)
  BY <1>1 DEF Ranks
<1>4. \A i \in 1 .. Len(q) :
        IF q[i].type = "input" THEN r[i] = r[i-1] + 1 /\ q[i].data = ks[r[i]] ELSE r[i] = r[i-1]
  BY <1>1 DEF Ranks
<1> HIDE DEF p
<1>5. t \in [0 .. Len(p) -> 0 .. Len(ks)] /\ t[0] = r[1] /\ t[Len(p)] = Len(ks)
  BY <1>2, <1>3
<1>6. ASSUME NEW i \in 1 .. Len(p)
      PROVE  IF p[i].type = "input" THEN t[i] = t[i-1] + 1 /\ p[i].data = ks[t[i]] ELSE t[i] = t[i-1]
  <2>1. i + 1 \in 1 .. Len(q) /\ p[i] = q[i+1] /\ t[i] = r[i+1] /\ t[i-1] = r[i]
    BY <1>2
  <2> QED BY <1>4, <2>1
<1>7. Carries(p, r[1], ks)
  BY <1>5, <1>6 DEF Ranks, Carries
<1>8. 1 \in 1 .. Len(q) /\ r[1] \in 0 .. Len(ks)
  BY <1>2, <1>3, SMTT(60)
<1>9. IF q[1].type = "input" THEN r[1] = from + 1 /\ q[1].data = ks[r[1]] ELSE r[1] = from
  BY <1>3, <1>4, <1>8
<1> QED BY <1>2, <1>7, <1>8, <1>9 DEF p

(***************************************************************************)
(* The invariants.                                                         *)
(***************************************************************************)

TermTypes ==
  /\ browser \in [Socks -> {"new", "connecting", "open", "closing", "failing", "closed"}]
  /\ server \in [Socks -> {"idle", "upgrading", "open", "closing", "closed"}]
  /\ upstream \in [Socks -> Seq(Messages)]
  /\ typed \in [Socks -> Seq(Keys)] /\ pending \in [Socks -> Seq(Keys)] /\ shellGot \in [Socks -> Seq(Keys)]
  /\ task \in [Socks -> {"none", "create", "resize", "start", "attached", "left"}]
  /\ shell \in [Socks -> {"none", "running", "eof", "gone"}]
  /\ wsRef \in Socks \cup {NoSock} /\ listening \subseteq Socks
  /\ keys \in 0 .. MaxKeys

(* What the message listener has read: kept until the shell is attached.     *)
Received(c) == IF task[c] = "attached" THEN shellGot[c] ELSE pending[c]

(* Messages still get through to whatever reads them.                        *)
Delivers(c) ==
  /\ server[c] # "closed" /\ upstream[c] # <<Lost>>
  /\ task[c] = "attached" => shell[c] = "running"

(* What was read is the beginning of what was typed, and what is under way   *)
(* is the rest.                                                              *)
PipeInv(c) ==
  /\ task[c] # "attached" => shellGot[c] = <<>>
  /\ IsPart(Received(c), typed[c])
  /\ Delivers(c) => Carries(upstream[c], Len(Received(c)), typed[c])

(* A shell that runs is attached to a socket.                                *)
ShellInv(c) ==
  /\ shell[c] = "running" => task[c] = "attached" /\ server[c] # "closed"
  /\ server[c] \in {"idle", "upgrading"} => task[c] = "none"

(* A page that never made its xterm has no socket.                           *)
PageInv ==
  /\ mounted /\ term = "none" => \A c \in Socks : browser[c] = "new"
  /\ OneConnection /\ OneShellOnScreen

TerminalInv == TermTypes /\ (\A c \in Socks : PipeInv(c) /\ ShellInv(c)) /\ PageInv

(***************************************************************************)
(* Steps that type nothing and read no key.                                *)
(***************************************************************************)

(* A message that is no key, at most, joins the queue of c.                  *)
UpQuiet(c) ==
  \/ upstream'[c] = upstream[c]
  \/ \E m \in {Resize, Bye, Lost} : upstream'[c] = Append(upstream[c], m)

(* No end comes back, and none begins to read.                               *)
Calm(c) ==
  /\ task'[c] = "attached" <=> task[c] = "attached"
  /\ shell'[c] = "running" => shell[c] = "running"
  /\ server'[c] = "closed" => server[c] = "closed" \/ shell'[c] # "running"
  /\ server'[c] \in {"idle", "upgrading"} => server[c] \in {"idle", "upgrading"} /\ task'[c] = task[c]
  /\ server'[c] # "closed" => server[c] # "closed"
  /\ server'[c] # "closed" /\ upstream'[c] # <<Lost>> => upstream[c] # <<Lost>> /\ UpQuiet(c)

LEMMA CalmInv ==
  ASSUME NEW c \in Socks, TermTypes, PipeInv(c), ShellInv(c), Calm(c),
         UNCHANGED <<typed, pending, shellGot>>
  PROVE  PipeInv(c)' /\ ShellInv(c)'
<1>1. ShellInv(c)'
  BY DEF Calm, ShellInv
<1>2. Received(c)' = Received(c)
  BY DEF Calm, Received
<1>3. Delivers(c)' => Delivers(c) /\ UpQuiet(c)
  BY DEF Calm, Delivers
<1>4. ASSUME Delivers(c)' PROVE Carries(upstream'[c], Len(Received(c)), typed[c])
  <2>1. Carries(upstream[c], Len(Received(c)), typed[c])
    BY <1>3, <1>4 DEF PipeInv
  <2>2. upstream[c] \in Seq(Messages) /\ typed[c] \in Seq(Keys) /\ Len(Received(c)) \in Nat
    BY DEF TermTypes, Received
  <2>3. CASE upstream'[c] = upstream[c]
    BY <2>1, <2>3
  <2>4. ASSUME NEW m \in {Resize, Bye, Lost}, upstream'[c] = Append(upstream[c], m)
        PROVE  Carries(upstream'[c], Len(Received(c)), typed[c])
    BY <2>1, <2>2, <2>4, OtherCarried
  <2> QED BY <1>3, <1>4, <2>3, <2>4 DEF UpQuiet
<1>5. PipeInv(c)'
  BY <1>2, <1>4 DEF PipeInv, Calm
<1> QED BY <1>1, <1>5

(* What ToServer does to each queue.                                         *)
LEMMA ToServerIs ==
  ASSUME TermTypes, NEW S \in SUBSET Socks, NEW m \in Messages
  PROVE  /\ ToServer(S, m) \in [Socks -> Seq(Messages)]
         /\ \A c \in Socks :
              ToServer(S, m)[c] = IF c \in S /\ server[c] # "closed" /\ upstream[c] # <<Lost>>
                                  THEN Append(upstream[c], m) ELSE upstream[c]
BY DEF ToServer, Sent, Lossless, TermTypes

(* A queue to which a message that is no key was sent, or nothing.           *)
LEMMA ToServerQuiet ==
  ASSUME TermTypes, NEW S \in SUBSET Socks, NEW m \in {Resize, Bye, Lost},
         upstream' = ToServer(S, m) \/ upstream' = upstream
  PROVE  /\ upstream' \in [Socks -> Seq(Messages)]
         /\ \A c \in Socks : UpQuiet(c) /\ (upstream[c] = <<Lost>> => upstream'[c] = <<Lost>>)
<1>1. CASE upstream' = upstream
  BY <1>1 DEF TermTypes, UpQuiet
<1>2. CASE upstream' = ToServer(S, m)
  <2>1. m \in Messages
    BY DEF Messages
  <2>2. /\ upstream' \in [Socks -> Seq(Messages)]
        /\ \A c \in Socks :
             upstream'[c] = IF c \in S /\ server[c] # "closed" /\ upstream[c] # <<Lost>>
                            THEN Append(upstream[c], m) ELSE upstream[c]
    <3>1. /\ ToServer(S, m) \in [Socks -> Seq(Messages)]
          /\ \A c \in Socks :
               ToServer(S, m)[c] = IF c \in S /\ server[c] # "closed" /\ upstream[c] # <<Lost>>
                                   THEN Append(upstream[c], m) ELSE upstream[c]
      BY <2>1, ToServerIs
    <3> HIDE DEF ToServer
    <3> QED BY <1>2, <3>1
  <2> QED BY <2>2 DEF UpQuiet
<1> QED BY <1>1, <1>2

(* What wsRef.current?.close() does to the connections.                      *)
LEMMA CloseRefQuiet ==
  ASSUME TermTypes, CloseRef
  PROVE  /\ browser' \in [Socks -> {"new", "connecting", "open", "closing", "failing", "closed"}]
         /\ \A c \in Socks : /\ browser'[c] = "new" <=> browser[c] = "new"
                             /\ Connected(c)' => Connected(c) /\ c # wsRef
         /\ upstream' \in [Socks -> Seq(Messages)]
         /\ \A c \in Socks : UpQuiet(c) /\ (upstream[c] = <<Lost>> => upstream'[c] = <<Lost>>)
<1>1. CASE wsRef = NoSock
  BY <1>1, TerminalAssumption DEF CloseRef, TermTypes, UpQuiet, Connected
<1>2. CASE wsRef # NoSock
  <2>1. wsRef \in Socks /\ browser' = AfterClose(wsRef) /\ upstream' = UpAfterClose(wsRef)
    BY <1>2 DEF CloseRef, TermTypes
  <2>2. browser' \in [Socks -> {"new", "connecting", "open", "closing", "failing", "closed"}]
    BY <2>1 DEF AfterClose, TermTypes
  <2>3. \A c \in Socks : /\ browser'[c] = "new" <=> browser[c] = "new"
                         /\ Connected(c)' => Connected(c) /\ c # wsRef
    BY <2>1 DEF AfterClose, TermTypes, Connected
  <2>4. upstream' = ToServer({wsRef}, Bye) \/ upstream' = upstream
    BY <2>1 DEF UpAfterClose
  <2> QED BY <2>1, <2>2, <2>3, <2>4, ToServerQuiet
<1> QED BY <1>1, <1>2

(* The steps that type nothing and hand nothing over.                        *)
PageStep(c) == Connect(c) \/ Opens(c) \/ Prints(c) \/ Closes(c)
ExecStep(c) ==
  \/ Admit(c) \/ Reject(c) \/ ExecCreated(c) \/ ExecResized(c) \/ ExecFailed(c)
  \/ CloseHandled(c) \/ ShellPrints(c) \/ ShellEnds(c) \/ Breaks(c)
Quiet ==
  \/ ContainerStops \/ ContainerStarts \/ Disconnect \/ Unmount \/ ResizeWindow
  \/ \E c \in Socks : PageStep(c) \/ ExecStep(c)

LEMMA WindowQuiet ==
  ASSUME TermTypes, ContainerStops \/ ContainerStarts \/ Disconnect \/ Unmount \/ ResizeWindow
  PROVE  TermTypes' /\ \A c \in Socks : Calm(c)
<1>1. CASE ContainerStops \/ ContainerStarts
  BY <1>1 DEF ContainerStops, ContainerStarts, TermTypes, Calm, UpQuiet, sockVars, execVars
<1>2. CASE Disconnect
  <2>1. CloseRef /\ UNCHANGED <<server, clientVars, execVars>>
    BY <1>2 DEF Disconnect
  <2> QED BY <2>1, CloseRefQuiet DEF TermTypes, Calm, clientVars, execVars
<1>3. CASE Unmount
  <2>1. /\ UNCHANGED <<browser, upstream>> \/ CloseRef
        /\ UNCHANGED <<server, wsRef, listening, keys, typed, execVars>>
    BY <1>3 DEF Unmount
  <2>2. CASE UNCHANGED <<browser, upstream>>
    BY <2>1, <2>2 DEF TermTypes, Calm, UpQuiet, execVars
  <2>3. CASE CloseRef
    BY <2>1, <2>3, CloseRefQuiet DEF TermTypes, Calm, execVars
  <2> QED BY <2>1, <2>2, <2>3
<1>4. CASE ResizeWindow
  <2>1. /\ upstream' = ToServer(OpenListeners, Resize) /\ keys' = keys + 1 /\ keys < MaxKeys
        /\ UNCHANGED <<browser, server, wsRef, listening, typed, execVars>>
    BY <1>4 DEF ResizeWindow
  <2>2. OpenListeners \in SUBSET Socks
    BY DEF OpenListeners, TermTypes
  <2>3. /\ upstream' \in [Socks -> Seq(Messages)]
        /\ \A c \in Socks : UpQuiet(c) /\ (upstream[c] = <<Lost>> => upstream'[c] = <<Lost>>)
    BY <2>1, <2>2, ToServerQuiet
  <2> QED BY <2>1, <2>3, TerminalAssumption DEF TermTypes, Calm, execVars
<1> QED BY <1>1, <1>2, <1>3, <1>4

LEMMA PageQuiet ==
  ASSUME TermTypes, NEW d \in Socks, PageStep(d)
  PROVE  TermTypes' /\ \A c \in Socks : Calm(c)
<1>1. CASE Connect(d)
  BY <1>1 DEF Connect, Constructed, Unused, TermTypes, Calm, UpQuiet, execVars
<1>2. CASE Prints(d)
  BY <1>2 DEF Prints, TermTypes, Calm, UpQuiet, execVars
<1>3. CASE Opens(d)
  <2>1. upstream' = ToServer({d}, Resize)
    BY <1>3 DEF Opens
  <2>2. /\ upstream' \in [Socks -> Seq(Messages)]
        /\ \A c \in Socks : UpQuiet(c) /\ (upstream[c] = <<Lost>> => upstream'[c] = <<Lost>>)
    BY <2>1, ToServerQuiet
  <2>3. /\ browser' = [browser EXCEPT ![d] = "open"]
        /\ UNCHANGED <<server, wsRef, listening, keys, typed, execVars>>
    BY <1>3 DEF Opens, BrowserOpens
  <2> QED BY <2>2, <2>3 DEF TermTypes, Calm, execVars
<1>4. CASE Closes(d)
  <2>1. \E m \in {Bye, Lost, Resize} : upstream' = ToServer({d}, m) \/ upstream' = upstream
    BY <1>4 DEF Closes, BrowserCloses
  <2>2. /\ upstream' \in [Socks -> Seq(Messages)]
        /\ \A c \in Socks : UpQuiet(c) /\ (upstream[c] = <<Lost>> => upstream'[c] = <<Lost>>)
    BY <2>1, ToServerQuiet
  <2>3. /\ browser' = [browser EXCEPT ![d] = "closed"] /\ listening' = listening \ {d}
        /\ UNCHANGED <<server, wsRef, keys, typed, execVars>>
    BY <1>4 DEF Closes, BrowserCloses
  <2> QED BY <2>2, <2>3 DEF TermTypes, Calm, execVars
<1> QED BY <1>1, <1>2, <1>3, <1>4 DEF PageStep

LEMMA ExecQuiet ==
  ASSUME TermTypes, \A c \in Socks : ShellInv(c), NEW d \in Socks, ExecStep(d)
  PROVE  /\ TermTypes' /\ \A c \in Socks : Calm(c)
         /\ UNCHANGED <<typed, pending, shellGot>>
<1>1. CASE Admit(d)
  <2>1. /\ server[d] = "upgrading" /\ server' = [server EXCEPT ![d] = "open"]
        /\ task' = [task EXCEPT ![d] = "create"]
        /\ UNCHANGED <<browser, upstream, wsRef, listening, keys, typed, pending, shell, shellGot>>
    BY <1>1 DEF Admit, Upgraded, clientVars
  <2>2. TermTypes'
    BY <2>1 DEF TermTypes
  <2>3. task[d] = "none"
    BY <2>1 DEF ShellInv
  <2>4. ASSUME NEW c \in Socks PROVE Calm(c)
    BY <2>1, <2>3 DEF Calm, UpQuiet, TermTypes
  <2> QED BY <2>1, <2>2, <2>4
<1>2. CASE Reject(d)
  <2>1. /\ \E to \in {"upgrading", "closed"} : server' = [server EXCEPT ![d] = to]
        /\ server[d] \in {"idle", "upgrading"}
        /\ server'[d] = "upgrading" => server[d] = "idle"
        /\ UNCHANGED <<browser, upstream, clientVars, execVars>>
    BY <1>2 DEF Reject, Upgrade, UpgradeRefused, TermTypes
  <2> QED BY <2>1 DEF TermTypes, ShellInv, Calm, UpQuiet, clientVars, execVars
<1>3. CASE ExecCreated(d)
  BY <1>3 DEF ExecCreated, TermTypes, ShellInv, Calm, UpQuiet, sockVars, clientVars
<1>4. CASE ExecResized(d)
  BY <1>4 DEF ExecResized, TermTypes, ShellInv, Calm, UpQuiet, sockVars, clientVars
<1>5. CASE ExecFailed(d)
  BY <1>5 DEF ExecFailed, ServerCloses, TermTypes, ShellInv, Calm, UpQuiet, clientVars
<1>6. CASE CloseHandled(d)
  BY <1>6, SMTT(60) DEF CloseHandled, ServerClosed, TermTypes, ShellInv, Calm, UpQuiet, clientVars
<1>7. CASE ShellPrints(d)
  BY <1>7 DEF ShellPrints, TermTypes, Calm, UpQuiet, clientVars, execVars
<1>8. CASE ShellEnds(d)
  BY <1>8 DEF ShellEnds, ServerCloses, TermTypes, ShellInv, Calm, UpQuiet, clientVars
<1>9. CASE Breaks(d)
  <2>1. /\ upstream' = [upstream EXCEPT ![d] = <<Lost>>]
        /\ UNCHANGED <<browser, server, wsRef, listening, keys, typed, task, pending, shell, shellGot>>
    BY <1>9 DEF Breaks, Drop, clientVars, execVars
  <2>2. <<Lost>> \in Seq(Messages)
    BY DEF Messages
  <2>3. upstream' \in [Socks -> Seq(Messages)]
    BY <2>1, <2>2 DEF TermTypes
  <2>4. TermTypes'
    BY <2>1, <2>3 DEF TermTypes
  <2>5. ASSUME NEW c \in Socks PROVE Calm(c)
    BY <2>1 DEF Calm, UpQuiet, TermTypes
  <2> QED BY <2>1, <2>4, <2>5
<1> QED BY <1>1, <1>2, <1>3, <1>4, <1>5, <1>6, <1>7, <1>8, <1>9 DEF ExecStep

LEMMA QuietStep ==
  ASSUME TermTypes, \A c \in Socks : PipeInv(c) /\ ShellInv(c), Quiet
  PROVE  /\ TermTypes' /\ \A c \in Socks : PipeInv(c)' /\ ShellInv(c)'
         /\ UNCHANGED <<typed, shellGot>>
<1>1. TermTypes' /\ \A c \in Socks : Calm(c)
  BY WindowQuiet, PageQuiet, ExecQuiet DEF Quiet
<1>2. UNCHANGED <<typed, pending, shellGot>>
  <2>1. CASE ContainerStops \/ ContainerStarts \/ Disconnect \/ Unmount \/ ResizeWindow
    BY <2>1 DEF ContainerStops, ContainerStarts, Disconnect, Unmount, ResizeWindow, clientVars, execVars
  <2>2. ASSUME NEW d \in Socks, PageStep(d) PROVE UNCHANGED <<typed, pending, shellGot>>
    BY <2>2 DEF PageStep, Connect, Opens, Prints, Closes, execVars
  <2> QED BY <2>1, <2>2, ExecQuiet DEF Quiet
<1> QED BY <1>1, <1>2, CalmInv

(***************************************************************************)
(* Steps that move keys.                                                   *)
(***************************************************************************)

LEMMA TypeKeyStep ==
  ASSUME TermTypes, \A c \in Socks : PipeInv(c) /\ ShellInv(c), TypeKey
  PROVE  /\ TermTypes' /\ \A c \in Socks : PipeInv(c)' /\ ShellInv(c)'
         /\ \A c \in Socks : InputPipe!Put(c) \/ InputPipe!Rest(c)
<1>1. /\ keys' = keys + 1 /\ keys' \in Keys /\ keys' \in 0 .. MaxKeys
      /\ upstream' = ToServer(OpenListeners, Input(keys')) /\ typed' = Sent(typed, OpenListeners, keys')
      /\ UNCHANGED <<browser, server, wsRef, listening, task, pending, shell, shellGot>>
  BY TerminalAssumption DEF TypeKey, TermTypes, Keys, execVars
<1>2. Input(keys') \in Messages /\ OpenListeners \in SUBSET Socks
  BY <1>1 DEF Messages, OpenListeners, TermTypes
<1>3. /\ upstream' \in [Socks -> Seq(Messages)]
      /\ \A c \in Socks :
           upstream'[c] = IF c \in OpenListeners /\ server[c] # "closed" /\ upstream[c] # <<Lost>>
                          THEN Append(upstream[c], Input(keys')) ELSE upstream[c]
  <2>1. PICK m \in Messages : m = Input(keys')
    BY <1>2
  <2>2. /\ ToServer(OpenListeners, m) \in [Socks -> Seq(Messages)]
        /\ \A c \in Socks :
             ToServer(OpenListeners, m)[c] = IF c \in OpenListeners /\ server[c] # "closed" /\ upstream[c] # <<Lost>>
                                             THEN Append(upstream[c], m) ELSE upstream[c]
    BY <1>2, ToServerIs
  <2>3. upstream' = ToServer(OpenListeners, m)
    BY <1>1, <2>1
  <2> HIDE DEF ToServer
  <2>4. /\ upstream' \in [Socks -> Seq(Messages)]
        /\ \A c \in Socks :
             upstream'[c] = IF c \in OpenListeners /\ server[c] # "closed" /\ upstream[c] # <<Lost>>
                            THEN Append(upstream[c], m) ELSE upstream[c]
    BY <2>2, <2>3
  <2> QED BY <2>1, <2>4
<1>4. /\ typed' \in [Socks -> Seq(Keys)]
      /\ \A c \in Socks : typed'[c] = IF c \in OpenListeners THEN Append(typed[c], keys') ELSE typed[c]
  BY <1>1 DEF Sent, TermTypes
<1>5. TermTypes'
  BY <1>1, <1>3, <1>4 DEF TermTypes
<1>6. ASSUME NEW c \in Socks PROVE PipeInv(c)'
  <2>1. Received(c)' = Received(c)
    BY <1>1 DEF Received
  <2>2. typed[c] \in Seq(Keys) /\ Received(c) \in Seq(Keys) /\ upstream[c] \in Seq(Messages)
    BY DEF TermTypes, Received
  <2>3. IsPart(Received(c), typed'[c])
    <3>1. IsPart(Received(c), typed[c])
      BY DEF PipeInv
    <3> QED BY <1>1, <1>4, <2>2, <3>1, PartGrows
  <2>4. ASSUME Delivers(c)' PROVE Carries(upstream'[c], Len(Received(c)), typed'[c])
    <3>1. CASE c \in OpenListeners
      <4>1. server[c] # "closed" /\ (task[c] = "attached" => shell[c] = "running")
        BY <1>1, <2>4 DEF Delivers
      <4>2. upstream[c] # <<Lost>>
        BY <1>3, <2>4 DEF Delivers
      <4>3. Carries(upstream[c], Len(Received(c)), typed[c])
        BY <4>1, <4>2 DEF Delivers, PipeInv
      <4>4. Len(Received(c)) \in Nat
        BY <2>2
      <4>5. Carries(Append(upstream[c], Input(keys')), Len(Received(c)), Append(typed[c], keys'))
        BY <1>1, <2>2, <4>3, <4>4, InputCarried
      <4> QED BY <1>3, <1>4, <3>1, <4>1, <4>2, <4>5
    <3>2. CASE c \notin OpenListeners
      BY <1>1, <1>3, <1>4, <2>4, <3>2 DEF Delivers, PipeInv
    <3> QED BY <3>1, <3>2
  <2> QED BY <1>1, <2>1, <2>3, <2>4 DEF PipeInv
<1>7. \A c \in Socks : ShellInv(c)'
  BY <1>1 DEF ShellInv
<1>8. \A c \in Socks : InputPipe!Put(c) \/ InputPipe!Rest(c)
  BY <1>1, <1>4 DEF InputPipe!Put, InputPipe!Rest
<1> QED BY <1>5, <1>6, <1>7, <1>8

LEMMA ExecStartedStep ==
  ASSUME TermTypes, \A c \in Socks : PipeInv(c) /\ ShellInv(c), NEW d \in Socks, ExecStarted(d)
  PROVE  /\ TermTypes' /\ \A c \in Socks : PipeInv(c)' /\ ShellInv(c)'
         /\ \A c \in Socks : InputPipe!Get(c) \/ InputPipe!Rest(c)
<1>1. /\ task[d] = "start"
      /\ UNCHANGED <<browser, server, upstream, wsRef, listening, keys, typed, pending>>
  BY DEF ExecStarted, sockVars, clientVars
<1>2. CASE server[d] = "closed"
  <2>1. task' = [task EXCEPT ![d] = "left"] /\ shell' = [shell EXCEPT ![d] = "eof"] /\ shellGot' = shellGot
    BY <1>2 DEF ExecStarted
  <2>2. TermTypes'
    BY <1>1, <2>1 DEF TermTypes
  <2>3. \A c \in Socks : Calm(c)
    BY <1>1, <1>2, <2>1 DEF Calm, UpQuiet, ShellInv, TermTypes
  <2> QED BY <1>1, <2>1, <2>2, <2>3, CalmInv DEF InputPipe!Rest
<1>3. CASE server[d] # "closed"
  <2>1. /\ task' = [task EXCEPT ![d] = "attached"] /\ shell' = [shell EXCEPT ![d] = "running"]
        /\ shellGot' = [shellGot EXCEPT ![d] = pending[d]]
    BY <1>3 DEF ExecStarted
  <2>2. TermTypes'
    BY <1>1, <2>1 DEF TermTypes
  <2>3. pending[d] \in Seq(Keys) /\ typed[d] \in Seq(Keys)
    BY DEF TermTypes
  <2>4. /\ shellGot'[d] = pending[d] /\ task'[d] = "attached" /\ shell'[d] = "running" /\ shellGot[d] = <<>>
        /\ Received(d) = pending[d] /\ Received(d)' = pending[d]
    BY <1>1, <2>1 DEF TermTypes, PipeInv, Received
  <2>5. \A c \in Socks \ {d} : task'[c] = task[c] /\ shell'[c] = shell[c] /\ shellGot'[c] = shellGot[c]
    BY <2>1 DEF TermTypes
  <2>6. ASSUME NEW c \in Socks PROVE PipeInv(c)'
    <3>1. CASE c = d
      <4>1. Delivers(d)' => Delivers(d)
        BY <1>1, <2>4 DEF Delivers
      <4> QED BY <1>1, <2>4, <3>1, <4>1 DEF PipeInv
    <3>2. CASE c # d
      <4>1. Received(c)' = Received(c) /\ (Delivers(c)' <=> Delivers(c))
        BY <1>1, <2>5, <3>2 DEF Received, Delivers
      <4> QED BY <1>1, <2>5, <3>2, <4>1 DEF PipeInv
    <3> QED BY <3>1, <3>2
  <2>7. ASSUME NEW c \in Socks PROVE ShellInv(c)'
    BY <1>1, <1>3, <2>4, <2>5 DEF ShellInv
  <2>8. ASSUME NEW c \in Socks PROVE InputPipe!Get(c) \/ InputPipe!Rest(c)
    <3>1. CASE c = d
      <4>1. IsPart(pending[d], typed[d])
        BY <2>4 DEF PipeInv
      <4>2. pending[d] = SubSeq(typed[d], 1, Len(pending[d])) /\ Len(pending[d]) \in 0 .. Len(typed[d])
        BY <2>3, <4>1, PartIsBeginning DEF IsPart
      <4>3. CASE pending[d] = <<>>
        BY <1>1, <2>4, <3>1, <4>3 DEF InputPipe!Rest
      <4>4. CASE pending[d] # <<>>
        <5>1. Len(shellGot[d]) + 1 = 1 /\ Len(pending[d]) \in 1 .. Len(typed[d])
          BY <2>3, <2>4, <4>2, <4>4
        <5> QED BY <1>1, <2>4, <3>1, <4>2, <5>1 DEF InputPipe!Get
      <4> QED BY <4>3, <4>4
    <3>2. CASE c # d
      BY <1>1, <2>5, <3>2 DEF InputPipe!Rest
    <3> QED BY <3>1, <3>2
  <2> QED BY <2>2, <2>6, <2>7, <2>8
<1> QED BY <1>2, <1>3

LEMMA ReceivesStep ==
  ASSUME TermTypes, \A c \in Socks : PipeInv(c) /\ ShellInv(c), NEW d \in Socks, Receives(d)
  PROVE  /\ TermTypes' /\ \A c \in Socks : PipeInv(c)' /\ ShellInv(c)'
         /\ \A c \in Socks : InputPipe!Get(c) \/ InputPipe!Rest(c)
<1> DEFINE q == upstream[d]
           m == Head(upstream[d])
<1>1. /\ server[d] # "closed" /\ q # <<>> /\ m \notin {Bye, Lost}
      /\ upstream' = [upstream EXCEPT ![d] = Tail(q)]
      /\ UNCHANGED <<browser, server, wsRef, listening, keys, typed, task, shell>>
  BY DEF Receives, ServerReceives, Arrives, Taken, clientVars
<1>2. /\ q \in Seq(Messages) /\ typed[d] \in Seq(Keys) /\ pending[d] \in Seq(Keys) /\ shellGot[d] \in Seq(Keys)
      /\ Received(d) \in Seq(Keys) /\ Len(Received(d)) \in Nat
  BY DEF TermTypes, Received
<1>3. m \in Messages /\ Tail(q) \in Seq(Messages) /\ q # <<Lost>>
  BY <1>1, <1>2
<1>4. upstream' \in [Socks -> Seq(Messages)] /\ upstream'[d] = Tail(q)
      /\ \A c \in Socks \ {d} : upstream'[c] = upstream[c]
  BY <1>1, <1>3 DEF TermTypes
<1>5. IsPart(Received(d), typed[d])
  BY DEF PipeInv
<1>6. m.type = "input" => m.data \in Keys
  BY <1>1, <1>3 DEF Messages, Input, Resize, Bye, Lost
<1> HIDE DEF q, m
<1>7. Delivers(d) <=> (task[d] = "attached" => shell[d] = "running")
  BY <1>1, <1>3 DEF Delivers, q
<1>8. Delivers(d) => IF m.type = "input"
                     THEN /\ Len(Received(d)) + 1 <= Len(typed[d]) /\ m.data = typed[d][Len(Received(d)) + 1]
                          /\ Carries(Tail(q), Len(Received(d)) + 1, typed[d])
                     ELSE Carries(Tail(q), Len(Received(d)), typed[d])
  <2>1. Delivers(d) => Carries(q, Len(Received(d)), typed[d])
    BY DEF PipeInv, q
  <2> QED BY <1>1, <1>2, <2>1, HeadCarried DEF m, q
<1>9. Delivers(d)' => Delivers(d)
  BY <1>1, <1>3, <1>4 DEF Delivers, q
<1>10. CASE UNCHANGED <<pending, shellGot>> /\ (m.type # "input" \/ ~Delivers(d))
  <2>1. TermTypes'
    BY <1>1, <1>4, <1>10 DEF TermTypes
  <2>2. \A c \in Socks : Received(c)' = Received(c)
    BY <1>1, <1>10 DEF Received
  <2>3. PipeInv(d)'
    BY <1>1, <1>4, <1>5, <1>8, <1>9, <1>10, <2>2 DEF PipeInv
  <2>4. ASSUME NEW c \in Socks \ {d} PROVE PipeInv(c)'
    <3>1. Delivers(c)' <=> Delivers(c)
      BY <1>1, <1>4 DEF Delivers
    <3> QED BY <1>1, <1>4, <1>10, <2>2, <3>1 DEF PipeInv
  <2>5. \A c \in Socks : ShellInv(c)' /\ InputPipe!Rest(c)
    BY <1>1, <1>10 DEF ShellInv, InputPipe!Rest
  <2> QED BY <2>1, <2>3, <2>4, <2>5
<1>11. ASSUME m.type = "input", task[d] = "attached", shell[d] = "running",
              UNCHANGED pending, shellGot' = Sent(shellGot, {d}, m.data)
       PROVE  /\ TermTypes' /\ \A c \in Socks : PipeInv(c)' /\ ShellInv(c)'
              /\ \A c \in Socks : InputPipe!Get(c) \/ InputPipe!Rest(c)
  <2>1. /\ shellGot' \in [Socks -> Seq(Keys)] /\ shellGot'[d] = Append(shellGot[d], m.data)
        /\ \A c \in Socks \ {d} : shellGot'[c] = shellGot[c]
    BY <1>6, <1>11 DEF Sent, TermTypes
  <2>2. Delivers(d) /\ Received(d) = shellGot[d] /\ Received(d)' = shellGot'[d]
    BY <1>1, <1>7, <1>11 DEF Received
  <2>3. TermTypes'
    BY <1>1, <1>4, <1>11, <2>1 DEF TermTypes
  <2>4. /\ Len(shellGot[d]) + 1 <= Len(typed[d]) /\ m.data = typed[d][Len(shellGot[d]) + 1]
        /\ Carries(Tail(q), Len(shellGot[d]) + 1, typed[d])
    BY <1>8, <1>11, <2>2
  <2>5. IsPart(shellGot'[d], typed[d]) /\ Len(shellGot'[d]) = Len(shellGot[d]) + 1
    BY <1>2, <1>5, <2>1, <2>2, <2>4, PartTakes
  <2>6. PipeInv(d)'
    BY <1>1, <1>4, <1>11, <2>2, <2>4, <2>5 DEF PipeInv
  <2>7. ASSUME NEW c \in Socks \ {d} PROVE PipeInv(c)'
    <3>1. Received(c)' = Received(c) /\ (Delivers(c)' <=> Delivers(c))
      BY <1>1, <1>4, <1>11, <2>1 DEF Delivers, Received
    <3> QED BY <1>1, <1>4, <2>1, <3>1 DEF PipeInv
  <2>8. \A c \in Socks : ShellInv(c)'
    BY <1>1 DEF ShellInv
  <2>9. InputPipe!Get(d)
    <3>1. shellGot'[d] \in Seq(Keys)
      BY <2>1
    <3>2. shellGot'[d] = SubSeq(typed[d], 1, Len(shellGot[d]) + 1)
      BY <1>2, <2>5, <3>1, PartIsBeginning
    <3>3. Len(shellGot[d]) + 1 \in Len(shellGot[d]) + 1 .. Len(typed[d])
      BY <1>2, <2>4
    <3> QED BY <1>1, <3>2, <3>3 DEF InputPipe!Get
  <2>10. \A c \in Socks \ {d} : InputPipe!Rest(c)
    BY <1>1, <2>1 DEF InputPipe!Rest
  <2> QED BY <2>3, <2>6, <2>7, <2>8, <2>9, <2>10
<1>12. ASSUME m.type = "input", task[d] # "attached",
              UNCHANGED shellGot, pending' = Sent(pending, {d}, m.data)
       PROVE  /\ TermTypes' /\ \A c \in Socks : PipeInv(c)' /\ ShellInv(c)'
              /\ \A c \in Socks : InputPipe!Get(c) \/ InputPipe!Rest(c)
  <2>1. /\ pending' \in [Socks -> Seq(Keys)] /\ pending'[d] = Append(pending[d], m.data)
        /\ \A c \in Socks \ {d} : pending'[c] = pending[c]
    BY <1>6, <1>12 DEF Sent, TermTypes
  <2>2. Delivers(d) /\ Received(d) = pending[d] /\ Received(d)' = pending'[d]
    BY <1>1, <1>7, <1>12 DEF Received
  <2>3. TermTypes'
    BY <1>1, <1>4, <1>12, <2>1 DEF TermTypes
  <2>4. /\ Len(pending[d]) + 1 <= Len(typed[d]) /\ m.data = typed[d][Len(pending[d]) + 1]
        /\ Carries(Tail(q), Len(pending[d]) + 1, typed[d])
    BY <1>8, <1>12, <2>2
  <2>5. IsPart(pending'[d], typed[d]) /\ Len(pending'[d]) = Len(pending[d]) + 1
    BY <1>2, <1>5, <2>1, <2>2, <2>4, PartTakes
  <2>6. PipeInv(d)'
    BY <1>1, <1>4, <1>12, <2>2, <2>4, <2>5 DEF PipeInv
  <2>7. ASSUME NEW c \in Socks \ {d} PROVE PipeInv(c)'
    <3>1. Received(c)' = Received(c) /\ (Delivers(c)' <=> Delivers(c))
      BY <1>1, <1>4, <1>12, <2>1 DEF Delivers, Received
    <3> QED BY <1>1, <1>4, <1>12, <3>1 DEF PipeInv
  <2>8. \A c \in Socks : ShellInv(c)' /\ InputPipe!Rest(c)
    BY <1>1, <1>12 DEF ShellInv, InputPipe!Rest
  <2> QED BY <2>3, <2>6, <2>7, <2>8
<1>13. \/ UNCHANGED <<pending, shellGot>> /\ (m.type # "input" \/ ~Delivers(d))
       \/ /\ m.type = "input" /\ task[d] = "attached" /\ shell[d] = "running"
          /\ UNCHANGED pending /\ shellGot' = Sent(shellGot, {d}, m.data)
       \/ /\ m.type = "input" /\ task[d] # "attached"
          /\ UNCHANGED shellGot /\ pending' = Sent(pending, {d}, m.data)
  BY <1>7 DEF Receives, m
<1> QED BY <1>10, <1>11, <1>12, <1>13

(***************************************************************************)
(* The page and its connections.                                           *)
(***************************************************************************)

(* No socket becomes used, and none is shown, connected or unmounted from.   *)
PageRests ==
  /\ UNCHANGED <<mounted, wsRef, twice, screen>> /\ (term' = "none" => term = "none")
  /\ \A c \in Socks : /\ browser[c] = "new" => browser'[c] = "new"
                      /\ Connected(c)' => Connected(c)

LEMMA PageKept ==
  ASSUME PageInv, PageRests PROVE PageInv'
BY DEF PageInv, PageRests, OneConnection, OneShellOnScreen

LEMMA PageInvStep ==
  ASSUME TermTypes, PageInv, TerminalNext PROVE PageInv'
<1>1. CASE ContainerStops \/ ContainerStarts \/ TypeKey \/ ResizeWindow
  BY <1>1, PageKept DEF ContainerStops, ContainerStarts, TypeKey, ResizeWindow, PageRests, Connected, sockVars
<1>2. CASE Disconnect
  <2>1. CloseRef /\ UNCHANGED <<mounted, wsRef, twice, screen, term>>
    BY <1>2 DEF Disconnect, clientVars
  <2> QED BY <2>1, CloseRefQuiet, PageKept DEF PageRests
<1>3. CASE Unmount
  <2>1. mounted /\ mounted' = FALSE /\ UNCHANGED <<wsRef, twice, screen>>
    BY <1>3 DEF Unmount
  <2>2. CASE term = "none"
    BY <1>3, <2>1, <2>2 DEF Unmount, PageInv, OneConnection, OneShellOnScreen, Connected
  <2>3. CASE term # "none"
    <3>1. CloseRef
      BY <1>3, <2>3 DEF Unmount
    <3>2. \A c \in Socks : Connected(c)' => Connected(c) /\ c # wsRef
      BY <3>1, CloseRefQuiet
    <3> QED BY <2>1, <3>2 DEF PageInv, OneConnection, OneShellOnScreen
  <2> QED BY <2>2, <2>3
<1>4. ASSUME NEW d \in Socks, Connect(d) PROVE PageInv'
  <2>1. /\ mounted /\ term # "none" /\ wsRef' = d /\ screen' = {}
        /\ browser' = [browser EXCEPT ![d] = "connecting"] /\ UNCHANGED <<mounted, term>>
    BY <1>4 DEF Connect, Constructed
  <2>2. ~twice' => ~twice /\ \A c \in Socks : ~Connected(c)
    BY <1>4 DEF Connect
  <2>3. \A c \in Socks \ {d} : Connected(c)' => Connected(c)
    BY <2>1 DEF Connected, TermTypes
  <2> QED BY <2>1, <2>2, <2>3 DEF PageInv, OneConnection, OneShellOnScreen
<1>5. ASSUME NEW d \in Socks, Opens(d) PROVE PageInv'
  <2>1. /\ browser[d] = "connecting" /\ browser' = [browser EXCEPT ![d] = "open"]
        /\ UNCHANGED <<mounted, wsRef, twice, screen, term>>
    BY <1>5 DEF Opens, BrowserOpens
  <2> QED BY <2>1, PageKept DEF PageRests, Connected, TermTypes
<1>6. ASSUME NEW d \in Socks, Prints(d) PROVE PageInv'
  <2>1. /\ browser[d] = "open" /\ screen' = screen \cup {d}
        /\ UNCHANGED <<browser, mounted, wsRef, twice, term>>
    BY <1>6 DEF Prints, BrowserReceives
  <2> QED BY <2>1 DEF PageInv, OneConnection, OneShellOnScreen, Connected
<1>7. ASSUME NEW d \in Socks, Closes(d) PROVE PageInv'
  <2>1. /\ browser[d] # "new" /\ browser' = [browser EXCEPT ![d] = "closed"]
        /\ UNCHANGED <<mounted, wsRef, twice, screen, term>>
    BY <1>7 DEF Closes, BrowserCloses, Unopened
  <2> QED BY <2>1, PageKept DEF PageRests, Connected, TermTypes
<1>8. ASSUME NEW d \in Socks, ExecStep(d) \/ ExecStarted(d) \/ Receives(d) PROVE PageInv'
  <2>1. UNCHANGED browser /\ UNCHANGED clientVars
    BY <1>8 DEF ExecStep, Admit, Upgraded, Reject, Upgrade, UpgradeRefused, ExecCreated, ExecResized,
                ExecFailed, CloseHandled, ServerClosed, ShellPrints, ShellEnds, Breaks, Drop,
                ExecStarted, Receives, sockVars
  <2> QED BY <2>1, PageKept DEF PageRests, Connected, clientVars
<1> QED BY <1>1, <1>2, <1>3, <1>4, <1>5, <1>6, <1>7, <1>8 DEF TerminalNext, PlatformStep, ExecStep

LEMMA TerminalInitOK == TerminalInit => TerminalInv
<1> SUFFICES ASSUME TerminalInit PROVE TerminalInv
  OBVIOUS
<1>1. TermTypes
  BY TerminalAssumption DEF TerminalInit, SocketsInit, TermTypes
<1>2. ASSUME NEW c \in Socks PROVE PipeInv(c) /\ ShellInv(c)
  <2>1. /\ typed[c] = <<>> /\ pending[c] = <<>> /\ shellGot[c] = <<>> /\ upstream[c] = <<>>
        /\ task[c] = "none" /\ shell[c] = "none"
    BY DEF TerminalInit, SocketsInit
  <2>2. <<>> \in Seq(Keys) /\ Len(<<>>) = 0
    OBVIOUS
  <2>3. Carries(<<>>, 0, <<>>)
    BY <2>2, EmptyCarries
  <2>4. Received(c) = <<>> /\ IsPart(<<>>, <<>>)
    BY <2>1 DEF Received, IsPart
  <2> QED BY <2>1, <2>2, <2>3, <2>4 DEF PipeInv, ShellInv
<1>3. PageInv
  BY TerminalAssumption DEF TerminalInit, SocketsInit, PageInv, OneConnection, OneShellOnScreen, Connected
<1> QED BY <1>1, <1>2, <1>3 DEF TerminalInv

(* One step: the invariant goes on, and what the shell read comes out of the *)
(* pipe into which what was typed went.                                      *)
LEMMA TerminalStep ==
  ASSUME TerminalInv, TerminalNext
  PROVE  TerminalInv' /\ InputPipe!Next
<1>1. TermTypes /\ PageInv /\ \A c \in Socks : PipeInv(c) /\ ShellInv(c)
  BY DEF TerminalInv
<1>2. \/ Quiet \/ TypeKey
      \/ \E d \in Socks : ExecStarted(d) \/ Receives(d)
  BY DEF TerminalNext, PlatformStep, Quiet, PageStep, ExecStep
<1>3. PageInv'
  BY <1>1, PageInvStep
<1>4. CASE Quiet
  <2>1. /\ TermTypes' /\ \A c \in Socks : PipeInv(c)' /\ ShellInv(c)'
        /\ UNCHANGED <<typed, shellGot>>
    BY <1>1, <1>4, QuietStep
  <2> QED BY <1>3, <2>1 DEF TerminalInv, InputPipe!Next, InputPipe!Rest
<1>5. CASE TypeKey
  <2>1. /\ TermTypes' /\ \A c \in Socks : PipeInv(c)' /\ ShellInv(c)'
        /\ \A c \in Socks : InputPipe!Put(c) \/ InputPipe!Rest(c)
    BY <1>1, <1>5, TypeKeyStep
  <2> QED BY <1>3, <2>1 DEF TerminalInv, InputPipe!Next
<1>6. ASSUME NEW d \in Socks, ExecStarted(d) \/ Receives(d) PROVE TerminalInv' /\ InputPipe!Next
  <2>1. /\ TermTypes' /\ \A c \in Socks : PipeInv(c)' /\ ShellInv(c)'
        /\ \A c \in Socks : InputPipe!Get(c) \/ InputPipe!Rest(c)
    BY <1>1, <1>6, ExecStartedStep, ReceivesStep
  <2> QED BY <1>3, <2>1 DEF TerminalInv, InputPipe!Next
<1> QED BY <1>2, <1>4, <1>5, <1>6

LEMMA TerminalRests ==
  ASSUME TerminalInv, UNCHANGED terminalVars
  PROVE  TerminalInv' /\ UNCHANGED <<typed, shellGot>>
BY DEF TerminalInv, TermTypes, PipeInv, ShellInv, PageInv, OneConnection, OneShellOnScreen, Connected,
       Received, Delivers, terminalVars, sockVars, clientVars, execVars

(* The strengthening that both results rest on: what is typed is in three    *)
(* places, pendingInput or the shell, and the socket, in order.              *)
THEOREM TerminalInvariant == TerminalSpec => []TerminalInv
<1>1. TerminalInv /\ [TerminalNext]_terminalVars => TerminalInv'
  BY TerminalStep, TerminalRests
<1> QED BY <1>1, TerminalInitOK, PTL DEF TerminalSpec

(* One page has one live shell and no shell outlives its socket              *)
(* (ContainerTerminal.tsx connect and the cleanup, ws.ts handleExec).        *)
THEOREM PageHasOneLiveShell == TerminalSpec => []OneLiveShell
<1>1. TerminalInv => OneLiveShell
  BY DEF TerminalInv, PageInv, ShellInv, OneLiveShell, NoShellWithoutSocket
<1> QED BY <1>1, TerminalInvariant, PTL

(* handleExec implements a pipe: each key typed reaches the shell of its     *)
(* connection once, in order, although keys wait in pendingInput while the   *)
(* shell is created, resized and started (ws.ts 200-254).                    *)
THEOREM ExecImplementsPipe == TerminalSpec => InputIsPipe
<1>1. TerminalInit => InputPipe!Init
  BY DEF TerminalInit, InputPipe!Init
<1>2. TerminalInv /\ [TerminalNext]_terminalVars => [InputPipe!Next]_(InputPipe!pipeVars)
  BY TerminalStep, TerminalRests DEF InputPipe!pipeVars
<1> QED BY <1>1, <1>2, TerminalInvariant, PTL DEF TerminalSpec, InputIsPipe, InputPipe!Spec

(***************************************************************************)
(* The one-shot answers, OneShot.                                          *)
(***************************************************************************)
Asks == {Prompt, Bye, Lost}
Answers == {Open, Refused, Whole, Broken, Bye, Lost} \cup {Piece(c, i) : c \in Socks, i \in 1 .. MaxAnswer}
Tokens == {Piece(c, i) : c \in Socks, i \in 1 .. MaxAnswer}

OneShotTypes ==
  /\ PerSocket
  /\ upstream \in [Socks -> Seq(Asks)]
  /\ prompted \in BOOLEAN /\ lateError \in BOOLEAN
  /\ askRef \in Socks \cup {NoAsk}
  /\ askStatus \in {"idle", "connecting", "streaming", "done", "error"}
  /\ answer \in Seq(Tokens)
  /\ reply \in [Socks -> {"none", "context", "streaming", "whole", "broken", "left"}]
  /\ tokens \in [Socks -> 0 .. MaxAnswer]

(* Nothing is answered before it is asked, and it is asked once.             *)
Asked(c) ==
  /\ browser[c] = "new" => server[c] = "idle" /\ downstream[c] = <<>>
  /\ server[c] \in {"idle", "upgrading"} => reply[c] = "none"
  /\ reply[c] = "none" => tokens[c] = 0
  /\ prompted /\ browser[c] \in {"new", "connecting"} => reply[c] = "none"
  /\ \A i \in 1 .. Len(upstream[c]) : upstream[c][i] = Prompt =>
       /\ prompted /\ reply[c] = "none" /\ browser[c] \notin {"new", "connecting"}
       /\ \A j \in 1 .. Len(upstream[c]) : upstream[c][j] = Prompt => j = i

(* The message m comes as the n-th of an answer of which t tokens were sent, *)
(* which is in the state r, over a socket in the state s.  The open event is *)
(* the message 0; a token is the n-th, and `done` comes behind them all.     *)
Placed(c, m, n, t, r, s) ==
  /\ m \in Tokens => m = Piece(c, n) /\ n <= t
  /\ m = Whole => r = "whole" /\ n = t + 1 /\ s # "open"
  /\ m = Broken => r = "broken" /\ s # "open"

(* The queue q brings such an answer from its message a + 1 on.              *)
Line(c, q, a, t, r, s) ==
  \A k \in 1 .. Len(q) :
    /\ Placed(c, q[k], a + k, t, r, s)
    /\ q[k] \in {Whole, Broken} => \A l \in k + 1 .. Len(q) : q[l] \in {Bye, Lost}

(* What the page has had of the answer.                                      *)
Had(c) == IF browser[c] = "connecting" THEN 0 - 1 ELSE Len(answer)

(* A page that listens to c is handed the rest of the answer.                *)
Answering(c) ==
  Connected(c) =>
    /\ c = askRef
    /\ downstream[c] \in Seq(Answers)
    /\ browser[c] = "connecting" => answer = <<>>
    /\ server[c] \in {"idle", "upgrading"} => browser[c] = "connecting" /\ downstream[c] \in {<<>>, <<Lost>>}
    /\ server[c] = "open" /\ downstream[c] # <<Lost>> => Had(c) + Len(downstream[c]) = tokens[c]
    /\ Line(c, downstream[c], Had(c), tokens[c], reply[c], server[c])

AskPage ==
  /\ askRef = NoAsk => askStatus = "idle" /\ answer = <<>> /\ \A c \in Socks : browser[c] = "new"
  /\ askRef # NoAsk => browser[askRef] # "new"
  /\ LastAskIsShown

OneShotInv == OneShotTypes /\ (\A c \in Socks : Asked(c) /\ Answering(c)) /\ AskPage

(* The messages are told apart by their types, and the tokens by their place. *)
LEMMA AskMessages ==
  /\ Prompt \notin {Bye, Lost}
  /\ Open \notin {Refused, Whole, Broken, Bye, Lost} /\ Whole \notin {Broken, Refused, Bye, Lost}
  /\ Broken \notin {Refused, Bye, Lost} /\ Tokens \cap {Open, Refused, Whole, Broken, Bye, Lost} = {}
  /\ Bye # Lost
  /\ \A m \in Answers : /\ m.type = "token" => m \in Tokens
                        /\ m.type = "done" => m = Whole
                        /\ m.type = "error" => m = Broken
  /\ Answers = {Open, Refused, Whole, Broken, Bye, Lost} \cup Tokens
BY DEF Prompt, Open, Refused, Whole, Broken, Bye, Lost, Tokens, Piece, Answers

LEMMA LineQuiet ==
  ASSUME NEW c \in Socks, NEW q \in Seq(Answers), NEW a \in Int, NEW t, NEW r, NEW s,
         \A k \in 1 .. Len(q) : q[k] \in {Open, Refused, Bye, Lost}
  PROVE  Line(c, q, a, t, r, s)
<1>1. \A k \in 1 .. Len(q) : q[k] \notin Tokens \cup {Whole, Broken}
  BY AskMessages
<1> QED BY <1>1 DEF Line, Placed

(* No outcome is on its way to the page while there is more to say.          *)
LEMMA NoOutcomeYet ==
  ASSUME NEW c \in Socks, NEW q \in Seq(Answers), NEW a \in Int, NEW t, NEW r, NEW s,
         Line(c, q, a, t, r, s), s = "open" \/ r \notin {"whole", "broken"}
  PROVE  \A k \in 1 .. Len(q) : q[k] \notin {Whole, Broken}
BY DEF Line, Placed

LEMMA LineAppends ==
  ASSUME NEW c \in Socks, NEW q \in Seq(Answers), NEW a \in Int, NEW t \in Nat, NEW r, NEW s,
         NEW m \in Answers, Line(c, q, a, t, r, s), Placed(c, m, a + Len(q) + 1, t, r, s),
         m \in {Bye, Lost} \/ \A k \in 1 .. Len(q) : q[k] \notin {Whole, Broken}
  PROVE  Line(c, Append(q, m), a, t, r, s)
<1> DEFINE p == Append(q, m)
<1>1. /\ Len(p) = Len(q) + 1 /\ Len(q) \in Nat /\ p[Len(q) + 1] = m
      /\ \A k \in 1 .. Len(q) : p[k] = q[k]
  OBVIOUS
<1> HIDE DEF p
<1>2. ASSUME NEW k \in 1 .. Len(p)
      PROVE  /\ Placed(c, p[k], a + k, t, r, s)
             /\ p[k] \in {Whole, Broken} => \A l \in k + 1 .. Len(p) : p[l] \in {Bye, Lost}
  <2>1. CASE k = Len(q) + 1
    BY <1>1, <2>1
  <2>2. CASE k \in 1 .. Len(q)
    <3>1. /\ Placed(c, q[k], a + k, t, r, s)
          /\ q[k] \in {Whole, Broken} => \A l \in k + 1 .. Len(q) : q[l] \in {Bye, Lost}
      BY <2>2 DEF Line
    <3>2. ASSUME p[k] \in {Whole, Broken}, NEW l \in k + 1 .. Len(p) PROVE p[l] \in {Bye, Lost}
      <4>1. q[k] \in {Whole, Broken} /\ m \in {Bye, Lost}
        BY <1>1, <2>2, <3>2
      <4>2. l = Len(q) + 1 \/ (l \in k + 1 .. Len(q) /\ l \in 1 .. Len(q))
        BY <1>1, <2>2
      <4> QED BY <1>1, <3>1, <4>1, <4>2
    <3> QED BY <1>1, <2>2, <3>1, <3>2
  <2> QED BY <1>1, <2>1, <2>2
<1> QED BY <1>2 DEF Line, p

LEMMA LineAdvances ==
  ASSUME NEW c \in Socks, NEW q \in Seq(Answers), NEW a \in Int, NEW t \in Nat, NEW r, NEW s,
         q # <<>>, Line(c, q, a, t, r, s)
  PROVE  /\ Line(c, Tail(q), a + 1, t, r, s)
         /\ Head(q) \in {Whole, Broken} => Line(c, Tail(q), a, t, r, s)
<1> DEFINE p == Tail(q)
<1>1. /\ Len(p) = Len(q) - 1 /\ Len(q) \in Nat \ {0} /\ Head(q) = q[1]
      /\ \A k \in 1 .. Len(p) : p[k] = q[k + 1] /\ k + 1 \in 1 .. Len(q)
  OBVIOUS
<1> HIDE DEF p
<1>2. ASSUME NEW k \in 1 .. Len(p)
      PROVE  /\ Placed(c, p[k], a + 1 + k, t, r, s)
             /\ p[k] \in {Whole, Broken} => \A l \in k + 1 .. Len(p) : p[l] \in {Bye, Lost}
  <2>1. Placed(c, q[k + 1], a + (k + 1), t, r, s) /\ a + (k + 1) = a + 1 + k
    BY <1>1 DEF Line
  <2>2. ASSUME q[k + 1] \in {Whole, Broken}, NEW l \in k + 1 .. Len(p) PROVE p[l] \in {Bye, Lost}
    <3>1. l \in 1 .. Len(p) /\ l + 1 \in (k + 1) + 1 .. Len(q)
      BY <1>1
    <3> QED BY <1>1, <2>2, <3>1 DEF Line
  <2> QED BY <1>1, <2>1, <2>2
<1>3. ASSUME Head(q) \in {Whole, Broken}, NEW k \in 1 .. Len(p)
      PROVE  Placed(c, p[k], a + k, t, r, s) /\ p[k] \notin {Whole, Broken}
  <2>1. k + 1 \in 1 + 1 .. Len(q) /\ 1 \in 1 .. Len(q)
    BY <1>1
  <2>2. p[k] \in {Bye, Lost}
    BY <1>1, <1>3, <2>1 DEF Line
  <2> QED BY <2>2, AskMessages DEF Placed
<1> QED BY <1>2, <1>3 DEF Line, p

(* What was placed stays placed, as the server goes on.                      *)
LEMMA LineStays ==
  ASSUME NEW c \in Socks, NEW q \in Seq(Answers), NEW a \in Int, NEW t \in Nat, NEW r, NEW s,
         NEW t2 \in Nat, NEW r2, NEW s2, Line(c, q, a, t, r, s), t <= t2,
         \/ r2 = r /\ t2 = t /\ (s2 = "open" => s = "open")
         \/ \A k \in 1 .. Len(q) : q[k] \notin {Whole, Broken}
  PROVE  Line(c, q, a, t2, r2, s2)
<1>1. ASSUME NEW k \in 1 .. Len(q) PROVE Placed(c, q[k], a + k, t2, r2, s2)
  <2>1. Placed(c, q[k], a + k, t, r, s)
    BY DEF Line
  <2>2. Len(q) \in Nat /\ a + k \in Int
    OBVIOUS
  <2> QED BY <2>1, <2>2 DEF Placed
<1> QED BY <1>1 DEF Line

(***************************************************************************)
(* Steps of one socket leave what is said of the others.                   *)
(***************************************************************************)
AskStill(c) == Still(c) /\ reply'[c] = reply[c] /\ tokens'[c] = tokens[c]

LEMMA AskedStays ==
  ASSUME NEW c \in Socks, Asked(c), AskStill(c), prompted' = prompted
  PROVE  Asked(c)'
BY DEF Asked, AskStill, Still

LEMMA AnsweringStays ==
  ASSUME NEW c \in Socks, Answering(c), AskStill(c),
         Connected(c) => answer' = answer /\ askRef' = askRef
  PROVE  Answering(c)'
<1> SUFFICES ASSUME Connected(c)' PROVE Answering(c)'
  BY DEF Answering
<1>1. /\ browser'[c] = browser[c] /\ server'[c] = server[c] /\ downstream'[c] = downstream[c]
      /\ reply'[c] = reply[c] /\ tokens'[c] = tokens[c] /\ Connected(c)
  BY DEF AskStill, Still, Connected
<1>2. answer' = answer /\ askRef' = askRef /\ Had(c)' = Had(c)
  BY <1>1 DEF Had
<1> QED BY <1>1, <1>2 DEF Answering

(* What the page shows of a question is what it showed.                      *)
LEMMA AskPageStays ==
  ASSUME OneShotTypes, AskPage, UNCHANGED askVars,
         \A c \in Socks : /\ browser'[c] = "new" <=> browser[c] = "new"
                          /\ browser[c] = "closed" => browser'[c] = "closed"
                          /\ reply[c] \in {"whole", "broken"} => reply'[c] = reply[c] /\ tokens'[c] = tokens[c]
  PROVE  AskPage'
<1>1. /\ askStatus \in {"done", "error"} => askRef \in Socks
      /\ askRef \in Socks \/ askRef = NoAsk
  BY DEF OneShotTypes, AskPage
<1> QED BY <1>1 DEF AskPage, LastAskIsShown, TextOfLastAsk, ErrorIsOwn, askVars

(* A step of the server: what it is about is its socket.                     *)
LEMMA ServerStepInv ==
  ASSUME OneShotInv, OneShotTypes', NEW c \in Socks, UNCHANGED <<browser, askVars>>,
         \A d \in Socks \ {c} : AskStill(d),
         reply[c] \in {"whole", "broken"} => reply'[c] = reply[c] /\ tokens'[c] = tokens[c],
         Asked(c)', Answering(c)'
  PROVE  OneShotInv'
<1>1. ASSUME NEW d \in Socks \ {c} PROVE Asked(d)' /\ Answering(d)'
  BY AskedStays, AnsweringStays DEF OneShotInv, askVars
<1>2. \A d \in Socks : reply[d] \in {"whole", "broken"} => reply'[d] = reply[d] /\ tokens'[d] = tokens[d]
  BY DEF AskStill
<1>3. AskPage'
  BY <1>2, AskPageStays DEF OneShotInv
<1> QED BY <1>1, <1>3 DEF OneShotInv

LEMMA NobodyListens ==
  ASSUME NEW c \in Socks, ~Connected(c)' PROVE Answering(c)'
BY DEF Answering

(* The types, from what the steps of the sockets say of theirs.              *)
LEMMA OneShotTypesKept ==
  ASSUME OneShotTypes, PerSocket', \A c \in Socks : upstream'[c] \in Seq(Asks),
         UNCHANGED askVars,
         reply' \in [Socks -> {"none", "context", "streaming", "whole", "broken", "left"}],
         tokens' \in [Socks -> 0 .. MaxAnswer]
  PROVE  OneShotTypes'
BY DEF OneShotTypes, askVars, PerSocket

(* A connection that was not yet upgraded.                                   *)
LEMMA AskUpgradeStep ==
  ASSUME OneShotInv, NEW c \in Socks, AskRejected(c) \/ AskAdmitted(c)
  PROVE  OneShotInv'
<1>1. OneShotTypes /\ PerSocket /\ Asked(c) /\ Answering(c)
  BY DEF OneShotInv, OneShotTypes
<1>2. /\ PerSocket' /\ Others(c) /\ browser' = browser /\ upstream' = upstream
      /\ server[c] \in {"idle", "upgrading"} /\ browser[c] # "new"
      /\ server'[c] \in {"upgrading", "closed", "open"}
      /\ downstream'[c] \in {downstream[c], Append(downstream[c], Open), Append(downstream[c], Refused)}
      /\ downstream'[c] # downstream[c] => server'[c] # "upgrading"
      /\ server'[c] = "open" => AskAdmitted(c)
      /\ server'[c] = "open" /\ Connected(c) /\ downstream[c] # <<Lost>> => downstream'[c] = Append(downstream[c], Open)
      /\ downstream[c] = <<Lost>> /\ server'[c] = "open" => downstream'[c] = downstream[c]
  <2>1. CASE AskAdmitted(c)
    <3>1. Upgraded(c)
      BY <2>1 DEF AskAdmitted
    <3> QED BY <1>1, <2>1, <3>1, UpgradedAt DEF Upgraded, Asked
  <2>2. CASE Upgrade(c) /\ AskRejected(c)
    BY <1>1, <2>2, UpgradeAt DEF Upgrade
  <2>3. CASE UpgradeRefused(c) /\ AskRejected(c)
    BY <1>1, <2>3, UpgradeRefusedAt DEF UpgradeRefused, Asked
  <2> QED BY <2>1, <2>2, <2>3 DEF AskRejected
<1>3. /\ UNCHANGED askVars /\ tokens' = tokens /\ \A d \in Socks \ {c} : reply'[d] = reply[d]
      /\ reply' \in [Socks -> {"none", "context", "streaming", "whole", "broken", "left"}]
      /\ reply'[c] \in {"none", "context"} /\ (reply'[c] = "context" => ~prompted /\ server'[c] = "open")
  <2>1. reply[c] = "none"
    BY <1>1, <1>2 DEF Asked
  <2>2. CASE AskAdmitted(c)
    BY <1>1, <2>2, UpgradedAt DEF AskAdmitted, OneShotTypes
  <2>3. CASE AskRejected(c)
    BY <1>1, <2>1, <2>3 DEF AskRejected, OneShotTypes
  <2> QED BY <2>2, <2>3
<1>4. tokens[c] = 0 /\ reply[c] = "none"
  BY <1>1, <1>2 DEF Asked
<1>5. OneShotTypes'
  BY <1>1, <1>2, <1>3, OneShotTypesKept DEF OneShotTypes
<1>6. Asked(c)'
  BY <1>1, <1>2, <1>3, <1>4 DEF Asked, askVars
<1>7. ASSUME Connected(c)' PROVE Answering(c)'
  <2>1. Connected(c) /\ Had(c)' = Had(c) /\ Had(c) = 0 - 1
    BY <1>1, <1>2, <1>3, <1>7 DEF Connected, Had, Answering, askVars
  <2>2. /\ c = askRef /\ browser[c] = "connecting" /\ answer = <<>> /\ downstream[c] \in {<<>>, <<Lost>>}
    BY <1>1, <1>2, <2>1 DEF Answering
  <2>3. /\ downstream'[c] \in Seq(Answers)
        /\ \A k \in 1 .. Len(downstream'[c]) : downstream'[c][k] \in {Open, Refused, Bye, Lost}
    <3>1. downstream[c] \in Seq({Open, Refused, Bye, Lost})
      <4>1. CASE downstream[c] = <<>>
        BY <4>1
      <4>2. CASE downstream[c] = <<Lost>>
        BY <4>2
      <4> QED BY <2>2, <4>1, <4>2
    <3>2. downstream'[c] \in Seq({Open, Refused, Bye, Lost})
      BY <1>2, <3>1, SMTT(60)
    <3>3. {Open, Refused, Bye, Lost} \subseteq Answers
      BY DEF Answers
    <3> QED BY <3>2, <3>3
  <2>4. PICK q \in Seq(Answers) : q = downstream'[c]
    BY <2>3
  <2>5. Line(c, q, 0 - 1, 0, reply'[c], server'[c])
    BY <2>3, <2>4, LineQuiet
  <2>6. server'[c] = "open" /\ q # <<Lost>> => Len(q) = 1
    <3>1. SUFFICES ASSUME server'[c] = "open", q # <<Lost>> PROVE Len(q) = 1
      OBVIOUS
    <3>2. downstream[c] = <<>>
      BY <1>2, <2>2, <2>4, <3>1
    <3>3. q = Append(<<>>, Open)
      BY <1>2, <2>1, <2>4, <3>1, <3>2
    <3> QED BY <3>3
  <2>7. /\ browser'[c] = "connecting" /\ answer' = <<>> /\ askRef' = c /\ tokens'[c] = 0 /\ Had(c)' = 0 - 1
        /\ server'[c] \in {"idle", "upgrading"} => q \in {<<>>, <<Lost>>}
    BY <1>2, <1>3, <1>4, <2>1, <2>2, <2>4 DEF askVars
  <2> QED BY <2>3, <2>4, <2>5, <2>6, <2>7 DEF Answering
<1>8. Answering(c)'
  BY <1>7, NobodyListens
<1> QED BY <1>1, <1>2, <1>3, <1>4, <1>5, <1>6, <1>8, ServerStepInv DEF Others, AskStill

(* What a page that listens has before it, and what it needs after a step.   *)
LEMMA AnsweringIs ==
  ASSUME OneShotTypes, NEW c \in Socks, Answering(c), Connected(c)
  PROVE  /\ Had(c) \in Int /\ tokens[c] \in Nat
         /\ \E q \in Seq(Answers) :
              /\ q = downstream[c] /\ Line(c, q, Had(c), tokens[c], reply[c], server[c])
              /\ server[c] = "open" /\ q # <<Lost>> => Had(c) + Len(q) = tokens[c]
<1>1. Had(c) \in Int
  BY DEF Had, OneShotTypes
<1>2. tokens[c] \in Nat
  BY OneShotAssumption DEF OneShotTypes
<1> QED BY <1>1, <1>2 DEF Answering

LEMMA AnsweringGoesOn ==
  ASSUME NEW c \in Socks, Answering(c), Connected(c), browser'[c] = browser[c], UNCHANGED askVars,
         server[c] \notin {"idle", "upgrading"}, server'[c] \notin {"idle", "upgrading"},
         NEW q \in Seq(Answers), downstream'[c] = q,
         Line(c, q, Had(c), tokens'[c], reply'[c], server'[c]),
         server'[c] = "open" /\ q # <<Lost>> => Had(c) + Len(q) = tokens'[c]
  PROVE  Answering(c)'
<1>1. Had(c)' = Had(c) /\ answer' = answer /\ askRef' = askRef
  BY DEF Had, askVars
<1> QED BY <1>1 DEF Answering, Connected

LEMMA PromptedStep ==
  ASSUME OneShotInv, NEW c \in Socks, Prompted(c) \/ LogsRead(c)
  PROVE  OneShotInv'
<1>1. OneShotTypes /\ PerSocket /\ Asked(c) /\ Answering(c)
  BY DEF OneShotInv, OneShotTypes
<1>2. /\ PerSocket' /\ Others(c) /\ browser' = browser /\ server' = server /\ downstream' = downstream
      /\ reply[c] \in {"none", "context"} /\ server[c] \notin {"idle", "upgrading"}
      /\ upstream'[c] \in Seq(Asks)
      /\ \A i \in 1 .. Len(upstream'[c]) : upstream'[c][i] # Prompt
      /\ prompted => browser[c] \notin {"new", "connecting"}
  <2>1. CASE Prompted(c)
    <3>1. upstream[c] \in Seq(Asks)
      BY <1>1 DEF OneShotTypes
    <3>2. /\ PerSocket' /\ Others(c) /\ upstream[c] # <<>> /\ Head(upstream[c]) \notin {Bye, Lost}
          /\ server[c] \in {"open", "closing"} /\ upstream'[c] = Tail(upstream[c])
          /\ browser' = browser /\ server' = server /\ downstream' = downstream
      BY <1>1, <2>1, ServerReceivesAt DEF Prompted
    <3>3. /\ upstream'[c] \in Seq(Asks) /\ 1 \in 1 .. Len(upstream[c]) /\ Head(upstream[c]) = upstream[c][1]
          /\ \A i \in 1 .. Len(upstream'[c]) :
               /\ upstream'[c][i] = upstream[c][i + 1] /\ i + 1 \in 1 .. Len(upstream[c]) /\ i + 1 # 1
      BY <3>1, <3>2
    <3>4. upstream[c][1] = Prompt
      BY <3>1, <3>2, <3>3 DEF Asks
    <3>5. prompted /\ reply[c] = "none" /\ browser[c] \notin {"new", "connecting"}
      BY <1>1, <3>3, <3>4 DEF Asked
    <3>6. \A i \in 1 .. Len(upstream'[c]) : upstream'[c][i] # Prompt
      BY <1>1, <3>3, <3>4 DEF Asked
    <3> QED BY <3>2, <3>3, <3>5, <3>6
  <2>2. CASE LogsRead(c)
    <3>1. UNCHANGED <<browser, server, upstream, downstream>> /\ reply[c] = "context"
      BY <2>2 DEF LogsRead, sockVars
    <3>2. upstream[c] \in Seq(Asks) /\ PerSocket' /\ Others(c)
      BY <1>1, <3>1 DEF OneShotTypes, PerSocket, Others, Still
    <3> QED BY <1>1, <3>1, <3>2 DEF Asked
  <2> QED BY <2>1, <2>2
<1>3. UNCHANGED askVars /\ tokens' = tokens /\ reply' = [reply EXCEPT ![c] = "streaming"]
  BY DEF Prompted, LogsRead
<1>4. /\ reply' \in [Socks -> {"none", "context", "streaming", "whole", "broken", "left"}]
      /\ reply'[c] = "streaming" /\ \A d \in Socks \ {c} : reply'[d] = reply[d]
  BY <1>1, <1>3 DEF OneShotTypes
<1>5. OneShotTypes'
  <2>1. \A d \in Socks : upstream'[d] \in Seq(Asks)
    BY <1>1, <1>2 DEF Others, Still, OneShotTypes
  <2> QED BY <1>1, <1>2, <1>3, <1>4, <2>1, OneShotTypesKept DEF OneShotTypes
<1>6. Asked(c)'
  BY <1>1, <1>2, <1>3, <1>4 DEF Asked, askVars
<1>7. Answering(c)'
  <2>1. CASE ~Connected(c)
    BY <1>2, <2>1, NobodyListens DEF Connected
  <2>2. CASE Connected(c)
    <3>1. Had(c) \in Int /\ tokens[c] \in Nat
      BY <1>1, <2>2, AnsweringIs
    <3>2. PICK q \in Seq(Answers) :
            /\ q = downstream[c] /\ Line(c, q, Had(c), tokens[c], reply[c], server[c])
            /\ server[c] = "open" /\ q # <<Lost>> => Had(c) + Len(q) = tokens[c]
      BY <1>1, <2>2, AnsweringIs
    <3>3. \A k \in 1 .. Len(q) : q[k] \notin {Whole, Broken}
      BY <1>2, <3>1, <3>2, NoOutcomeYet
    <3>4. Line(c, q, Had(c), tokens'[c], reply'[c], server'[c])
      BY <1>2, <1>3, <3>1, <3>2, <3>3, LineStays
    <3> QED BY <1>1, <1>2, <1>3, <2>2, <3>1, <3>2, <3>4, AnsweringGoesOn
  <2> QED BY <2>1, <2>2
<1> QED BY <1>1, <1>2, <1>3, <1>4, <1>5, <1>6, <1>7, ServerStepInv DEF Others, AskStill

(* The loop finds its socket gone.                                           *)
LEMMA AnswerLeftStep ==
  ASSUME OneShotInv, NEW c \in Socks, reply[c] \in {"context", "streaming"}, server[c] # "open",
         reply' = [reply EXCEPT ![c] = "left"], UNCHANGED sockVars, UNCHANGED askVars, tokens' = tokens
  PROVE  OneShotInv'
<1>1. OneShotTypes /\ PerSocket /\ Asked(c) /\ Answering(c)
  BY DEF OneShotInv, OneShotTypes
<1>2. UNCHANGED <<browser, server, upstream, downstream>> /\ server[c] \notin {"idle", "upgrading"}
  BY <1>1 DEF sockVars, Asked
<1>3. /\ PerSocket' /\ \A d \in Socks \ {c} : AskStill(d)
      /\ reply' \in [Socks -> {"none", "context", "streaming", "whole", "broken", "left"}] /\ reply'[c] = "left"
  BY <1>1, <1>2 DEF PerSocket, AskStill, Still, OneShotTypes
<1>4. OneShotTypes'
  BY <1>1, <1>2, <1>3, OneShotTypesKept DEF OneShotTypes
<1>5. Asked(c)'
  BY <1>1, <1>2, <1>3 DEF Asked, askVars
<1>6. ASSUME Connected(c) PROVE Answering(c)'
  <2>1. Had(c) \in Int /\ tokens[c] \in Nat
    BY <1>1, <1>6, AnsweringIs
  <2>2. PICK q \in Seq(Answers) :
          q = downstream[c] /\ Line(c, q, Had(c), tokens[c], reply[c], server[c])
    BY <1>1, <1>6, AnsweringIs
  <2>3. \A k \in 1 .. Len(q) : q[k] \notin {Whole, Broken}
    BY <2>1, <2>2, NoOutcomeYet
  <2>4. Line(c, q, Had(c), tokens'[c], reply'[c], server'[c])
    BY <1>2, <2>1, <2>2, <2>3, LineStays
  <2> QED BY <1>1, <1>2, <1>6, <2>2, <2>4, AnsweringGoesOn
<1>7. Answering(c)'
  BY <1>2, <1>6, NobodyListens DEF Connected
<1> QED BY <1>1, <1>2, <1>3, <1>4, <1>5, <1>7, ServerStepInv

LEMMA NextTokenStep ==
  ASSUME OneShotInv, NEW c \in Socks, NextToken(c)
  PROVE  OneShotInv'
<1>1. OneShotTypes /\ PerSocket /\ Asked(c) /\ Answering(c)
  BY DEF OneShotInv, OneShotTypes
<1>2. UNCHANGED <<browser, server, upstream>> /\ UNCHANGED askVars /\ reply[c] = "streaming"
  BY DEF NextToken
<1>3. tokens[c] \in 0 .. MaxAnswer /\ tokens[c] < MaxAnswer /\ MaxAnswer \in Nat
  BY <1>1, OneShotAssumption DEF NextToken, OneShotTypes
<1>4. server[c] \notin {"idle", "upgrading"}
  BY <1>1, <1>2 DEF Asked
<1>5. \A d \in Socks : upstream'[d] \in Seq(Asks)
  BY <1>1, <1>2 DEF OneShotTypes
<1>6. CASE server[c] = "open"
  <2> DEFINE m == Piece(c, tokens[c] + 1)
  <2>1. /\ tokens' = [tokens EXCEPT ![c] = @ + 1] /\ UNCHANGED reply
        /\ downstream' = ToBrowser(c, m)
    <3>1. tokens' = [tokens EXCEPT ![c] = @ + 1] /\ downstream' = ToBrowser(c, Piece(c, tokens'[c]))
      BY <1>6 DEF NextToken
    <3>2. tokens'[c] = tokens[c] + 1
      BY <1>1, <3>1 DEF OneShotTypes
    <3> QED BY <1>6, <3>1, <3>2 DEF NextToken
  <2>2. m \in Tokens /\ m \in Answers
    BY <1>3 DEF Tokens, Answers
  <2>3. /\ tokens' \in [Socks -> 0 .. MaxAnswer] /\ tokens'[c] = tokens[c] + 1
        /\ \A d \in Socks \ {c} : tokens'[d] = tokens[d]
    BY <1>1, <1>3, <2>1 DEF OneShotTypes
  <2> HIDE DEF m
  <2>4. /\ downstream' = [d \in Socks |-> downstream'[d]]
        /\ \A d \in Socks \ {c} : downstream'[d] = downstream[d]
        /\ downstream[c] = <<Lost>> => downstream'[c] = downstream[c]
        /\ Connected(c) /\ downstream[c] # <<Lost>> => downstream'[c] = Append(downstream[c], m)
        /\ browser[c] \in {"failing", "closed"} => downstream'[c] = downstream[c]
    <3> HIDE DEF ToBrowser
    <3> QED BY <2>1, ToBrowserAt
  <2>5. PerSocket' /\ \A d \in Socks \ {c} : AskStill(d)
    BY <1>1, <1>2, <2>1, <2>3, <2>4 DEF PerSocket, AskStill, Still
  <2>6. OneShotTypes'
    BY <1>1, <1>2, <1>5, <2>1, <2>3, <2>5, OneShotTypesKept DEF OneShotTypes
  <2>7. Asked(c)'
    BY <1>1, <1>2, <1>4, <1>6, <2>1 DEF Asked, askVars
  <2>8. ASSUME Connected(c) PROVE Answering(c)'
    <3>1. Had(c) \in Int
      BY <1>1, <2>8, AnsweringIs
    <3>2. PICK p \in Seq(Answers) :
            /\ p = downstream[c] /\ Line(c, p, Had(c), tokens[c], reply[c], server[c])
            /\ p # <<Lost>> => Had(c) + Len(p) = tokens[c]
      BY <1>1, <1>6, <2>8, AnsweringIs
    <3>3. \A k \in 1 .. Len(p) : p[k] \notin {Whole, Broken}
      BY <1>6, <3>1, <3>2, NoOutcomeYet
    <3>4. Line(c, p, Had(c), tokens'[c], reply'[c], server'[c])
      <4>1. tokens[c] \in Nat /\ tokens'[c] \in Nat /\ tokens[c] <= tokens'[c]
        BY <1>3, <2>3
      <4> QED BY <3>1, <3>2, <3>3, <4>1, LineStays
    <3>5. CASE p = <<Lost>>
      <4>1. downstream'[c] = p
        BY <2>4, <3>2, <3>5
      <4> QED BY <1>1, <1>2, <1>4, <2>8, <3>4, <3>5, <4>1, AnsweringGoesOn
    <3>6. CASE p # <<Lost>>
      <4>1. Append(p, m) \in Seq(Answers) /\ Len(Append(p, m)) = Len(p) + 1 /\ Len(p) \in Nat
        BY <2>2
      <4>2. PICK q \in Seq(Answers) : q = Append(p, m) /\ Len(q) = Len(p) + 1
        BY <4>1
      <4>3. Placed(c, m, Had(c) + Len(p) + 1, tokens'[c], reply'[c], server'[c])
        <5>1. Had(c) + Len(p) + 1 = tokens[c] + 1 /\ tokens'[c] = tokens[c] + 1 /\ tokens[c] + 1 <= tokens[c] + 1
          BY <1>3, <2>3, <3>1, <3>2, <3>6
        <5>2. m = Piece(c, tokens[c] + 1) /\ m \notin {Whole, Broken}
          BY <2>2, AskMessages DEF m
        <5> QED BY <5>1, <5>2 DEF Placed
      <4>4. Line(c, q, Had(c), tokens'[c], reply'[c], server'[c])
        <5>1. tokens'[c] \in Nat
          BY <1>3, <2>3
        <5> QED BY <2>2, <3>1, <3>3, <3>4, <4>2, <4>3, <5>1, LineAppends
      <4>5. downstream'[c] = q /\ Had(c) + Len(q) = tokens'[c]
        BY <1>3, <2>3, <2>4, <2>8, <3>1, <3>2, <3>6, <4>1, <4>2, SMTT(60)
      <4> QED BY <1>1, <1>2, <1>4, <2>8, <4>4, <4>5, AnsweringGoesOn
    <3> QED BY <3>5, <3>6
  <2>9. Answering(c)'
    BY <1>2, <2>8, NobodyListens DEF Connected
  <2> QED BY <1>1, <1>2, <2>5, <2>6, <2>7, <2>9, ServerStepInv
<1>7. CASE server[c] # "open"
  <2>1. reply' = [reply EXCEPT ![c] = "left"] /\ UNCHANGED <<tokens, downstream>>
    BY <1>7 DEF NextToken
  <2> QED BY <1>2, <1>7, <2>1, AnswerLeftStep DEF sockVars
<1> QED BY <1>6, <1>7

(* The outcome goes out behind the last token, and the close frame behind it. *)
LEMMA ConcludedStep ==
  ASSUME OneShotInv, NEW c \in Socks, Concludes(c) \/ Breaks1(c)
  PROVE  OneShotInv'
<1>1. OneShotTypes /\ PerSocket /\ Asked(c) /\ Answering(c)
  BY DEF OneShotInv, OneShotTypes
<1>2. PICK how \in {"whole", "broken"}, m \in {Whole, Broken} :
        Concluded(c, how, m) /\ (how = "whole" <=> m = Whole) /\ (how = "broken" <=> m = Broken)
  BY AskMessages DEF Concludes, Breaks1
<1>3. reply[c] \in {"context", "streaming"} /\ server[c] \notin {"idle", "upgrading"}
  BY <1>1 DEF Concludes, Breaks1, Asked
<1>4. CASE server[c] # "open"
  <2>1. reply' = [reply EXCEPT ![c] = "left"] /\ UNCHANGED <<sockVars, askVars, tokens>>
    <3>1. server' = server
      BY <1>1, <1>2, <1>4 DEF Concluded, PerSocket
    <3> QED BY <1>2, <1>4, <3>1 DEF Concluded, sockVars
  <2> QED BY <1>3, <1>4, <2>1, AnswerLeftStep
<1>5. CASE server[c] = "open"
  <2>1. /\ UNCHANGED <<browser, upstream, tokens>> /\ UNCHANGED askVars
        /\ reply' = [reply EXCEPT ![c] = how] /\ server' = [server EXCEPT ![c] = "closing"]
        /\ downstream' = IF ToBrowser(c, m) = downstream THEN downstream
                         ELSE [downstream EXCEPT ![c] = @ \o <<m, Bye>>]
    BY <1>2, <1>5 DEF Concluded
  <2>2. /\ PerSocket' /\ \A d \in Socks \ {c} : AskStill(d)
        /\ reply' \in [Socks -> {"none", "context", "streaming", "whole", "broken", "left"}]
        /\ reply'[c] = how /\ server'[c] = "closing"
    BY <1>1, <2>1 DEF PerSocket, AskStill, Still, OneShotTypes
  <2>3. OneShotTypes'
    BY <1>1, <2>1, <2>2, OneShotTypesKept DEF OneShotTypes
  <2>4. Asked(c)'
    <3>1. browser[c] # "new"
      BY <1>1, <1>5 DEF Asked
    <3>2. prompted => browser[c] # "connecting"
      BY <1>1, <1>3 DEF Asked
    <3> QED BY <1>1, <1>3, <2>1, <2>2, <3>1, <3>2 DEF Asked, askVars
  <2>5. ASSUME Connected(c) PROVE Answering(c)'
    <3>1. Had(c) \in Int /\ tokens[c] \in Nat
      BY <1>1, <2>5, AnsweringIs
    <3>2. PICK p \in Seq(Answers) :
            /\ p = downstream[c] /\ Line(c, p, Had(c), tokens[c], reply[c], server[c])
            /\ p # <<Lost>> => Had(c) + Len(p) = tokens[c]
      BY <1>1, <1>5, <2>5, AnsweringIs
    <3>3. \A k \in 1 .. Len(p) : p[k] \notin {Whole, Broken}
      BY <1>5, <3>1, <3>2, NoOutcomeYet
    <3>4. Line(c, p, Had(c), tokens'[c], reply'[c], server'[c])
      BY <2>1, <3>1, <3>2, <3>3, LineStays
    <3>5. CASE p = <<Lost>>
      <4>1. ToBrowser(c, m) = downstream
        <5>1. ToBrowser(c, m) = [d \in Socks |-> ToBrowser(c, m)[d]]
          BY ToBrowserAt
        <5>2. \A d \in Socks : ToBrowser(c, m)[d] = downstream[d]
          BY <3>2, <3>5, ToBrowserAt, ZenonT(60)
        <5>3. downstream = [d \in Socks |-> downstream[d]]
          BY <1>1 DEF PerSocket
        <5> HIDE DEF ToBrowser
        <5> QED BY <5>1, <5>2, <5>3
      <4>2. downstream'[c] = p
        BY <2>1, <3>2, <4>1
      <4> QED BY <1>1, <1>3, <2>1, <2>2, <2>5, <3>4, <4>2, AnsweringGoesOn
    <3>6. CASE p # <<Lost>>
      <4>1. ToBrowser(c, m) # downstream
        <5>1. ToBrowser(c, m)[c] = Append(p, m)
          BY <2>5, <3>2, <3>6, ToBrowserAt
        <5>2. Append(p, m) # p
          <6>1. Len(Append(p, m)) = Len(p) + 1 /\ Len(p) \in Nat
            OBVIOUS
          <6> QED BY <6>1
        <5> QED BY <3>2, <5>1, <5>2
      <4>2. downstream'[c] = p \o <<m, Bye>>
        BY <1>1, <2>1, <3>2, <4>1 DEF PerSocket
      <4>3. m \in Answers /\ Bye \in Answers
        BY DEF Answers
      <4>4. /\ p \o <<m, Bye>> = Append(Append(p, m), Bye)
            /\ Append(p, m) \in Seq(Answers) /\ Append(Append(p, m), Bye) \in Seq(Answers)
        BY <4>3
      <4>5. PICK q \in Seq(Answers) : q = Append(p, m)
        BY <4>4
      <4>6. PICK q2 \in Seq(Answers) : q2 = Append(q, Bye)
        BY <4>4, <4>5
      <4>7. Placed(c, m, Had(c) + Len(p) + 1, tokens'[c], reply'[c], server'[c])
        BY <1>2, <2>1, <2>2, <3>1, <3>2, <3>6, AskMessages DEF Placed
      <4>8. Line(c, q, Had(c), tokens'[c], reply'[c], server'[c])
        BY <2>1, <3>1, <3>3, <3>4, <4>3, <4>5, <4>7, LineAppends
      <4>9. Placed(c, Bye, Had(c) + Len(q) + 1, tokens'[c], reply'[c], server'[c])
        BY AskMessages DEF Placed
      <4>10. Line(c, q2, Had(c), tokens'[c], reply'[c], server'[c])
        BY <2>1, <3>1, <4>3, <4>6, <4>8, <4>9, LineAppends
      <4>11. downstream'[c] = q2
        BY <4>2, <4>4, <4>5, <4>6
      <4> QED BY <1>1, <1>3, <2>1, <2>2, <2>5, <4>10, <4>11, AnsweringGoesOn
    <3> QED BY <3>5, <3>6
  <2>6. Answering(c)'
    BY <2>1, <2>5, NobodyListens DEF Connected
  <2> QED BY <1>1, <1>3, <2>1, <2>2, <2>3, <2>4, <2>6, ServerStepInv
<1> QED BY <1>4, <1>5

(* The close event of the server, and a connection that is lost.             *)
LEMMA AskGoneStep ==
  ASSUME OneShotInv, NEW c \in Socks, AskGone(c) \/ AskLost(c)
  PROVE  OneShotInv'
<1>1. OneShotTypes /\ PerSocket /\ Asked(c) /\ Answering(c)
  BY DEF OneShotInv, OneShotTypes
<1>2. UNCHANGED <<browser, reply, tokens>> /\ UNCHANGED askVars
  BY DEF AskGone, AskLost, ServerClosed, Drop
<1>3. /\ PerSocket' /\ Others(c) /\ upstream'[c] \in {<<>>, <<Lost>>}
      /\ server[c] # "idle" /\ (server'[c] = "closed" \/ server'[c] = server[c])
      /\ \/ /\ downstream'[c] \in {downstream[c], Append(downstream[c], Bye)}
            /\ server'[c] = "closed" /\ server[c] \in {"open", "closing"}
         \/ ~Connected(c)
         \/ downstream'[c] = <<Lost>> /\ server'[c] = server[c] /\ server[c] # "closed"
  <2>1. CASE AskGone(c)
    BY <1>1, <2>1, ServerClosedAt DEF AskGone
  <2>2. CASE AskLost(c)
    BY <1>1, <2>2, DropAt DEF AskLost, Connected
  <2> QED BY <2>1, <2>2
<1>4. browser[c] # "new" /\ \A d \in Socks \ {c} : AskStill(d)
  BY <1>1, <1>2, <1>3 DEF Asked, AskStill, Others
<1>5. upstream'[c] \in Seq(Asks) /\ \A i \in 1 .. Len(upstream'[c]) : upstream'[c][i] # Prompt
  <2>1. CASE upstream'[c] = <<>>
    BY <2>1
  <2>2. CASE upstream'[c] = <<Lost>>
    BY <2>2, AskMessages DEF Asks
  <2> QED BY <1>3, <2>1, <2>2
<1>6. OneShotTypes'
  <2>1. \A d \in Socks : upstream'[d] \in Seq(Asks)
    BY <1>1, <1>3, <1>5 DEF Others, Still, OneShotTypes
  <2> QED BY <1>1, <1>2, <1>3, <2>1, OneShotTypesKept DEF OneShotTypes
<1>7. Asked(c)'
  BY <1>1, <1>2, <1>3, <1>4, <1>5 DEF Asked, askVars
<1>8. ASSUME Connected(c) PROVE Answering(c)'
  <2>1. Had(c) \in Int /\ tokens[c] \in Nat /\ Bye \in Answers
    <3>1. Bye \in Answers
      BY DEF Answers
    <3> QED BY <1>1, <1>8, <3>1, AnsweringIs
  <2>2. PICK p \in Seq(Answers) : p = downstream[c] /\ Line(c, p, Had(c), tokens[c], reply[c], server[c])
    BY <1>1, <1>8, AnsweringIs
  <2>3. CASE server'[c] = "closed"
    <3>1. server[c] \notin {"idle", "upgrading"}
      BY <1>3, <1>8, <2>3
    <3>2. Line(c, p, Had(c), tokens'[c], reply'[c], server'[c])
      BY <1>2, <2>1, <2>2, <2>3, LineStays
    <3>3. CASE downstream'[c] = p
      BY <1>1, <1>2, <1>8, <2>3, <3>1, <3>2, <3>3, AnsweringGoesOn
    <3>4. CASE downstream'[c] = Append(p, Bye)
      <4>1. PICK q \in Seq(Answers) : q = Append(p, Bye)
        <5>1. Append(p, Bye) \in Seq(Answers)
          BY <2>1
        <5> QED BY <5>1
      <4>2. Placed(c, Bye, Had(c) + Len(p) + 1, tokens'[c], reply'[c], server'[c])
        BY AskMessages DEF Placed
      <4>3. Line(c, q, Had(c), tokens'[c], reply'[c], server'[c])
        BY <1>2, <2>1, <3>2, <4>1, <4>2, LineAppends
      <4> QED BY <1>1, <1>2, <1>8, <2>3, <3>1, <3>4, <4>1, <4>3, AnsweringGoesOn
    <3> QED BY <1>3, <1>8, <2>2, <2>3, <3>3, <3>4
  <2>4. CASE server'[c] = server[c] /\ server[c] # "closed" /\ downstream'[c] = <<Lost>>
    <3>1. PICK q \in Seq(Answers) : q = <<Lost>> /\ \A k \in 1 .. Len(q) : q[k] \in {Open, Refused, Bye, Lost}
      <4>1. Lost \in Answers
        BY DEF Answers
      <4>2. <<Lost>> \in Seq(Answers) /\ Len(<<Lost>>) = 1 /\ <<Lost>>[1] = Lost
        BY <4>1
      <4>3. \A k \in 1 .. Len(<<Lost>>) : <<Lost>>[k] \in {Open, Refused, Bye, Lost}
        BY <4>2
      <4> QED BY <4>2, <4>3
    <3>2. Line(c, q, Had(c), tokens'[c], reply'[c], server'[c])
      BY <2>1, <3>1, LineQuiet
    <3>3. /\ Had(c)' = Had(c) /\ c = askRef' /\ browser'[c] = browser[c] /\ answer' = answer
          /\ browser[c] = "connecting" => answer = <<>>
          /\ server[c] \in {"idle", "upgrading"} => browser[c] = "connecting"
      BY <1>1, <1>2, <1>8 DEF Had, Answering, askVars
    <3> QED BY <2>4, <3>1, <3>2, <3>3 DEF Answering
  <2> QED BY <1>3, <1>8, <2>3, <2>4
<1>9. Answering(c)'
  BY <1>2, <1>8, NobodyListens DEF Connected
<1> QED BY <1>1, <1>2, <1>4, <1>6, <1>7, <1>9, ServerStepInv

(***************************************************************************)
(* The page's steps.                                                       *)
(***************************************************************************)

(* The page has nothing more to ask over c.                                  *)
LEMMA AskedQuietly ==
  ASSUME OneShotTypes, NEW c \in Socks, Asked(c), prompted' = prompted,
         server'[c] = server[c], reply'[c] = reply[c], tokens'[c] = tokens[c],
         browser[c] # "new", browser'[c] \notin {"new", "connecting"},
         upstream'[c] \in {upstream[c], Append(upstream[c], Bye), Append(upstream[c], Lost)}
  PROVE  Asked(c)' /\ upstream'[c] \in Seq(Asks)
<1>1. upstream[c] \in Seq(Asks) /\ {Bye, Lost} \subseteq Asks
  BY DEF OneShotTypes, Asks
<1>2. ASSUME NEW m \in {Bye, Lost}, upstream'[c] = Append(upstream[c], m)
      PROVE  Asked(c)' /\ upstream'[c] \in Seq(Asks)
  <2>1. /\ Append(upstream[c], m) \in Seq(Asks)
        /\ Len(Append(upstream[c], m)) = Len(upstream[c]) + 1 /\ Len(upstream[c]) \in Nat
        /\ Append(upstream[c], m)[Len(upstream[c]) + 1] = m
        /\ \A i \in 1 .. Len(upstream[c]) : Append(upstream[c], m)[i] = upstream[c][i]
    BY <1>1
  <2>2. \A i \in 1 .. Len(upstream'[c]) : upstream'[c][i] = Prompt =>
          i \in 1 .. Len(upstream[c]) /\ upstream[c][i] = Prompt
    BY <1>2, <2>1, AskMessages
  <2> QED BY <1>2, <2>1, <2>2 DEF Asked
<1>3. CASE upstream'[c] = upstream[c]
  BY <1>1, <1>3 DEF Asked
<1> QED BY <1>2, <1>3

LEMMA AskLeavesStep ==
  ASSUME OneShotInv, AskLeaves PROVE OneShotInv'
<1>1. OneShotTypes /\ PerSocket /\ AskPage /\ \A d \in Socks : Asked(d) /\ Answering(d)
  BY DEF OneShotInv, OneShotTypes
<1>2. PICK c \in Socks : c = askRef /\ Connected(c)
  BY <1>1 DEF AskLeaves, OneShotTypes
<1>3. /\ browser' = AfterClose(c) /\ upstream' = UpAfterClose(c) /\ downstream' = DownAfterClose(c)
      /\ UNCHANGED <<server, reply, tokens>> /\ UNCHANGED askVars
  BY <1>2 DEF AskLeaves
<1>4. /\ PerSocket' /\ Others(c) /\ browser[c] # "new" /\ browser'[c] \notin {"new", "connecting", "open"}
      /\ upstream'[c] \in {upstream[c], Append(upstream[c], Bye)}
  BY <1>1, <1>2, <1>3, CloseAt DEF Connected, Closing
<1>5. Asked(c)' /\ upstream'[c] \in Seq(Asks)
  BY <1>1, <1>3, <1>4, AskedQuietly DEF askVars
<1>6. OneShotTypes'
  <2>1. \A d \in Socks : upstream'[d] \in Seq(Asks)
    BY <1>1, <1>4, <1>5 DEF Others, Still, OneShotTypes
  <2> QED BY <1>1, <1>3, <1>4, <2>1, OneShotTypesKept DEF OneShotTypes
<1>7. ASSUME NEW d \in Socks \ {c} PROVE AskStill(d) /\ Asked(d)' /\ Answering(d)'
  <2>1. AskStill(d)
    BY <1>3, <1>4 DEF AskStill, Others
  <2> QED BY <1>1, <1>3, <2>1, AskedStays, AnsweringStays DEF askVars
<1>8. Answering(c)'
  BY <1>4, NobodyListens DEF Connected
<1>9. AskPage'
  <2>1. \A d \in Socks : /\ browser'[d] = "new" <=> browser[d] = "new"
                         /\ browser[d] = "closed" => browser'[d] = "closed"
    BY <1>2, <1>4, <1>7 DEF AskStill, Still, Connected
  <2> QED BY <1>1, <1>3, <2>1, AskPageStays
<1> QED BY <1>5, <1>6, <1>7, <1>8, <1>9 DEF OneShotInv

LEMMA AskClosesStep ==
  ASSUME OneShotInv, NEW c \in Socks, AskCloses(c) PROVE OneShotInv'
<1>1. OneShotTypes /\ PerSocket /\ AskPage /\ \A d \in Socks : Asked(d) /\ Answering(d)
  BY DEF OneShotInv, OneShotTypes
<1>2. /\ PerSocket' /\ Others(c)
      /\ browser[c] \in {"connecting", "open", "closing", "failing"} /\ browser'[c] = "closed"
      /\ server'[c] = server[c] /\ downstream'[c] = <<>>
      /\ upstream'[c] \in {upstream[c], Append(upstream[c], Bye), Append(upstream[c], Lost)}
  BY <1>1, BrowserClosesAt DEF AskCloses
<1>3. /\ UNCHANGED <<prompted, askRef, answer, reply, tokens>>
      /\ \/ /\ askStatus' = IF askStatus = "done" THEN "done" ELSE "error"
            /\ lateError' = (lateError \/ (c # askRef /\ askStatus # "done"))
         \/ UNCHANGED <<askStatus, lateError>>
  BY DEF AskCloses
<1>4. Asked(c)' /\ upstream'[c] \in Seq(Asks)
  BY <1>1, <1>2, <1>3, AskedQuietly
<1>5. OneShotTypes'
  <2>1. \A d \in Socks : upstream'[d] \in Seq(Asks)
    BY <1>1, <1>2, <1>4 DEF Others, Still, OneShotTypes
  <2>2. upstream' \in [Socks -> Seq(Asks)]
    BY <1>2, <2>1 DEF PerSocket
  <2>3. askStatus' \in {"idle", "connecting", "streaming", "done", "error"} /\ lateError' \in BOOLEAN
    BY <1>1, <1>3 DEF OneShotTypes
  <2> QED BY <1>1, <1>2, <1>3, <2>2, <2>3 DEF OneShotTypes
<1>6. ASSUME NEW d \in Socks \ {c} PROVE AskStill(d) /\ Asked(d)' /\ Answering(d)'
  <2>1. AskStill(d)
    BY <1>2, <1>3 DEF AskStill, Others
  <2> QED BY <1>1, <1>3, <2>1, AskedStays, AnsweringStays
<1>7. Answering(c)'
  BY <1>2, NobodyListens DEF Connected
<1>8. AskPage'
  <2>1. askRef \in Socks /\ browser'[askRef] # "new" /\ (browser[askRef] = "closed" => browser'[askRef] = "closed")
    <3>1. askRef \in Socks
      BY <1>1, <1>2 DEF AskPage, OneShotTypes
    <3> QED BY <1>1, <1>2, <1>6, <3>1 DEF AskPage, AskStill, Still
  <2>2. TextOfLastAsk'
    BY <1>1, <1>3 DEF AskPage, LastAskIsShown, TextOfLastAsk
  <2>3. ErrorIsOwn'
    BY <1>1, <1>2, <1>3, <2>1 DEF AskPage, LastAskIsShown, ErrorIsOwn, OneShotTypes
  <2> QED BY <1>3, <2>1, <2>2, <2>3, OneShotAssumption DEF AskPage, LastAskIsShown
<1> QED BY <1>4, <1>5, <1>6, <1>7, <1>8 DEF OneShotInv

LEMMA AskOpensStep ==
  ASSUME OneShotInv, NEW c \in Socks, AskOpens(c) PROVE OneShotInv'
<1>1. OneShotTypes /\ PerSocket /\ AskPage /\ \A d \in Socks : Asked(d) /\ Answering(d)
  BY DEF OneShotInv, OneShotTypes
<1>2. /\ browser' \in [Socks -> {"new", "connecting", "open", "closing", "failing", "closed"}]
      /\ server' = server /\ downstream' = [d \in Socks |-> downstream'[d]]
      /\ browser[c] = "connecting" /\ browser'[c] = "open"
      /\ downstream[c] # <<>> /\ Head(downstream[c]) = Open /\ downstream'[c] = Tail(downstream[c])
      /\ \A d \in Socks \ {c} : browser'[d] = browser[d] /\ downstream'[d] = downstream[d]
  BY <1>1, BrowserOpensAt DEF AskOpens
<1>3. /\ UNCHANGED <<prompted, askRef, answer, lateError, reply, tokens>> /\ askStatus' = "streaming"
      /\ upstream' = IF prompted THEN ToServer({c}, Prompt) ELSE upstream
  BY DEF AskOpens
<1>4. /\ upstream' = [d \in Socks |-> upstream'[d]] /\ \A d \in Socks \ {c} : upstream'[d] = upstream[d]
      /\ upstream'[c] = upstream[c] \/ (prompted /\ upstream'[c] = Append(upstream[c], Prompt))
  <2>1. CASE prompted
    <3>1. upstream' = ToServer({c}, Prompt)
      BY <1>3, <2>1
    <3> HIDE DEF ToServer
    <3> QED BY <2>1, <3>1, ToServerOne, ZenonT(60)
  <2>2. CASE ~prompted
    BY <1>1, <1>3, <2>2 DEF PerSocket
  <2> QED BY <2>1, <2>2
<1>5. PerSocket' /\ \A d \in Socks \ {c} : AskStill(d)
  BY <1>1, <1>2, <1>3, <1>4 DEF PerSocket, AskStill, Still
<1>6. upstream'[c] \in Seq(Asks) /\ Asked(c)'
  <2>1. upstream[c] \in Seq(Asks) /\ Prompt \in Asks
    BY <1>1 DEF OneShotTypes, Asks
  <2>2. \A i \in 1 .. Len(upstream[c]) : upstream[c][i] # Prompt
    BY <1>1, <1>2 DEF Asked
  <2>3. /\ Append(upstream[c], Prompt) \in Seq(Asks)
        /\ Len(Append(upstream[c], Prompt)) = Len(upstream[c]) + 1 /\ Len(upstream[c]) \in Nat
        /\ \A i \in 1 .. Len(upstream[c]) : Append(upstream[c], Prompt)[i] = upstream[c][i]
    BY <2>1
  <2>4. \A i, j \in 1 .. Len(upstream'[c]) : upstream'[c][i] = Prompt /\ upstream'[c][j] = Prompt => i = j
    BY <1>4, <2>2, <2>3
  <2>5. (\E i \in 1 .. Len(upstream'[c]) : upstream'[c][i] = Prompt) => prompted /\ reply[c] = "none"
    BY <1>1, <1>2, <1>4, <2>2 DEF Asked
  <2> QED BY <1>1, <1>2, <1>3, <1>4, <2>1, <2>3, <2>4, <2>5 DEF Asked
<1>7. OneShotTypes'
  <2>1. \A d \in Socks : upstream'[d] \in Seq(Asks)
    BY <1>1, <1>4, <1>6 DEF OneShotTypes
  <2>2. upstream' \in [Socks -> Seq(Asks)]
    BY <1>4, <2>1
  <2> QED BY <1>1, <1>3, <1>5, <2>2 DEF OneShotTypes
<1>8. ASSUME NEW d \in Socks \ {c} PROVE Asked(d)' /\ Answering(d)'
  BY <1>1, <1>3, <1>5, AskedStays, AnsweringStays
<1>9. Answering(c)'
  <2>1. Connected(c) /\ Had(c) = 0 - 1 /\ tokens[c] \in Nat /\ c = askRef /\ answer = <<>>
    BY <1>1, <1>2, AnsweringIs DEF Connected, Had, Answering
  <2>2. PICK q \in Seq(Answers) :
          /\ q = downstream[c] /\ Line(c, q, Had(c), tokens[c], reply[c], server[c])
          /\ server[c] = "open" /\ q # <<Lost>> => Had(c) + Len(q) = tokens[c]
    BY <1>1, <2>1, AnsweringIs
  <2>3. q # <<>> /\ q # <<Lost>>
    BY <1>2, <2>2, AskMessages
  <2>4. server[c] \notin {"idle", "upgrading"}
    BY <1>1, <2>1, <2>2, <2>3, SMTT(60) DEF Answering
  <2>5. PICK p \in Seq(Answers) : p = Tail(q) /\ Len(p) = Len(q) - 1 /\ Len(q) \in Nat /\ Len(p) \in Nat
    <3>1. Tail(q) \in Seq(Answers) /\ Len(Tail(q)) = Len(q) - 1 /\ Len(q) \in Nat /\ Len(Tail(q)) \in Nat
      BY <2>3
    <3> QED BY <3>1
  <2>6. Line(c, p, 0, tokens[c], reply[c], server[c])
    <3>1. Line(c, Tail(q), (0 - 1) + 1, tokens[c], reply[c], server[c])
      BY <2>1, <2>2, <2>3, LineAdvances
    <3> QED BY <2>5, <3>1
  <2>7. server[c] = "open" => Len(p) = tokens[c]
    BY <2>1, <2>2, <2>3, <2>5
  <2>8. Had(c)' = 0 /\ downstream'[c] = p
    BY <1>2, <1>3, <2>1, <2>2, <2>5 DEF Had
  <2>9. /\ server'[c] = server[c] /\ tokens'[c] = tokens[c] /\ reply'[c] = reply[c] /\ askRef' = c
        /\ browser'[c] = "open"
    BY <1>2, <1>3, <2>1
  <2>10. server[c] = "open" /\ p # <<Lost>> => 0 + Len(p) = tokens[c]
    BY <2>5, <2>7
  <2> HIDE DEF Had
  <2> QED BY <2>4, <2>6, <2>8, <2>9, <2>10 DEF Answering
<1>10. AskPage'
  <2>1. askRef \in Socks /\ browser'[askRef] # "new"
    BY <1>1, <1>2 DEF AskPage, OneShotTypes
  <2> QED BY <1>1, <1>3, <2>1, OneShotAssumption DEF AskPage, LastAskIsShown, TextOfLastAsk, ErrorIsOwn
<1> QED BY <1>6, <1>7, <1>8, <1>9, <1>10 DEF OneShotInv

(* What is handed to the page is the next of the answer it shows.            *)
LEMMA AskReceivesStep ==
  ASSUME OneShotInv, NEW c \in Socks, AskReceives(c) PROVE OneShotInv'
<1> DEFINE m == Head(downstream[c])
<1>1. OneShotTypes /\ PerSocket /\ AskPage /\ \A d \in Socks : Asked(d) /\ Answering(d)
  BY DEF OneShotInv, OneShotTypes
<1>2. UNCHANGED <<browser, server, upstream, prompted, askRef, lateError, reply, tokens>>
  BY DEF AskReceives
<1>3. /\ PerSocket' /\ Others(c) /\ browser[c] = "open" /\ downstream[c] # <<>> /\ m \notin {Bye, Lost}
      /\ downstream'[c] = Tail(downstream[c])
  BY <1>1, <1>2, BrowserReceivesAt DEF AskReceives
<1>4. \/ m.type = "token" /\ answer' = Append(answer, m) /\ askStatus' = askStatus
      \/ m.type \in {"done", "error"} /\ askStatus' = m.type /\ answer' = answer
  BY DEF AskReceives
<1> HIDE DEF m
<1>5. Connected(c) /\ Had(c) = Len(answer) /\ tokens[c] \in Nat /\ c = askRef /\ Len(answer) \in Nat
  <2>1. Connected(c) /\ Had(c) = Len(answer) /\ Len(answer) \in Nat
    BY <1>1, <1>3 DEF Connected, Had, OneShotTypes
  <2>2. c = askRef
    BY <1>1, <2>1 DEF Answering
  <2> QED BY <1>1, <2>1, <2>2, AnsweringIs
<1>6. PICK q \in Seq(Answers) :
        /\ q = downstream[c] /\ Line(c, q, Len(answer), tokens[c], reply[c], server[c])
        /\ server[c] = "open" /\ q # <<Lost>> => Len(answer) + Len(q) = tokens[c]
  BY <1>1, <1>5, AnsweringIs
<1>7. m = Head(q) /\ q # <<>> /\ q # <<Lost>>
  BY <1>3, <1>6 DEF m
<1>8. m = q[1] /\ m \in Answers /\ 1 \in 1 .. Len(q)
  BY <1>7
<1>9. Placed(c, m, Len(answer) + 1, tokens[c], reply[c], server[c])
  BY <1>6, <1>8 DEF Line
<1>10. PICK p \in Seq(Answers) : p = Tail(q) /\ Len(p) = Len(q) - 1 /\ Len(q) \in Nat /\ Len(p) \in Nat
  <2>1. Tail(q) \in Seq(Answers) /\ Len(Tail(q)) = Len(q) - 1 /\ Len(q) \in Nat /\ Len(Tail(q)) \in Nat
    BY <1>7
  <2> QED BY <2>1, Zenon
<1>11. /\ Line(c, p, Len(answer) + 1, tokens[c], reply[c], server[c])
       /\ m \in {Whole, Broken} => Line(c, p, Len(answer), tokens[c], reply[c], server[c])
  BY <1>5, <1>6, <1>7, <1>10, LineAdvances
<1>12. /\ PerSocket' /\ server[c] \notin {"idle", "upgrading"} /\ \A d \in Socks \ {c} : AskStill(d) /\ ~Connected(d)
  <2>1. server[c] \notin {"idle", "upgrading"}
    BY <1>1, <1>3, <1>5 DEF Answering
  <2>2. \A d \in Socks \ {c} : ~Connected(d)
    BY <1>1, <1>5 DEF Answering
  <2> QED BY <1>2, <1>3, <2>1, <2>2 DEF Others, AskStill
<1>13. /\ \/ m = Piece(c, Len(answer) + 1) /\ m \in Tokens /\ Len(answer) + 1 <= tokens[c]
             /\ answer' = Append(answer, m) /\ askStatus' = askStatus
          \/ m = Whole /\ reply[c] = "whole" /\ Len(answer) = tokens[c] /\ server[c] # "open"
             /\ answer' = answer /\ askStatus' = "done"
          \/ m = Broken /\ reply[c] = "broken" /\ server[c] # "open"
             /\ answer' = answer /\ askStatus' = "error"
  <2>1. /\ m.type = "token" => m \in Tokens
        /\ m.type = "done" => m = Whole
        /\ m.type = "error" => m = Broken
    BY <1>8, AskMessages
  <2> QED BY <1>4, <1>5, <1>9, <2>1 DEF Placed
<1>14. /\ answer' \in Seq(Tokens) /\ askStatus' \in {"idle", "connecting", "streaming", "done", "error"}
       /\ answer' = answer \/ Len(answer') = Len(answer) + 1
       /\ \A i \in 1 .. Len(answer) : answer'[i] = answer[i]
       /\ answer' # answer => answer' = Append(answer, m) /\ Len(answer') = Len(answer) + 1
                              /\ answer'[Len(answer) + 1] = m
  <2>1. answer \in Seq(Tokens) /\ askStatus \in {"idle", "connecting", "streaming", "done", "error"}
    BY <1>1 DEF OneShotTypes
  <2>2. CASE m \in Tokens /\ answer' = Append(answer, m) /\ askStatus' = askStatus
    BY <2>1, <2>2
  <2>3. CASE answer' = answer /\ askStatus' \in {"done", "error"}
    BY <2>1, <2>3
  <2> QED BY <1>13, <2>2, <2>3
<1>15. OneShotTypes'
  BY <1>1, <1>2, <1>12, <1>14 DEF OneShotTypes
<1>16. ASSUME NEW d \in Socks \ {c} PROVE Asked(d)' /\ Answering(d)'
  BY <1>1, <1>2, <1>12, AskedStays, AnsweringStays
<1>17. Asked(c)'
  BY <1>1, <1>2, <1>3 DEF Asked
<1>18. Answering(c)'
  <2>1. Had(c)' = Len(answer') /\ downstream'[c] = p /\ browser'[c] = "open" /\ askRef' = c
    BY <1>2, <1>3, <1>5, <1>6, <1>10 DEF Had
  <2>2. Line(c, p, Len(answer'), tokens[c], reply[c], server[c])
    BY <1>11, <1>13, <1>14
  <2>3. server[c] = "open" => Len(answer') + Len(p) = tokens[c]
    <3>1. SUFFICES ASSUME server[c] = "open" PROVE Len(answer') + Len(p) = tokens[c]
      OBVIOUS
    <3>2. answer' = Append(answer, m) /\ answer \in Seq(Tokens) /\ m \in Tokens
      BY <1>1, <1>13, <3>1 DEF OneShotTypes
    <3>3. Len(answer') = Len(answer) + 1
      BY <3>2
    <3>4. Len(answer) + Len(q) = tokens[c]
      BY <1>6, <1>7, <3>1
    <3> QED BY <1>5, <1>10, <3>3, <3>4
  <2> QED BY <1>2, <1>12, <2>1, <2>2, <2>3 DEF Answering
<1>19. AskPage'
  <2>1. TextOfLastAsk'
    <3>1. \A i \in DOMAIN answer' : answer'[i] = Piece(askRef, i)
      <4>1. \A i \in 1 .. Len(answer) : answer[i] = Piece(askRef, i)
        BY <1>1 DEF AskPage, LastAskIsShown, TextOfLastAsk, OneShotTypes
      <4>2. DOMAIN answer' = 1 .. Len(answer')
        BY <1>14
      <4>3. CASE answer' = answer
        BY <4>1, <4>2, <4>3
      <4>4. CASE answer' # answer
        <5>1. m = Piece(askRef, Len(answer) + 1)
          BY <1>5, <1>13, <4>4
        <5>2. \A i \in DOMAIN answer' : i \in 1 .. Len(answer) \/ i = Len(answer) + 1
          BY <1>5, <1>14, <4>2, <4>4
        <5> QED BY <1>14, <4>1, <4>4, <5>1, <5>2
      <4> QED BY <4>3, <4>4
    <3>2. askStatus' = "done" => reply[askRef] = "whole" /\ Len(answer') = tokens[askRef]
      <4>1. askStatus = "done" => reply[askRef] = "whole" /\ Len(answer) = tokens[askRef]
        BY <1>1 DEF AskPage, LastAskIsShown, TextOfLastAsk
      <4> QED BY <1>5, <1>13, <4>1
    <3> QED BY <1>2, <3>1, <3>2 DEF TextOfLastAsk
  <2>2. ErrorIsOwn'
    <3>1. askStatus = "error" /\ ~lateError => reply[askRef] = "broken" \/ browser[askRef] = "closed"
      BY <1>1 DEF AskPage, LastAskIsShown, ErrorIsOwn
    <3> QED BY <1>2, <1>5, <1>13, <3>1 DEF ErrorIsOwn
  <2> QED BY <1>1, <1>2, <1>5, <2>1, <2>2, OneShotAssumption DEF AskPage, LastAskIsShown
<1> QED BY <1>15, <1>16, <1>17, <1>18, <1>19 DEF OneShotInv

(* Another question gives up the last one's connection.                      *)
LEMMA StartStep ==
  ASSUME OneShotInv, NEW c \in Socks, Start(c) PROVE OneShotInv'
<1>1. OneShotTypes /\ PerSocket /\ AskPage /\ \A d \in Socks : Asked(d) /\ Answering(d)
  BY DEF OneShotInv, OneShotTypes
<1>2. /\ browser[c] = "new" /\ UNCHANGED <<server, prompted, reply, tokens>>
      /\ askRef' = c /\ askStatus' = "connecting" /\ answer' = <<>> /\ lateError' = FALSE
  BY DEF Start, Unused
<1>3. /\ PerSocket' /\ browser'[c] = "connecting"
      /\ server'[c] = "idle" /\ downstream'[c] = <<>> /\ upstream'[c] = upstream[c]
      /\ \A d \in Socks \ {c, askRef} : Still(d)
      /\ askRef \in Socks => /\ askRef # c /\ browser[askRef] # "new"
                             /\ browser'[askRef] \notin {"new", "connecting", "open"}
                             /\ upstream'[askRef] \in {upstream[askRef], Append(upstream[askRef], Bye)}
  <2>1. server[c] = "idle" /\ downstream[c] = <<>>
    BY <1>1, <1>2 DEF Asked
  <2>2. CASE askRef = NoAsk
    <3>1. browser' = [browser EXCEPT ![c] = "connecting"] /\ UNCHANGED <<upstream, downstream>>
      BY <2>2 DEF Start
    <3> QED BY <1>1, <1>2, <2>1, <2>2, <3>1, OneShotAssumption DEF PerSocket, Still
  <2>3. CASE askRef \in Socks
    <3>1. /\ browser' = [AfterClose(askRef) EXCEPT ![c] = "connecting"]
          /\ upstream' = UpAfterClose(askRef) /\ downstream' = DownAfterClose(askRef)
      BY <2>3, OneShotAssumption DEF Start
    <3>2. askRef # c /\ browser[askRef] # "new"
      BY <1>1, <1>2, <2>3, OneShotAssumption DEF AskPage
    <3>3. /\ AfterClose(askRef) \in [Socks -> {"new", "connecting", "open", "closing", "failing", "closed"}]
          /\ AfterClose(askRef)[askRef] \notin {"new", "connecting", "open"}
          /\ \A d \in Socks \ {askRef} : AfterClose(askRef)[d] = browser[d]
      BY <1>1, <2>3, <3>2 DEF AfterClose, PerSocket
    <3>4. /\ upstream' = [d \in Socks |-> upstream'[d]]
          /\ \A d \in Socks \ {askRef} : upstream'[d] = upstream[d]
          /\ upstream'[askRef] \in {upstream[askRef], Append(upstream[askRef], Bye)}
      <4> HIDE DEF UpAfterClose
      <4> QED BY <1>1, <2>3, <3>1, UpAfterCloseAt
    <3>5. /\ downstream' = [d \in Socks |-> downstream'[d]]
          /\ \A d \in Socks \ {askRef} : downstream'[d] = downstream[d]
      BY <1>1, <2>3, <3>1 DEF DownAfterClose, PerSocket
    <3> HIDE DEF AfterClose
    <3> QED BY <1>1, <1>2, <2>1, <2>3, <3>1, <3>2, <3>3, <3>4, <3>5 DEF PerSocket, Still
  <2> QED BY <1>1, <2>2, <2>3 DEF OneShotTypes
<1>4. ASSUME NEW d \in Socks \ {c, askRef} PROVE Asked(d)' /\ Answering(d)' /\ upstream'[d] \in Seq(Asks)
  <2>1. AskStill(d) /\ ~Connected(d)
    BY <1>1, <1>2, <1>3 DEF AskStill, Answering
  <2>2. upstream'[d] \in Seq(Asks)
    BY <1>1, <2>1 DEF AskStill, Still, OneShotTypes
  <2> QED BY <1>1, <1>2, <2>1, <2>2, AskedStays, AnsweringStays
<1>5. ASSUME NEW o \in Socks, o = askRef PROVE Asked(o)' /\ Answering(o)' /\ upstream'[o] \in Seq(Asks)
  <2>1. Asked(o)' /\ upstream'[o] \in Seq(Asks)
    BY <1>1, <1>2, <1>3, <1>5, AskedQuietly
  <2>2. Answering(o)'
    BY <1>3, <1>5, NobodyListens DEF Connected
  <2> QED BY <2>1, <2>2
<1>6. Asked(c)' /\ upstream'[c] \in Seq(Asks)
  BY <1>1, <1>2, <1>3 DEF Asked, OneShotTypes
<1>7. Answering(c)'
  <2>1. <<>> \in Seq(Answers) /\ Len(<<>>) = 0
    OBVIOUS
  <2>2. Line(c, <<>>, 0 - 1, tokens[c], reply[c], server[c])
    <3>1. \A k \in 1 .. Len(<<>>) : FALSE
      BY <2>1
    <3> QED BY <3>1 DEF Line
  <2> QED BY <1>2, <1>3, <2>1, <2>2 DEF Answering, Had
<1>8. OneShotTypes'
  <2>1. \A d \in Socks : upstream'[d] \in Seq(Asks)
    BY <1>1, <1>4, <1>5, <1>6
  <2>2. upstream' \in [Socks -> Seq(Asks)]
    BY <1>3, <2>1 DEF PerSocket
  <2>3. answer' \in Seq(Tokens)
    BY <1>2
  <2> QED BY <1>1, <1>2, <1>3, <2>2, <2>3 DEF OneShotTypes
<1>9. AskPage'
  BY <1>2, <1>3, OneShotAssumption DEF AskPage, LastAskIsShown, TextOfLastAsk, ErrorIsOwn
<1> QED BY <1>4, <1>5, <1>6, <1>7, <1>8, <1>9 DEF OneShotInv

LEMMA OneShotInitOK == OneShotInit => OneShotInv
<1> SUFFICES ASSUME OneShotInit PROVE OneShotInv
  OBVIOUS
<1>1. OneShotTypes
  <2>1. PerSocket
    BY DEF OneShotInit, SocketsInit, PerSocket
  <2>2. <<>> \in Seq(Asks) /\ <<>> \in Seq(Tokens)
    OBVIOUS
  <2>3. upstream \in [Socks -> Seq(Asks)] /\ answer \in Seq(Tokens)
    BY <2>2 DEF OneShotInit, SocketsInit
  <2>4. tokens \in [Socks -> 0 .. MaxAnswer]
    BY OneShotAssumption DEF OneShotInit
  <2> QED BY <2>1, <2>3, <2>4 DEF OneShotInit, OneShotTypes
<1>2. ASSUME NEW c \in Socks PROVE Asked(c) /\ Answering(c)
  BY DEF OneShotInit, SocketsInit, Asked, Answering, Connected
<1>3. AskPage
  BY DEF OneShotInit, SocketsInit, AskPage, LastAskIsShown, TextOfLastAsk, ErrorIsOwn
<1> QED BY <1>1, <1>2, <1>3 DEF OneShotInv

LEMMA OneShotStep ==
  ASSUME OneShotInv, [OneShotNext]_oneShotVars PROVE OneShotInv'
<1>1. CASE UNCHANGED oneShotVars
  <2>1. /\ UNCHANGED <<sockVars, askVars, reply, tokens>>
        /\ UNCHANGED <<browser, server, upstream, downstream, prompted, askRef, askStatus, answer, lateError>>
    BY <1>1 DEF oneShotVars, sockVars, askVars
  <2>2. OneShotTypes'
    BY <2>1 DEF OneShotInv, OneShotTypes, PerSocket
  <2>3. ASSUME NEW d \in Socks PROVE Asked(d)' /\ Answering(d)'
    BY <2>1, AskedStays, AnsweringStays DEF OneShotInv, AskStill, Still
  <2>4. AskPage'
    BY <2>1 DEF OneShotInv, AskPage, LastAskIsShown, TextOfLastAsk, ErrorIsOwn
  <2> QED BY <2>2, <2>3, <2>4 DEF OneShotInv
<1>2. CASE OneShotNext
  BY <1>2, AskLeavesStep, StartStep, AskOpensStep, AskReceivesStep, AskClosesStep, AskUpgradeStep,
     PromptedStep, NextTokenStep, ConcludedStep, AskGoneStep DEF OneShotNext
<1> QED BY <1>1, <1>2

(* Each question has its answer: the tokens in the socket are those that     *)
(* follow the ones on the page, whatever is asked again meanwhile.           *)
THEOREM OneShotInvariant == OneShotSpec => []OneShotInv
BY OneShotInitOK, OneShotStep, PTL DEF OneShotSpec

=============================================================================
