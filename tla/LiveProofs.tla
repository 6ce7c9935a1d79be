---------------------------- MODULE LiveProofs -----------------------------
(* Proofs about what MCLiveness composes: the assistant's chat, the live   *)
(* notifications, and the broadcaster of Docker's events behind them.      *)
EXTENDS MCLiveness, LinkProofs

(***************************************************************************)
(* The chat with the assistant, Chat.                                      *)
(***************************************************************************)
Questions == {Question(t) : t \in Turns}
ChatTokens == {Token(t, i) : t \in Turns, i \in 1 .. MaxTokens}
Outcomes == {Done(t) : t \in Turns} \cup {Error(t) : t \in Turns}
Says == ChatTokens \cup Outcomes \cup {Open, Refused, Bye, Lost}
Preparing(j) == j.phase \in {"context", "streaming"}

ChatTypes ==
  /\ PerSocket
  /\ upstream \in [Socks -> Seq(Questions \cup {Bye, Lost})]
  /\ shown \in Seq([turn : Turns, tokens : Seq([turn : Turns, at : 1 .. MaxTokens])])
  /\ streaming \in BOOLEAN /\ stale \in BOOLEAN /\ crashed \in BOOLEAN
  /\ chatRef \in Socks \cup {NoChat}
  /\ opening \in [Socks -> 0 .. MaxTurns]
  /\ turns \in 0 .. MaxTurns
  /\ job \in [Turns -> [sock : Socks \cup {NoChat}, given : 0 .. MaxTokens,
                        phase : {"none", "context", "streaming", "over"}]]

(* A socket is used once it was made, it carries a question once it is open,  *)
(* and to a page that listens to it only what the handler says.               *)
Wired(c) ==
  /\ browser[c] = "new" => server[c] = "idle" /\ downstream[c] = <<>>
  /\ browser[c] # "new" => opening[c] # 0
  /\ c = chatRef => browser[c] # "new"
  /\ browser[c] \in {"new", "connecting"} => \A i \in 1 .. Len(upstream[c]) : upstream[c][i] \notin Questions
  /\ Connected(c) => downstream[c] \in Seq(Says)
  /\ server[c] \in {"idle", "upgrading"} /\ Connected(c) => browser[c] = "connecting" /\ downstream[c] \in {<<>>, <<Lost>>}

(* An answer is prepared for a question that was asked, over an open socket.  *)
Jobs ==
  \A t \in Turns :
    /\ job[t].phase = "none" => job[t].given = 0
    /\ job[t].phase # "none" => job[t].sock \in Socks /\ browser[job[t].sock] \notin {"new", "connecting"}

(* The queue q brings the answer j to the question t from its message a + 1   *)
(* on; its outcome is behind the last of its tokens.                          *)
Line(q, a, t, j) ==
  \A k \in 1 .. Len(q) :
    /\ q[k] \in ChatTokens => q[k] = Token(t, a + k) /\ a + k <= j.given
    /\ q[k] \in Outcomes => a + k = j.given + 1 /\ j.phase = "over"
Quiet(q) == \A k \in 1 .. Len(q) : q[k] \notin ChatTokens \cup Outcomes

(* What has been said of the answer j, its outcome included.                  *)
Total(j) == j.given + (IF j.phase = "over" THEN 1 ELSE 0)
Coming(s, q, a, t, j) == Line(q, a, t, j) /\ (s = "open" /\ q # <<Lost>> => a + Len(q) = Total(j))
Silent(b, s, q) == b = "open" /\ Quiet(q) /\ (s = "open" /\ q # <<Lost>> => q = <<>>)

(* What the page has had of it; the open event counts as one message.         *)
Had(b, sh) == IF b = "connecting" THEN 0 - 1 ELSE Len(sh[Len(sh)].tokens)
LastOf(sh, t) == t # 0 /\ sh # <<>> /\ sh[Len(sh)].turn = t

(* A question is in one place: on its way, or being answered.                 *)
Asking(c) ==
  \A i \in 1 .. Len(upstream[c]) : \A t \in Turns : upstream[c][i] = Question(t) =>
     /\ t <= turns /\ job[t].phase = "none"
     /\ Connected(c) => t = turns /\ streaming
     /\ t = turns => \A d \in Socks : Connected(d) => d = c
     /\ \A d \in Socks : \A j \in 1 .. Len(upstream[d]) : upstream[d][j] = Question(t) => d = c /\ j = i

(* The page listens to one socket, and is told the rest of the last answer.   *)
Answering(c) ==
  Connected(c) =>
    /\ c = chatRef
    /\ IF streaming THEN Coming(server[c], downstream[c], Had(browser[c], shown), turns, job[turns])
                    ELSE Silent(browser[c], server[c], downstream[c])
    /\ turns # 0 /\ (job[turns].phase # "none" => job[turns].sock = c)
    /\ browser[c] = "connecting" => opening[c] = turns /\ shown[Len(shown)].tokens = <<>> /\ job[turns].phase = "none"
    /\ \A t \in Turns : Preparing(job[t]) /\ job[t].sock = c => t = turns /\ streaming

ChatOrder ==
  /\ streaming => LastOf(shown, turns)
  /\ AnswersKeepApart /\ ~crashed
  /\ \A t \in Turns : t > turns => job[t].phase = "none"
  /\ \A c \in Socks : Asking(c) /\ Answering(c)

ChatWires == ChatTypes /\ (\A c \in Socks : Wired(c)) /\ Jobs
ChatInv == ChatWires /\ (~stale => ChatOrder)

(* The messages are told apart by their types.                                *)
LEMMA ChatMessages ==
  /\ Questions \cap {Bye, Lost} = {} /\ Bye # Lost
  /\ ChatTokens \cap Outcomes = {} /\ (ChatTokens \cup Outcomes) \cap {Open, Refused, Bye, Lost} = {}
  /\ Open \notin {Refused, Bye, Lost}
  /\ \A m \in Says : /\ m.type = "token" => m \in ChatTokens
                     /\ m.type \in {"done", "error"} => m \in Outcomes
  /\ \A m \in ChatTokens : m.type = "token" /\ m.turn \in Turns /\ m.at \in 1 .. MaxTokens
  /\ \A m \in Outcomes : m.type \in {"done", "error"}
  /\ \A t, u \in Turns : Question(t) = Question(u) => t = u
  /\ \A m \in Questions : m.turn \in Turns /\ m = Question(m.turn)
<1> USE DEF Questions, ChatTokens, Outcomes, Says, Question, Token, Done, Error, Open, Refused, Bye, Lost
<1>1. Questions \cap {Bye, Lost} = {} /\ Bye # Lost
  OBVIOUS
<1>2. ChatTokens \cap Outcomes = {} /\ (ChatTokens \cup Outcomes) \cap {Open, Refused, Bye, Lost} = {}
  OBVIOUS
<1>3. \A m \in Says : /\ m.type = "token" => m \in ChatTokens
                      /\ m.type \in {"done", "error"} => m \in Outcomes
  OBVIOUS
<1>4. \A m \in ChatTokens : m.type = "token" /\ m.turn \in Turns /\ m.at \in 1 .. MaxTokens
  OBVIOUS
<1>5. \A m \in Outcomes : m.type \in {"done", "error"}
  OBVIOUS
<1>6. /\ \A t, u \in Turns : Question(t) = Question(u) => t = u
      /\ \A m \in Questions : m.turn \in Turns /\ m = Question(m.turn)
  OBVIOUS
<1>7. Open \notin {Refused, Bye, Lost}
  OBVIOUS
<1> QED BY <1>1, <1>2, <1>3, <1>4, <1>5, <1>6, <1>7

LEMMA LineOfQuiet ==
  ASSUME NEW q, NEW a, NEW t, NEW j, Quiet(q)
  PROVE  Line(q, a, t, j)
BY DEF Quiet, Line

LEMMA LineAppends ==
  ASSUME NEW q \in Seq(Says), NEW a \in Int, NEW t, NEW j, Line(q, a, t, j), NEW m \in Says,
         m \in ChatTokens => m = Token(t, a + Len(q) + 1) /\ a + Len(q) + 1 <= j.given,
         m \in Outcomes => a + Len(q) + 1 = j.given + 1 /\ j.phase = "over"
  PROVE  Line(Append(q, m), a, t, j)
<1> DEFINE p == Append(q, m)
<1>1. /\ Len(p) = Len(q) + 1 /\ Len(q) \in Nat /\ p[Len(q) + 1] = m
      /\ \A k \in 1 .. Len(q) : p[k] = q[k]
  OBVIOUS
<1> HIDE DEF p
<1>2. ASSUME NEW k \in 1 .. Len(p)
      PROVE  /\ p[k] \in ChatTokens => p[k] = Token(t, a + k) /\ a + k <= j.given
             /\ p[k] \in Outcomes => a + k = j.given + 1 /\ j.phase = "over"
  <2>1. CASE k = Len(q) + 1
    <3>1. a + k = a + Len(q) + 1
      BY <1>1, <2>1
    <3> QED BY <1>1, <2>1, <3>1
  <2>2. CASE k \in 1 .. Len(q)
    BY <1>1, <2>2 DEF Line
  <2> QED BY <1>1, <2>1, <2>2
<1> QED BY <1>2 DEF Line, p

LEMMA LineAdvances ==
  ASSUME NEW q \in Seq(Says), NEW a \in Int, NEW t, NEW j, q # <<>>, Line(q, a, t, j)
  PROVE  /\ Line(Tail(q), a + 1, t, j)
         /\ Head(q) \in ChatTokens => Head(q) = Token(t, a + 1)
         /\ Head(q) \in Outcomes => j.phase = "over" /\ a + 1 = j.given + 1
<1> DEFINE p == Tail(q)
<1>1. /\ Len(p) = Len(q) - 1 /\ Len(q) \in Nat \ {0} /\ Head(q) = q[1]
      /\ \A k \in 1 .. Len(p) : p[k] = q[k + 1] /\ k + 1 \in 1 .. Len(q)
  OBVIOUS
<1> HIDE DEF p
<1>2. ASSUME NEW k \in 1 .. Len(p)
      PROVE  /\ p[k] \in ChatTokens => p[k] = Token(t, a + 1 + k) /\ a + 1 + k <= j.given
             /\ p[k] \in Outcomes => a + 1 + k = j.given + 1 /\ j.phase = "over"
  <2>1. a + 1 + k = a + (k + 1)
    BY <1>1
  <2>2. p[k] = q[k + 1] /\ k + 1 \in 1 .. Len(q)
    BY <1>1
  <2> QED BY <2>1, <2>2 DEF Line
<1>3. 1 \in 1 .. Len(q)
  BY <1>1
<1> QED BY <1>1, <1>2, <1>3 DEF Line, p

(* Nothing of the answer comes behind its outcome.                            *)
LEMMA LineEnds ==
  ASSUME NEW q \in Seq(Says), NEW a \in Int, NEW t, NEW j, q # <<>>, Line(q, a, t, j), j.given \in Nat,
         Head(q) \in Outcomes
  PROVE  Quiet(Tail(q))
<1> DEFINE p == Tail(q)
<1>1. /\ Len(p) = Len(q) - 1 /\ Len(q) \in Nat \ {0} /\ Head(q) = q[1]
      /\ \A k \in 1 .. Len(p) : p[k] = q[k + 1] /\ k + 1 \in 1 .. Len(q)
  OBVIOUS
<1> HIDE DEF p
<1>2. a + 1 = j.given + 1
  BY LineAdvances
<1>3. ASSUME NEW k \in 1 .. Len(p) PROVE p[k] \notin ChatTokens \cup Outcomes
  <2>1. p[k] = q[k + 1] /\ k + 1 \in 1 .. Len(q) /\ a + (k + 1) > j.given + 1
    BY <1>1, <1>2
  <2>2. p[k] \in ChatTokens => a + (k + 1) <= j.given
    BY <2>1 DEF Line
  <2>3. p[k] \in Outcomes => a + (k + 1) = j.given + 1
    BY <2>1 DEF Line
  <2> QED BY <2>1, <2>2, <2>3
<1> QED BY <1>3 DEF Quiet, p

(* An answer goes on.                                                         *)
LEMMA LineGrows ==
  ASSUME NEW q \in Seq(Says), NEW a \in Int, NEW t, NEW j, NEW k, Line(q, a, t, j),
         j.given \in Nat, k.given \in Nat, j.given <= k.given, j.phase # "over"
  PROVE  Line(q, a, t, k)
BY DEF Line

(***************************************************************************)
(* Types, and what is on which socket.                                     *)
(***************************************************************************)

(* A step of the socket c that neither the page nor an answer takes part in. *)
Moved(c) ==
  /\ PerSocket' /\ Others(c)
  /\ browser'[c] = browser[c] /\ browser[c] # "new"
  /\ upstream'[c] \in {upstream[c], <<>>, <<Lost>>}
  /\ \/ /\ server'[c] = "upgrading" /\ downstream'[c] = downstream[c] /\ server[c] = "idle"
     \/ /\ server'[c] = "closed"
        /\ downstream'[c] \in {downstream[c], Append(downstream[c], Refused), Append(downstream[c], Bye)}
     \/ /\ server'[c] = "open" /\ server[c] = "upgrading"
        /\ downstream'[c] \in {downstream[c], Append(downstream[c], Open)}
        /\ Connected(c) /\ downstream[c] # <<Lost>> => downstream'[c] = Append(downstream[c], Open)
        /\ downstream[c] = <<Lost>> => downstream'[c] = downstream[c]
     \/ /\ server'[c] = server[c] /\ server[c] \in {"upgrading", "open", "closing"}
        /\ downstream'[c] \in {downstream[c], <<Lost>>} /\ (Connected(c) => downstream'[c] = <<Lost>>)
  /\ server[c] \in {"idle", "upgrading"} /\ server'[c] \in {"idle", "upgrading"} =>
       downstream'[c] \in {downstream[c], <<Lost>>}

LEMMA ChatSocketMoves ==
  ASSUME PerSocket, NEW c \in Socks, Wired(c),
         ChatAdmitted(c) \/ ChatRejected(c) \/ ChatGone(c) \/ ChatLost(c)
  PROVE  Moved(c) /\ UNCHANGED <<hookVars, job>>
<1>1. browser[c] = "new" => server[c] = "idle"
  BY DEF Wired
<1>2. CASE ChatAdmitted(c)
  BY <1>1, <1>2, UpgradedAt DEF ChatAdmitted, Moved
<1>3. CASE ChatRejected(c)
  <2>1. CASE Upgrade(c)
    BY <2>1, <1>3, UpgradeAt DEF ChatRejected, Moved
  <2>2. CASE UpgradeRefused(c)
    BY <2>2, <1>1, <1>3, UpgradeRefusedAt DEF ChatRejected, Moved
  <2> QED BY <1>3, <2>1, <2>2 DEF ChatRejected
<1>4. CASE ChatGone(c)
  BY <1>1, <1>4, ServerClosedAt DEF ChatGone, Moved
<1>5. CASE ChatLost(c)
  <2>1. Connected(c) => browser[c] # "failing"
    BY DEF Connected
  <2> QED BY <1>1, <1>5, <2>1, DropAt DEF ChatLost, Moved
<1> QED BY <1>2, <1>3, <1>4, <1>5

(* A socket that is left alone.                                              *)
LEMMA WiredStays ==
  ASSUME NEW d \in Socks, Wired(d), Still(d), opening'[d] = opening[d], chatRef' = d => chatRef = d
  PROVE  Wired(d)'
BY DEF Wired, Still, Connected

LEMMA JobsStay ==
  ASSUME Jobs, job' = job,
         \A d \in Socks : browser[d] \notin {"new", "connecting"} => browser'[d] \notin {"new", "connecting"}
  PROVE  Jobs'
BY DEF Jobs

LEMMA MovedWires ==
  ASSUME ChatWires, NEW c \in Socks, Moved(c), UNCHANGED <<hookVars, job>>
  PROVE  ChatWires'
<1> USE DEF ChatWires
<1>1. upstream' \in [Socks -> Seq(Questions \cup {Bye, Lost})]
  <2>1. <<>> \in Seq(Questions \cup {Bye, Lost}) /\ <<Lost>> \in Seq(Questions \cup {Bye, Lost})
    OBVIOUS
  <2>2. \A d \in Socks : upstream[d] \in Seq(Questions \cup {Bye, Lost})
    BY DEF ChatTypes
  <2>3. \A d \in Socks : upstream'[d] \in Seq(Questions \cup {Bye, Lost})
    BY <2>1, <2>2 DEF Moved, Others, Still
  <2>4. upstream' = [d \in Socks |-> upstream'[d]]
    BY DEF Moved, PerSocket
  <2> QED BY <2>3, <2>4
<1>2. ChatTypes'
  <2>1. PerSocket'
    BY DEF Moved
  <2> QED BY <1>1, <2>1 DEF ChatTypes, hookVars
<1>3. ASSUME NEW d \in Socks PROVE Wired(d)'
  <2>1. CASE d # c
    BY <2>1, WiredStays DEF Moved, Others, hookVars
  <2>2. CASE d = c
    <3>1. Wired(c) /\ opening' = opening /\ chatRef' = chatRef
      BY DEF hookVars
    <3>2. \A i \in 1 .. Len(<<Lost>>) : <<Lost>>[i] \notin Questions
      BY ChatMessages
    <3>3. browser'[c] \in {"new", "connecting"} => \A i \in 1 .. Len(upstream'[c]) : upstream'[c][i] \notin Questions
      BY <3>1, <3>2 DEF Wired, Moved
    <3>4. ASSUME Connected(c)'
          PROVE  /\ downstream'[c] \in Seq(Says)
                 /\ server'[c] \in {"idle", "upgrading"} => browser'[c] = "connecting" /\ downstream'[c] \in {<<>>, <<Lost>>}
      <4>1. Connected(c) /\ downstream[c] \in Seq(Says)
        BY <3>1, <3>4 DEF Wired, Moved, Connected
      <4>2. <<Lost>> \in Seq(Says) /\ \A m \in {Open, Refused, Bye} : Append(downstream[c], m) \in Seq(Says)
        BY <4>1 DEF Says
      <4>3. downstream'[c] \in Seq(Says)
        BY <4>1, <4>2 DEF Moved
      <4>4. server'[c] \in {"idle", "upgrading"} => server[c] \in {"idle", "upgrading"}
        BY DEF Moved
      <4>5. server'[c] \in {"idle", "upgrading"} => browser'[c] = "connecting" /\ downstream'[c] \in {<<>>, <<Lost>>}
        BY <3>1, <4>1, <4>4 DEF Wired, Moved
      <4> QED BY <4>3, <4>5
    <3> QED BY <2>2, <3>1, <3>3, <3>4 DEF Wired, Moved
  <2> QED BY <2>1, <2>2
<1>4. Jobs'
  <2>1. \A d \in Socks : browser'[d] = browser[d]
    BY DEF Moved, Others, Still
  <2> QED BY <2>1, JobsStay DEF hookVars
<1> QED BY <1>2, <1>3, <1>4

(* A step that ends the page's part in a socket.                             *)
Left(c) ==
  /\ PerSocket' /\ Others(c)
  /\ browser'[c] \notin {"connecting", "open"} /\ (browser'[c] = "new" <=> browser[c] = "new")
  /\ server'[c] = server[c]
  /\ upstream'[c] \in {upstream[c], Append(upstream[c], Bye), Append(upstream[c], Lost)}
  /\ browser[c] # "new"

LEMMA LeftWires ==
  ASSUME ChatTypes, \A d \in Socks : Wired(d), NEW c \in Socks, Left(c), opening' = opening, chatRef' \in {chatRef, NoChat}
  PROVE  /\ upstream' \in [Socks -> Seq(Questions \cup {Bye, Lost})]
         /\ \A d \in Socks : Wired(d)'
         /\ \A d \in Socks : browser[d] \notin {"new", "connecting"} => browser'[d] \notin {"new", "connecting"}
<1>1. upstream' \in [Socks -> Seq(Questions \cup {Bye, Lost})]
  <2>2. \A d \in Socks : upstream[d] \in Seq(Questions \cup {Bye, Lost})
    BY DEF ChatTypes
  <2>3. \A m \in {Bye, Lost} : Append(upstream[c], m) \in Seq(Questions \cup {Bye, Lost})
    BY <2>2
  <2>4. \A d \in Socks : upstream'[d] \in Seq(Questions \cup {Bye, Lost})
    BY <2>2, <2>3 DEF Left, Others, Still
  <2>5. upstream' = [d \in Socks |-> upstream'[d]]
    BY DEF Left, PerSocket
  <2> QED BY <2>4, <2>5
<1>2. ASSUME NEW d \in Socks PROVE Wired(d)'
  <2>1. CASE d # c
    BY <2>1, WiredStays, ChatAssumption DEF Left, Others
  <2>2. CASE d = c
    BY <2>2, ChatAssumption DEF Left, Wired, Connected
  <2> QED BY <2>1, <2>2
<1>3. ASSUME NEW d \in Socks, browser[d] \notin {"new", "connecting"} PROVE browser'[d] \notin {"new", "connecting"}
  BY <1>3 DEF Left, Others, Still
<1> QED BY <1>1, <1>2, <1>3

LEMMA ClearLeaves ==
  ASSUME ChatTypes, \A d \in Socks : Wired(d), Clear
  PROVE  /\ chatRef # NoChat => chatRef \in Socks /\ Left(chatRef)
         /\ chatRef = NoChat => UNCHANGED sockVars
         /\ chatRef' = NoChat /\ shown' = <<>> /\ streaming' = FALSE
         /\ UNCHANGED <<opening, turns, job, stale, crashed>>
<1>1. ASSUME chatRef # NoChat PROVE chatRef \in Socks /\ Left(chatRef)
  <2>1. chatRef \in Socks
    BY <1>1 DEF ChatTypes
  <2>2. Closing(chatRef) /\ server' = server
    BY <1>1 DEF Clear, Closing
  <2>3. browser[chatRef] # "new"
    BY <2>1 DEF Wired
  <2>4. PerSocket
    BY DEF ChatTypes
  <2> QED BY <2>1, <2>2, <2>3, <2>4, CloseAt DEF Left
<1>2. chatRef = NoChat => UNCHANGED sockVars
  BY DEF Clear, sockVars
<1> QED BY <1>1, <1>2 DEF Clear

LEMMA ClearWires ==
  ASSUME ChatWires, Clear PROVE ChatWires'
<1> USE DEF ChatWires
<1>1. /\ chatRef' = NoChat /\ shown' = <<>> /\ streaming' = FALSE
      /\ UNCHANGED <<opening, turns, job, stale, crashed>>
  BY ClearLeaves
<1>2. /\ upstream' \in [Socks -> Seq(Questions \cup {Bye, Lost})] /\ PerSocket'
      /\ \A d \in Socks : Wired(d)'
      /\ \A d \in Socks : browser[d] \notin {"new", "connecting"} => browser'[d] \notin {"new", "connecting"}
  <2>1. CASE chatRef # NoChat
    <3>1. chatRef \in Socks /\ Left(chatRef)
      BY <2>1, ClearLeaves
    <3>2. PerSocket'
      BY <3>1 DEF Left
    <3> QED BY <1>1, <3>1, <3>2, LeftWires
  <2>2. CASE chatRef = NoChat
    <3>1. UNCHANGED sockVars
      BY <2>2, ClearLeaves
    <3>2. \A d \in Socks : Wired(d)'
      BY <1>1, <3>1, ChatAssumption DEF Wired, sockVars, Connected
    <3> QED BY <3>1, <3>2 DEF sockVars, ChatTypes, PerSocket
  <2> QED BY <2>1, <2>2
<1>3. shown' \in Seq([turn : Turns, tokens : Seq([turn : Turns, at : 1 .. MaxTokens])])
  BY <1>1
<1>4. ChatTypes'
  BY <1>1, <1>2, <1>3 DEF ChatTypes
<1>5. Jobs'
  BY <1>1, <1>2, JobsStay
<1> QED BY <1>2, <1>4, <1>5

LEMMA ChatClosesLeaves ==
  ASSUME PerSocket, NEW c \in Socks, ChatCloses(c)
  PROVE  /\ Left(c) /\ UNCHANGED <<shown, chatRef, opening, turns, job, crashed>>
         /\ \/ streaming' = FALSE /\ stale' = (stale \/ (streaming /\ c # chatRef))
            \/ UNCHANGED <<streaming, stale>>
<1>1. BrowserCloses(c)
  BY DEF ChatCloses
<1>2. Left(c)
  BY <1>1, BrowserClosesAt DEF Left
<1> QED BY <1>2 DEF ChatCloses

LEMMA ClosesWires ==
  ASSUME ChatWires, NEW c \in Socks, ChatCloses(c) PROVE ChatWires'
<1> USE DEF ChatWires
<1>1. Left(c) /\ UNCHANGED <<shown, chatRef, opening, turns, job, crashed>>
  BY ChatClosesLeaves DEF ChatTypes
<1>2. streaming' \in BOOLEAN /\ stale' \in BOOLEAN
  BY ChatClosesLeaves DEF ChatTypes
<1>3. /\ upstream' \in [Socks -> Seq(Questions \cup {Bye, Lost})] /\ PerSocket'
      /\ \A d \in Socks : Wired(d)'
      /\ \A d \in Socks : browser[d] \notin {"new", "connecting"} => browser'[d] \notin {"new", "connecting"}
  <2>1. PerSocket'
    BY <1>1 DEF Left
  <2> QED BY <1>1, <2>1, LeftWires
<1>4. ChatTypes'
  BY <1>1, <1>2, <1>3 DEF ChatTypes
<1>5. Jobs'
  BY <1>1, <1>3, JobsStay
<1> QED BY <1>3, <1>4, <1>5

(* Only the queue of c to the page changes: it hands one message over, or    *)
(* gets one more.                                                            *)
LEMMA QueueWires ==
  ASSUME \A d \in Socks : Wired(d), PerSocket, NEW c \in Socks, UNCHANGED <<browser, server, upstream, opening, chatRef>>,
         downstream' = [d \in Socks |-> downstream'[d]], \A d \in Socks : d # c => downstream'[d] = downstream[d],
         Connected(c) => downstream'[c] \in Seq(Says),
         server[c] \in {"idle", "upgrading"} => downstream'[c] = downstream[c]
  PROVE  PerSocket' /\ \A d \in Socks : Wired(d)'
<1>1. PerSocket'
  BY DEF PerSocket
<1>2. ASSUME NEW d \in Socks PROVE Wired(d)'
  <2>1. CASE d # c
    <3>1. Still(d)
      BY <2>1 DEF Still
    <3> QED BY <3>1, WiredStays
  <2>2. CASE d = c
    BY <2>2 DEF Wired, Connected
  <2> QED BY <2>1, <2>2
<1> QED BY <1>1, <1>2

LEMMA ReceivesAt ==
  ASSUME ChatTypes, NEW c \in Socks, Wired(c), ChatReceives(c)
  PROVE  /\ browser[c] = "open" /\ server[c] \notin {"idle", "upgrading"} /\ UNCHANGED <<browser, server, upstream>>
         /\ downstream[c] \in Seq(Says) /\ downstream[c] # <<>> /\ downstream'[c] = Tail(downstream[c])
         /\ downstream' = [d \in Socks |-> downstream'[d]] /\ \A d \in Socks : d # c => downstream'[d] = downstream[d]
         /\ Head(downstream[c]) \in ChatTokens \cup Outcomes
         /\ UNCHANGED <<chatRef, opening, turns, job, stale>>
         /\ \/ /\ Head(downstream[c]) \in ChatTokens /\ shown # <<>> /\ UNCHANGED <<streaming, crashed>>
               /\ shown' = [shown EXCEPT ![Len(shown)].tokens =
                              Append(@, [turn |-> Head(downstream[c]).turn, at |-> Head(downstream[c]).at])]
            \/ /\ Head(downstream[c]) \in ChatTokens /\ shown = <<>> /\ shown' = shown /\ crashed' = TRUE
               /\ streaming' = streaming
            \/ /\ Head(downstream[c]) \in Outcomes /\ streaming' = FALSE /\ UNCHANGED <<shown, crashed>>
<1>1. /\ PerSocket' /\ Others(c) /\ browser[c] = "open" /\ downstream[c] # <<>>
      /\ downstream'[c] = Tail(downstream[c]) /\ Head(downstream[c]) \notin {Bye, Lost}
  BY BrowserReceivesAt DEF ChatReceives, ChatTypes
<1>2. downstream[c] \in Seq(Says) /\ Head(downstream[c]) \in Says
  BY <1>1 DEF Wired, Connected
<1>3. server[c] \notin {"idle", "upgrading"}
  BY <1>1 DEF Wired, Connected
<1>4. downstream' = [d \in Socks |-> downstream'[d]] /\ \A d \in Socks : d # c => downstream'[d] = downstream[d]
  BY <1>1 DEF PerSocket, Others, Still
<1>5. Head(downstream[c]).type = "token" => Head(downstream[c]) \in ChatTokens
  BY <1>2, ChatMessages
<1>6. Head(downstream[c]).type \in {"done", "error"} => Head(downstream[c]) \in Outcomes
  BY <1>2, ChatMessages
<1>7. UNCHANGED <<browser, server, upstream, chatRef, opening, turns, job, stale>>
  BY DEF ChatReceives
<1>8. \/ /\ Head(downstream[c]) \in ChatTokens /\ shown # <<>> /\ UNCHANGED <<streaming, crashed>>
         /\ shown' = [shown EXCEPT ![Len(shown)].tokens =
                        Append(@, [turn |-> Head(downstream[c]).turn, at |-> Head(downstream[c]).at])]
      \/ /\ Head(downstream[c]) \in ChatTokens /\ shown = <<>> /\ shown' = shown /\ crashed' = TRUE
         /\ streaming' = streaming
      \/ /\ Head(downstream[c]) \in Outcomes /\ streaming' = FALSE /\ UNCHANGED <<shown, crashed>>
  BY <1>5, <1>6 DEF ChatReceives
<1> QED BY <1>1, <1>2, <1>3, <1>4, <1>7, <1>8

LEMMA TokensReplaced ==
  ASSUME NEW A, NEW B, NEW x \in [turn : A, tokens : B], NEW v
  PROVE  [x EXCEPT !.tokens = v] = [turn |-> x.turn, tokens |-> v]
BY SMTT(60)

LEMMA LastReplaced ==
  ASSUME NEW S, NEW s \in Seq(S), s # <<>>, NEW x \in S, NEW r, r = [s EXCEPT ![Len(s)] = x]
  PROVE  /\ r \in Seq(S) /\ Len(r) = Len(s) /\ r # <<>> /\ r[Len(s)] = x
         /\ \A i \in 1 .. Len(s) - 1 : r[i] = s[i]
<1> DEFINE L == Len(s)
<1>0. r = [s EXCEPT ![L] = x]
  OBVIOUS
<1>1. L \in Nat \ {0} /\ s \in [1 .. L -> S]
  OBVIOUS
<1> HIDE DEF L
<1>2. r \in [1 .. L -> S] /\ r[L] = x /\ \A i \in 1 .. L - 1 : r[i] = s[i]
  BY <1>0, <1>1
<1>3. r \in Seq(S) /\ Len(r) = L
  BY <1>1, <1>2
<1>4. r # <<>>
  BY <1>1, <1>3
<1> QED BY <1>2, <1>3, <1>4, Zenon DEF L

(* A token goes to the end of the last answer.                               *)
LEMMA TokenGoesLast ==
  ASSUME shown \in Seq([turn : Turns, tokens : Seq([turn : Turns, at : 1 .. MaxTokens])]), shown # <<>>,
         NEW m \in ChatTokens,
         shown' = [shown EXCEPT ![Len(shown)].tokens = Append(@, [turn |-> m.turn, at |-> m.at])]
  PROVE  /\ shown' \in Seq([turn : Turns, tokens : Seq([turn : Turns, at : 1 .. MaxTokens])])
         /\ Len(shown') = Len(shown) /\ shown' # <<>>
         /\ \A i \in 1 .. Len(shown) - 1 : shown'[i] = shown[i]
         /\ shown'[Len(shown)].turn = shown[Len(shown)].turn
         /\ shown'[Len(shown)].tokens = Append(shown[Len(shown)].tokens, [turn |-> m.turn, at |-> m.at])
<1> DEFINE Toks == [turn : Turns, at : 1 .. MaxTokens]
           Shapes == [turn : Turns, tokens : Seq(Toks)]
           tok == [turn |-> m.turn, at |-> m.at]
           x == shown[Len(shown)]
           last == [x EXCEPT !.tokens = Append(@, tok)]
<1>1. tok \in Toks
  BY ChatMessages
<1> HIDE DEF tok, Toks
<1>2. shown \in Seq(Shapes)
  BY DEF Toks
<1>3. x \in Shapes
  <2> HIDE DEF Shapes
  <2> QED BY <1>2
<1>4. shown' = [shown EXCEPT ![Len(shown)] = last]
  BY DEF tok
<1> HIDE DEF x
<1>5. last \in Shapes /\ last.turn = x.turn /\ last.tokens = Append(x.tokens, tok)
  <2>1. x.tokens \in Seq(Toks) /\ x.turn \in Turns
    BY <1>3
  <2>2. Append(x.tokens, tok) \in Seq(Toks)
    BY <1>1, <2>1
  <2>3. last = [turn |-> x.turn, tokens |-> Append(x.tokens, tok)]
    <3>1. last = [x EXCEPT !.tokens = Append(x.tokens, tok)]
      OBVIOUS
    <3> HIDE DEF last
    <3> QED BY <1>3, <3>1, TokensReplaced
  <2> HIDE DEF last
  <2> QED BY <2>1, <2>2, <2>3
<1> HIDE DEF last, Shapes
<1>6. /\ shown' \in Seq(Shapes) /\ Len(shown') = Len(shown) /\ shown' # <<>> /\ shown'[Len(shown)] = last
      /\ \A i \in 1 .. Len(shown) - 1 : shown'[i] = shown[i]
  <2>1. last \in Shapes
    BY <1>5
  <2> QED BY ONLY <1>2, <1>4, <2>1, shown # <<>>, LastReplaced
<1> QED BY <1>5, <1>6 DEF x, tok, Toks, Shapes

LEMMA ReceivesWires ==
  ASSUME ChatWires, NEW c \in Socks, ChatReceives(c) PROVE ChatWires'
<1> USE DEF ChatWires
<1>1. /\ UNCHANGED <<browser, server, upstream, chatRef, opening, turns, job, stale>>
      /\ downstream[c] \in Seq(Says) /\ downstream[c] # <<>> /\ downstream'[c] = Tail(downstream[c])
      /\ downstream' = [d \in Socks |-> downstream'[d]] /\ \A d \in Socks : d # c => downstream'[d] = downstream[d]
      /\ server[c] \notin {"idle", "upgrading"}
  BY ReceivesAt
<1>2. downstream'[c] \in Seq(Says)
  BY <1>1
<1>3. PerSocket' /\ \A d \in Socks : Wired(d)'
  BY <1>1, <1>2, QueueWires DEF ChatTypes
<1>4. streaming' \in BOOLEAN /\ crashed' \in BOOLEAN
  BY ReceivesAt DEF ChatTypes
<1>5. shown' \in Seq([turn : Turns, tokens : Seq([turn : Turns, at : 1 .. MaxTokens])])
  <2>1. CASE shown' = shown
    BY <2>1 DEF ChatTypes
  <2>2. CASE shown' # shown
    BY <2>2, ReceivesAt, TokenGoesLast DEF ChatTypes
  <2> QED BY <2>1, <2>2
<1>6. ChatTypes'
  BY <1>1, <1>3, <1>4, <1>5 DEF ChatTypes
<1>7. Jobs'
  BY <1>1, JobsStay
<1> QED BY <1>3, <1>6, <1>7

LEMMA AskWires ==
  ASSUME ChatWires, NEW c \in Socks, Ask(c) PROVE ChatWires'
<1> USE DEF ChatWires
<1>1. turns \in Nat /\ turns' = turns + 1 /\ turns' \in Turns
  BY ChatAssumption DEF Ask, ChatTypes, Turns
<1>2. Question(turns') \in Questions
  BY <1>1 DEF Questions
<1>3. shown' \in Seq([turn : Turns, tokens : Seq([turn : Turns, at : 1 .. MaxTokens])])
  <2> DEFINE Shapes == [turn : Turns, tokens : Seq([turn : Turns, at : 1 .. MaxTokens])]
  <2>1. <<>> \in Seq([turn : Turns, at : 1 .. MaxTokens])
    OBVIOUS
  <2>2. [turn |-> turns', tokens |-> <<>>] \in Shapes
    BY <1>1, <2>1
  <2>3. shown \in Seq(Shapes) /\ shown' = Append(shown, [turn |-> turns', tokens |-> <<>>])
    BY DEF ChatTypes, Ask
  <2> HIDE DEF Shapes
  <2>4. shown' \in Seq(Shapes)
    BY <2>2, <2>3
  <2> QED BY <2>4 DEF Shapes
<1>4. turns' \in 0 .. MaxTurns /\ turns' # 0
  BY <1>1, ChatAssumption DEF Turns
<1>5. CASE chatRef # NoChat /\ browser[chatRef] = "open"
  <2>1. c = chatRef /\ upstream' = ToServer({c}, Question(turns')) /\ UNCHANGED <<browser, chatRef, opening, server, downstream>>
    BY <1>5 DEF Ask
  <2>2. /\ upstream' = [d \in Socks |-> upstream'[d]]
        /\ \A d \in Socks : d # c => upstream'[d] = upstream[d]
        /\ upstream'[c] \in {upstream[c], Append(upstream[c], Question(turns'))}
    BY <2>1, ToServerOne
  <2>3. upstream' \in [Socks -> Seq(Questions \cup {Bye, Lost})]
    <3>1. \A d \in Socks : upstream[d] \in Seq(Questions \cup {Bye, Lost})
      BY DEF ChatTypes
    <3>2. Append(upstream[c], Question(turns')) \in Seq(Questions \cup {Bye, Lost})
      BY <1>2, <3>1
    <3>3. \A d \in Socks : upstream'[d] \in Seq(Questions \cup {Bye, Lost})
      BY <2>2, <3>1, <3>2
    <3> QED BY <2>2, <3>3
  <2>4. ChatTypes'
    BY <1>3, <1>4, <2>1, <2>2, <2>3 DEF ChatTypes, PerSocket, Ask
  <2>5. ASSUME NEW d \in Socks PROVE Wired(d)'
    <3>1. CASE d # c
      <4>1. Still(d)
        BY <2>1, <2>2, <3>1 DEF Still
      <4> QED BY <2>1, <4>1, WiredStays
    <3>2. CASE d = c
      BY <1>5, <2>1, <3>2 DEF Wired, Connected
    <3> QED BY <3>1, <3>2
  <2>6. Jobs'
    BY <2>1, JobsStay DEF Ask
  <2> QED BY <2>4, <2>5, <2>6
<1>6. CASE ~(chatRef # NoChat /\ browser[chatRef] = "open")
  <2>1. /\ Constructed(c) /\ chatRef' = c /\ opening' = [opening EXCEPT ![c] = turns']
        /\ UNCHANGED <<upstream, server, downstream, job>>
    BY <1>6 DEF Ask
  <2>2. browser[c] = "new" /\ browser' = [browser EXCEPT ![c] = "connecting"]
    BY <2>1 DEF Constructed, Unused
  <2>3. ChatTypes'
    BY <1>3, <1>4, <2>1, <2>2 DEF ChatTypes, PerSocket, Ask
  <2>4. ASSUME NEW d \in Socks PROVE Wired(d)'
    <3>1. CASE d # c
      <4>1. Still(d) /\ opening'[d] = opening[d]
        BY <2>1, <2>2, <3>1 DEF Still, ChatTypes, PerSocket
      <4> QED BY <2>1, <3>1, <4>1, WiredStays
    <3>2. CASE d = c
      <4>1. <<>> \in Seq(Says)
        OBVIOUS
      <4>2. browser'[c] = "connecting" /\ opening'[c] = turns' /\ downstream'[c] = <<>>
        BY <2>1, <2>2 DEF ChatTypes, PerSocket, Wired
      <4> QED BY <1>4, <2>1, <2>2, <3>2, <4>1, <4>2 DEF Wired, Connected
    <3> QED BY <3>1, <3>2
  <2>5. Jobs'
    <3>1. \A d \in Socks : browser[d] \notin {"new", "connecting"} => browser'[d] = browser[d]
      BY <2>2 DEF ChatTypes, PerSocket
    <3> QED BY <2>1, <3>1, JobsStay
  <2> QED BY <2>3, <2>4, <2>5
<1> QED BY <1>5, <1>6

LEMMA OpensAt ==
  ASSUME ChatTypes, NEW c \in Socks, Wired(c), ChatOpens(c)
  PROVE  /\ PerSocket' /\ Others(c) /\ UNCHANGED <<server, hookVars, job>>
         /\ browser[c] = "connecting" /\ browser'[c] = "open" /\ downstream[c] # <<>> /\ downstream[c] # <<Lost>>
         /\ downstream[c] \in Seq(Says) /\ Head(downstream[c]) = Open /\ downstream'[c] = Tail(downstream[c])
         /\ server[c] \notin {"idle", "upgrading"}
         /\ opening[c] \in Turns /\ upstream'[c] \in {upstream[c], Append(upstream[c], Question(opening[c]))}
<1> USE DEF ChatTypes
<1>1. /\ browser' \in [Socks -> {"new", "connecting", "open", "closing", "failing", "closed"}]
      /\ server' = server /\ downstream' = [d \in Socks |-> downstream'[d]]
      /\ browser[c] = "connecting" /\ browser'[c] = "open"
      /\ downstream[c] # <<>> /\ Head(downstream[c]) = Open /\ downstream'[c] = Tail(downstream[c])
      /\ \A d \in Socks \ {c} : browser'[d] = browser[d] /\ downstream'[d] = downstream[d]
  BY BrowserOpensAt DEF ChatOpens
<1>2. /\ upstream' = [d \in Socks |-> upstream'[d]]
      /\ \A d \in Socks : d # c => upstream'[d] = upstream[d]
      /\ upstream'[c] \in {upstream[c], Append(upstream[c], Question(opening[c]))}
  <2>1. upstream' = ToServer({c}, Question(opening[c]))
    BY DEF ChatOpens
  <2> QED BY ONLY <2>1, c \in Socks, ToServerOne
<1>3. opening[c] \in Turns
  BY <1>1, ChatAssumption DEF Wired, Turns
<1>4. PerSocket' /\ Others(c)
  BY <1>1, <1>2 DEF PerSocket, Others, Still
<1>5. downstream[c] # <<Lost>>
  BY <1>1, ChatMessages
<1>6. downstream[c] \in Seq(Says) /\ server[c] \notin {"idle", "upgrading"}
  BY <1>1, <1>5 DEF Wired, Connected
<1> QED BY <1>1, <1>2, <1>3, <1>4, <1>5, <1>6 DEF ChatOpens

LEMMA OpensWires ==
  ASSUME ChatWires, NEW c \in Socks, ChatOpens(c) PROVE ChatWires'
<1> USE DEF ChatWires
<1>1. /\ PerSocket' /\ Others(c) /\ UNCHANGED <<server, hookVars, job>>
      /\ browser[c] = "connecting" /\ browser'[c] = "open" /\ downstream[c] # <<>>
      /\ downstream[c] \in Seq(Says) /\ downstream'[c] = Tail(downstream[c])
      /\ server[c] \notin {"idle", "upgrading"}
      /\ opening[c] \in Turns /\ upstream'[c] \in {upstream[c], Append(upstream[c], Question(opening[c]))}
  BY OpensAt
<1>2. upstream' \in [Socks -> Seq(Questions \cup {Bye, Lost})]
  <2>1. \A d \in Socks : upstream[d] \in Seq(Questions \cup {Bye, Lost})
    BY DEF ChatTypes
  <2>2. Append(upstream[c], Question(opening[c])) \in Seq(Questions \cup {Bye, Lost})
    BY <1>1, <2>1 DEF Questions
  <2>3. \A d \in Socks : upstream'[d] \in Seq(Questions \cup {Bye, Lost})
    BY <1>1, <2>1, <2>2 DEF Others, Still
  <2>4. upstream' = [d \in Socks |-> upstream'[d]]
    BY <1>1 DEF PerSocket
  <2> QED BY <2>3, <2>4
<1>3. ChatTypes'
  BY <1>1, <1>2 DEF ChatTypes, hookVars
<1>4. ASSUME NEW d \in Socks PROVE Wired(d)'
  <2>1. CASE d # c
    BY <1>1, <2>1, WiredStays DEF Others, hookVars
  <2>2. CASE d = c
    <3>1. downstream'[c] \in Seq(Says)
      BY <1>1
    <3> QED BY <1>1, <2>2, <3>1 DEF Wired, Connected, hookVars
  <2> QED BY <2>1, <2>2
<1>5. Jobs'
  <2>1. \A d \in Socks : browser[d] \notin {"new", "connecting"} => browser'[d] \notin {"new", "connecting"}
    BY <1>1 DEF Others, Still
  <2> QED BY <1>1, <2>1, JobsStay
<1> QED BY <1>3, <1>4, <1>5

LEMMA BeginsAt ==
  ASSUME ChatTypes, NEW c \in Socks, Wired(c), AnswerBegins(c)
  PROVE  /\ PerSocket' /\ Others(c) /\ UNCHANGED <<browser, server, downstream, hookVars>>
         /\ upstream[c] # <<>> /\ upstream[c] \in Seq(Questions \cup {Bye, Lost}) /\ upstream'[c] = Tail(upstream[c])
         /\ Head(upstream[c]).turn \in Turns /\ Head(upstream[c]) = Question(Head(upstream[c]).turn)
         /\ browser[c] \notin {"new", "connecting"}
         /\ job' = [job EXCEPT ![Head(upstream[c]).turn] = [sock |-> c, given |-> 0, phase |-> "context"]]
<1> USE DEF ChatTypes
<1>1. /\ PerSocket' /\ Others(c) /\ upstream[c] # <<>> /\ upstream'[c] = Tail(upstream[c])
      /\ Head(upstream[c]) \notin {Bye, Lost}
  BY ServerReceivesAt DEF AnswerBegins
<1>2. upstream[c] \in Seq(Questions \cup {Bye, Lost})
  OBVIOUS
<1>3. Head(upstream[c]) \in Questions /\ upstream[c][1] = Head(upstream[c]) /\ 1 \in 1 .. Len(upstream[c])
  BY <1>1, <1>2
<1>4. browser[c] \notin {"new", "connecting"}
  BY <1>3 DEF Wired
<1> QED BY <1>1, <1>2, <1>3, <1>4, ChatMessages DEF AnswerBegins

LEMMA BeginsWires ==
  ASSUME ChatWires, NEW c \in Socks, AnswerBegins(c) PROVE ChatWires'
<1> USE DEF ChatWires
<1> DEFINE t == Head(upstream[c]).turn
<1>1. /\ PerSocket' /\ Others(c) /\ UNCHANGED <<browser, server, downstream, hookVars>>
      /\ upstream[c] # <<>> /\ upstream[c] \in Seq(Questions \cup {Bye, Lost}) /\ upstream'[c] = Tail(upstream[c])
      /\ t \in Turns /\ browser[c] \notin {"new", "connecting"}
      /\ job' = [job EXCEPT ![t] = [sock |-> c, given |-> 0, phase |-> "context"]]
  BY BeginsAt
<1> HIDE DEF t
<1>2. upstream' \in [Socks -> Seq(Questions \cup {Bye, Lost})]
  <2>1. \A d \in Socks : upstream[d] \in Seq(Questions \cup {Bye, Lost})
    BY DEF ChatTypes
  <2>2. Tail(upstream[c]) \in Seq(Questions \cup {Bye, Lost})
    BY <1>1
  <2>3. \A d \in Socks : upstream'[d] \in Seq(Questions \cup {Bye, Lost})
    BY <1>1, <2>1, <2>2 DEF Others, Still
  <2>4. upstream' = [d \in Socks |-> upstream'[d]]
    BY <1>1 DEF PerSocket
  <2> QED BY <2>3, <2>4
<1>3. job' \in [Turns -> [sock : Socks \cup {NoChat}, given : 0 .. MaxTokens,
                          phase : {"none", "context", "streaming", "over"}]]
  BY <1>1, ChatAssumption DEF ChatTypes
<1>4. ChatTypes'
  BY <1>1, <1>2, <1>3 DEF ChatTypes, hookVars
<1>5. ASSUME NEW d \in Socks PROVE Wired(d)'
  <2>1. CASE d # c
    BY <1>1, <2>1, WiredStays DEF Others, hookVars
  <2>2. CASE d = c
    BY <1>1, <2>2 DEF Wired, Connected, hookVars
  <2> QED BY <2>1, <2>2
<1>6. Jobs'
  BY <1>1 DEF Jobs, ChatTypes
<1> QED BY <1>4, <1>5, <1>6

(* What an answer in preparation does.                                       *)
LEMMA AnswerMoves ==
  ASSUME ChatWires, NEW t \in Turns, AnswerStep(t)
  PROVE  LET c == job[t].sock IN
         /\ c \in Socks /\ UNCHANGED <<browser, server, upstream, hookVars>>
         /\ downstream' = [d \in Socks |-> downstream'[d]] /\ \A d \in Socks : d # c => downstream'[d] = downstream[d]
         /\ Preparing(job[t]) /\ job[t].phase # "none"
         /\ \E j \in [sock : Socks \cup {NoChat}, given : 0 .. MaxTokens, phase : {"none", "context", "streaming", "over"}] :
              /\ job' = [job EXCEPT ![t] = j] /\ j.sock = c
              /\ \/ j.phase = "streaming" /\ j.given = job[t].given /\ downstream' = downstream
                 \/ /\ j.phase = "streaming" /\ j.given = job[t].given + 1 /\ server[c] = "open"
                    /\ downstream' = ToBrowser(c, Token(t, j.given))
                 \/ /\ j.phase = "over" /\ j.given = job[t].given
                    /\ \/ server[c] # "open" /\ downstream' = downstream
                       \/ \E m \in {Done(t), Error(t)} : server[c] = "open" /\ downstream' = ToBrowser(c, m)
<1> USE DEF ChatWires
<1> DEFINE c == job[t].sock
           Jobs1 == [sock : Socks \cup {NoChat}, given : 0 .. MaxTokens, phase : {"none", "context", "streaming", "over"}]
           Kept1(how) == [job[t] EXCEPT !.phase = how]
<1>1. job[t] \in Jobs1 /\ job \in [Turns -> Jobs1]
  BY DEF ChatTypes
<1>2. Preparing(job[t]) /\ job[t].phase # "none"
  BY DEF AnswerStep, ContextBuilt, Streams1, Answered, AnswerFails, Preparing
<1>3. c \in Socks
  BY <1>2 DEF Jobs
<1>4. UNCHANGED <<browser, server, upstream, hookVars>>
  BY DEF AnswerStep, ContextBuilt, Streams1, Answered, AnswerFails, sockVars
<1>5. downstream = [d \in Socks |-> downstream[d]]
  BY DEF ChatTypes, PerSocket
<1>6. downstream' = downstream \/ \E m : downstream' = ToBrowser(c, m)
  BY DEF AnswerStep, ContextBuilt, Streams1, Answered, AnswerFails, sockVars, Say
<1>7. downstream' = [d \in Socks |-> downstream'[d]] /\ \A d \in Socks : d # c => downstream'[d] = downstream[d]
  BY <1>3, <1>5, <1>6, ToBrowserAt
<1>8. \A how \in {"streaming", "over"} :
        Kept1(how) \in Jobs1 /\ Kept1(how).sock = c /\ Kept1(how).given = job[t].given /\ Kept1(how).phase = how
  BY <1>1
<1> HIDE DEF Kept1
<1> DEFINE Told(j) ==
              /\ job' = [job EXCEPT ![t] = j] /\ j.sock = c
              /\ \/ j.phase = "streaming" /\ j.given = job[t].given /\ downstream' = downstream
                 \/ /\ j.phase = "streaming" /\ j.given = job[t].given + 1 /\ server[c] = "open"
                    /\ downstream' = ToBrowser(c, Token(t, j.given))
                 \/ /\ j.phase = "over" /\ j.given = job[t].given
                    /\ \/ server[c] # "open" /\ downstream' = downstream
                       \/ \E m \in {Done(t), Error(t)} : server[c] = "open" /\ downstream' = ToBrowser(c, m)
<1>9. CASE ContextBuilt(t)
  <2>1. job' = [job EXCEPT ![t] = Kept1("streaming")] /\ downstream' = downstream
    BY <1>9 DEF ContextBuilt, Kept1, sockVars
  <2>2. Told(Kept1("streaming"))
    BY <1>8, <2>1
  <2> QED BY <1>2, <1>3, <1>4, <1>7, <1>8, <2>2
<1>10. CASE Streams1(t)
  <2>1. CASE server[c] = "open"
    <3> DEFINE j == [job[t] EXCEPT !.given = @ + 1]
    <3>1. job' = [job EXCEPT ![t] = j] /\ downstream' = ToBrowser(c, Token(t, job[t].given + 1)) /\ job[t].given < MaxTokens
          /\ job[t].phase = "streaming"
      BY <1>10, <2>1 DEF Streams1, Say
    <3>2. j \in Jobs1 /\ j.sock = c /\ j.given = job[t].given + 1 /\ j.phase = "streaming"
      BY <1>1, <3>1, ChatAssumption
    <3> HIDE DEF j
    <3>3. Told(j)
      BY <2>1, <3>1, <3>2
    <3> QED BY <1>2, <1>3, <1>4, <1>7, <3>2, <3>3
  <2>2. CASE server[c] # "open"
    <3>1. job' = [job EXCEPT ![t] = Kept1("over")] /\ downstream' = downstream
      BY <1>10, <2>2 DEF Streams1, Say, Kept1
    <3>2. Told(Kept1("over"))
      BY <1>8, <2>2, <3>1
    <3> QED BY <1>2, <1>3, <1>4, <1>7, <1>8, <3>2
  <2> QED BY <2>1, <2>2
<1>11. CASE Answered(t) \/ AnswerFails(t)
  <2>1. /\ job' = [job EXCEPT ![t] = Kept1("over")]
        /\ \E m \in {Done(t), Error(t)} : downstream' = IF server[c] = "open" THEN ToBrowser(c, m) ELSE downstream
    BY <1>11 DEF Answered, AnswerFails, Say, Kept1
  <2>2. Told(Kept1("over"))
    BY <1>8, <2>1
  <2> QED BY <1>2, <1>3, <1>4, <1>7, <1>8, <2>2
<1> QED BY <1>9, <1>10, <1>11 DEF AnswerStep

LEMMA AnswerWires ==
  ASSUME ChatWires, NEW t \in Turns, AnswerStep(t) PROVE ChatWires'
<1> USE DEF ChatWires
<1> DEFINE c == job[t].sock
           Jobs1 == [sock : Socks \cup {NoChat}, given : 0 .. MaxTokens, phase : {"none", "context", "streaming", "over"}]
<1>1. /\ c \in Socks /\ UNCHANGED <<browser, server, upstream, hookVars>>
      /\ downstream' = [d \in Socks |-> downstream'[d]] /\ \A d \in Socks : d # c => downstream'[d] = downstream[d]
      /\ job[t].phase # "none"
  BY AnswerMoves
<1>2. PICK j \in Jobs1 :
        /\ job' = [job EXCEPT ![t] = j] /\ j.sock = c
        /\ \/ j.phase = "streaming" /\ j.given = job[t].given /\ downstream' = downstream
           \/ /\ j.phase = "streaming" /\ j.given = job[t].given + 1 /\ server[c] = "open"
              /\ downstream' = ToBrowser(c, Token(t, j.given))
           \/ /\ j.phase = "over" /\ j.given = job[t].given
              /\ \/ server[c] # "open" /\ downstream' = downstream
                 \/ \E m \in {Done(t), Error(t)} : server[c] = "open" /\ downstream' = ToBrowser(c, m)
  BY AnswerMoves
<1> HIDE DEF c
<1>3. PICK m \in Says : downstream' = downstream \/ (server[c] = "open" /\ downstream' = ToBrowser(c, m))
  <2>1. ASSUME j.given = job[t].given + 1 PROVE Token(t, j.given) \in Says
    <3>1. job[t].given \in Nat /\ j.given \in 1 .. MaxTokens
      BY <2>1, ChatAssumption DEF ChatTypes
    <3> QED BY <3>1 DEF Says, ChatTokens
  <2>2. Done(t) \in Says /\ Error(t) \in Says
    BY DEF Says, Outcomes
  <2>3. Bye \in Says
    BY DEF Says
  <2>4. CASE downstream' = downstream
    BY <2>3, <2>4
  <2>5. CASE j.given = job[t].given + 1 /\ server[c] = "open" /\ downstream' = ToBrowser(c, Token(t, j.given))
    BY <2>1, <2>5
  <2>6. ASSUME NEW m \in {Done(t), Error(t)}, server[c] = "open", downstream' = ToBrowser(c, m)
        PROVE  \E n \in Says : server[c] = "open" /\ downstream' = ToBrowser(c, n)
    BY <2>2, <2>6
  <2> QED BY <1>2, <2>4, <2>5, <2>6
<1>4. Connected(c) => downstream'[c] \in Seq(Says)
  <2>1. Connected(c) => downstream[c] \in Seq(Says)
    BY <1>1 DEF Wired
  <2>2. downstream'[c] \in {downstream[c], Append(downstream[c], m)}
    <3>1. ToBrowser(c, m)[c] \in {downstream[c], Append(downstream[c], m)}
      BY <1>1, ToBrowserAt
    <3> QED BY <1>3, <3>1
  <2> QED BY <2>1, <2>2, SMTT(60)
<1>5. server[c] \in {"idle", "upgrading"} => downstream'[c] = downstream[c]
  BY <1>3
<1>6. PerSocket' /\ \A d \in Socks : Wired(d)'
  BY <1>1, <1>4, <1>5, QueueWires DEF ChatTypes, hookVars
<1>7. ChatTypes'
  <2>1. job' \in [Turns -> Jobs1]
    BY <1>2 DEF ChatTypes
  <2> QED BY <1>1, <1>6, <2>1 DEF ChatTypes, hookVars
<1>8. Jobs'
  <2>1. job \in [Turns -> Jobs1] /\ browser[c] \notin {"new", "connecting"}
    BY <1>1 DEF ChatTypes, Jobs, c
  <2>2. j.phase # "none" /\ job'[t] = j /\ \A u \in Turns : u # t => job'[u] = job[u]
    BY <1>2, <2>1
  <2> QED BY <1>1, <1>2, <2>1, <2>2 DEF Jobs
<1> QED BY <1>6, <1>7, <1>8

(***************************************************************************)
(* The order of questions and answers.                                     *)
(***************************************************************************)

(* The last answer of a chat that waits for one.                             *)
LEMMA LastAnswer ==
  ASSUME ChatTypes, Jobs, LastOf(shown, turns)
  PROVE  /\ turns \in Turns /\ job[turns].given \in 0 .. MaxTokens /\ job[turns].given \in Nat
         /\ job[turns].phase = "none" => job[turns].given = 0
         /\ Len(shown) \in Nat \ {0} /\ shown[Len(shown)].tokens \in Seq([turn : Turns, at : 1 .. MaxTokens])
         /\ Len(shown[Len(shown)].tokens) \in Nat /\ \A b : Had(b, shown) \in Int
<1>1. turns \in Turns
  BY ChatAssumption DEF ChatTypes, LastOf, Turns
<1>2. job[turns].given \in 0 .. MaxTokens /\ job[turns].given \in Nat /\ (job[turns].phase = "none" => job[turns].given = 0)
  BY <1>1, ChatAssumption DEF ChatTypes, Jobs
<1>3. Len(shown) \in Nat \ {0} /\ shown[Len(shown)] \in [turn : Turns, tokens : Seq([turn : Turns, at : 1 .. MaxTokens])]
  <2> DEFINE Shapes == [turn : Turns, tokens : Seq([turn : Turns, at : 1 .. MaxTokens])]
  <2>1. shown \in Seq(Shapes) /\ shown # <<>>
    BY DEF ChatTypes, LastOf
  <2> HIDE DEF Shapes
  <2>2. Len(shown) \in Nat \ {0} /\ shown[Len(shown)] \in Shapes
    BY <2>1
  <2> QED BY <2>2 DEF Shapes
<1>4. shown[Len(shown)].tokens \in Seq([turn : Turns, at : 1 .. MaxTokens])
  BY <1>3
<1>5. Len(shown[Len(shown)].tokens) \in Nat
  BY <1>4
<1>6. \A b : Had(b, shown) \in Int
  BY <1>5 DEF Had
<1> QED BY <1>1, <1>2, <1>3, <1>4, <1>5, <1>6

(* No question is added to what is on its way over d.                        *)
NoneAdded(d) ==
  \A i \in 1 .. Len(upstream'[d]) : upstream'[d][i] \in Questions =>
     i \in 1 .. Len(upstream[d]) /\ upstream'[d][i] = upstream[d][i]

LEMMA NoneAddedBy ==
  ASSUME ChatTypes, NEW d \in Socks,
         upstream'[d] \in {upstream[d], <<>>, <<Lost>>, Append(upstream[d], Bye), Append(upstream[d], Lost)}
  PROVE  NoneAdded(d)
<1>1. upstream[d] \in Seq(Questions \cup {Bye, Lost})
  BY DEF ChatTypes
<1>2. CASE upstream'[d] \in {upstream[d], <<>>, <<Lost>>}
  BY <1>1, <1>2, ChatMessages DEF NoneAdded
<1>3. ASSUME NEW m \in {Bye, Lost}, upstream'[d] = Append(upstream[d], m) PROVE NoneAdded(d)
  <2>1. m \notin Questions
    BY ChatMessages
  <2>2. /\ Len(upstream'[d]) = Len(upstream[d]) + 1 /\ upstream'[d][Len(upstream[d]) + 1] = m
        /\ Len(upstream[d]) \in Nat /\ \A i \in 1 .. Len(upstream[d]) : upstream'[d][i] = upstream[d][i]
    BY <1>1, <1>3
  <2>3. ASSUME NEW i \in 1 .. Len(upstream'[d]), upstream'[d][i] \in Questions
        PROVE  i \in 1 .. Len(upstream[d]) /\ upstream'[d][i] = upstream[d][i]
    BY <2>1, <2>2, <2>3
  <2> QED BY <2>3 DEF NoneAdded
<1> QED BY <1>2, <1>3

LEMMA AskingKept ==
  ASSUME \A d \in Socks : Asking(d), \A d \in Socks : NoneAdded(d), turns' = turns,
         \A t \in Turns : job[t].phase = "none" => job'[t].phase = "none",
         \A d \in Socks : Connected(d)' => Connected(d) /\ (streaming' = streaming \/ job[turns].phase # "none")
  PROVE  \A d \in Socks : Asking(d)'
<1>1. ASSUME NEW c \in Socks, NEW i \in 1 .. Len(upstream'[c]), NEW t \in Turns, upstream'[c][i] = Question(t)
      PROVE  /\ t <= turns' /\ job'[t].phase = "none"
             /\ Connected(c)' => t = turns' /\ streaming'
             /\ t = turns' => \A d \in Socks : Connected(d)' => d = c
             /\ \A d \in Socks : \A j \in 1 .. Len(upstream'[d]) : upstream'[d][j] = Question(t) => d = c /\ j = i
  <2>1. \A d \in Socks : \A j \in 1 .. Len(upstream'[d]) : upstream'[d][j] = Question(t) =>
          j \in 1 .. Len(upstream[d]) /\ upstream[d][j] = Question(t)
    BY DEF NoneAdded, Questions
  <2>2. i \in 1 .. Len(upstream[c]) /\ upstream[c][i] = Question(t)
    BY <1>1, <2>1
  <2>3. /\ t <= turns /\ job[t].phase = "none"
        /\ Connected(c) => t = turns /\ streaming
        /\ t = turns => \A d \in Socks : Connected(d) => d = c
        /\ \A d \in Socks : \A j \in 1 .. Len(upstream[d]) : upstream[d][j] = Question(t) => d = c /\ j = i
    BY <2>2 DEF Asking
  <2> QED BY <2>1, <2>3
<1> QED BY <1>1 DEF Asking

(* A socket that is left alone, as far as it is concerned.                   *)
LEMMA AnsweringKept ==
  ASSUME NEW d \in Socks, Answering(d), Still(d), opening'[d] = opening[d],
         UNCHANGED <<shown, streaming, chatRef, turns>>,
         Connected(d) => job'[turns] = job[turns],
         \A t \in Turns : Preparing(job'[t]) /\ job'[t].sock = d => Preparing(job[t]) /\ job[t].sock = d
  PROVE  Answering(d)'
<1>1. CASE ~Connected(d)
  BY <1>1 DEF Answering, Still, Connected
<1>2. CASE Connected(d)
  BY <1>2 DEF Answering, Still, Connected
<1> QED BY <1>1, <1>2

LEMMA MovedOrder ==
  ASSUME ChatWires, ChatOrder, NEW c \in Socks, Moved(c), UNCHANGED <<hookVars, job>>
  PROVE  ChatOrder'
<1> USE DEF ChatWires, ChatOrder
<1>1. UNCHANGED <<shown, streaming, chatRef, opening, turns, stale, crashed, job>>
  BY DEF hookVars
<1>2. \A d \in Socks : Asking(d)'
  <2>1. \A d \in Socks : NoneAdded(d)
    BY NoneAddedBy DEF Moved, Others, Still
  <2>2. \A d \in Socks : Connected(d)' => Connected(d)
    BY DEF Moved, Others, Still, Connected
  <2> QED BY <1>1, <2>1, <2>2, AskingKept
<1>3. ASSUME NEW d \in Socks PROVE Answering(d)'
  <2>1. CASE d # c
    BY <1>1, <2>1, AnsweringKept DEF Moved, Others
  <2>2. CASE d = c /\ ~Connected(c)
    BY <2>2 DEF Answering, Moved, Connected
  <2>3. CASE d = c /\ Connected(c)
    <3>1. Answering(c) /\ Wired(c)
      OBVIOUS
    <3>2. Connected(c)' /\ browser'[c] = browser[c] /\ downstream[c] \in Seq(Says)
      BY <2>3 DEF Moved, Connected, Wired
    <3>3. ASSUME streaming
          PROVE  Coming(server'[c], downstream'[c], Had(browser[c], shown), turns, job[turns])
      <4> DEFINE a == Had(browser[c], shown)
                 j == job[turns]
      <4>1. a \in Int /\ j.given \in Nat /\ Coming(server[c], downstream[c], a, turns, j)
        BY <2>3, <3>1, <3>3, LastAnswer DEF Answering
      <4>2. (a = 0 - 1 /\ Total(j) = 0) \/ server[c] # "upgrading"
        <5>1. server[c] = "upgrading" => browser[c] = "connecting"
          BY <2>3, <3>1 DEF Wired
        <5>2. browser[c] = "connecting" => j.phase = "none" /\ j.given = 0
          BY <2>3, <3>1, <3>3, LastAnswer DEF Answering
        <5> QED BY <5>1, <5>2 DEF Had, Total
      <4> HIDE DEF a, j
      <4>3. \A m \in {Open, Refused, Bye} : Line(Append(downstream[c], m), a, turns, j)
        <5>1. \A m \in {Open, Refused, Bye} : m \in Says /\ m \notin ChatTokens \cup Outcomes
          BY ChatMessages DEF Says
        <5> QED BY <3>2, <4>1, <5>1, LineAppends DEF Coming
      <4>4. Line(<<Lost>>, a, turns, j)
        BY ChatMessages, LineOfQuiet DEF Quiet
      <4>5. Line(downstream'[c], a, turns, j)
        BY <4>1, <4>3, <4>4 DEF Moved, Coming
      <4>6. ASSUME server'[c] = "open", downstream'[c] # <<Lost>> PROVE a + Len(downstream'[c]) = Total(j)
        <5>1. server[c] = "upgrading" /\ downstream[c] # <<Lost>> /\ downstream'[c] = Append(downstream[c], Open)
          BY <2>3, <4>6 DEF Moved
        <5>2. downstream[c] = <<>>
          BY <2>3, <3>1, <5>1 DEF Wired
        <5> QED BY <4>1, <4>2, <5>1, <5>2
      <4> QED BY <4>5, <4>6 DEF Coming, a, j
    <3>4. ASSUME ~streaming PROVE Silent(browser[c], server'[c], downstream'[c])
      <4>1. Silent(browser[c], server[c], downstream[c])
        BY <2>3, <3>1, <3>4 DEF Answering
      <4>2. server[c] \notin {"idle", "upgrading"}
        BY <2>3, <3>1, <4>1 DEF Wired, Silent
      <4>3. \A m \in {Open, Refused, Bye} : m \notin ChatTokens \cup Outcomes
        BY ChatMessages
      <4>4. \A m \in {Open, Refused, Bye} : Quiet(Append(downstream[c], m))
        BY <3>2, <4>1, <4>3 DEF Silent, Quiet
      <4>5. Quiet(<<Lost>>)
        BY ChatMessages DEF Quiet
      <4>6. Quiet(downstream'[c])
        BY <4>1, <4>4, <4>5 DEF Moved, Silent
      <4>7. server'[c] = "open" /\ downstream'[c] # <<Lost>> => downstream'[c] = <<>>
        BY <2>3, <4>2 DEF Moved
      <4> QED BY <4>1, <4>6, <4>7 DEF Silent
    <3> QED BY <1>1, <2>3, <3>1, <3>2, <3>3, <3>4 DEF Answering
  <2> QED BY <2>1, <2>2, <2>3
<1>4. AnswersKeepApart'
  BY <1>1 DEF AnswersKeepApart
<1> QED BY <1>1, <1>2, <1>3, <1>4

LEMMA ClearOrder ==
  ASSUME ChatWires, ChatOrder, Clear
  PROVE  ChatOrder'
<1> USE DEF ChatWires, ChatOrder
<1>1. /\ chatRef # NoChat => chatRef \in Socks /\ Left(chatRef)
      /\ chatRef = NoChat => UNCHANGED sockVars
      /\ shown' = <<>> /\ streaming' = FALSE /\ UNCHANGED <<turns, job, crashed>>
  BY ClearLeaves
<1>2. \A d \in Socks : ~Connected(d)'
  <2>1. CASE chatRef # NoChat
    <3>1. chatRef \in Socks /\ Left(chatRef)
      BY <1>1, <2>1
    <3>2. browser'[chatRef] \notin {"connecting", "open"} /\ \A d \in Socks : d # chatRef => browser'[d] = browser[d]
      BY <3>1 DEF Left, Others, Still
    <3>3. \A d \in Socks : Connected(d) => d = chatRef
      BY DEF Answering
    <3> QED BY <3>2, <3>3 DEF Connected
  <2>2. CASE chatRef = NoChat
    <3>1. UNCHANGED sockVars
      BY <1>1, <2>2
    <3> QED BY <2>2, <3>1, ChatAssumption DEF Answering, Connected, sockVars
  <2> QED BY <2>1, <2>2
<1>3. \A d \in Socks : NoneAdded(d)
  <2>1. CASE chatRef # NoChat
    BY <1>1, <2>1, NoneAddedBy DEF Left, Others, Still
  <2>2. CASE chatRef = NoChat
    BY <1>1, <2>2, NoneAddedBy DEF sockVars
  <2> QED BY <2>1, <2>2
<1>4. \A d \in Socks : Asking(d)'
  BY <1>1, <1>2, <1>3, AskingKept
<1>5. \A d \in Socks : Answering(d)'
  BY <1>2 DEF Answering
<1>6. AnswersKeepApart'
  BY <1>1 DEF AnswersKeepApart
<1> QED BY <1>1, <1>4, <1>5, <1>6

LEMMA ClosesOrder ==
  ASSUME ChatWires, ChatOrder, ~stale, ~stale', NEW c \in Socks, ChatCloses(c)
  PROVE  ChatOrder'
<1> USE DEF ChatWires, ChatOrder
<1>1. /\ Left(c) /\ UNCHANGED <<shown, chatRef, opening, turns, job, crashed>>
      /\ streaming' = streaming \/ (streaming' = FALSE /\ c = chatRef)
  BY ChatClosesLeaves DEF ChatTypes
<1>2. ~Connected(c)' /\ \A d \in Socks : d # c => Still(d)
  BY <1>1 DEF Left, Others, Connected
<1>3. \A d \in Socks : Connected(d)' => Connected(d) /\ d # c
  BY <1>2 DEF Still, Connected
<1>4. \A d \in Socks : Connected(d)' => streaming' = streaming
  BY <1>1, <1>3 DEF Answering
<1>5. \A d \in Socks : NoneAdded(d)
  BY <1>1, NoneAddedBy DEF Left, Others, Still
<1>6. \A d \in Socks : Asking(d)'
  BY <1>1, <1>3, <1>4, <1>5, AskingKept
<1>7. ASSUME NEW d \in Socks PROVE Answering(d)'
  <2>1. CASE ~Connected(d)'
    BY <2>1 DEF Answering
  <2>2. CASE Connected(d)'
    <3>1. Still(d) /\ UNCHANGED <<shown, streaming, chatRef, turns, job>> /\ opening'[d] = opening[d]
      BY <1>1, <1>2, <1>3, <1>4, <2>2
    <3> QED BY <3>1, AnsweringKept
  <2> QED BY <2>1, <2>2
<1>8. AnswersKeepApart'
  BY <1>1 DEF AnswersKeepApart
<1>9. streaming' => LastOf(shown', turns')
  BY <1>1
<1> QED BY <1>1, <1>6, <1>7, <1>8, <1>9

(* The answers in the order of their tokens.                                 *)
LEMMA TokenInOrder ==
  ASSUME ChatTypes, ~stale, AnswersKeepApart, LastOf(shown, turns), ~stale', NEW a, NEW m, a \in 1 .. MaxTokens,
         a = Len(shown[Len(shown)].tokens) + 1, turns \in Turns, m = Token(turns, a),
         shown' = [shown EXCEPT ![Len(shown)].tokens = Append(@, [turn |-> m.turn, at |-> m.at])]
  PROVE  AnswersKeepApart' /\ LastOf(shown', turns) /\ Len(shown'[Len(shown')].tokens) = a
<1> DEFINE L == Len(shown)
           old == shown[L].tokens
           new == shown'[L].tokens
           tok == [turn |-> turns, at |-> a]
<1>1. m \in ChatTokens /\ m.turn = turns /\ m.at = a
  BY DEF ChatTokens, Token
<1>2. /\ Len(shown') = L /\ shown' # <<>> /\ \A i \in 1 .. L - 1 : shown'[i] = shown[i]
      /\ shown'[L].turn = shown[L].turn /\ new = Append(old, tok)
      /\ shown' \in Seq([turn : Turns, tokens : Seq([turn : Turns, at : 1 .. MaxTokens])])
  BY <1>1, TokenGoesLast DEF ChatTypes, LastOf
<1>3. L \in Nat \ {0} /\ DOMAIN shown = 1 .. L /\ DOMAIN shown' = 1 .. L
  <2> DEFINE Shapes == [turn : Turns, tokens : Seq([turn : Turns, at : 1 .. MaxTokens])]
  <2>1. shown \in Seq(Shapes) /\ shown' \in Seq(Shapes) /\ shown # <<>>
    BY <1>2 DEF ChatTypes, LastOf
  <2> HIDE DEF Shapes
  <2> QED BY <1>2, <2>1
<1>4. shown[L].turn = turns /\ old \in Seq([turn : Turns, at : 1 .. MaxTokens])
  <2> DEFINE Shapes == [turn : Turns, tokens : Seq([turn : Turns, at : 1 .. MaxTokens])]
  <2>1. shown \in Seq(Shapes) /\ L \in 1 .. Len(shown)
    BY <1>3 DEF ChatTypes
  <2> HIDE DEF Shapes
  <2>2. shown[L] \in Shapes
    BY <2>1
  <2> QED BY <2>2 DEF Shapes, LastOf
<1>5. old = [k \in DOMAIN old |-> [turn |-> turns, at |-> k]]
  <2>1. L \in DOMAIN shown
    BY <1>3
  <2>2. \A i \in DOMAIN shown :
          shown[i].tokens = [k \in DOMAIN shown[i].tokens |-> [turn |-> shown[i].turn, at |-> k]]
    BY DEF AnswersKeepApart
  <2>3. shown[L].tokens = [k \in DOMAIN shown[L].tokens |-> [turn |-> shown[L].turn, at |-> k]]
    BY <2>1, <2>2, Zenon
  <2> QED BY <2>3, <1>4
<1>6. Len(old) \in Nat /\ DOMAIN old = 1 .. Len(old) /\ a = Len(old) + 1
  BY <1>4
<1>7. /\ Len(new) = a /\ DOMAIN new = 1 .. a /\ new[a] = tok
      /\ \A k \in 1 .. Len(old) : new[k] = old[k]
  <2>1. new \in Seq([turn : Turns, at : 1 .. MaxTokens])
    <3>1. tok \in [turn : Turns, at : 1 .. MaxTokens]
      OBVIOUS
    <3> HIDE DEF tok, old, new
    <3> QED BY <1>2, <1>4, <3>1
  <2> HIDE DEF tok, old, new
  <2> QED BY <1>2, <1>4, <1>6, <2>1
<1> HIDE DEF old, new
<1>8. \A k \in 1 .. a : new[k] = [turn |-> turns, at |-> k]
  <2>1. \A k \in 1 .. Len(old) : old[k] = [turn |-> turns, at |-> k]
    BY <1>5, <1>6
  <2> QED BY <1>6, <1>7, <2>1
<1>9. new = [k \in DOMAIN new |-> [turn |-> turns, at |-> k]]
  <2>1. new = [k \in 1 .. a |-> new[k]]
    BY <1>2, <1>4, <1>6, <1>7
  <2> QED BY <1>7, <1>8, <2>1
<1>10. ASSUME NEW i \in DOMAIN shown'
       PROVE  shown'[i].tokens = [k \in DOMAIN shown'[i].tokens |-> [turn |-> shown'[i].turn, at |-> k]]
  <2>1. CASE i = L
    <3>1. shown'[i].turn = turns /\ shown'[i].tokens = new
      BY <1>2, <1>4, <2>1 DEF new
    <3> QED BY <1>9, <3>1, ZenonT(60)
  <2>2. CASE i # L
    <3>1. i \in 1 .. L - 1 /\ i \in DOMAIN shown
      BY <1>3, <2>2
    <3>2. shown'[i] = shown[i]
      BY <1>2, <3>1
    <3> QED BY <3>1, <3>2 DEF AnswersKeepApart
  <2> QED BY <2>1, <2>2
<1> QED BY <1>2, <1>4, <1>7, <1>10, SMTT(60) DEF AnswersKeepApart, LastOf, new

LEMMA ReceivesOrder ==
  ASSUME ChatWires, ChatOrder, ~stale, ~stale', NEW c \in Socks, ChatReceives(c)
  PROVE  ChatOrder'
<1> USE DEF ChatWires, ChatOrder
<1> DEFINE q == downstream[c]
           a == Had(browser[c], shown)
           j == job[turns]
           rest == Tail(q)
<1>1. /\ browser[c] = "open" /\ server[c] \notin {"idle", "upgrading"} /\ UNCHANGED <<browser, server, upstream>>
      /\ q \in Seq(Says) /\ q # <<>> /\ downstream'[c] = Tail(q)
      /\ \A d \in Socks : d # c => downstream'[d] = downstream[d]
      /\ Head(q) \in ChatTokens \cup Outcomes
      /\ UNCHANGED <<chatRef, opening, turns, job, stale>>
  BY ReceivesAt
<1>2. /\ Connected(c) /\ c = chatRef /\ (j.phase # "none" => j.sock = c)
      /\ \A t \in Turns : Preparing(job[t]) /\ job[t].sock = c => t = turns /\ streaming
  BY <1>1 DEF Answering, Connected
<1>3. Head(q) = q[1] /\ 1 \in 1 .. Len(q)
  BY <1>1
<1>4. streaming
  <2>1. ASSUME ~streaming PROVE FALSE
    <3>1. Quiet(q)
      BY <1>2, <2>1 DEF Answering, Silent
    <3> QED BY <1>1, <1>3, <3>1 DEF Quiet
  <2> QED BY <2>1
<1>5. /\ turns \in Turns /\ j.given \in 0 .. MaxTokens /\ j.given \in Nat /\ a \in Int
      /\ shown # <<>> /\ a = Len(shown[Len(shown)].tokens) /\ a \in Nat
  BY <1>1, <1>4, LastAnswer DEF LastOf, Had
<1>6. Coming(server[c], q, a, turns, j) /\ q # <<Lost>>
  <2>1. Head(q) # Lost
    BY <1>1, ChatMessages
  <2> QED BY <1>2, <1>4, <2>1 DEF Answering
<1> HIDE DEF q, a, j
<1>7. Line(rest, a + 1, turns, j) /\ Len(rest) = Len(q) - 1 /\ Len(q) \in Nat /\ rest \in Seq(Says)
  BY <1>1, <1>5, <1>6, LineAdvances DEF Coming
<1> HIDE DEF rest
<1>8. ASSUME NEW d \in Socks, d # c PROVE Answering(d)'
  BY <1>1, <1>2, <1>8 DEF Answering, Connected
<1>9. CASE Head(q) \in ChatTokens
  <2>1. Head(q) = Token(turns, a + 1) /\ a + 1 \in 1 .. MaxTokens
    <3>1. Head(q) = Token(turns, a + 1) /\ a + 1 <= j.given
      BY <1>1, <1>3, <1>5, <1>6, <1>9 DEF Coming, Line
    <3> QED BY <1>5, <3>1, ChatAssumption
  <2>2. /\ UNCHANGED <<streaming, crashed>>
        /\ shown' = [shown EXCEPT ![Len(shown)].tokens = Append(@, [turn |-> Head(q).turn, at |-> Head(q).at])]
    BY <1>5, <1>9, ReceivesAt, ChatMessages DEF q
  <2>3. AnswersKeepApart' /\ LastOf(shown', turns) /\ Len(shown'[Len(shown')].tokens) = a + 1
    BY <1>4, <1>5, <2>1, <2>2, TokenInOrder DEF a
  <2>4. Coming(server[c], rest, a + 1, turns, j)
    <3>1. (a + 1) + Len(rest) = a + Len(q)
      BY <1>5, <1>7
    <3> QED BY <1>6, <1>7, <3>1 DEF Coming
  <2>5. Answering(c)'
    <3>1. Had(browser'[c], shown') = a + 1
      BY <1>1, <2>3 DEF Had
    <3> QED BY <1>1, <1>2, <1>4, <1>5, <2>2, <2>4, <3>1, ChatAssumption DEF Answering, Turns, q, j, rest, Connected
  <2>6. \A d \in Socks : Asking(d)'
    BY <1>1, <2>2 DEF Asking, Connected
  <2> QED BY <1>1, <1>8, <2>2, <2>3, <2>5, <2>6
<1>10. CASE Head(q) \in Outcomes
  <2>1. streaming' = FALSE /\ UNCHANGED <<shown, crashed>>
    BY <1>10, ReceivesAt, ChatMessages DEF q
  <2>2. j.phase = "over" /\ a + 1 = j.given + 1
    BY <1>1, <1>5, <1>6, <1>10, LineAdvances DEF Coming
  <2>3. Quiet(rest)
    BY <1>1, <1>5, <1>6, <1>10, LineEnds DEF Coming, rest
  <2>4. server[c] = "open" => rest = <<>>
    <3>1. ASSUME server[c] = "open" PROVE rest = <<>>
      <4>1. a + Len(q) = j.given + 1
        BY <1>6, <2>2, <3>1 DEF Coming, Total
      <4>2. Len(rest) = 0
        BY <1>5, <1>7, <2>2, <4>1
      <4> QED BY <1>7, <4>2
    <3> QED BY <3>1
  <2>5. \A t \in Turns : ~(Preparing(job[t]) /\ job[t].sock = c)
    BY <1>2, <2>2 DEF Preparing, j
  <2>6. Answering(c)'
    <3>1. Silent(browser'[c], server'[c], downstream'[c])
      BY <1>1, <2>3, <2>4 DEF Silent, rest
    <3> QED BY <1>1, <1>2, <1>5, <2>1, <2>5, <3>1, ChatAssumption DEF Answering, Turns, j, Connected
  <2>7. \A d \in Socks : Asking(d)'
    <3>1. \A d \in Socks : Connected(d)' => Connected(d)
      BY <1>1 DEF Connected
    <3>2. \A d \in Socks : NoneAdded(d)
      BY <1>1, NoneAddedBy
    <3> QED BY <1>1, <2>2, <3>1, <3>2, AskingKept DEF j
  <2>8. AnswersKeepApart'
    BY <2>1 DEF AnswersKeepApart
  <2> QED BY <1>1, <1>8, <2>1, <2>6, <2>7, <2>8
<1> QED BY <1>1, <1>9, <1>10

(* What an answer says next goes behind what it said.                        *)
LEMMA SaysNext ==
  ASSUME NEW s, NEW q \in Seq(Says), NEW p, NEW a \in Int, NEW t, NEW i, NEW k, NEW m \in Says,
         Coming(s, q, a, t, i), s = "open", i.given \in Nat, k.given \in Nat, i.phase # "over",
         p = IF q = <<Lost>> THEN q ELSE Append(q, m),
         \/ m \in ChatTokens /\ k.given = i.given + 1 /\ k.phase # "over" /\ m = Token(t, k.given)
         \/ m \in Outcomes /\ k.given = i.given /\ k.phase = "over"
  PROVE  Coming(s, p, a, t, k)
<1>1. Line(q, a, t, k)
  BY LineGrows DEF Coming
<1>2. CASE q = <<Lost>>
  BY <1>1, <1>2 DEF Coming
<1>3. CASE q # <<Lost>>
  <2>1. a + Len(q) = i.given /\ p = Append(q, m) /\ Len(q) \in Nat
    BY <1>3 DEF Coming, Total
  <2>2. Line(p, a, t, k)
    BY <1>1, <2>1, ChatMessages, LineAppends
  <2>3. a + Len(p) = Total(k)
    BY <2>1, ChatMessages DEF Total
  <2> QED BY <2>2, <2>3 DEF Coming
<1> QED BY <1>2, <1>3

LEMMA AnswerOrder ==
  ASSUME ChatWires, ChatOrder, NEW t \in Turns, AnswerStep(t)
  PROVE  ChatOrder'
<1> USE DEF ChatWires, ChatOrder
<1> DEFINE Jobs1 == [sock : Socks \cup {NoChat}, given : 0 .. MaxTokens, phase : {"none", "context", "streaming", "over"}]
<1>0. PICK c \in Socks : c = job[t].sock
  BY AnswerMoves
<1>1. /\ UNCHANGED <<browser, server, upstream, hookVars>>
      /\ \A d \in Socks : d # c => downstream'[d] = downstream[d]
      /\ Preparing(job[t]) /\ job[t].phase # "none" /\ job[t].sock = c
  BY <1>0, AnswerMoves
<1>2. PICK j \in Jobs1 :
        /\ job' = [job EXCEPT ![t] = j] /\ j.sock = c
        /\ \/ j.phase = "streaming" /\ j.given = job[t].given /\ downstream' = downstream
           \/ /\ j.phase = "streaming" /\ j.given = job[t].given + 1 /\ server[c] = "open"
              /\ downstream' = ToBrowser(c, Token(t, j.given))
           \/ /\ j.phase = "over" /\ j.given = job[t].given
              /\ \/ server[c] # "open" /\ downstream' = downstream
                 \/ \E m \in {Done(t), Error(t)} : server[c] = "open" /\ downstream' = ToBrowser(c, m)
  BY <1>0, AnswerMoves
<1>3. job'[t] = j /\ j.phase # "none" /\ \A u \in Turns : u # t => job'[u] = job[u]
  BY <1>2 DEF ChatTypes
<1>4. UNCHANGED <<shown, streaming, chatRef, opening, turns, stale, crashed>>
  BY <1>1 DEF hookVars
<1>5. \A d \in Socks : Asking(d)'
  BY <1>1, <1>3, <1>4 DEF Asking, Connected
<1>6. \A u \in Turns : u > turns => job'[u].phase = "none"
  BY <1>1, <1>3
<1>7. ASSUME NEW d \in Socks, d # c PROVE Answering(d)'
  <2>1. ASSUME Connected(d) PROVE job'[turns] = job[turns]
    <3>1. turns # t
      BY <1>1, <1>7, <2>1 DEF Answering
    <3>2. turns \in Turns
      BY <2>1, ChatAssumption DEF Answering, ChatTypes, Turns
    <3> QED BY <1>3, <3>1, <3>2
  <2>2. Still(d)
    BY <1>1, <1>7 DEF Still
  <2>3. \A u \in Turns : Preparing(job'[u]) /\ job'[u].sock = d => Preparing(job[u]) /\ job[u].sock = d
    BY <1>1, <1>2, <1>3, <1>7
  <2> QED BY <1>4, <2>1, <2>2, <2>3, AnsweringKept
<1>8. ASSUME Connected(c) PROVE Answering(c)'
  <2>1. t = turns /\ streaming /\ c = chatRef /\ downstream[c] \in Seq(Says)
    BY <1>1, <1>8 DEF Answering, Wired
  <2> DEFINE a == Had(browser[c], shown)
             q == downstream[c]
             p == downstream'[c]
  <2>2. a \in Int /\ job[t].given \in Nat /\ j.given \in Nat
    BY <1>2, <2>1, LastAnswer
  <2>3. Coming(server[c], q, a, t, job[t]) /\ browser[c] # "connecting"
    BY <1>1, <1>8, <2>1 DEF Answering
  <2>4. job[t].phase # "over"
    BY <1>1 DEF Preparing
  <2>5. ASSUME NEW m, downstream' = ToBrowser(c, m) PROVE p = IF q = <<Lost>> THEN q ELSE Append(q, m)
    <3>1. /\ q = <<Lost>> => ToBrowser(c, m)[c] = q
          /\ q # <<Lost>> => ToBrowser(c, m)[c] = Append(q, m)
      BY <1>1, <1>8, ToBrowserAt
    <3> QED BY <2>5, <3>1
  <2>6. Done(t) \in Outcomes /\ Error(t) \in Outcomes /\ \A i \in 1 .. MaxTokens : Token(t, i) \in ChatTokens
    BY DEF Outcomes, ChatTokens
  <2>7. \A m \in ChatTokens \cup Outcomes : m \in Says
    BY DEF Says
  <2>12. q \in Seq(Says)
    BY <2>1
  <2> HIDE DEF a, q, p
  <2>8. Coming(server[c], p, a, t, j)
    <3>1. CASE p = q /\ j.given = job[t].given /\ (j.phase = "streaming" \/ server[c] # "open")
      <4>1. Line(q, a, t, j)
        BY <2>1, <2>2, <2>3, <2>4, <3>1, LineGrows DEF Coming, q
      <4> QED BY <2>3, <2>4, <3>1, <4>1 DEF Coming, Total
    <3>2. CASE /\ j.phase = "streaming" /\ j.given = job[t].given + 1 /\ server[c] = "open"
               /\ downstream' = ToBrowser(c, Token(t, j.given))
      <4>1. Token(t, j.given) \in ChatTokens
        <5>1. j.given \in 1 .. MaxTokens
          BY <1>2, <2>2, <3>2
        <5> QED BY <2>6, <5>1
      <4>2. p = IF q = <<Lost>> THEN q ELSE Append(q, Token(t, j.given))
        BY <2>5, <3>2
      <4> DEFINE m == Token(t, j.given)
      <4>3. m \in ChatTokens /\ m \in Says /\ j.phase # "over" /\ server[c] = "open" /\ j.given = job[t].given + 1
        BY <2>7, <3>2, <4>1
      <4>4. p = (IF q = <<Lost>> THEN q ELSE Append(q, m)) /\ m = Token(t, j.given)
        BY <4>2
      <4> HIDE DEF m
      <4> QED BY <2>2, <2>3, <2>4, <2>12, <4>3, <4>4, SaysNext
    <3>3. ASSUME NEW m \in {Done(t), Error(t)}, server[c] = "open", downstream' = ToBrowser(c, m),
                 j.phase = "over", j.given = job[t].given
          PROVE  Coming(server[c], p, a, t, j)
      <4>1. p = IF q = <<Lost>> THEN q ELSE Append(q, m)
        BY <2>5, <3>3
      <4>2. m \in Outcomes /\ m \in Says
        BY <2>6, <2>7
      <4> QED BY <2>2, <2>3, <2>4, <2>12, <3>3, <4>1, <4>2, SaysNext
    <3> QED BY <1>2, <3>1, <3>2, <3>3 DEF p, q
  <2>9. \A u \in Turns : Preparing(job'[u]) /\ job'[u].sock = c => u = turns /\ streaming
    BY <1>3, <1>8, <2>1 DEF Answering
  <2>10. turns # 0
    BY <1>8 DEF Answering
  <2>11. Coming(server'[c], downstream'[c], Had(browser'[c], shown'), turns', job'[turns'])
    BY <1>1, <1>3, <1>4, <2>1, <2>8 DEF p, a
  <2> QED BY <1>1, <1>2, <1>3, <1>4, <2>1, <2>3, <2>9, <2>10, <2>11 DEF Answering
<1>9. ASSUME ~Connected(c) PROVE Answering(c)'
  BY <1>1, <1>9 DEF Answering, Connected
<1>10. AnswersKeepApart' /\ (streaming' => LastOf(shown', turns'))
  BY <1>4 DEF AnswersKeepApart
<1> QED BY <1>4, <1>5, <1>6, <1>7, <1>8, <1>9, <1>10

(* A question is asked over c: the last one, and no other is on its way from *)
(* the page.                                                                 *)
LEMMA AskingAdds ==
  ASSUME ChatTypes, NEW c \in Socks, NEW u \in Turns, u = turns', turns <= turns', \A d \in Socks : Asking(d),
         \A d \in Socks : d # c => upstream'[d] = upstream[d],
         upstream'[c] \in {upstream[c], Append(upstream[c], Question(u))},
         job' = job, job[u].phase = "none", streaming', \A d \in Socks : Connected(d)' => d = c,
         Connected(c)' => \A i \in 1 .. Len(upstream[c]) : upstream[c][i] \notin Questions,
         \A d \in Socks : \A i \in 1 .. Len(upstream[d]) : upstream[d][i] # Question(u)
  PROVE  \A d \in Socks : Asking(d)'
<1>0. /\ upstream[c] \in Seq(Questions \cup {Bye, Lost}) /\ turns \in Nat /\ turns' \in Nat
      /\ \A t, v \in Turns : Question(t) = Question(v) => t = v
  BY ChatAssumption, ChatMessages, SMTT(60) DEF ChatTypes, Turns
<1> DEFINE N == Len(upstream[c])
<1>5. \A t \in Turns : t \in Nat
  BY DEF Turns
<1>1. /\ N \in Nat
      /\ \A i \in 1 .. Len(upstream'[c]) :
           \/ i \in 1 .. N /\ upstream'[c][i] = upstream[c][i]
           \/ i = N + 1 /\ upstream'[c][i] = Question(u)
  BY <1>0, SMTT(60)
<1> HIDE DEF N
<1>2. ASSUME NEW d \in Socks, NEW i \in 1 .. Len(upstream'[d]), NEW t \in Turns, upstream'[d][i] = Question(t), t # u
      PROVE  i \in 1 .. Len(upstream[d]) /\ upstream[d][i] = Question(t)
  BY <1>0, <1>1, <1>2 DEF N
<1>3. ASSUME NEW d \in Socks, NEW i \in 1 .. Len(upstream'[d]), upstream'[d][i] = Question(u)
      PROVE  d = c /\ i = N + 1
  BY <1>1, <1>3 DEF N
<1>4. ASSUME NEW d \in Socks, NEW i \in 1 .. Len(upstream'[d]), NEW t \in Turns, upstream'[d][i] = Question(t)
      PROVE  /\ t <= turns' /\ job'[t].phase = "none"
             /\ Connected(d)' => t = turns' /\ streaming'
             /\ t = turns' => \A e \in Socks : Connected(e)' => e = d
             /\ \A e \in Socks : \A j \in 1 .. Len(upstream'[e]) : upstream'[e][j] = Question(t) => e = d /\ j = i
  <2>1. CASE t = u
    BY <1>0, <1>3, <1>4, <1>5, <2>1
  <2>2. CASE t # u
    <3>1. i \in 1 .. Len(upstream[d]) /\ upstream[d][i] = Question(t)
      BY <1>2, <1>4, <2>2
    <3>2. /\ t <= turns /\ job[t].phase = "none"
          /\ \A e \in Socks : \A j \in 1 .. Len(upstream[e]) : upstream[e][j] = Question(t) => e = d /\ j = i
      BY <3>1 DEF Asking
    <3>3. ~Connected(d)'
      BY <3>1 DEF Questions
    <3>4. \A e \in Socks : \A j \in 1 .. Len(upstream'[e]) : upstream'[e][j] = Question(t) => e = d /\ j = i
      BY <1>2, <2>2, <3>2
    <3> QED BY <1>0, <1>5, <2>2, <3>2, <3>3, <3>4
  <2> QED BY <2>1, <2>2
<1> QED BY <1>4 DEF Asking

LEMMA OpensOrder ==
  ASSUME ChatWires, ChatOrder, NEW c \in Socks, ChatOpens(c)
  PROVE  ChatOrder'
<1> USE DEF ChatWires, ChatOrder
<1> DEFINE q == downstream[c]
           j == job[turns]
           rest == Tail(q)
<1>1. /\ PerSocket' /\ Others(c) /\ UNCHANGED <<server, hookVars, job>>
      /\ browser[c] = "connecting" /\ browser'[c] = "open" /\ q # <<>> /\ q # <<Lost>>
      /\ q \in Seq(Says) /\ downstream'[c] = rest
      /\ opening[c] \in Turns /\ upstream'[c] \in {upstream[c], Append(upstream[c], Question(opening[c]))}
  BY OpensAt
<1>2. UNCHANGED <<shown, streaming, chatRef, opening, turns, stale, crashed, job>>
  BY <1>1 DEF hookVars
<1>3. /\ c = chatRef /\ turns # 0 /\ opening[c] = turns /\ j.phase = "none" /\ shown[Len(shown)].tokens = <<>>
      /\ \A t \in Turns : Preparing(job[t]) /\ job[t].sock = c => t = turns /\ streaming
  BY <1>1 DEF Answering, Connected
<1>4. streaming /\ Coming(server[c], q, 0 - 1, turns, j)
  BY <1>1 DEF Answering, Connected, Silent, Had
<1>5. \A d \in Socks : Connected(d)' => d = c
  BY <1>1, <1>3 DEF Answering, Connected, Others, Still
<1>6. \A i \in 1 .. Len(upstream[c]) : upstream[c][i] \notin Questions
  BY <1>1 DEF Wired
<1>7. turns \in Turns
  BY <1>1, <1>3
<1>8. ASSUME NEW d \in Socks, NEW i \in 1 .. Len(upstream[d]), upstream[d][i] = Question(turns) PROVE FALSE
  <2>1. c = d
    BY <1>1, <1>7, <1>8 DEF Asking, Connected
  <2> QED BY <1>6, <1>7, <1>8, <2>1 DEF Questions
<1>9. \A d \in Socks : Asking(d)'
  <2>1. \A d \in Socks : d # c => upstream'[d] = upstream[d]
    BY <1>1 DEF Others, Still
  <2>2. turns \in Nat /\ turns <= turns' /\ streaming' /\ turns' = turns
    BY <1>2, <1>4, <1>7, ChatAssumption DEF Turns
  <2> QED BY <1>1, <1>2, <1>3, <1>5, <1>6, <1>7, <1>8, <2>1, <2>2, AskingAdds
<1> HIDE DEF q, j
<1>10. Line(rest, 0, turns, j) /\ Len(rest) = Len(q) - 1 /\ Len(q) \in Nat
  <2>1. Line(rest, (0 - 1) + 1, turns, j)
    BY <1>1, <1>4, LineAdvances DEF Coming
  <2> QED BY <1>1, <2>1
<1> HIDE DEF rest
<1>11. Coming(server'[c], downstream'[c], 0, turns, j)
  BY <1>1, <1>4, <1>10 DEF Coming
<1>12. Had(browser'[c], shown') = 0
  BY <1>1, <1>2, <1>3 DEF Had
<1>13. Answering(c)'
  BY <1>1, <1>2, <1>3, <1>4, <1>11, <1>12 DEF Answering, j
<1>14. \A d \in Socks : Answering(d)'
  BY <1>5, <1>13 DEF Answering
<1>15. AnswersKeepApart'
  BY <1>2 DEF AnswersKeepApart
<1> QED BY <1>2, <1>9, <1>14, <1>15

LEMMA BeginsOrder ==
  ASSUME ChatWires, ChatOrder, NEW c \in Socks, AnswerBegins(c)
  PROVE  ChatOrder'
<1> USE DEF ChatWires, ChatOrder
<1> DEFINE q == upstream[c]
<1>1. /\ PerSocket' /\ Others(c) /\ UNCHANGED <<browser, server, downstream, hookVars>>
      /\ q # <<>> /\ q \in Seq(Questions \cup {Bye, Lost}) /\ upstream'[c] = Tail(q)
      /\ browser[c] \notin {"new", "connecting"}
  BY BeginsAt
<1>2. UNCHANGED <<shown, streaming, chatRef, opening, turns, stale, crashed>>
  BY <1>1 DEF hookVars
<1>3. PICK t \in Turns : q[1] = Question(t) /\ job' = [job EXCEPT ![t] = [sock |-> c, given |-> 0, phase |-> "context"]]
  <2> DEFINE u == Head(q).turn
  <2>1. u \in Turns /\ Head(q) = Question(u) /\ job' = [job EXCEPT ![u] = [sock |-> c, given |-> 0, phase |-> "context"]]
    BY BeginsAt
  <2>2. Head(q) = q[1]
    BY <1>1
  <2> HIDE DEF u
  <2> QED BY <2>1, <2>2
<1>4. /\ job'[t] = [sock |-> c, given |-> 0, phase |-> "context"]
      /\ \A u \in Turns : u # t => job'[u] = job[u]
  BY <1>3 DEF ChatTypes
<1>5. /\ t <= turns /\ job[t].phase = "none" /\ job[t].given = 0
      /\ Connected(c) => t = turns /\ streaming
      /\ t = turns => \A d \in Socks : Connected(d) => d = c
      /\ \A d \in Socks : \A i \in 1 .. Len(upstream[d]) : upstream[d][i] = Question(t) => d = c /\ i = 1
  <2>1. 1 \in 1 .. Len(upstream[c])
    BY <1>1
  <2> QED BY <1>3, <2>1 DEF Asking, Jobs
<1>6. ASSUME NEW d \in Socks, NEW i \in 1 .. Len(upstream'[d])
      PROVE  IF d = c THEN i + 1 \in 1 .. Len(upstream[d]) /\ upstream'[d][i] = upstream[d][i + 1] /\ i + 1 # 1
                      ELSE i \in 1 .. Len(upstream[d]) /\ upstream'[d][i] = upstream[d][i]
  <2>1. CASE d = c
    <3>1. \A k \in 1 .. Len(Tail(q)) : k + 1 \in 1 .. Len(q) /\ Tail(q)[k] = q[k + 1] /\ k + 1 # 1
      <4> HIDE DEF q
      <4> QED BY <1>1
    <3> QED BY <1>1, <2>1, <3>1
  <2>2. CASE d # c
    BY <1>1, <1>6, <2>2 DEF Others, Still
  <2> QED BY <2>1, <2>2
<1> HIDE DEF q
<1>7. ASSUME NEW d \in Socks, NEW i \in 1 .. Len(upstream'[d]), NEW u \in Turns, upstream'[d][i] = Question(u)
      PROVE  /\ u <= turns /\ job'[u].phase = "none"
             /\ Connected(d) => u = turns /\ streaming
             /\ u = turns => \A e \in Socks : Connected(e) => e = d
             /\ \A e \in Socks : \A k \in 1 .. Len(upstream'[e]) : upstream'[e][k] = Question(u) => e = d /\ k = i
  <2> DEFINE o == IF d = c THEN i + 1 ELSE i
  <2>1. o \in 1 .. Len(upstream[d]) /\ upstream[d][o] = Question(u) /\ (d = c => o # 1)
    BY <1>6, <1>7
  <2>2. u # t
    BY <1>5, <2>1
  <2>3. /\ u <= turns /\ job[u].phase = "none"
        /\ Connected(d) => u = turns /\ streaming
        /\ u = turns => \A e \in Socks : Connected(e) => e = d
        /\ \A e \in Socks : \A k \in 1 .. Len(upstream[e]) : upstream[e][k] = Question(u) => e = d /\ k = o
    <3> HIDE DEF o
    <3> QED BY <2>1 DEF Asking
  <2>4. ASSUME NEW e \in Socks, NEW k \in 1 .. Len(upstream'[e]), upstream'[e][k] = Question(u)
        PROVE  e = d /\ k = i
    <3>1. CASE e = c
      <4>1. k + 1 \in 1 .. Len(upstream[e]) /\ upstream[e][k + 1] = Question(u)
        BY <1>6, <2>4, <3>1
      <4>2. e = d /\ k + 1 = o
        BY <2>3, <4>1
      <4> QED BY <3>1, <4>2
    <3>2. CASE e # c
      <4>1. k \in 1 .. Len(upstream[e]) /\ upstream[e][k] = Question(u)
        BY <1>6, <2>4, <3>2
      <4> QED BY <2>3, <3>2, <4>1
    <3> QED BY <3>1, <3>2
  <2> QED BY <1>4, <2>2, <2>3, <2>4
<1>8. \A d \in Socks : Asking(d)'
  BY <1>1, <1>2, <1>7 DEF Asking, Connected
<1>9. ASSUME NEW d \in Socks, d # c PROVE Answering(d)'
  <2>1. ASSUME Connected(d) PROVE job'[turns] = job[turns]
    <3>1. turns # t
      BY <1>5, <1>9, <2>1
    <3>2. turns \in Turns
      BY <2>1, ChatAssumption DEF Answering, ChatTypes, Turns
    <3> QED BY <1>4, <3>1, <3>2
  <2>2. Still(d)
    BY <1>1, <1>9 DEF Others
  <2>3. \A u \in Turns : Preparing(job'[u]) /\ job'[u].sock = d => Preparing(job[u]) /\ job[u].sock = d
    BY <1>4, <1>9
  <2> QED BY <1>2, <2>1, <2>2, <2>3, AnsweringKept
<1>10. ASSUME Connected(c) PROVE Answering(c)'
  <2> DEFINE a == Had(browser[c], shown)
             p == downstream[c]
             k == job'[t]
  <2>1. /\ c = chatRef /\ t = turns /\ streaming /\ turns # 0
        /\ Coming(server[c], p, a, t, job[t]) /\ p \in Seq(Says)
        /\ \A u \in Turns : Preparing(job[u]) /\ job[u].sock = c => u = turns /\ streaming
    BY <1>5, <1>10 DEF Answering, Wired
  <2>2. a \in Int /\ k.given = 0 /\ k.phase = "context" /\ k.sock = c
    BY <1>4, <2>1, LastAnswer
  <2> HIDE DEF a, k
  <2>3. Line(p, a, t, k)
    BY <1>5, <2>1, <2>2, LineGrows DEF Coming
  <2>4. Coming(server[c], p, a, t, k)
    BY <1>5, <2>1, <2>2, <2>3 DEF Coming, Total
  <2>5. \A u \in Turns : Preparing(job'[u]) /\ job'[u].sock = c => u = turns /\ streaming
    BY <1>4, <2>1
  <2>6. Coming(server'[c], downstream'[c], Had(browser'[c], shown'), turns', job'[turns'])
    BY <1>1, <1>2, <2>1, <2>4 DEF a, k
  <2>7. job'[turns'].sock = c
    BY <1>2, <2>1, <2>2 DEF k
  <2> QED BY <1>1, <1>2, <2>1, <2>5, <2>6, <2>7 DEF Answering
<1>11. ASSUME ~Connected(c) PROVE Answering(c)'
  BY <1>1, <1>11 DEF Answering, Connected
<1>12. AnswersKeepApart' /\ (streaming' => LastOf(shown', turns'))
  BY <1>2 DEF AnswersKeepApart
<1>13. \A u \in Turns : u > turns' => job'[u].phase = "none"
  <2>1. turns \in Nat /\ t \in Nat
    BY ChatAssumption DEF ChatTypes, Turns
  <2>2. \A u \in Turns : u > turns => u # t
    BY <1>5, <2>1
  <2> QED BY <1>2, <1>4, <2>2
<1> QED BY <1>2, <1>8, <1>9, <1>10, <1>11, <1>12, <1>13

(* No message of an answer is on its way to a page that asked nothing, so a  *)
(* question begins an answer of its own.                                     *)
LEMMA AskOrder ==
  ASSUME ChatWires, ChatOrder, ~stale, ~stale', NEW c \in Socks, Ask(c)
  PROVE  ChatOrder'
<1> USE DEF ChatWires, ChatOrder
<1>1. /\ ~streaming /\ streaming' /\ UNCHANGED <<server, downstream, job, stale, crashed>>
      /\ shown' = Append(shown, [turn |-> turns', tokens |-> <<>>])
      /\ turns \in Nat /\ turns' = turns + 1 /\ turns' \in Turns /\ turns' # 0
  BY ChatAssumption DEF Ask, ChatTypes, Turns
<1>2. /\ Len(shown') = Len(shown) + 1 /\ Len(shown) \in Nat /\ shown' # <<>>
      /\ \A i \in 1 .. Len(shown) : shown'[i] = shown[i]
      /\ shown'[Len(shown')] = [turn |-> turns', tokens |-> <<>>]
      /\ DOMAIN shown = 1 .. Len(shown) /\ DOMAIN shown' = 1 .. Len(shown')
  <2> DEFINE Shapes == [turn : Turns, tokens : Seq([turn : Turns, at : 1 .. MaxTokens])]
             new == [turn |-> turns', tokens |-> <<>>]
  <2>1. <<>> \in Seq([turn : Turns, at : 1 .. MaxTokens])
    OBVIOUS
  <2>2. new \in Shapes
    BY <1>1, <2>1
  <2>3. shown \in Seq(Shapes) /\ shown' = Append(shown, new)
    BY <1>1 DEF ChatTypes
  <2> HIDE DEF Shapes, new
  <2>4. /\ Len(shown') = Len(shown) + 1 /\ Len(shown) \in Nat /\ shown' # <<>> /\ shown' \in Seq(Shapes)
        /\ \A i \in 1 .. Len(shown) : shown'[i] = shown[i]
        /\ shown'[Len(shown')] = new
    BY <2>2, <2>3
  <2> QED BY <2>3, <2>4 DEF new
<1>3. shown'[Len(shown')].tokens = <<>> /\ shown'[Len(shown')].turn = turns'
  BY <1>2
<1>4. LastOf(shown', turns')
  BY <1>1, <1>2, <1>3 DEF LastOf
<1>5. AnswersKeepApart'
  <2>1. ASSUME NEW i \in DOMAIN shown'
        PROVE  shown'[i].tokens = [k \in DOMAIN shown'[i].tokens |-> [turn |-> shown'[i].turn, at |-> k]]
    <3>1. CASE i = Len(shown')
      <4> DEFINE e == shown'[i].tokens
                 u == shown'[i].turn
      <4>1. e = <<>>
        BY <1>3, <3>1
      <4> HIDE DEF e, u
      <4>2. e = [k \in DOMAIN e |-> [turn |-> u, at |-> k]]
        BY <4>1
      <4> QED BY <4>2 DEF e, u
    <3>2. CASE i # Len(shown')
      <4>1. i \in DOMAIN shown /\ shown'[i] = shown[i]
        BY <1>2, <3>2
      <4> QED BY <4>1 DEF AnswersKeepApart
    <3> QED BY <3>1, <3>2
  <2> QED BY <2>1 DEF AnswersKeepApart
<1>6. /\ \A t \in Turns : t \in Nat
      /\ job[turns'].phase = "none" /\ job[turns'].given = 0
      /\ \A t \in Turns : t > turns' => job'[t].phase = "none"
  <2>1. \A t \in Turns : t \in Nat
    BY DEF Turns
  <2>2. turns' > turns /\ \A t \in Turns : t > turns' => t > turns
    BY <1>1, <2>1
  <2> QED BY <1>1, <2>1, <2>2 DEF Jobs
<1>7. ASSUME NEW d \in Socks, NEW i \in 1 .. Len(upstream[d]), upstream[d][i] = Question(turns') PROVE FALSE
  BY <1>1, <1>7 DEF Asking
<1>8. \A d \in Socks : Connected(d) => /\ d = chatRef /\ Silent(browser[d], server[d], downstream[d])
                                       /\ \A t \in Turns : ~(Preparing(job[t]) /\ job[t].sock = d)
  BY <1>1 DEF Answering
<1> DEFINE j == job[turns']
<1>9. /\ job'[turns'] = j /\ j.phase = "none" /\ j.given = 0 /\ Total(j) = 0
  BY <1>1, <1>6 DEF Total
<1> HIDE DEF j
<1>10. CASE chatRef # NoChat /\ browser[chatRef] = "open"
  <2>1. c = chatRef /\ upstream' = ToServer({c}, Question(turns')) /\ UNCHANGED <<browser, chatRef, opening, server, downstream>>
    BY <1>10 DEF Ask
  <2>2. /\ \A d \in Socks : d # c => upstream'[d] = upstream[d]
        /\ upstream'[c] \in {upstream[c], Append(upstream[c], Question(turns'))}
    BY <2>1, ToServerOne
  <2>3. Connected(c) /\ \A d \in Socks : Connected(d)' => d = c
    BY <1>8, <1>10, <2>1 DEF Connected
  <2>9. \A i \in 1 .. Len(upstream[c]) : upstream[c][i] \notin Questions
    <3>1. Connected(c)
      BY <2>3
    <3> QED BY <1>1, <3>1 DEF Asking, Questions
  <2>4. \A d \in Socks : Asking(d)'
    <3> DEFINE u == turns'
    <3>1. u \in Turns /\ u = turns' /\ turns <= turns' /\ job' = job /\ job[u].phase = "none" /\ streaming'
      BY <1>1, <1>6
    <3>3. \A d \in Socks : \A i \in 1 .. Len(upstream[d]) : upstream[d][i] # Question(u)
      BY <1>7
    <3>4. upstream'[c] \in {upstream[c], Append(upstream[c], Question(u))}
      BY <2>2
    <3> HIDE DEF u
    <3> QED BY <2>2, <2>3, <2>9, <3>1, <3>3, <3>4, AskingAdds
  <2>5. Had(browser'[c], shown') = 0
    BY <1>3, <1>10, <2>1 DEF Had
  <2>6. Coming(server[c], downstream[c], 0, turns', j)
    <3>1. Silent(browser[c], server[c], downstream[c])
      BY <1>8, <2>3
    <3> QED BY <1>9, <3>1, LineOfQuiet DEF Coming, Silent
  <2>7. Answering(c)'
    BY <1>1, <1>8, <1>9, <1>10, <2>1, <2>3, <2>5, <2>6 DEF Answering, Connected
  <2>8. \A d \in Socks : Answering(d)'
    BY <2>3, <2>7 DEF Answering
  <2> QED BY <1>1, <1>4, <1>5, <1>6, <2>4, <2>8
<1>11. CASE ~(chatRef # NoChat /\ browser[chatRef] = "open")
  <2>1. /\ Constructed(c) /\ chatRef' = c /\ opening' = [opening EXCEPT ![c] = turns']
        /\ UNCHANGED <<upstream, server, downstream, job>>
    BY <1>11 DEF Ask
  <2>2. browser[c] = "new" /\ browser'[c] = "connecting" /\ \A d \in Socks : d # c => browser'[d] = browser[d]
    BY <2>1 DEF Constructed, Unused, ChatTypes, PerSocket
  <2>3. \A d \in Socks : Connected(d)' => d = c
    BY <1>8, <1>11, <2>2, ChatAssumption DEF Connected, Silent
  <2>4. \A d \in Socks : Asking(d)'
    <3> DEFINE u == turns'
    <3>1. u \in Turns /\ u = turns' /\ turns <= turns' /\ job' = job /\ job[u].phase = "none" /\ streaming'
      BY <1>1, <1>6
    <3>2. \A i \in 1 .. Len(upstream[c]) : upstream[c][i] \notin Questions
      BY <2>2 DEF Wired
    <3>3. \A d \in Socks : \A i \in 1 .. Len(upstream[d]) : upstream[d][i] # Question(u)
      BY <1>7
    <3> HIDE DEF u
    <3> QED BY <2>1, <2>3, <3>1, <3>2, <3>3, AskingAdds
  <2>5. Had(browser'[c], shown') = 0 - 1
    BY <2>2 DEF Had
  <2>6. server[c] = "idle" /\ downstream[c] = <<>>
    BY <2>2 DEF Wired
  <2>7. Coming(server[c], downstream[c], 0 - 1, turns', j)
    BY <2>6 DEF Coming, Line
  <2>8. \A t \in Turns : ~(Preparing(job[t]) /\ job[t].sock = c)
    BY <2>2 DEF Jobs, Preparing
  <2>9. opening'[c] = turns'
    BY <2>1 DEF ChatTypes
  <2>10. Answering(c)'
    BY <1>1, <1>3, <1>9, <2>1, <2>2, <2>5, <2>7, <2>8, <2>9 DEF Answering
  <2>11. \A d \in Socks : Answering(d)'
    BY <2>3, <2>10 DEF Answering
  <2> QED BY <1>1, <1>4, <1>5, <1>6, <2>4, <2>11
<1> QED BY <1>10, <1>11

LEMMA ChatInitOK == ChatInit => ChatInv
<1> SUFFICES ASSUME ChatInit PROVE ChatInv
  OBVIOUS
<1>1. /\ browser = [c \in Socks |-> "new"] /\ server = [c \in Socks |-> "idle"]
      /\ upstream = [c \in Socks |-> <<>>] /\ downstream = [c \in Socks |-> <<>>]
      /\ shown = <<>> /\ streaming = FALSE /\ chatRef = NoChat /\ turns = 0 /\ stale = FALSE /\ crashed = FALSE
      /\ opening = [c \in Socks |-> 0]
      /\ job = [t \in Turns |-> [sock |-> NoChat, given |-> 0, phase |-> "none"]]
  BY DEF ChatInit, SocketsInit
<1>2. PerSocket
  BY <1>1 DEF PerSocket
<1>3. ChatTypes
  <2>1. upstream \in [Socks -> Seq(Questions \cup {Bye, Lost})]
    <3>1. <<>> \in Seq(Questions \cup {Bye, Lost})
      OBVIOUS
    <3> QED BY <1>1, <3>1
  <2>2. shown \in Seq([turn : Turns, tokens : Seq([turn : Turns, at : 1 .. MaxTokens])])
    BY <1>1
  <2>3. job \in [Turns -> [sock : Socks \cup {NoChat}, given : 0 .. MaxTokens,
                          phase : {"none", "context", "streaming", "over"}]]
    BY <1>1, ChatAssumption
  <2>4. opening \in [Socks -> 0 .. MaxTurns] /\ turns \in 0 .. MaxTurns /\ chatRef \in Socks \cup {NoChat}
    BY <1>1, ChatAssumption
  <2>5. streaming \in BOOLEAN /\ stale \in BOOLEAN /\ crashed \in BOOLEAN
    BY <1>1
  <2> QED BY <1>2, <2>1, <2>2, <2>3, <2>4, <2>5 DEF ChatTypes
<1>4. \A c \in Socks : Wired(c) /\ Asking(c) /\ Answering(c)
  BY <1>1, ChatAssumption DEF Wired, Asking, Answering, Connected
<1>5. Jobs /\ AnswersKeepApart
  BY <1>1 DEF Jobs, AnswersKeepApart
<1> QED BY <1>1, <1>3, <1>4, <1>5 DEF ChatInv, ChatWires, ChatOrder

(* Each step keeps the wires, and unless it is the error of an abandoned     *)
(* socket, the order.                                                        *)
LEMMA ChatStep ==
  ASSUME ChatInv, [ChatNext]_chatVars PROVE ChatInv'
<1> USE DEF ChatInv
<1>1. CASE Clear
  <2>1. stale' = stale
    BY <1>1 DEF Clear
  <2> QED BY <1>1, <2>1, ClearWires, ClearOrder
<1>2. ASSUME NEW c \in Socks, Ask(c) PROVE ChatInv'
  <2>1. stale' = stale
    BY <1>2 DEF Ask
  <2> QED BY <1>2, <2>1, AskWires, AskOrder
<1>3. ASSUME NEW c \in Socks, ChatOpens(c) PROVE ChatInv'
  <2>1. stale' = stale
    BY <1>3 DEF ChatOpens, hookVars
  <2> QED BY <1>3, <2>1, OpensWires, OpensOrder
<1>4. ASSUME NEW c \in Socks, ChatReceives(c) PROVE ChatInv'
  <2>1. stale' = stale
    BY <1>4 DEF ChatReceives
  <2> QED BY <1>4, <2>1, ReceivesWires, ReceivesOrder
<1>5. ASSUME NEW c \in Socks, ChatCloses(c) PROVE ChatInv'
  <2>1. stale => stale'
    BY <1>5, ChatClosesLeaves DEF ChatWires, ChatTypes
  <2> QED BY <1>5, <2>1, ClosesWires, ClosesOrder
<1>6. ASSUME NEW c \in Socks, ChatAdmitted(c) \/ ChatRejected(c) \/ ChatGone(c) \/ ChatLost(c) PROVE ChatInv'
  <2>1. Moved(c) /\ UNCHANGED <<hookVars, job>>
    BY <1>6, ChatSocketMoves DEF ChatWires, ChatTypes
  <2>2. stale' = stale
    BY <2>1 DEF hookVars
  <2> QED BY <2>1, <2>2, MovedWires, MovedOrder
<1>7. ASSUME NEW c \in Socks, AnswerBegins(c) PROVE ChatInv'
  <2>1. stale' = stale
    BY <1>7 DEF AnswerBegins, hookVars
  <2> QED BY <1>7, <2>1, BeginsWires, BeginsOrder
<1>8. ASSUME NEW t \in Turns, AnswerStep(t) PROVE ChatInv'
  <2>1. stale' = stale
    BY <1>8 DEF AnswerStep, ContextBuilt, Streams1, Answered, AnswerFails, hookVars
  <2> QED BY <1>8, <2>1, AnswerWires, AnswerOrder
<1>9. CASE UNCHANGED chatVars
  <2>1. UNCHANGED <<browser, server, upstream, downstream, shown, streaming, chatRef, opening, turns, job, stale, crashed>>
    BY <1>9 DEF chatVars, sockVars
  <2>2. ChatWires'
    BY <2>1 DEF ChatWires, ChatTypes, PerSocket, Wired, Jobs, Connected
  <2>3. ChatOrder => ChatOrder'
    BY <2>1 DEF ChatOrder, AnswersKeepApart, Asking, Answering, Connected
  <2> QED BY <2>1, <2>2, <2>3
<1> QED BY <1>1, <1>2, <1>3, <1>4, <1>5, <1>6, <1>7, <1>8, <1>9 DEF ChatNext, ChatSocketStep

LEMMA ChatInvOrder == ChatInv => ChatInOrder
<1>1. SUFFICES ASSUME ChatInv, ~stale PROVE AnswersKeepApart /\ OneAnswerAtATime /\ ~crashed
  BY DEF ChatInOrder, AnswersKeepApart, OneAnswerAtATime, TokenHasMessage
<1>2. AnswersKeepApart /\ ~crashed
  BY <1>1 DEF ChatInv, ChatOrder
<1>3. ASSUME NEW t \in Turns, Preparing(job[t]), browser[job[t].sock] = "open" PROVE t = turns
  <2>1. PICK c \in Socks : c = job[t].sock
    BY <1>1, <1>3 DEF ChatInv, ChatWires, Jobs, Preparing
  <2>2. Connected(c)
    BY <1>3, <2>1 DEF Connected
  <2> QED BY <1>1, <1>3, <2>1, <2>2 DEF ChatInv, ChatOrder, Answering
<1>4. OneAnswerAtATime
  BY <1>3 DEF OneAnswerAtATime, Preparing
<1> QED BY <1>2, <1>4

(* The chat by itself stays in order (useOllamaChat.ts, ws.ts handleChat).   *)
THEOREM ChatInvariant == ChatSpec => []ChatInv
<1>1. ChatInv /\ [ChatNext]_chatVars => ChatInv'
  BY ChatStep
<1> QED BY <1>1, ChatInitOK, PTL DEF ChatSpec

(* Answers stand below their questions, one is prepared at a time, and no    *)
(* token meets an empty chat (useOllamaChat.ts, ws.ts handleChat).           *)
THEOREM ChatIsInOrder == LiveSpec => []ChatStaysInOrder
<1> DEFINE Inv == part = "chat" => ChatInv
<1>1. LiveInit => Inv
  BY ChatInitOK DEF LiveInit
<1>2. Inv /\ [LiveNext]_liveVars => Inv'
  <2>1. SUFFICES ASSUME Inv, [LiveNext]_liveVars, part' = "chat" PROVE ChatInv'
    OBVIOUS
  <2>2. part = "chat" /\ ChatInv
    BY <2>1 DEF LiveNext, EventsMove, ChatMoves, FeedMoves, InPart, liveVars
  <2>3. [ChatNext]_chatVars
    BY <2>1, <2>2 DEF LiveNext, EventsMove, ChatMoves, FeedMoves, InPart, liveVars, chatVars, chatOnly, hookVars
  <2> QED BY <2>2, <2>3, ChatStep
<1>3. Inv => ChatStaysInOrder
  BY ChatInvOrder DEF ChatStaysInOrder
<1> QED BY <1>1, <1>2, <1>3, PTL DEF LiveSpec

(***************************************************************************)
(* The live notifications, Feed.                                           *)
(***************************************************************************)
Broadcasts == {Event(n) : n \in 1 .. MaxEvents}
FeedSays == Broadcasts \cup {Open, Refused, Bye, Lost}

FeedTypes ==
  /\ PerSocket
  /\ stopped \in BOOLEAN /\ reconnect \in BOOLEAN
  /\ feedRef \in Socks \cup {NoFeed}
  /\ subscribers \subseteq Socks
  /\ events \in 0 .. MaxEvents
  /\ notified \in Seq(1 .. MaxEvents)
  /\ missed \subseteq 1 .. MaxEvents

(* The queue q between a page's end b and a server's end s: what ends the    *)
(* connection is its last message, and a refusal or a loss its only one.     *)
Shaped(b, s, q) ==
  /\ q \in Seq(FeedSays) /\ s # "closing"
  /\ s \in {"idle", "upgrading"} => b = "connecting" /\ q \in {<<>>, <<Lost>>}
  /\ \A k \in 1 .. Len(q) :
       /\ q[k] = Open => k = 1 /\ b = "connecting"
       /\ q[k] = Refused => Len(q) = 1 /\ b = "connecting" /\ s = "closed"
       /\ q[k] = Bye => k = Len(q) /\ s = "closed"
       /\ q[k] = Lost => Len(q) = 1

(* What is on its way is newer than what is shown, and in order.             *)
Upcoming(q, shows, last) ==
  /\ \A k \in 1 .. Len(q) : q[k] \in Broadcasts =>
       q[k].event <= last /\ \A i \in 1 .. Len(shows) : shows[i] < q[k].event
  /\ \A k, l \in 1 .. Len(q) : k < l /\ q[k] \in Broadcasts /\ q[l] \in Broadcasts => q[k].event < q[l].event

Feeding(c) ==
  /\ browser[c] = "new" => server[c] = "idle" /\ downstream[c] = <<>>
  /\ c = feedRef => browser[c] # "new"
  /\ server[c] # "closing" /\ (c \in subscribers <=> server[c] = "open")
  /\ browser[c] \notin {"new", "closed"} => c = feedRef /\ ~reconnect
  /\ Connected(c) => /\ ~stopped /\ Shaped(browser[c], server[c], downstream[c])
                     /\ Upcoming(downstream[c], notified, events)

(* The event n is shown, or a later one of its key is.                       *)
Told(shows, n) == \E i \in 1 .. Len(shows) : shows[i] \in {n, n + 1} /\ Key(shows[i]) = Key(n)
OnItsWay(q, n) == \E k \in 1 .. Len(q) : q[k] = Event(n)
AllTold ==
  ~stopped => \A n \in (1 .. events) \ missed :
    Told(notified, n) \/ \E c \in Socks : Connected(c) /\ OnItsWay(downstream[c], n)

FeedInv ==
  /\ FeedTypes /\ (reconnect => ~stopped)
  /\ \A c \in Socks : Feeding(c)
  /\ NotifiedOnce /\ \A i \in 1 .. Len(notified) : notified[i] <= events
  /\ AllTold

(* A notification replaces those of its key.                                 *)
OthersFrom(n, f, i) ==
  IF i = 0 THEN <<>> ELSE IF Key(notified[i]) # Key(n) THEN Append(f[i - 1], notified[i]) ELSE f[i - 1]
OthersTo(n) == CHOOSE f : f = [i \in 0 .. Len(notified) |-> OthersFrom(n, f, i)]

LEMMA OthersToAre ==
  ASSUME notified \in Seq(1 .. MaxEvents), NEW n
  PROVE  /\ OfOtherKeys(n) = OthersTo(n)[Len(notified)] /\ OthersTo(n)[0] = <<>>
         /\ \A i \in 1 .. Len(notified) :
              OthersTo(n)[i] = IF Key(notified[i]) # Key(n) THEN Append(OthersTo(n)[i - 1], notified[i]) ELSE OthersTo(n)[i - 1]
<1> DEFINE L == Len(notified)
           E == 1 .. MaxEvents
           step == [i \in 1 .. L |-> [s \in Seq(E) |-> IF Key(notified[i]) # Key(n) THEN Append(s, notified[i]) ELSE s]]
<1>0. notified \in Seq(E)
  OBVIOUS
<1> HIDE DEF E
<1>1. L \in Nat /\ \A i \in 1 .. L : notified[i] \in E
  BY <1>0
<1>2. \A i \in 1 .. L : \A s \in Seq(E) : step[i][s] \in Seq(E)
  BY <1>1
<1>3. <<>> \in Seq(E)
  OBVIOUS
<1> HIDE DEF step
<1>4. PICK f \in [0 .. L -> Seq(E)] : f[0] = <<>> /\ \A i \in 1 .. L : f[i] = step[i][f[i - 1]]
  <2>1. Steps(Seq(E), L, <<>>, step)
    BY <1>1, <1>2, <1>3 DEF Steps
  <2>2. Walk(Seq(E), L, <<>>, step)
    BY <2>1, StepByStep
  <2> QED BY <2>2 DEF Walk
<1>5. ASSUME NEW i \in 0 .. L PROVE f[i] = OthersFrom(n, f, i)
  <2>1. CASE i = 0
    BY <2>1, <1>4 DEF OthersFrom
  <2>2. CASE i # 0
    <3>1. i \in 1 .. L /\ i - 1 \in 0 .. L
      BY <2>2, <1>1
    <3>2. f[i] = step[i][f[i - 1]] /\ f[i - 1] \in Seq(E)
      BY <3>1, <1>4
    <3> QED BY <3>1, <3>2, <2>2 DEF OthersFrom, step
  <2> QED BY <2>1, <2>2
<1>6. f = [i \in 0 .. L |-> OthersFrom(n, f, i)]
  BY <1>5
<1>7. OthersTo(n) = [i \in 0 .. L |-> OthersFrom(n, OthersTo(n), i)]
  BY <1>6 DEF OthersTo
<1>8. OfOtherKeys(n) = OthersTo(n)[Len(notified)]
  BY DEF OfOtherKeys, OthersTo, OthersFrom
<1> HIDE DEF OthersTo
<1>9. OthersTo(n)[0] = <<>>
  BY <1>7, <1>1 DEF OthersFrom
<1>10. ASSUME NEW i \in 1 .. L
       PROVE  OthersTo(n)[i] = IF Key(notified[i]) # Key(n) THEN Append(OthersTo(n)[i - 1], notified[i]) ELSE OthersTo(n)[i - 1]
  <2>1. i \in 0 .. L /\ i # 0
    BY <1>1
  <2>2. OthersTo(n)[i] = OthersFrom(n, OthersTo(n), i)
    BY <2>1, <1>7
  <2> QED BY <2>1, <2>2 DEF OthersFrom
<1> QED BY <1>8, <1>9, <1>10

(* r holds the notifications up to i but those of the key of n, in order.    *)
OthersUpTo(n, r, i) ==
  /\ r \in Seq(1 .. MaxEvents)
  /\ \A k, l \in 1 .. Len(r) : k < l => r[k] < r[l]
  /\ \A k \in 1 .. Len(r) : \E j \in 1 .. i : r[k] = notified[j]
  /\ \A j \in 1 .. i : Key(notified[j]) # Key(n) => \E k \in 1 .. Len(r) : r[k] = notified[j]

LEMMA OthersGoOn ==
  ASSUME notified \in Seq(1 .. MaxEvents), NotifiedOnce, NEW n, NEW i \in 0 .. Len(notified) - 1,
         NEW r, OthersUpTo(n, r, i), NEW p,
         p = IF Key(notified[i + 1]) # Key(n) THEN Append(r, notified[i + 1]) ELSE r
  PROVE  OthersUpTo(n, p, i + 1)
<1> DEFINE x == notified[i + 1]
<1>1. /\ i + 1 \in 1 .. Len(notified) /\ x \in 1 .. MaxEvents /\ i \in Nat /\ Len(notified) \in Nat
      /\ \A j \in 1 .. i : notified[j] < x /\ j \in 1 .. i + 1
      /\ \A j \in 1 .. i + 1 : j \in 1 .. i \/ j = i + 1
  <2> DEFINE E == 1 .. MaxEvents
  <2>0. notified \in Seq(E)
    OBVIOUS
  <2> HIDE DEF E
  <2>1. Len(notified) \in Nat /\ DOMAIN notified = 1 .. Len(notified) /\ \A j \in 1 .. Len(notified) : notified[j] \in E
    BY <2>0
  <2>2. i + 1 \in 1 .. Len(notified) /\ i \in Nat
    BY <2>1
  <2>3. \A j \in 1 .. i : j \in 1 .. Len(notified) /\ j < i + 1 /\ j \in 1 .. i + 1
    BY <2>1, <2>2
  <2>4. \A j \in 1 .. i : notified[j] < x
    BY <2>1, <2>2, <2>3 DEF NotifiedOnce
  <2>5. \A j \in 1 .. i + 1 : j \in 1 .. i \/ j = i + 1
    BY <2>2
  <2> QED BY <2>1, <2>2, <2>3, <2>4, <2>5 DEF E
<1>2. /\ r \in Seq(1 .. MaxEvents)
      /\ \A k, l \in 1 .. Len(r) : k < l => r[k] < r[l]
      /\ \A k \in 1 .. Len(r) : \E j \in 1 .. i : r[k] = notified[j]
      /\ \A j \in 1 .. i : Key(notified[j]) # Key(n) => \E k \in 1 .. Len(r) : r[k] = notified[j]
  BY DEF OthersUpTo
<1> HIDE DEF x
<1>3. CASE Key(x) = Key(n)
  <2>1. p = r
    BY <1>3 DEF x
  <2>2. \A k \in 1 .. Len(r) : \E j \in 1 .. i + 1 : r[k] = notified[j]
    BY <1>1, <1>2
  <2>3. \A j \in 1 .. i + 1 : Key(notified[j]) # Key(n) => \E k \in 1 .. Len(r) : r[k] = notified[j]
    BY <1>1, <1>2, <1>3 DEF x
  <2> QED BY <1>2, <2>1, <2>2, <2>3 DEF OthersUpTo
<1>4. CASE Key(x) # Key(n)
  <2>1. p = Append(r, x)
    BY <1>4 DEF x
  <2>2. /\ p \in Seq(1 .. MaxEvents) /\ Len(p) = Len(r) + 1 /\ Len(r) \in Nat /\ p[Len(r) + 1] = x
        /\ \A k \in 1 .. Len(r) : p[k] = r[k]
        /\ \A k \in 1 .. Len(p) : k \in 1 .. Len(r) \/ k = Len(r) + 1
    <3> DEFINE E == 1 .. MaxEvents
    <3>1. r \in Seq(E) /\ x \in E
      BY <1>1, <1>2
    <3> HIDE DEF E
    <3>2. /\ p \in Seq(E) /\ Len(p) = Len(r) + 1 /\ Len(r) \in Nat /\ p[Len(r) + 1] = x
          /\ \A k \in 1 .. Len(r) : p[k] = r[k]
      BY <2>1, <3>1
    <3>3. \A k \in 1 .. Len(p) : k \in 1 .. Len(r) \/ k = Len(r) + 1
      BY <3>2
    <3> QED BY <3>2, <3>3 DEF E
  <2>3. ASSUME NEW k \in 1 .. Len(p), NEW l \in 1 .. Len(p), k < l PROVE p[k] < p[l]
    <3>1. CASE l = Len(r) + 1
      <4>1. k \in 1 .. Len(r)
        BY <2>2, <2>3, <3>1
      <4>2. PICK j \in 1 .. i : r[k] = notified[j]
        BY <4>1, <1>2
      <4> QED BY <1>1, <2>2, <3>1, <4>1, <4>2
    <3>2. CASE l \in 1 .. Len(r)
      <4>1. k \in 1 .. Len(r)
        BY <2>2, <2>3, <3>2
      <4> QED BY <1>2, <2>2, <2>3, <3>2, <4>1
    <3> QED BY <2>2, <3>1, <3>2
  <2>4. ASSUME NEW k \in 1 .. Len(p) PROVE \E j \in 1 .. i + 1 : p[k] = notified[j]
    <3>1. CASE k = Len(r) + 1
      BY <1>1, <2>2, <3>1 DEF x
    <3>2. CASE k \in 1 .. Len(r)
      BY <1>1, <1>2, <2>2, <3>2
    <3> QED BY <2>2, <3>1, <3>2
  <2>5. ASSUME NEW j \in 1 .. i + 1, Key(notified[j]) # Key(n) PROVE \E k \in 1 .. Len(p) : p[k] = notified[j]
    <3>1. CASE j = i + 1
      <4>1. p[Len(p)] = notified[j] /\ Len(p) \in 1 .. Len(p)
        BY <2>2, <3>1 DEF x
      <4> QED BY <4>1
    <3>2. CASE j \in 1 .. i
      <4>1. PICK k \in 1 .. Len(r) : r[k] = notified[j]
        BY <1>2, <2>5, <3>2
      <4>2. k \in 1 .. Len(p) /\ p[k] = notified[j]
        BY <2>2, <4>1
      <4> QED BY <4>2
    <3> QED BY <1>1, <3>1, <3>2
  <2> QED BY <2>2, <2>3, <2>4, <2>5 DEF OthersUpTo
<1> QED BY <1>3, <1>4

LEMMA OthersAre ==
  ASSUME notified \in Seq(1 .. MaxEvents), NotifiedOnce, NEW n
  PROVE  OthersUpTo(n, OfOtherKeys(n), Len(notified))
<1> DEFINE S == {i \in 0 .. Len(notified) : OthersUpTo(n, OthersTo(n)[i], i)}
<1>0. /\ OthersTo(n)[0] = <<>> /\ Len(notified) \in Nat
      /\ \A i \in 1 .. Len(notified) :
           OthersTo(n)[i] = IF Key(notified[i]) # Key(n) THEN Append(OthersTo(n)[i - 1], notified[i]) ELSE OthersTo(n)[i - 1]
  BY OthersToAre
<1>1. 0 \in S
  <2>1. <<>> \in Seq(1 .. MaxEvents) /\ Len(<<>>) = 0
    OBVIOUS
  <2>2. OthersUpTo(n, <<>>, 0)
    BY <2>1 DEF OthersUpTo
  <2> QED BY <1>0, <2>2
<1>2. ASSUME NEW i \in 0 .. Len(notified) - 1, i \in S PROVE i + 1 \in S
  <2>1. i + 1 \in 1 .. Len(notified) /\ (i + 1) - 1 = i /\ i + 1 \in 0 .. Len(notified)
    BY <1>0
  <2>2. OthersUpTo(n, OthersTo(n)[i], i)
    BY <1>2
  <2>3. OthersTo(n)[i + 1] = IF Key(notified[i + 1]) # Key(n) THEN Append(OthersTo(n)[i], notified[i + 1]) ELSE OthersTo(n)[i]
    BY <2>1, <1>0
  <2>4. OthersUpTo(n, OthersTo(n)[i + 1], i + 1)
    BY <2>2, <2>3, OthersGoOn
  <2> QED BY <2>1, <2>4
<1>3. \A i \in 0 .. Len(notified) - 1 : i \in S => i + 1 \in S
  BY <1>2
<1> HIDE DEF S
<1>4. \A i \in 0 .. Len(notified) : i \in S
  BY <1>0, <1>1, <1>3, UpTo
<1>5. Len(notified) \in S
  BY <1>0, <1>4
<1> QED BY <1>5, OthersToAre DEF S

(* The messages are told apart by their types, the events by their numbers.  *)
LEMMA FeedMessages ==
  /\ Broadcasts \cap {Open, Refused, Bye, Lost} = {}
  /\ Open # Refused /\ Open # Bye /\ Open # Lost /\ Refused # Bye /\ Refused # Lost /\ Bye # Lost
  /\ \A m \in Broadcasts : m.event \in 1 .. MaxEvents /\ m = Event(m.event)
  /\ \A n : Event(n).event = n
  /\ \A n \in 1 .. MaxEvents : Event(n) \in Broadcasts
BY SMTT(60) DEF Broadcasts, Event, Open, Refused, Bye, Lost

LEMMA ShapedTail ==
  ASSUME NEW b, NEW s, NEW q, Shaped(b, s, q), q # <<>>, Head(q) \notin {Refused, Bye, Lost}
  PROVE  Shaped("open", s, Tail(q))
<1> DEFINE p == Tail(q)
<1>1. /\ q \in Seq(FeedSays) /\ s # "closing"
      /\ s \in {"idle", "upgrading"} => q \in {<<>>, <<Lost>>}
      /\ \A k \in 1 .. Len(q) : /\ q[k] = Open => k = 1
                                /\ q[k] = Refused => Len(q) = 1
                                /\ q[k] = Bye => k = Len(q) /\ s = "closed"
                                /\ q[k] = Lost => Len(q) = 1
  BY DEF Shaped
<1>2. /\ Len(p) = Len(q) - 1 /\ Len(q) \in Nat \ {0} /\ Head(q) = q[1] /\ p \in Seq(FeedSays)
      /\ \A k \in 1 .. Len(p) : p[k] = q[k + 1] /\ k + 1 \in 1 .. Len(q) /\ k + 1 # 1
  <2> HIDE DEF p
  <2>1. p = Tail(q)
    BY DEF p
  <2> QED BY <1>1, <2>1
<1> HIDE DEF p
<1>3. s \notin {"idle", "upgrading"}
  <2>1. Head(<<Lost>>) = Lost
    OBVIOUS
  <2> QED BY <1>1, <2>1
<1>4. ASSUME NEW k \in 1 .. Len(p)
      PROVE  /\ p[k] # Open /\ p[k] # Refused /\ p[k] # Lost
             /\ p[k] = Bye => k = Len(p) /\ s = "closed"
  <2>1. p[k] = q[k + 1] /\ k + 1 \in 1 .. Len(q) /\ k + 1 # 1 /\ Len(q) # 1
    BY <1>2
  <2> QED BY <1>1, <1>2, <2>1
<1> QED BY <1>1, <1>2, <1>3, <1>4, Zenon DEF Shaped, p

LEMMA ShapedEvent ==
  ASSUME NEW b, NEW q, Shaped(b, "open", q), q # <<Lost>>, NEW m \in Broadcasts
  PROVE  Shaped(b, "open", Append(q, m)) /\ q \in Seq(FeedSays)
<1> DEFINE p == Append(q, m)
<1>1. /\ q \in Seq(FeedSays) /\ m \in FeedSays
      /\ \A k \in 1 .. Len(q) : /\ q[k] = Open => k = 1 /\ b = "connecting"
                                /\ q[k] # Refused /\ q[k] # Bye
                                /\ q[k] = Lost => Len(q) = 1
  BY DEF Shaped, FeedSays
<1>2. \A k \in 1 .. Len(q) : q[k] # Lost
  BY <1>1
<1>3. /\ Len(p) = Len(q) + 1 /\ Len(q) \in Nat /\ p[Len(q) + 1] = m /\ p \in Seq(FeedSays)
      /\ \A k \in 1 .. Len(q) : p[k] = q[k]
  BY <1>1
<1> HIDE DEF p
<1>4. \A k \in 1 .. Len(p) : k \in 1 .. Len(q) \/ k = Len(q) + 1
  BY <1>3
<1>5. m \notin {Open, Refused, Bye, Lost}
  BY FeedMessages
<1>6. ASSUME NEW k \in 1 .. Len(p)
      PROVE  p[k] \notin {Refused, Bye, Lost} /\ (p[k] = Open => k = 1 /\ b = "connecting")
  BY <1>1, <1>2, <1>3, <1>4, <1>5
<1> QED BY <1>1, <1>3, <1>6 DEF Shaped, p

LEMMA ShapedBye ==
  ASSUME NEW b, NEW q, Shaped(b, "open", q)
  PROVE  Shaped(b, "closed", q) /\ (q # <<Lost>> => Shaped(b, "closed", Append(q, Bye)))
<1> DEFINE p == Append(q, Bye)
<1>1. /\ q \in Seq(FeedSays) /\ Bye \in FeedSays
      /\ \A k \in 1 .. Len(q) : /\ q[k] = Open => k = 1 /\ b = "connecting"
                                /\ q[k] # Refused /\ q[k] # Bye
                                /\ q[k] = Lost => Len(q) = 1
  BY DEF Shaped, FeedSays
<1>2. Shaped(b, "closed", q)
  BY <1>1 DEF Shaped
<1>3. /\ Len(p) = Len(q) + 1 /\ Len(q) \in Nat /\ p[Len(q) + 1] = Bye /\ p \in Seq(FeedSays)
      /\ \A k \in 1 .. Len(q) : p[k] = q[k]
  BY <1>1
<1> HIDE DEF p
<1>4. \A k \in 1 .. Len(p) : k \in 1 .. Len(q) \/ k = Len(q) + 1
  BY <1>3
<1>5. ASSUME q # <<Lost>> PROVE Shaped(b, "closed", p)
  <2>1. \A k \in 1 .. Len(q) : q[k] # Lost
    BY <1>1, <1>5
  <2>2. ASSUME NEW k \in 1 .. Len(p)
        PROVE  /\ p[k] \notin {Refused, Lost} /\ (p[k] = Open => k = 1 /\ b = "connecting")
               /\ p[k] = Bye => k = Len(p)
    BY <1>1, <1>3, <1>4, <2>1, FeedMessages
  <2> QED BY <1>3, <2>2 DEF Shaped
<1> QED BY <1>2, <1>5 DEF p

(* Before the server's end is open there is nothing to lose.                 *)
LEMMA ShapedBefore ==
  /\ Shaped("connecting", "open", <<Open>>)
  /\ \A s \in {"idle", "upgrading", "open", "closed"} : Shaped("connecting", s, <<Lost>>) /\ Shaped("connecting", s, <<>>)
  /\ \A s \in {"open", "closed"} : Shaped("open", s, <<Lost>>)
  /\ Shaped("connecting", "closed", <<Refused>>)
<1>1. \A m \in {Open, Lost, Refused} : <<m>> \in Seq(FeedSays) /\ Len(<<m>>) = 1 /\ <<m>>[1] = m
  BY DEF FeedSays
<1>2. <<>> \in Seq(FeedSays) /\ Len(<<>>) = 0
  OBVIOUS
<1>3. \A q, k : Len(q) = 1 /\ k \in 1 .. Len(q) => k = 1
  OBVIOUS
<1>4. \A k : k \in 1 .. 0 => FALSE
  OBVIOUS
<1> DEFINE o == <<Open>>
           l == <<Lost>>
           r == <<Refused>>
           n == <<>>
<1>5. /\ o \in Seq(FeedSays) /\ Len(o) = 1 /\ o[1] = Open
      /\ l \in Seq(FeedSays) /\ Len(l) = 1 /\ l[1] = Lost /\ l = <<Lost>>
      /\ r \in Seq(FeedSays) /\ Len(r) = 1 /\ r[1] = Refused
      /\ n \in Seq(FeedSays) /\ Len(n) = 0 /\ n = <<>>
  BY <1>1, <1>2
<1> HIDE DEF o, l, r, n
<1>6. Shaped("connecting", "open", o)
  BY <1>3, <1>5, FeedMessages DEF Shaped
<1>7. Shaped("connecting", "closed", r)
  BY <1>3, <1>5, FeedMessages DEF Shaped
<1>8. ASSUME NEW s \in {"idle", "upgrading", "open", "closed"}
      PROVE  Shaped("connecting", s, l) /\ Shaped("connecting", s, n)
  BY <1>3, <1>4, <1>5, FeedMessages DEF Shaped
<1>9. ASSUME NEW s \in {"open", "closed"} PROVE Shaped("open", s, l)
  BY <1>3, <1>5, FeedMessages DEF Shaped
<1> QED BY <1>6, <1>7, <1>8, <1>9 DEF o, l, r, n

LEMMA UpcomingTail ==
  ASSUME NEW q, NEW S, q \in Seq(S), q # <<>>, NEW shows, NEW more, NEW last, Upcoming(q, shows, last),
         \A i \in 1 .. Len(more) : \/ \E j \in 1 .. Len(shows) : more[i] = shows[j]
                                   \/ Head(q) \in Broadcasts /\ more[i] = Head(q).event
  PROVE  Upcoming(Tail(q), more, last)
<1> DEFINE p == Tail(q)
<1>1. /\ Len(p) = Len(q) - 1 /\ Len(q) \in Nat \ {0} /\ Head(q) = q[1] /\ 1 \in 1 .. Len(q)
      /\ \A k \in 1 .. Len(p) : p[k] = q[k + 1] /\ k + 1 \in 1 .. Len(q) /\ 1 < k + 1
      /\ \A k, l \in 1 .. Len(p) : k < l => k + 1 < l + 1
  OBVIOUS
<1> HIDE DEF p
<1>2. ASSUME NEW k \in 1 .. Len(p), p[k] \in Broadcasts
      PROVE  p[k].event <= last /\ \A i \in 1 .. Len(more) : more[i] < p[k].event
  BY <1>1, <1>2 DEF Upcoming
<1>3. ASSUME NEW k \in 1 .. Len(p), NEW l \in 1 .. Len(p), k < l, p[k] \in Broadcasts, p[l] \in Broadcasts
      PROVE  p[k].event < p[l].event
  BY <1>1, <1>3 DEF Upcoming
<1> QED BY <1>2, <1>3 DEF Upcoming, p

LEMMA UpcomingMore ==
  ASSUME NEW q, NEW S, q \in Seq(S), NEW shows, NEW last \in Nat, NEW next \in Nat, last <= next, NEW m,
         Upcoming(q, shows, last), \A i \in 1 .. Len(shows) : shows[i] \in Nat /\ shows[i] <= last,
         m \in Broadcasts => last < next /\ m.event = next
  PROVE  Upcoming(q, shows, next) /\ Upcoming(Append(q, m), shows, next)
<1> DEFINE p == Append(q, m)
<1>1. /\ Len(p) = Len(q) + 1 /\ Len(q) \in Nat /\ p[Len(q) + 1] = m
      /\ \A k \in 1 .. Len(q) : p[k] = q[k]
  OBVIOUS
<1> HIDE DEF p
<1>2. \A k \in 1 .. Len(p) : k \in 1 .. Len(q) \/ k = Len(q) + 1
  BY <1>1
<1>3. ASSUME NEW k \in 1 .. Len(q), q[k] \in Broadcasts
      PROVE  /\ q[k].event <= next /\ q[k].event <= last /\ \A i \in 1 .. Len(shows) : shows[i] < q[k].event
  <2>1. q[k].event \in Nat
    BY <1>3, FeedMessages
  <2>2. q[k].event <= last /\ \A i \in 1 .. Len(shows) : shows[i] < q[k].event
    BY <1>3 DEF Upcoming
  <2> QED BY <2>1, <2>2
<1>4. Upcoming(q, shows, next)
  BY <1>3 DEF Upcoming
<1>5. ASSUME NEW k \in 1 .. Len(p), p[k] \in Broadcasts
      PROVE  p[k].event <= next /\ \A i \in 1 .. Len(shows) : shows[i] < p[k].event
  <2>1. CASE k = Len(q) + 1
    BY <1>1, <1>5, <2>1
  <2>2. CASE k \in 1 .. Len(q)
    BY <1>1, <1>3, <1>5, <2>2
  <2> QED BY <1>2, <2>1, <2>2
<1>6. ASSUME NEW k \in 1 .. Len(p), NEW l \in 1 .. Len(p), k < l, p[k] \in Broadcasts, p[l] \in Broadcasts
      PROVE  p[k].event < p[l].event
  <2>0. k \in 1 .. Len(q)
    BY <1>1, <1>2, <1>6
  <2>1. CASE l = Len(q) + 1
    <3>1. p[k].event <= last /\ p[l].event = next /\ last < next /\ p[k].event \in Nat
      BY <1>1, <1>3, <1>6, <2>0, <2>1, FeedMessages
    <3> QED BY <3>1
  <2>2. CASE l \in 1 .. Len(q)
    BY <1>1, <1>6, <2>0, <2>2 DEF Upcoming
  <2> QED BY <1>2, <2>1, <2>2
<1> QED BY <1>4, <1>5, <1>6 DEF Upcoming, p

LEMMA OnItsWayAppends ==
  ASSUME NEW q, NEW S, q \in Seq(S), NEW m
  PROVE  /\ \A n : OnItsWay(q, n) => OnItsWay(Append(q, m), n)
         /\ \A n : m = Event(n) => OnItsWay(Append(q, m), n)
<1> DEFINE p == Append(q, m)
<1>1. /\ Len(p) = Len(q) + 1 /\ Len(q) \in Nat /\ p[Len(q) + 1] = m /\ Len(q) + 1 \in 1 .. Len(p)
      /\ \A k \in 1 .. Len(q) : p[k] = q[k] /\ k \in 1 .. Len(p)
  OBVIOUS
<1> HIDE DEF p
<1> QED BY <1>1 DEF OnItsWay, p

LEMMA OnItsWayTail ==
  ASSUME NEW q, NEW S, q \in Seq(S), q # <<>>
  PROVE  \A n : OnItsWay(q, n) => Head(q) = Event(n) \/ OnItsWay(Tail(q), n)
<1> DEFINE p == Tail(q)
<1>1. /\ Len(p) = Len(q) - 1 /\ Len(q) \in Nat \ {0} /\ Head(q) = q[1]
      /\ \A k \in 1 .. Len(p) : p[k] = q[k + 1]
      /\ \A k \in 1 .. Len(q) : k = 1 \/ (k - 1 \in 1 .. Len(p) /\ (k - 1) + 1 = k)
  OBVIOUS
<1> HIDE DEF p
<1>2. ASSUME NEW n, NEW k \in 1 .. Len(q), q[k] = Event(n) PROVE Head(q) = Event(n) \/ OnItsWay(p, n)
  <2>1. CASE k = 1
    BY <1>1, <1>2, <2>1
  <2>2. CASE k # 1
    <3>1. k - 1 \in 1 .. Len(p) /\ p[k - 1] = Event(n)
      BY <1>1, <1>2, <2>2
    <3> QED BY <3>1 DEF OnItsWay
  <2> QED BY <2>1, <2>2
<1> QED BY <1>2 DEF OnItsWay, p

LEMMA FeedNumbers ==
  ASSUME FeedTypes
  PROVE  /\ MaxEvents \in Nat /\ events \in Nat /\ events <= MaxEvents
         /\ \A n \in 1 .. events : n \in 1 .. MaxEvents /\ Event(n) \in Broadcasts
         /\ Len(notified) \in Nat /\ DOMAIN notified = 1 .. Len(notified)
         /\ \A i \in 1 .. Len(notified) : notified[i] \in 1 .. MaxEvents /\ notified[i] \in Nat
<1>1. MaxEvents \in Nat /\ events \in Nat /\ events <= MaxEvents
  BY FeedAssumption DEF FeedTypes
<1>2. \A n \in 1 .. events : n \in 1 .. MaxEvents
  BY <1>1
<1>3. \A n \in 1 .. events : Event(n) \in Broadcasts
  BY <1>2, FeedMessages
<1> DEFINE E == 1 .. MaxEvents
<1>4. notified \in Seq(E) /\ \A n \in E : n \in Nat
  BY DEF FeedTypes
<1> HIDE DEF E
<1>5. /\ Len(notified) \in Nat /\ DOMAIN notified = 1 .. Len(notified)
      /\ \A i \in 1 .. Len(notified) : notified[i] \in E /\ notified[i] \in Nat
  BY <1>4
<1> QED BY <1>1, <1>2, <1>3, <1>5 DEF E

(* A step of the socket c the page takes no part in.                         *)
LEMMA SocketFeeds ==
  ASSUME FeedInv, NEW c \in Socks, PerSocket', Others(c), UNCHANGED feedHookVars, events' = events,
         browser'[c] = browser[c], browser[c] # "new",
         subscribers' \subseteq Socks, \A d \in Socks : d # c => (d \in subscribers' <=> d \in subscribers),
         server'[c] # "closing", c \in subscribers' <=> server'[c] = "open",
         Connected(c) => /\ Shaped(browser[c], server'[c], downstream'[c])
                         /\ Upcoming(downstream'[c], notified, events),
         missed \subseteq missed', missed' \subseteq 1 .. MaxEvents,
         Connected(c) => \A n \in (1 .. events) \ missed' : OnItsWay(downstream[c], n) => OnItsWay(downstream'[c], n)
  PROVE  FeedInv'
<1> USE DEF FeedInv
<1>1. UNCHANGED <<stopped, feedRef, reconnect, notified, events>>
  BY DEF feedHookVars
<1>2. FeedTypes' /\ (reconnect' => ~stopped')
  BY <1>1 DEF FeedTypes
<1>3. ASSUME NEW d \in Socks PROVE Feeding(d)'
  <2>1. Feeding(d)
    OBVIOUS
  <2>2. CASE d = c
    BY <1>1, <2>1, <2>2 DEF Feeding, Connected
  <2>3. CASE d # c
    <3>1. browser'[d] = browser[d] /\ server'[d] = server[d] /\ downstream'[d] = downstream[d]
      BY <2>3 DEF Others, Still
    <3> QED BY <1>1, <2>1, <2>3, <3>1 DEF Feeding, Connected
  <2> QED BY <2>2, <2>3
<1>4. NotifiedOnce' /\ \A i \in 1 .. Len(notified') : notified'[i] <= events'
  BY <1>1 DEF NotifiedOnce
<1>5. ASSUME ~stopped, NEW n \in (1 .. events) \ missed'
      PROVE  Told(notified, n) \/ \E d \in Socks : Connected(d)' /\ OnItsWay(downstream'[d], n)
  <2>1. Told(notified, n) \/ \E d \in Socks : Connected(d) /\ OnItsWay(downstream[d], n)
    BY <1>5 DEF AllTold
  <2>2. ASSUME NEW d \in Socks, Connected(d), OnItsWay(downstream[d], n)
        PROVE  Connected(d)' /\ OnItsWay(downstream'[d], n)
    BY <1>5, <2>2 DEF Connected, Others, Still
  <2> QED BY <2>1, <2>2
<1>6. AllTold'
  BY <1>1, <1>5 DEF AllTold
<1> QED BY <1>2, <1>3, <1>4, <1>6

LEMMA AdmittedFeeds ==
  ASSUME FeedInv, NEW c \in Socks, FeedAdmitted(c) PROVE FeedInv'
<1> USE DEF FeedInv
<1>1. /\ PerSocket' /\ Others(c) /\ browser'[c] = browser[c] /\ server[c] = "upgrading" /\ server'[c] = "open"
      /\ downstream'[c] \in {downstream[c], Append(downstream[c], Open)}
      /\ downstream[c] = <<Lost>> => downstream'[c] = downstream[c]
      /\ Connected(c) /\ downstream[c] # <<Lost>> => downstream'[c] = Append(downstream[c], Open)
  BY UpgradedAt DEF FeedAdmitted, FeedTypes
<1>2. subscribers' = subscribers \cup {c} /\ UNCHANGED feedHookVars /\ events' = events /\ missed' = missed
  BY DEF FeedAdmitted
<1>3. Feeding(c) /\ browser[c] # "new"
  BY <1>1 DEF Feeding
<1>4. ASSUME Connected(c)
      PROVE  /\ Shaped(browser[c], server'[c], downstream'[c]) /\ Upcoming(downstream'[c], notified, events)
             /\ \A n \in (1 .. events) \ missed' : OnItsWay(downstream[c], n) => OnItsWay(downstream'[c], n)
  <2>1. browser[c] = "connecting" /\ downstream[c] \in {<<>>, <<Lost>>}
    BY <1>1, <1>3, <1>4 DEF Feeding, Shaped
  <2>2. Append(<<>>, Open) = <<Open>>
    OBVIOUS
  <2>3. downstream'[c] \in {<<Open>>, <<Lost>>}
    BY <1>1, <1>4, <2>1, <2>2
  <2>4. \A k \in 1 .. Len(downstream'[c]) : downstream'[c][k] \notin Broadcasts
    BY <2>3, FeedMessages
  <2>5. \A n \in 1 .. events : ~OnItsWay(downstream[c], n)
    <3>1. \A n \in 1 .. events : Event(n) \in Broadcasts
      BY FeedNumbers
    <3> QED BY <2>1, <3>1, FeedMessages DEF OnItsWay
  <2> QED BY <1>1, <2>1, <2>3, <2>4, <2>5, ShapedBefore DEF Upcoming
<1> QED BY <1>1, <1>2, <1>3, <1>4, SocketFeeds DEF FeedTypes

LEMMA RejectedFeeds ==
  ASSUME FeedInv, NEW c \in Socks, FeedRejected(c) PROVE FeedInv'
<1> USE DEF FeedInv
<1>1. /\ PerSocket' /\ Others(c) /\ browser'[c] = browser[c] /\ browser[c] # "new"
      /\ server[c] \in {"idle", "upgrading"}
      /\ \/ server'[c] = "upgrading" /\ downstream'[c] = downstream[c]
         \/ server'[c] = "closed" /\ downstream'[c] \in {downstream[c], Append(downstream[c], Refused)}
      /\ downstream[c] = <<Lost>> => downstream'[c] = downstream[c]
  <2>1. CASE Upgrade(c)
    BY <2>1, UpgradeAt DEF FeedTypes
  <2>2. CASE UpgradeRefused(c)
    <3>1. server[c] = "upgrading"
      BY <2>2 DEF UpgradeRefused
    <3>2. browser[c] # "new"
      BY <3>1 DEF Feeding
    <3> QED BY <2>2, <3>2, UpgradeRefusedAt DEF FeedTypes
  <2> QED BY <2>1, <2>2 DEF FeedRejected
<1>2. subscribers' = subscribers /\ UNCHANGED feedHookVars /\ events' = events /\ missed' = missed
  BY DEF FeedRejected
<1>3. Feeding(c)
  OBVIOUS
<1>4. ASSUME Connected(c)
      PROVE  /\ Shaped(browser[c], server'[c], downstream'[c]) /\ Upcoming(downstream'[c], notified, events)
             /\ \A n \in (1 .. events) \ missed' : OnItsWay(downstream[c], n) => OnItsWay(downstream'[c], n)
  <2>1. browser[c] = "connecting" /\ downstream[c] \in {<<>>, <<Lost>>}
    BY <1>1, <1>3, <1>4 DEF Feeding, Shaped
  <2>2. Append(<<>>, Refused) = <<Refused>>
    OBVIOUS
  <2>3. downstream'[c] \in {<<>>, <<Lost>>} \/ (server'[c] = "closed" /\ downstream'[c] = <<Refused>>)
    BY <1>1, <1>4, <2>1, <2>2
  <2>4. \A k \in 1 .. Len(downstream'[c]) : downstream'[c][k] \notin Broadcasts
    BY <2>3, FeedMessages
  <2>5. \A n \in 1 .. events : ~OnItsWay(downstream[c], n)
    <3>1. \A n \in 1 .. events : Event(n) \in Broadcasts
      BY FeedNumbers
    <3> QED BY <2>1, <3>1, FeedMessages DEF OnItsWay
  <2> QED BY <1>1, <2>1, <2>3, <2>4, <2>5, ShapedBefore DEF Upcoming
<1>5. c \notin subscribers
  BY <1>1, <1>3 DEF Feeding
<1> QED BY <1>1, <1>2, <1>4, <1>5, SocketFeeds DEF FeedTypes

LEMMA GoneFeeds ==
  ASSUME FeedInv, NEW c \in Socks, FeedGone(c) PROVE FeedInv'
<1> USE DEF FeedInv
<1>1. /\ PerSocket' /\ Others(c) /\ browser'[c] = browser[c] /\ server[c] \in {"open", "closing"} /\ server'[c] = "closed"
      /\ downstream'[c] \in {downstream[c], Append(downstream[c], Bye)}
  BY ServerClosedAt DEF FeedGone, FeedTypes
<1>2. downstream[c] = <<Lost>> => downstream'[c] = downstream[c]
  BY ToBrowserAt DEF FeedGone, ServerClosed
<1>3. subscribers' = subscribers \ {c} /\ UNCHANGED feedHookVars /\ events' = events /\ missed' = missed
  BY DEF FeedGone
<1>4. Feeding(c) /\ server[c] = "open" /\ browser[c] # "new"
  BY <1>1 DEF Feeding
<1>5. ASSUME Connected(c)
      PROVE  /\ Shaped(browser[c], server'[c], downstream'[c]) /\ Upcoming(downstream'[c], notified, events)
             /\ \A n \in (1 .. events) \ missed' : OnItsWay(downstream[c], n) => OnItsWay(downstream'[c], n)
  <2> DEFINE q == downstream[c]
  <2>1. Shaped(browser[c], "open", q) /\ Upcoming(q, notified, events)
    BY <1>4, <1>5 DEF Feeding
  <2>2. q \in Seq(FeedSays)
    BY <2>1 DEF Shaped
  <2> HIDE DEF q
  <2>3. Shaped(browser[c], "closed", q) /\ (q # <<Lost>> => Shaped(browser[c], "closed", Append(q, Bye)))
    BY <2>1, ShapedBye
  <2>4. Upcoming(Append(q, Bye), notified, events)
    <3>1. events \in Nat /\ Bye \notin Broadcasts
      BY FeedMessages DEF FeedTypes
    <3>2. \A i \in 1 .. Len(notified) : notified[i] \in Nat /\ notified[i] <= events
      BY FeedNumbers
    <3> QED BY <2>1, <2>2, <3>1, <3>2, UpcomingMore
  <2>5. \A n : OnItsWay(q, n) => OnItsWay(Append(q, Bye), n)
    BY <2>2, OnItsWayAppends
  <2> QED BY <1>1, <1>2, <2>1, <2>3, <2>4, <2>5 DEF q
<1> QED BY <1>1, <1>3, <1>4, <1>5, SocketFeeds DEF FeedTypes

LEMMA LostFeeds ==
  ASSUME FeedInv, NEW c \in Socks, FeedLost(c) PROVE FeedInv'
<1> USE DEF FeedInv
<1>1. /\ PerSocket' /\ Others(c) /\ browser'[c] = browser[c] /\ server'[c] = server[c]
      /\ server[c] \in {"upgrading", "open", "closing"}
      /\ Connected(c) => downstream'[c] = <<Lost>>
  BY DropAt DEF FeedLost, FeedTypes, Connected
<1>2. /\ subscribers' = subscribers /\ UNCHANGED feedHookVars /\ events' = events
      /\ missed' = missed \cup {n \in 1 .. events : \E i \in DOMAIN downstream[c] : downstream[c][i] = Event(n)}
  BY DEF FeedLost
<1>3. Feeding(c) /\ browser[c] # "new"
  BY <1>1 DEF Feeding
<1>4. missed \subseteq missed' /\ missed' \subseteq 1 .. MaxEvents
  BY <1>2, FeedNumbers DEF FeedTypes
<1>5. ASSUME Connected(c)
      PROVE  /\ Shaped(browser[c], server'[c], downstream'[c]) /\ Upcoming(downstream'[c], notified, events)
             /\ \A n \in (1 .. events) \ missed' : ~OnItsWay(downstream[c], n)
  <2>1. browser[c] \in {"connecting", "open"} /\ Shaped(browser[c], server[c], downstream[c])
    BY <1>3, <1>5 DEF Feeding, Connected
  <2>2. (server[c] = "upgrading" => browser[c] = "connecting") /\ server[c] # "closing" /\ downstream[c] \in Seq(FeedSays)
    BY <2>1 DEF Shaped
  <2>3. Shaped(browser[c], server[c], <<Lost>>)
    BY <1>1, <2>1, <2>2, ShapedBefore
  <2>4. Upcoming(<<Lost>>, notified, events)
    BY FeedMessages DEF Upcoming
  <2>5. DOMAIN downstream[c] = 1 .. Len(downstream[c])
    BY <2>2
  <2>6. \A n \in (1 .. events) \ missed' : ~OnItsWay(downstream[c], n)
    BY <1>2, <2>5 DEF OnItsWay
  <2> QED BY <1>1, <1>5, <2>3, <2>4, <2>6
<1>6. server'[c] # "closing" /\ (c \in subscribers' <=> server'[c] = "open")
  BY <1>1, <1>2, <1>3 DEF Feeding
<1> QED BY <1>1, <1>2, <1>3, <1>4, <1>5, <1>6, SocketFeeds DEF FeedTypes

(* No page has another connection than its last, nor any while it waits.     *)
LEMMA ConnectsFeeds ==
  ASSUME FeedInv, NEW c \in Socks, FeedConnects(c) PROVE FeedInv'
<1> USE DEF FeedInv
<1>1. /\ reconnect /\ feedRef' = c /\ reconnect' = FALSE
      /\ UNCHANGED <<server, upstream, downstream, stopped, notified, subscribers, events, missed>>
      /\ browser[c] = "new" /\ browser' = [browser EXCEPT ![c] = "connecting"]
  BY DEF FeedConnects, Constructed, Unused
<1>2. browser'[c] = "connecting" /\ \A d \in Socks : d # c => browser'[d] = browser[d]
  BY <1>1 DEF FeedTypes, PerSocket
<1>3. FeedTypes'
  BY <1>1 DEF FeedTypes, PerSocket
<1>4. ~stopped /\ \A d \in Socks : browser[d] \in {"new", "closed"}
  BY <1>1 DEF Feeding
<1>5. ASSUME NEW d \in Socks PROVE Feeding(d)'
  <2>1. Feeding(d)
    OBVIOUS
  <2>2. CASE d = c
    <3>1. server[c] = "idle" /\ downstream[c] = <<>>
      BY <1>1, <2>1, <2>2 DEF Feeding
    <3>2. Shaped("connecting", "idle", <<>>)
      BY ShapedBefore
    <3>3. Upcoming(<<>>, notified, events)
      BY DEF Upcoming
    <3> QED BY <1>1, <1>2, <1>4, <2>1, <2>2, <3>1, <3>2, <3>3 DEF Feeding
  <2>3. CASE d # c
    BY <1>1, <1>2, <1>4, <2>1, <2>3 DEF Feeding, Connected
  <2> QED BY <2>2, <2>3
<1>6. NotifiedOnce' /\ \A i \in 1 .. Len(notified') : notified'[i] <= events'
  BY <1>1 DEF NotifiedOnce
<1>7. \A n \in (1 .. events) \ missed : Told(notified, n)
  BY <1>4 DEF AllTold, Connected
<1>8. AllTold'
  BY <1>1, <1>7 DEF AllTold
<1> QED BY <1>1, <1>3, <1>4, <1>5, <1>6, <1>8

LEMMA OpensFeeds ==
  ASSUME FeedInv, NEW c \in Socks, FeedOpens(c) PROVE FeedInv'
<1> USE DEF FeedInv
<1> DEFINE q == downstream[c]
<1>1. /\ browser' \in [Socks -> {"new", "connecting", "open", "closing", "failing", "closed"}]
      /\ server' = server /\ downstream' = [d \in Socks |-> downstream'[d]]
      /\ browser[c] = "connecting" /\ browser'[c] = "open"
      /\ q # <<>> /\ Head(q) = Open /\ downstream'[c] = Tail(q)
      /\ \A d \in Socks \ {c} : browser'[d] = browser[d] /\ downstream'[d] = downstream[d]
  BY BrowserOpensAt DEF FeedOpens, FeedTypes
<1>2. UNCHANGED <<upstream, stopped, feedRef, reconnect, notified, subscribers, events, missed>>
  BY DEF FeedOpens, feedHookVars
<1>3. FeedTypes'
  BY <1>1, <1>2 DEF FeedTypes, PerSocket
<1>4. /\ c = feedRef /\ ~reconnect /\ ~stopped /\ server[c] # "closing" /\ (c \in subscribers <=> server[c] = "open")
      /\ Shaped(browser[c], server[c], q) /\ Upcoming(q, notified, events)
  BY <1>1 DEF Feeding, Connected
<1>5. q \in Seq(FeedSays)
  BY <1>4 DEF Shaped
<1> HIDE DEF q
<1>6. Shaped("open", server[c], Tail(q))
  BY <1>1, <1>4, ShapedTail, FeedMessages
<1>7. Upcoming(Tail(q), notified, events)
  BY <1>1, <1>4, <1>5, UpcomingTail
<1>8. ASSUME NEW d \in Socks PROVE Feeding(d)'
  <2>1. CASE d = c
    BY <1>1, <1>2, <1>4, <1>6, <1>7, <2>1 DEF Feeding
  <2>2. CASE d # c
    <3>1. Feeding(d)
      OBVIOUS
    <3> QED BY <1>1, <1>2, <2>2, <3>1 DEF Feeding, Connected
  <2> QED BY <2>1, <2>2
<1>9. NotifiedOnce' /\ \A i \in 1 .. Len(notified') : notified'[i] <= events'
  BY <1>2 DEF NotifiedOnce
<1>10. ASSUME NEW n \in (1 .. events) \ missed
       PROVE  Told(notified, n) \/ \E d \in Socks : Connected(d)' /\ OnItsWay(downstream'[d], n)
  <2>1. Told(notified, n) \/ \E d \in Socks : Connected(d) /\ OnItsWay(downstream[d], n)
    BY <1>4 DEF AllTold
  <2>2. ASSUME NEW d \in Socks, Connected(d), OnItsWay(downstream[d], n)
        PROVE  Connected(d)' /\ OnItsWay(downstream'[d], n)
    <3>1. d = c
      BY <1>4, <2>2 DEF Feeding, Connected
    <3>2. Event(n) # Open
      BY FeedNumbers, FeedMessages
    <3>3. OnItsWay(Tail(q), n)
      BY <1>1, <1>5, <2>2, <3>1, <3>2, OnItsWayTail DEF q
    <3> QED BY <1>1, <3>1, <3>3 DEF Connected
  <2> QED BY <2>1, <2>2
<1>11. AllTold'
  BY <1>2, <1>10 DEF AllTold
<1> QED BY <1>2, <1>3, <1>8, <1>9, <1>11

(* A notification stands for the one before it of the same key.              *)
LEMMA ToldAnew ==
  ASSUME FeedTypes, NotifiedOnce, NEW n \in 1 .. MaxEvents, \A i \in 1 .. Len(notified) : notified[i] < n,
         NEW more, more = Append(OfOtherKeys(n), n)
  PROVE  /\ more \in Seq(1 .. MaxEvents)
         /\ \A i \in 1 .. Len(more) : (\E j \in 1 .. Len(notified) : more[i] = notified[j]) \/ more[i] = n
         /\ \A i, j \in 1 .. Len(more) : i < j => more[i] < more[j]
         /\ \A m \in 1 .. MaxEvents : m = n \/ Told(notified, m) => Told(more, m)
<1> DEFINE r == OfOtherKeys(n)
           E == 1 .. MaxEvents
<1>1. /\ r \in Seq(E)
      /\ \A k, l \in 1 .. Len(r) : k < l => r[k] < r[l]
      /\ \A k \in 1 .. Len(r) : \E j \in 1 .. Len(notified) : r[k] = notified[j]
      /\ \A j \in 1 .. Len(notified) : Key(notified[j]) # Key(n) => \E k \in 1 .. Len(r) : r[k] = notified[j]
  BY OthersAre DEF FeedTypes, OthersUpTo
<1>2. more = Append(r, n) /\ n \in E /\ n \in Nat /\ \A m \in E : m \in Nat
  OBVIOUS
<1> HIDE DEF r, E
<1>3. /\ more \in Seq(E) /\ Len(more) = Len(r) + 1 /\ Len(r) \in Nat /\ more[Len(r) + 1] = n
      /\ \A k \in 1 .. Len(r) : more[k] = r[k] /\ k \in 1 .. Len(more)
      /\ Len(r) + 1 \in 1 .. Len(more)
  BY <1>1, <1>2
<1>4. \A k \in 1 .. Len(more) : k \in 1 .. Len(r) \/ k = Len(r) + 1
  BY <1>3
<1>5. \A i \in 1 .. Len(more) : (\E j \in 1 .. Len(notified) : more[i] = notified[j]) \/ more[i] = n
  BY <1>1, <1>3, <1>4
<1>6. ASSUME NEW i \in 1 .. Len(more), NEW j \in 1 .. Len(more), i < j PROVE more[i] < more[j]
  <2>1. i \in 1 .. Len(r)
    BY <1>3, <1>4, <1>6
  <2>2. CASE j = Len(r) + 1
    BY <1>1, <1>3, <2>1, <2>2
  <2>3. CASE j \in 1 .. Len(r)
    BY <1>1, <1>3, <1>6, <2>1, <2>3
  <2> QED BY <1>4, <2>2, <2>3
<1>7. Told(more, n)
  BY <1>3 DEF Told
<1>8. ASSUME NEW m \in E, Told(notified, m) PROVE Told(more, m)
  <2>1. PICK i \in 1 .. Len(notified) : notified[i] \in {m, m + 1} /\ Key(notified[i]) = Key(m)
    BY <1>8 DEF Told
  <2>2. notified[i] < n /\ notified[i] \in Nat /\ m \in Nat
    BY <1>2, FeedNumbers
  <2>3. CASE Key(notified[i]) # Key(n)
    <3>1. PICK k \in 1 .. Len(r) : r[k] = notified[i]
      BY <1>1, <2>3
    <3>2. more[k] = notified[i] /\ k \in 1 .. Len(more)
      BY <1>3, <3>1
    <3> QED BY <2>1, <3>2 DEF Told
  <2>4. CASE Key(notified[i]) = Key(n)
    <3>1. m < n /\ Key(m) = Key(n)
      BY <1>2, <2>1, <2>2, <2>4
    <3>2. n \in {m, m + 1}
      BY <1>2, <2>2, <3>1 DEF Key
    <3> QED BY <1>3, <3>1, <3>2 DEF Told
  <2> QED BY <2>3, <2>4
<1> QED BY <1>3, <1>5, <1>6, <1>7, <1>8 DEF E

LEMMA NotifiesFeeds ==
  ASSUME FeedInv, NEW c \in Socks, Notifies(c) PROVE FeedInv'
<1> USE DEF FeedInv
<1> DEFINE q == downstream[c]
           n == Head(q).event
<1>1. /\ PerSocket' /\ Others(c) /\ browser[c] = "open" /\ q # <<>> /\ Head(q) \notin {Bye, Lost}
      /\ browser' = browser /\ server' = server /\ downstream'[c] = Tail(q)
  BY BrowserReceivesAt DEF Notifies, FeedTypes
<1>2. /\ UNCHANGED <<stopped, feedRef, reconnect, subscribers, events, missed>>
      /\ notified' = Append(OfOtherKeys(n), n)
  BY DEF Notifies
<1>3. /\ c = feedRef /\ ~reconnect /\ ~stopped /\ server[c] # "closing" /\ (c \in subscribers <=> server[c] = "open")
      /\ Shaped("open", server[c], q) /\ Upcoming(q, notified, events)
  BY <1>1 DEF Feeding, Connected
<1>4. q \in Seq(FeedSays) /\ Head(q) = q[1] /\ 1 \in 1 .. Len(q) /\ Head(q) \in FeedSays
  <2>1. q \in Seq(FeedSays)
    BY <1>3 DEF Shaped
  <2> HIDE DEF q
  <2> QED BY <1>1, <2>1
<1>5. Head(q) \in Broadcasts /\ n \in 1 .. MaxEvents /\ Head(q) = Event(n) /\ n <= events
      /\ \A i \in 1 .. Len(notified) : notified[i] < n
  <2>1. Head(q) \notin {Open, Refused}
    BY <1>3, <1>4 DEF Shaped
  <2>2. Head(q) \in Broadcasts
    BY <1>1, <1>4, <2>1 DEF FeedSays
  <2>3. n <= events /\ \A i \in 1 .. Len(notified) : notified[i] < n
    BY <1>3, <1>4, <2>2 DEF Upcoming
  <2> QED BY <2>2, <2>3, FeedMessages
<1> HIDE DEF q, n
<1>6. /\ notified' \in Seq(1 .. MaxEvents)
      /\ \A i \in 1 .. Len(notified') : (\E j \in 1 .. Len(notified) : notified'[i] = notified[j]) \/ notified'[i] = n
      /\ \A i, j \in 1 .. Len(notified') : i < j => notified'[i] < notified'[j]
      /\ \A m \in 1 .. MaxEvents : m = n \/ Told(notified, m) => Told(notified', m)
  BY <1>2, <1>5, ToldAnew, ZenonT(60)
<1>7. FeedTypes'
  BY <1>1, <1>2, <1>6 DEF FeedTypes
<1>8. Shaped("open", server[c], Tail(q))
  BY <1>1, <1>3, <1>5, ShapedTail, FeedMessages
<1>9. Upcoming(Tail(q), notified', events)
  BY <1>1, <1>3, <1>4, <1>5, <1>6, UpcomingTail DEF n
<1>10. ASSUME NEW d \in Socks PROVE Feeding(d)'
  <2>1. CASE d = c
    BY <1>1, <1>2, <1>3, <1>8, <1>9, <2>1 DEF Feeding
  <2>2. CASE d # c
    <3>1. Feeding(d) /\ browser[d] \in {"new", "closed"} /\ downstream'[d] = downstream[d]
      BY <1>1, <1>3, <2>2 DEF Feeding, Others, Still
    <3> QED BY <1>1, <1>2, <2>2, <3>1 DEF Feeding, Connected
  <2> QED BY <2>1, <2>2
<1>11. NotifiedOnce'
  <2>1. DOMAIN notified' = 1 .. Len(notified')
    BY <1>6
  <2> QED BY <1>6, <2>1 DEF NotifiedOnce
<1>12. \A i \in 1 .. Len(notified') : notified'[i] <= events'
  BY <1>2, <1>5, <1>6
<1>13. ASSUME NEW m \in (1 .. events) \ missed
       PROVE  Told(notified', m) \/ \E d \in Socks : Connected(d)' /\ OnItsWay(downstream'[d], m)
  <2>0. m \in 1 .. MaxEvents
    BY FeedNumbers
  <2>1. Told(notified, m) \/ \E d \in Socks : Connected(d) /\ OnItsWay(downstream[d], m)
    BY <1>3 DEF AllTold
  <2>2. ASSUME NEW d \in Socks, Connected(d), OnItsWay(downstream[d], m)
        PROVE  m = n \/ (Connected(d)' /\ OnItsWay(downstream'[d], m))
    <3>1. d = c
      BY <1>3, <2>2 DEF Feeding, Connected
    <3>2. Event(m) = Event(n) => m = n
      BY FeedMessages
    <3>3. m = n \/ OnItsWay(Tail(q), m)
      BY <1>1, <1>4, <1>5, <2>2, <3>1, <3>2, OnItsWayTail DEF q
    <3> QED BY <1>1, <3>1, <3>3 DEF Connected
  <2> QED BY <1>6, <2>0, <2>1, <2>2
<1>14. AllTold'
  BY <1>2, <1>13 DEF AllTold
<1> QED BY <1>2, <1>7, <1>10, <1>11, <1>12, <1>14

(* A socket of a page closes: nothing is behind what ends the connection.    *)
LEMMA ClosesFeeds ==
  ASSUME FeedInv, NEW c \in Socks, FeedCloses(c) PROVE FeedInv'
<1> USE DEF FeedInv
<1> DEFINE q == downstream[c]
<1>1. /\ PerSocket' /\ Others(c) /\ browser[c] \in {"connecting", "open", "closing", "failing"} /\ browser'[c] = "closed"
      /\ server'[c] = server[c]
  BY BrowserClosesAt DEF FeedCloses, FeedTypes
<1>2. Connected(c) => q # <<>> /\ Head(q) \in {Refused, Bye, Lost}
  BY <1>1 DEF FeedCloses, BrowserCloses, Unopened, Arrives, Connected
<1>3. reconnect' = (reconnect \/ ~stopped) /\ UNCHANGED <<stopped, feedRef, notified, subscribers, events, missed>>
  BY DEF FeedCloses
<1>4. c = feedRef
  BY <1>1 DEF Feeding
<1>5. \A d \in Socks : browser'[d] \in {"new", "closed"} /\ (browser'[d] = "new" => d # c /\ browser[d] = "new")
  BY <1>1, <1>4 DEF Feeding, Others, Still
<1>6. FeedTypes' /\ (reconnect' => ~stopped')
  BY <1>1, <1>3 DEF FeedTypes
<1>7. ASSUME NEW d \in Socks PROVE Feeding(d)'
  <2>1. Feeding(d)
    OBVIOUS
  <2>2. CASE d = c
    BY <1>1, <1>3, <1>5, <2>1, <2>2 DEF Feeding, Connected
  <2>3. CASE d # c
    <3>1. browser'[d] = browser[d] /\ server'[d] = server[d] /\ downstream'[d] = downstream[d]
      BY <1>1, <2>3 DEF Others, Still
    <3> QED BY <1>3, <1>5, <2>1, <2>3, <3>1 DEF Feeding, Connected
  <2> QED BY <2>2, <2>3
<1>8. NotifiedOnce' /\ \A i \in 1 .. Len(notified') : notified'[i] <= events'
  BY <1>3 DEF NotifiedOnce
<1>9. ASSUME NEW n \in 1 .. events, Connected(c) PROVE ~OnItsWay(q, n)
  <2>1. Shaped(browser[c], server[c], q)
    BY <1>9 DEF Feeding
  <2>2. q \in Seq(FeedSays)
    BY <2>1 DEF Shaped
  <2> HIDE DEF q
  <2>3. Head(q) = q[1] /\ 1 \in 1 .. Len(q) /\ Len(q) \in Nat
    BY <1>2, <1>9, <2>2
  <2>4. Len(q) = 1
    BY <1>2, <1>9, <2>1, <2>3 DEF Shaped
  <2>5. Event(n) \in Broadcasts
    BY FeedNumbers
  <2> QED BY <1>2, <1>9, <2>3, <2>4, <2>5, FeedMessages DEF OnItsWay
<1>10. ASSUME ~stopped, NEW n \in (1 .. events) \ missed PROVE Told(notified, n)
  <2>1. Told(notified, n) \/ \E d \in Socks : Connected(d) /\ OnItsWay(downstream[d], n)
    BY <1>10 DEF AllTold
  <2>2. \A d \in Socks : Connected(d) => d = c
    BY <1>4 DEF Feeding, Connected
  <2> QED BY <1>9, <2>1, <2>2
<1>11. AllTold'
  BY <1>3, <1>10 DEF AllTold
<1> QED BY <1>6, <1>7, <1>8, <1>11

LEMMA StopsFeeds ==
  ASSUME FeedInv, FeedStops PROVE FeedInv'
<1> USE DEF FeedInv
<1>1. /\ feedRef \in Socks /\ Closing(feedRef) /\ server' = server /\ stopped' = TRUE /\ reconnect' = FALSE
      /\ UNCHANGED <<feedRef, notified, subscribers, events, missed>>
  BY DEF FeedStops, Closing, FeedTypes
<1>2. PICK c \in Socks : c = feedRef
  BY <1>1
<1>3. /\ PerSocket' /\ Others(c) /\ browser'[c] \notin {"connecting", "open"} /\ (browser'[c] = "new" <=> browser[c] = "new")
  BY <1>1, <1>2, CloseAt DEF FeedTypes
<1>4. FeedTypes' /\ (reconnect' => ~stopped')
  BY <1>1, <1>3 DEF FeedTypes
<1>5. ASSUME NEW d \in Socks PROVE Feeding(d)'
  <2>1. Feeding(d)
    OBVIOUS
  <2>2. CASE d = c
    BY <1>1, <1>2, <1>3, <2>1, <2>2 DEF Feeding, Connected
  <2>3. CASE d # c
    <3>1. browser'[d] = browser[d] /\ server'[d] = server[d] /\ downstream'[d] = downstream[d]
      BY <1>3, <2>3 DEF Others, Still
    <3> QED BY <1>1, <1>2, <2>1, <2>3, <3>1 DEF Feeding, Connected
  <2> QED BY <2>2, <2>3
<1>6. NotifiedOnce' /\ \A i \in 1 .. Len(notified') : notified'[i] <= events'
  BY <1>1 DEF NotifiedOnce
<1>7. AllTold'
  BY <1>1 DEF AllTold
<1> QED BY <1>4, <1>5, <1>6, <1>7

(* An event is on its way to the page, or it is missed.                      *)
LEMMA BroadcastFeeds ==
  ASSUME FeedInv, Broadcast PROVE FeedInv'
<1> USE DEF FeedInv
<1> DEFINE m == Event(events')
           Heard == {c \in {d \in subscribers : server[d] = "open"} : ToBrowser(c, m) # downstream}
<1>1. /\ events < MaxEvents /\ events' = events + 1
      /\ downstream' = Sent(downstream, Heard, m)
      /\ missed' = IF feedRef \in Heard THEN missed ELSE missed \cup {events'}
      /\ UNCHANGED <<browser, server, upstream, stopped, feedRef, reconnect, notified, subscribers>>
  BY DEF Broadcast, feedHookVars
<1>2. /\ events \in Nat /\ events' \in Nat /\ events < events' /\ events' \in 0 .. MaxEvents /\ events' \in 1 .. MaxEvents
      /\ m \in Broadcasts /\ m.event = events'
  BY <1>1, FeedNumbers, FeedMessages
<1>3. ASSUME NEW c \in Heard
      PROVE  c \in Socks /\ c = feedRef /\ Connected(c) /\ server[c] = "open" /\ downstream[c] # <<Lost>>
  <2>1. c \in subscribers /\ c \in Socks /\ server[c] = "open" /\ ToBrowser(c, m) # downstream
    BY DEF FeedTypes
  <2>2. \E d \in Socks : ToBrowser(c, m)[d] # downstream[d]
    BY <2>1, ToBrowserAt DEF FeedTypes, PerSocket
  <2>3. ToBrowser(c, m)[c] # downstream[c]
    BY <2>1, <2>2, ToBrowserAt
  <2>4. downstream[c] # <<Lost>> /\ browser[c] \notin {"failing", "closed"}
    BY <2>1, <2>3, ToBrowserAt
  <2>5. browser[c] # "closing"
    <3>1. m \notin {Bye, Lost}
      BY <1>2, FeedMessages
    <3> QED BY <2>1, <2>3, <3>1 DEF ToBrowser, Sent
  <2>6. browser[c] # "new"
    BY <2>1 DEF Feeding
  <2>7. Connected(c)
    BY <2>1, <2>4, <2>5, <2>6 DEF Connected, FeedTypes, PerSocket
  <2>8. c = feedRef
    BY <2>1, <2>7 DEF Feeding, Connected
  <2> QED BY <2>1, <2>4, <2>7, <2>8
<1>4. /\ downstream' = [c \in Socks |-> downstream'[c]]
      /\ \A c \in Socks : downstream'[c] = IF c \in Heard THEN Append(downstream[c], m) ELSE downstream[c]
  BY <1>1 DEF Sent
<1> HIDE DEF Heard, m
<1>5. FeedTypes'
  <2>1. missed' \subseteq 1 .. MaxEvents
    BY <1>1, <1>2 DEF FeedTypes
  <2> QED BY <1>1, <1>2, <1>4, <2>1 DEF FeedTypes, PerSocket
<1>6. ASSUME NEW c \in Socks, Connected(c)
      PROVE  /\ Shaped(browser[c], server[c], downstream[c]) /\ Upcoming(downstream[c], notified, events)
             /\ downstream[c] \in Seq(FeedSays)
  BY <1>6 DEF Feeding, Shaped
<1>7. ASSUME NEW c \in Socks, Connected(c)
      PROVE  /\ Shaped(browser[c], server[c], downstream'[c]) /\ Upcoming(downstream'[c], notified, events')
  <2> DEFINE q == downstream[c]
  <2>1. Shaped(browser[c], server[c], q) /\ Upcoming(q, notified, events) /\ q \in Seq(FeedSays)
    BY <1>6, <1>7
  <2> HIDE DEF q
  <2>2. Upcoming(q, notified, events') /\ Upcoming(Append(q, m), notified, events')
    <3>1. \A i \in 1 .. Len(notified) : notified[i] \in Nat /\ notified[i] <= events
      BY FeedNumbers
    <3> DEFINE next == events'
    <3>2. next \in Nat /\ events < next /\ events <= next /\ (m \in Broadcasts => m.event = next)
      BY <1>2
    <3> HIDE DEF next
    <3>3. Upcoming(q, notified, next) /\ Upcoming(Append(q, m), notified, next)
      BY <1>2, <2>1, <3>1, <3>2, UpcomingMore
    <3> QED BY <3>3 DEF next
  <2>3. CASE c \in Heard
    <3>1. Shaped(browser[c], "open", Append(q, m))
      BY <1>2, <1>3, <2>1, <2>3, ShapedEvent DEF q
    <3> QED BY <1>3, <1>4, <2>2, <2>3, <3>1 DEF q
  <2>4. CASE c \notin Heard
    BY <1>4, <2>1, <2>2, <2>4 DEF q
  <2> QED BY <2>3, <2>4
<1>8. ASSUME NEW c \in Socks PROVE Feeding(c)'
  <2>1. Feeding(c)
    OBVIOUS
  <2>2. browser[c] = "new" => downstream'[c] = downstream[c]
    BY <1>3, <1>4 DEF Connected
  <2> QED BY <1>1, <1>7, <2>1, <2>2 DEF Feeding, Connected
<1>9. NotifiedOnce'
  BY <1>1 DEF NotifiedOnce
<1>10. \A i \in 1 .. Len(notified') : notified'[i] <= events'
  <2>1. \A i \in 1 .. Len(notified) : notified[i] \in Nat /\ notified[i] <= events
    BY FeedNumbers
  <2> QED BY <1>1, <1>2, <2>1
<1>11. ASSUME ~stopped, NEW n \in (1 .. events') \ missed'
       PROVE  Told(notified, n) \/ \E d \in Socks : Connected(d) /\ OnItsWay(downstream'[d], n)
  <2>1. CASE n = events'
    <3>1. feedRef \in Heard
      BY <1>1, <1>11, <2>1
    <3>2. PICK c \in Socks : c = feedRef /\ c \in Heard /\ Connected(c) /\ downstream'[c] = Append(downstream[c], m)
      BY <1>3, <1>4, <3>1
    <3>3. downstream[c] \in Seq(FeedSays)
      BY <1>6, <3>2
    <3>4. OnItsWay(downstream'[c], n)
      BY <2>1, <3>2, <3>3, OnItsWayAppends DEF m
    <3> QED BY <3>2, <3>4
  <2>2. CASE n # events'
    <3>1. n \in (1 .. events) \ missed
      BY <1>1, <1>2, <1>11, <2>2
    <3>2. Told(notified, n) \/ \E d \in Socks : Connected(d) /\ OnItsWay(downstream[d], n)
      BY <1>11, <3>1 DEF AllTold
    <3>3. ASSUME NEW d \in Socks, Connected(d), OnItsWay(downstream[d], n) PROVE OnItsWay(downstream'[d], n)
      <4>1. downstream[d] \in Seq(FeedSays)
        BY <1>6, <3>3
      <4>2. OnItsWay(Append(downstream[d], m), n)
        BY <3>3, <4>1, OnItsWayAppends
      <4> QED BY <1>4, <3>3, <4>2
    <3> QED BY <3>2, <3>3
  <2> QED BY <2>1, <2>2
<1>12. AllTold'
  BY <1>1, <1>11 DEF AllTold, Connected
<1> QED BY <1>1, <1>5, <1>8, <1>9, <1>10, <1>12

LEMMA FeedInitOK == FeedInit => FeedInv
<1> SUFFICES ASSUME FeedInit PROVE FeedInv
  OBVIOUS
<1>1. /\ browser = [c \in Socks |-> "new"] /\ server = [c \in Socks |-> "idle"]
      /\ upstream = [c \in Socks |-> <<>>] /\ downstream = [c \in Socks |-> <<>>]
      /\ stopped = FALSE /\ feedRef = NoFeed /\ reconnect = TRUE
      /\ subscribers = {} /\ events = 0 /\ notified = <<>> /\ missed = {}
  BY DEF FeedInit, SocketsInit
<1>2. PerSocket
  BY <1>1 DEF PerSocket
<1>3. FeedTypes
  <2>1. <<>> \in Seq(1 .. MaxEvents)
    OBVIOUS
  <2>2. notified \in Seq(1 .. MaxEvents)
    BY <1>1, <2>1
  <2>3. events \in 0 .. MaxEvents
    BY <1>1, FeedAssumption
  <2>4. stopped \in BOOLEAN /\ reconnect \in BOOLEAN /\ feedRef \in Socks \cup {NoFeed}
    BY <1>1
  <2>5. subscribers \subseteq Socks /\ missed \subseteq 1 .. MaxEvents
    BY <1>1
  <2> QED BY <1>2, <2>2, <2>3, <2>4, <2>5 DEF FeedTypes
<1>4. \A c \in Socks : Feeding(c)
  BY <1>1, FeedAssumption DEF Feeding, Connected
<1>5. NotifiedOnce /\ \A i \in 1 .. Len(notified) : notified[i] <= events
  BY <1>1 DEF NotifiedOnce
<1>6. AllTold
  BY <1>1 DEF AllTold
<1> QED BY <1>1, <1>3, <1>4, <1>5, <1>6 DEF FeedInv

LEMMA FeedStep ==
  ASSUME FeedInv, [FeedNext]_allFeedVars PROVE FeedInv'
<1>1. CASE UNCHANGED allFeedVars
  <2>1. UNCHANGED <<browser, server, upstream, downstream, stopped, feedRef, reconnect, notified, subscribers, events, missed>>
    BY <1>1 DEF allFeedVars, sockVars, feedHookVars
  <2> QED BY <2>1 DEF FeedInv, FeedTypes, PerSocket, Feeding, NotifiedOnce, AllTold, Connected
<1> QED
  BY <1>1, StopsFeeds, BroadcastFeeds, ConnectsFeeds, OpensFeeds, NotifiesFeeds, ClosesFeeds, AdmittedFeeds,
     RejectedFeeds, GoneFeeds, LostFeeds DEF FeedNext, FeedPlatform

LEMMA FeedInvTells == FeedInv => FeedTellsAll
<1> SUFFICES ASSUME FeedInv PROVE FeedTellsAll
  OBVIOUS
<1> USE DEF FeedInv
<1>1. NotifiedOnce
  OBVIOUS
<1>2. OneFeed
  BY DEF OneFeed, Feeding, Connected
<1>3. NothingForgotten
  <2> SUFFICES ASSUME NEW c \in Socks, c = feedRef, browser[c] = "open", NEW n \in (1 .. events) \ missed
               PROVE  \/ \E i \in DOMAIN notified : notified[i] \in {n, n + 1} /\ Key(notified[i]) = Key(n)
                      \/ \E i \in DOMAIN downstream[c] : downstream[c][i] = Event(n)
    BY DEF NothingForgotten
  <2>1. Connected(c) /\ \A d \in Socks : Connected(d) => d = c
    BY DEF Connected, Feeding
  <2>2. Told(notified, n) \/ OnItsWay(downstream[c], n)
    BY <2>1 DEF AllTold, Feeding
  <2>3. DOMAIN notified = 1 .. Len(notified)
    BY FeedNumbers
  <2>4. DOMAIN downstream[c] = 1 .. Len(downstream[c])
    <3>1. downstream[c] \in Seq(FeedSays)
      BY <2>1 DEF Feeding, Shaped
    <3> QED BY <3>1
  <2> QED BY <2>2, <2>3, <2>4 DEF Told, OnItsWay
<1>4. NoDeadSubscriber
  BY DEF NoDeadSubscriber, Feeding, FeedTypes
<1> QED BY <1>1, <1>2, <1>3, <1>4 DEF FeedTellsAll

(* The feed by itself (useDockerEventNotifications.ts, dockerEvents.ts).     *)
THEOREM FeedInvariant == FeedSpec => []FeedInv
<1>1. FeedInv /\ [FeedNext]_allFeedVars => FeedInv'
  BY FeedStep
<1> QED BY <1>1, FeedInitOK, PTL DEF FeedSpec

(* A tab is told of each event once, in order, of all it could be told of,   *)
(* over one connection (useDockerEventNotifications.ts, dockerEvents.ts).    *)
THEOREM TabIsToldOfAll == LiveSpec => []TabIsTold
<1> DEFINE Inv == part = "feed" => FeedInv
<1>1. LiveInit => Inv
  BY FeedInitOK DEF LiveInit
<1>2. Inv /\ [LiveNext]_liveVars => Inv'
  <2>1. SUFFICES ASSUME Inv, [LiveNext]_liveVars, part' = "feed" PROVE FeedInv'
    OBVIOUS
  <2>2. part = "feed" /\ FeedInv
    BY <2>1 DEF LiveNext, EventsMove, ChatMoves, FeedMoves, InPart, liveVars
  <2>3. [FeedNext]_allFeedVars
    BY <2>1, <2>2 DEF LiveNext, EventsMove, ChatMoves, FeedMoves, InPart, liveVars, allFeedVars, feedOnly
  <2> QED BY <2>2, <2>3, FeedStep
<1>3. Inv => TabIsTold
  BY FeedInvTells DEF TabIsTold
<1> QED BY <1>1, <1>2, <1>3, PTL DEF LiveSpec

(***************************************************************************)
(* The broadcaster, DockerEvents: the cache's invariant survives the       *)
(* composition, and the broadcaster neither doubles nor drops a host.      *)
(***************************************************************************)
USE SpellingsAssumption, NoConnAssumption, MaxVersionAssumption, LocalAssumption,
    FeedOfAssumption DEF Feeds

(* A stream is over a connection opened for its own host's String(id).      *)
ViaIsOfFeed == \A s \in Streams : via[s] # NoConn => KeyOf[via[s]] = FeedOf[s]

FollowsOK ==
  /\ up \in BOOLEAN
  /\ active \in SUBSET Feeds
  /\ phase \in [Streams -> Phases]
  /\ via \in [Streams -> Conns \cup {NoConn}]
  /\ timers \in [Feeds -> Nat]
  /\ ViaIsOfFeed

EventsInv == HostInv /\ FollowsOK /\ OneStreamPerHost /\ NeverAbandoned

Busy(s) == phase[s] # "idle"

-----------------------------------------------------------------------------
(* A handler that starts hosts and has written no row or a new one keeps   *)
(* the cache coherent, as startHost asks getClient only for missing ones.  *)
LEMMA StartHostsKeepsCache ==
  ASSUME HostInv, NEW F \in SUBSET Feeds, StartHosts(F), RowsGrow
  PROVE  HostInv'
<1> DEFINE M == {f \in ToStart(F) : MissesCache(f)}
<1>1. M \in SUBSET Spellings /\ \A h \in M : Misses(h)
  BY DEF ToStart, MissesCache
<1>2. ConnectSsh(M)
  BY DEF StartHosts
<1> HIDE DEF M
<1> QED
  BY <1>1, <1>2, ConnectSshInv

(* The streams startHost launches were idle; there is one for each host    *)
(* that is started, and no host was active.                                *)
LEMMA LaunchedWereIdle ==
  ASSUME NEW G \in SUBSET Feeds, \A f \in G : \E s \in Streams : IsIdleOf(f, s)
  PROVE  /\ \A s \in Launched(G) : s \in Streams /\ FeedOf[s] \in G /\ phase[s] = "idle"
         /\ \A s, t \in Launched(G) : FeedOf[s] = FeedOf[t] => s = t
         /\ \A f \in G : \E s \in Launched(G) : FeedOf[s] = f
<1>1. ASSUME NEW f \in G
      PROVE  NextStream(f) \in Streams /\ IsIdleOf(f, NextStream(f))
  BY DEF NextStream
<1> QED
  BY <1>1 DEF Launched, IsIdleOf

LEMMA StartHostsStarts ==
  ASSUME HostInv, FollowsOK, OneStreamPerHost, NEW F \in SUBSET Feeds, StartHosts(F)
  PROVE  /\ active' \in SUBSET Feeds
         /\ phase' \in [Streams -> Phases]
         /\ via' \in [Streams -> Conns \cup {NoConn}]
         /\ ViaIsOfFeed'
         /\ OneStreamPerHost'
         /\ active \subseteq active'
         /\ \A f \in F : f = Local \/ f \in registered' => f \in active'
<1> DEFINE G == ToStart(F)
<1>1. G \in SUBSET Feeds /\ G \cap active = {}
  BY DEF ToStart
<1>2. /\ \A s \in Launched(G) : s \in Streams /\ FeedOf[s] \in G /\ phase[s] = "idle"
      /\ \A s, t \in Launched(G) : FeedOf[s] = FeedOf[t] => s = t
      /\ \A f \in G : \E s \in Launched(G) : FeedOf[s] = f
  BY <1>1, LaunchedWereIdle DEF StartHosts
<1>3. /\ active' = active \cup G
      /\ phase' = [s \in Streams |->
                     IF s \notin Launched(G) THEN phase[s]
                     ELSE IF MissesCache(FeedOf[s]) THEN "connecting" ELSE "attaching"]
      /\ via' = [s \in Streams |->
                   IF s \notin Launched(G) THEN via[s]
                   ELSE IF MissesCache(FeedOf[s]) THEN Fresh(FeedOf[s])
                   ELSE Client(FeedOf[s])]
  BY DEF StartHosts
<1>4. \A f \in G : MissesCache(f) => HasFree(f)
  BY DEF StartHosts, ConnectSsh
<1>5. \A f \in G : MissesCache(f) => Fresh(f) \in Conns /\ KeyOf[Fresh(f)] = f
  BY <1>4 DEF HasFree, Fresh, IsFreeOf
<1>6. \A f \in G : /\ Client(f) \in Conns \cup {NoConn}
                   /\ Client(f) # NoConn => KeyOf[Client(f)] = f
  BY <1>1 DEF Client, HostInv, HostTypeOK, CachedIsOpen
<1>7. \A f \in F : f = Local \/ f \in registered' => f \in active \cup G
  BY DEF ToStart, MissesCache, Misses, Resolves
<1> HIDE DEF G
<1>8. phase' \in [Streams -> Phases]
  BY <1>3 DEF FollowsOK, Phases
<1>9. via' \in [Streams -> Conns \cup {NoConn}]
  BY <1>2, <1>3, <1>5, <1>6 DEF FollowsOK
<1>10. ViaIsOfFeed'
  BY <1>2, <1>3, <1>5, <1>6 DEF FollowsOK, ViaIsOfFeed
<1>11. OneStreamPerHost'
  <2>1. \A s \in Streams : phase'[s] # "idle" <=> phase[s] # "idle" \/ s \in Launched(G)
    BY <1>2, <1>3
  <2>2. \A s \in Streams : phase[s] # "idle" => FeedOf[s] \in active
    BY DEF OneStreamPerHost
  <2> QED
    BY <1>1, <1>2, <1>3, <2>1, <2>2 DEF OneStreamPerHost
<1> QED
  BY <1>1, <1>3, <1>7, <1>8, <1>9, <1>10, <1>11 DEF FollowsOK

(* scheduleRetry: the host leaves activeHosts as its stream ends, and a    *)
(* timer stands in for it.                                                 *)
LEMMA ScheduleRetryKeeps ==
  ASSUME FollowsOK, OneStreamPerHost, NEW S \in SUBSET Streams,
         \A s \in S : phase[s] # "idle", ScheduleRetry(S)
  PROVE  /\ active' \in SUBSET Feeds
         /\ phase' \in [Streams -> Phases]
         /\ via' \in [Streams -> Conns \cup {NoConn}]
         /\ timers' \in [Feeds -> Nat]
         /\ ViaIsOfFeed'
         /\ OneStreamPerHost'
         /\ \A f \in Feeds : f \in active => f \in active' \/ timers'[f] > 0
         /\ \A f \in Feeds : timers'[f] >= timers[f]
<1>1. /\ active' \in SUBSET Feeds
      /\ phase' \in [Streams -> Phases]
      /\ via' \in [Streams -> Conns \cup {NoConn}]
      /\ timers' \in [Feeds -> Nat]
      /\ ViaIsOfFeed'
  BY DEF ScheduleRetry, FollowsOK, Phases, ViaIsOfFeed
<1>2. \A s \in Streams : phase'[s] # "idle" <=> phase[s] # "idle" /\ s \notin S
  BY DEF ScheduleRetry
<1>3. OneStreamPerHost'
  BY <1>2 DEF ScheduleRetry, OneStreamPerHost
<1>4. \A f \in Feeds : f \in active => f \in active' \/ timers'[f] > 0
  BY DEF ScheduleRetry, FollowsOK
<1>5. \A f \in Feeds : timers'[f] >= timers[f]
  BY DEF ScheduleRetry, FollowsOK
<1> QED
  BY <1>1, <1>3, <1>4, <1>5

(* A step whose streams stay as they are, but for their phase and          *)
(* connection, keeps the broadcaster's invariant.                          *)
LEMMA PhaseChangeKeeps ==
  ASSUME FollowsOK, OneStreamPerHost, NeverAbandoned,
         phase' \in [Streams -> Phases], via' \in [Streams -> Conns \cup {NoConn}],
         \A s \in Streams : phase'[s] = "idle" <=> phase[s] = "idle",
         \A s \in Streams : via'[s] \in {via[s], NoConn},
         UNCHANGED <<up, active, timers>>, registered' \in SUBSET registered
  PROVE  FollowsOK' /\ OneStreamPerHost' /\ NeverAbandoned'
<1>1. FollowsOK'
  BY DEF FollowsOK, ViaIsOfFeed
<1>2. OneStreamPerHost'
  BY DEF OneStreamPerHost
<1>3. NeverAbandoned'
  BY DEF NeverAbandoned, AllHostIds
<1> QED
  BY <1>1, <1>2, <1>3

(* The same for a step that ends streams by scheduleRetry.                 *)
LEMMA RetryStepKeeps ==
  ASSUME FollowsOK, OneStreamPerHost, NeverAbandoned, registered \in SUBSET Hosts,
         NEW S \in SUBSET Streams, \A s \in S : phase[s] # "idle", ScheduleRetry(S),
         UNCHANGED <<up, registered>>
  PROVE  FollowsOK' /\ OneStreamPerHost' /\ NeverAbandoned'
<1>1. FollowsOK' /\ OneStreamPerHost'
  BY ScheduleRetryKeeps DEF FollowsOK
<1>2. \A f \in Feeds : f \in active \/ timers[f] > 0 => f \in active' \/ timers'[f] > 0
  <2>1. timers \in [Feeds -> Nat] /\ timers' \in [Feeds -> Nat]
    BY <1>1 DEF FollowsOK
  <2>2. /\ \A f \in Feeds : f \in active => f \in active' \/ timers'[f] > 0
        /\ \A f \in Feeds : timers'[f] >= timers[f]
    BY ScheduleRetryKeeps
  <2> QED
    BY <2>1, <2>2
<1>3. NeverAbandoned'
  BY <1>2 DEF NeverAbandoned, AllHostIds
<1> QED
  BY <1>1, <1>3

(* And for a step that starts the hosts F, where at most F loses a timer   *)
(* and every host that is new or was not looked after is one of F.         *)
LEMMA StartStepKeeps ==
  ASSUME HostInv, FollowsOK, OneStreamPerHost, up' \in BOOLEAN, RowsGrow,
         NEW F \in SUBSET Feeds, StartHosts(F), timers' \in [Feeds -> Nat],
         \A f \in registered' \cup {Local} :
           f \in F \/ f \in active \/ (timers[f] > 0 /\ timers'[f] = timers[f])
  PROVE  EventsInv'
<1>1. HostInv'
  BY StartHostsKeepsCache
<1>2. FollowsOK' /\ OneStreamPerHost'
  BY StartHostsStarts DEF FollowsOK
<1>3. \A f \in registered' \cup {Local} : f \in active' \/ timers'[f] > 0
  BY StartHostsStarts DEF RowsGrow
<1>4. NeverAbandoned'
  BY <1>3 DEF NeverAbandoned, AllHostIds
<1> QED
  BY <1>1, <1>2, <1>4 DEF EventsInv

LEMMA RowsUnchangedGrow ==
  ASSUME HostInv, UNCHANGED <<registered, version>>
  PROVE  RowsGrow
BY DEF RowsGrow, HostInv, HostTypeOK, RegisteredHasRow

-----------------------------------------------------------------------------
(* One lemma for each group of actions of Next.                            *)
LEMMA ConnectionStep ==
  ASSUME EventsInv, NEW c \in Conns, UNCHANGED up,
         Ready(c) \/ Failed(c) \/ Closed(c) \/ Errored(c)
  PROVE  EventsInv'
<1> USE DEF EventsInv
<1>1. CASE Ready(c)
  <2>1. HostInv' /\ registered' = registered
    BY <1>1, ConnReadyInv DEF Ready, ConnReady
  <2>2. /\ phase' \in [Streams -> Phases]
        /\ \A s \in Streams : phase'[s] = "idle" <=> phase[s] = "idle"
    BY <1>1 DEF Ready, Awaiting, FollowsOK, Phases
  <2>3. UNCHANGED <<active, via, timers>>
    BY <1>1 DEF Ready
  <2> QED
    BY <2>1, <2>2, <2>3, PhaseChangeKeeps DEF FollowsOK
<1>2. CASE Failed(c)
  <2>1. HostInv' /\ registered' = registered
    BY <1>2, ConnFailedInv DEF Failed, ConnFailed
  <2>2. Awaiting(c) \in SUBSET Streams /\ \A s \in Awaiting(c) : phase[s] # "idle"
    BY DEF Awaiting
  <2>3. ScheduleRetry(Awaiting(c))
    BY <1>2 DEF Failed
  <2> QED
    BY <2>1, <2>2, <2>3, RetryStepKeeps DEF HostInv, HostTypeOK
<1>3. CASE Closed(c)
  <2>1. HostInv' /\ registered' = registered
    BY <1>3, ConnCloseInv DEF Closed, ConnClose
  <2>2. /\ phase' \in [Streams -> Phases]
        /\ via' \in [Streams -> Conns \cup {NoConn}]
        /\ \A s \in Streams : phase'[s] = "idle" <=> phase[s] = "idle"
        /\ \A s \in Streams : via'[s] \in {via[s], NoConn}
    BY <1>3 DEF Closed, Using, FollowsOK, Phases
  <2>3. UNCHANGED <<active, timers>>
    BY <1>3 DEF Closed
  <2> QED
    BY <2>1, <2>2, <2>3, PhaseChangeKeeps
<1>4. CASE Errored(c)
  <2>1. HostInv' /\ registered' = registered /\ UNCHANGED feedVars
    BY <1>4, ConnErrorInv DEF Errored, ConnError
  <2> QED
    BY <2>1, PhaseChangeKeeps DEF feedVars, FollowsOK
<1> QED
  BY <1>1, <1>2, <1>3, <1>4

LEMMA StreamStep ==
  ASSUME EventsInv, NEW s \in Streams, UNCHANGED up,
         Attached(s) \/ Rejected(s) \/ Ends(s) \/ Breaks(s)
  PROVE  EventsInv'
<1> USE DEF EventsInv
<1>1. HostInv' /\ registered' = registered
  BY StutterInv DEF Attached, Rejected, Ends, Breaks, hostVars
<1>2. CASE Attached(s)
  <2>1. /\ phase' \in [Streams -> Phases]
        /\ \A t \in Streams : phase'[t] = "idle" <=> phase[t] = "idle"
    BY <1>2 DEF Attached, FollowsOK, Phases
  <2> QED
    BY <1>1, <1>2, <2>1, PhaseChangeKeeps DEF Attached, FollowsOK
<1>3. CASE Rejected(s) \/ Ends(s) \/ Breaks(s)
  <2>1. ScheduleRetry({s}) /\ phase[s] # "idle"
    BY <1>3 DEF Rejected, Ends, Breaks
  <2>2. {s} \in SUBSET Streams /\ \A t \in {s} : phase[t] # "idle"
    BY <2>1
  <2> QED
    BY <1>1, <2>1, <2>2, RetryStepKeeps DEF HostInv, HostTypeOK
<1> QED
  BY <1>2, <1>3

LEMMA RetryTimerStep ==
  ASSUME EventsInv, NEW f \in Feeds, UNCHANGED up, up, RetryTimer(f)
  PROVE  EventsInv'
<1> USE DEF EventsInv
<1>1. RowsGrow
  BY RowsUnchangedGrow DEF RetryTimer
<1>2. /\ timers' \in [Feeds -> Nat]
      /\ \A g \in Feeds : g # f => timers'[g] = timers[g]
  BY DEF RetryTimer, FollowsOK
<1>3. \A g \in registered' \cup {Local} :
        g \in {f} \/ g \in active \/ (timers[g] > 0 /\ timers'[g] = timers[g])
  BY <1>1, <1>2 DEF RetryTimer, NeverAbandoned, AllHostIds, RowsGrow
<1>4. StartHosts({f}) /\ {f} \in SUBSET Feeds /\ up' \in BOOLEAN
  BY DEF RetryTimer, FollowsOK
<1> QED
  BY <1>1, <1>2, <1>3, <1>4, StartStepKeeps

LEMMA StartAllStep ==
  ASSUME EventsInv, up' \in BOOLEAN, UNCHANGED <<registered, version, timers>>,
         StartHosts(AllHostIds)
  PROVE  EventsInv'
<1> USE DEF EventsInv
<1>1. RowsGrow
  BY RowsUnchangedGrow
<1>2. AllHostIds \in SUBSET Feeds
  BY DEF AllHostIds, HostInv, HostTypeOK
<1>3. \A g \in registered' \cup {Local} : g \in AllHostIds
  BY DEF AllHostIds
<1>4. timers' \in [Feeds -> Nat]
  BY DEF FollowsOK
<1> QED
  BY <1>1, <1>2, <1>3, <1>4, StartStepKeeps

LEMMA ControllerStep ==
  ASSUME EventsInv, NEW h \in Hosts, UNCHANGED up, up,
         Create(h) \/ Update(h) \/ Remove(h)
  PROVE  EventsInv'
<1> USE DEF EventsInv
<1>1. CASE Create(h)
  <2>1. RowsGrow
    <3>1. registered \in SUBSET Hosts /\ version \in [Hosts -> 0..MaxVersion]
      BY DEF HostInv, HostTypeOK
    <3>2. h \notin registered /\ \A g \in registered : version[g] # 0
      BY <1>1 DEF Create, HostInv, RegisteredHasRow
    <3>3. registered' = registered \cup {h} /\ version' = [version EXCEPT ![h] = 1]
      BY <1>1 DEF Create
    <3> QED
      BY <3>1, <3>2, <3>3 DEF RowsGrow
  <2>2. StartHosts({h}) /\ {h} \in SUBSET Feeds /\ UNCHANGED timers
    BY <1>1 DEF Create
  <2>3. \A g \in registered' \cup {Local} :
          g \in {h} \/ g \in active \/ (timers[g] > 0 /\ timers'[g] = timers[g])
    BY <1>1 DEF Create, NeverAbandoned, AllHostIds
  <2> QED
    BY <2>1, <2>2, <2>3, StartStepKeeps DEF FollowsOK
<1>2. CASE Update(h) \/ Remove(h)
  <2>1. HostInv'
    BY <1>2, UpdateHostInv, RemoveHostInv DEF Update, Remove
  <2>2. registered' \in SUBSET registered /\ UNCHANGED feedVars
    BY <1>2 DEF Update, UpdateHost, Remove, RemoveHost
  <2> QED
    BY <2>1, <2>2, PhaseChangeKeeps DEF feedVars, FollowsOK
<1> QED
  BY <1>1, <1>2

(* Any other caller, whichever way it spells the id.                       *)
LEMMA OtherCallerStep ==
  ASSUME EventsInv, NEW k \in Spellings, UNCHANGED up, OtherGetClient(k)
  PROVE  EventsInv'
<1> USE DEF EventsInv
<1>1. HostInv'
  BY GetClientInv DEF OtherGetClient
<1>2. registered' \in SUBSET registered /\ UNCHANGED feedVars
  BY DEF OtherGetClient, GetClient
<1> QED
  BY <1>1, <1>2, PhaseChangeKeeps DEF feedVars, FollowsOK

LEMMA CrashStep ==
  ASSUME EventsInv, Crash
  PROVE  EventsInv'
<1> USE DEF EventsInv, Crash
<1>1. HostInv'
  <2>1. HostTypeOK'
    BY DEF HostInv, HostTypeOK
  <2>2. RegisteredHasRow'
    BY DEF HostInv, RegisteredHasRow
  <2>3. CachedIsOpen' /\ ConnectIsCurrent' /\ StaleOnlyIfCrossed'
    BY DEF CachedIsOpen, ConnectIsCurrent, StaleOnlyIfCrossed
  <2>4. SoloIsAlone' /\ SoloIsCached'
    BY DEF SoloIsAlone, SoloIsCached
  <2> QED
    BY <2>1, <2>2, <2>3, <2>4 DEF HostInv
<1>2. FollowsOK'
  BY DEF FollowsOK, Phases, ViaIsOfFeed
<1>3. OneStreamPerHost' /\ NeverAbandoned'
  BY DEF OneStreamPerHost, NeverAbandoned
<1> QED
  BY <1>1, <1>2, <1>3

-----------------------------------------------------------------------------
(* The invariant of the composition.                                       *)
THEOREM DockerEventsInv == Spec => []EventsInv
<1>1. Init => EventsInv
  <2> SUFFICES ASSUME Init PROVE EventsInv
    OBVIOUS
  <2>1. HostInv
    BY HostInitInv DEF Init
  <2>2. ViaIsOfFeed
    BY DEF Init, ViaIsOfFeed
  <2>3. FollowsOK
    BY <2>2 DEF Init, FollowsOK, Phases
  <2>4. OneStreamPerHost /\ NeverAbandoned
    BY DEF Init, OneStreamPerHost, NeverAbandoned
  <2> QED
    BY <2>1, <2>3, <2>4 DEF EventsInv
<1>2. EventsInv /\ [Next]_vars => EventsInv'
  <2> SUFFICES ASSUME EventsInv, [Next]_vars PROVE EventsInv'
    OBVIOUS
  <2>1. CASE Boot
    BY <2>1, StartAllStep DEF Boot
  <2>2. CASE Crash
    BY <2>2, CrashStep
  <2>3. CASE Running
    BY <2>3, ConnectionStep, StreamStep, RetryTimerStep, ControllerStep,
              OtherCallerStep, StartAllStep
       DEF Running, Subscribe, EventsInv, FollowsOK
  <2>4. CASE UNCHANGED vars
    <3>1. HostInv'
      BY <2>4, StutterInv DEF vars, EventsInv
    <3> QED
      BY <2>4, <3>1, PhaseChangeKeeps DEF vars, hostVars, feedVars, EventsInv, FollowsOK
  <2> QED
    BY <2>1, <2>2, <2>3, <2>4 DEF Next
<1> QED
  BY <1>1, <1>2, PTL DEF Spec

(* A host never has two event streams: startHost is idempotent, whoever    *)
(* calls it and whenever retry timers fire.                                *)
THEOREM NoDoubleSubscription == Spec => []OneStreamPerHost
BY DockerEventsInv, PTL DEF EventsInv

(* A registered host always has a stream under way or a retry armed.       *)
THEOREM NoHostAbandoned == Spec => []NeverAbandoned
BY DockerEventsInv, PTL DEF EventsInv

(* Streams over undisturbed connections come from hosts as they are        *)
(* registered now.                                                         *)
THEOREM StreamsAreCurrent == Spec => []StreamIsCurrent
<1>1. EventsInv => StreamIsCurrent
  <2> SUFFICES ASSUME EventsInv, NEW s \in Streams,
                      via[s] \in solo \ crossed, state[via[s]] = "open"
               PROVE  /\ HostOf(via[s]) \in registered
                      /\ cred[via[s]] = version[HostOf(via[s])]
    BY DEF StreamIsCurrent
  <2>1. via[s] \in Conns /\ via[s] # NoConn
    BY DEF EventsInv, HostInv, HostTypeOK
  <2>2. KeyOf[via[s]] \in Hosts
    \* It is the String(id) of the stream's host; Local needs no connection.
    BY <2>1 DEF EventsInv, FollowsOK, ViaIsOfFeed
  <2>3. HostOf(via[s]) = KeyOf[via[s]]
    BY <2>2 DEF HostOf
  <2>4. clients[KeyOf[via[s]]] = via[s]
    BY DEF EventsInv, HostInv, SoloIsCached
  <2> QED
    BY <2>1, <2>2, <2>3, <2>4 DEF EventsInv, HostInv, StaleOnlyIfCrossed
<1> QED
  BY <1>1, DockerEventsInv, PTL

(* The composition's state stays within its type.                          *)
THEOREM DockerEventsTypeOK == Spec => []TypeOK
<1>1. EventsInv => TypeOK
  BY DEF EventsInv, HostInv, FollowsOK, TypeOK
<1> QED
  BY <1>1, DockerEventsInv, PTL
=============================================================================
