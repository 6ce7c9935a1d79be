---------------------------- MODULE StacksProofs ----------------------------
(* Proofs about Stacks, for any names, requests under way and tokens.      *)
EXTENDS Stacks, TLAPS

(* Only a deletion removes a directory.                                    *)
ReqOK(req) ==
  /\ req \in Request
  /\ req.op # "list" => req.name \in Names
  /\ req.op = "rm" => req.kind \in {"remove", "reset"}

ReqsOK ==
  /\ reqs \in [Reqs -> Request \cup {NoReq}]
  /\ \A r \in Live : ReqOK(reqs[r])

(* A deletion past its `down` has left no container that is not counted    *)
(* as orphaned: what its rm needs for NoOrphans.                           *)
DownIsDone == \A n \in running : PastDown(n) => n \in orphaned

(* The tokens of the rows are distinct and none of them is retired.        *)
HooksInv ==
  /\ \A n \in Names : hook[n] \notin retired
  /\ \A m, n \in Names : hook[m] = hook[n] /\ hook[n] # 0 => m = n

IInv ==
  /\ TypeOK
  /\ ReqsOK
  /\ NoHalfStack
  /\ HookHasStack
  /\ NoOrphans
  /\ DownIsDone
  /\ HooksInv

PastDownBy(r, n) ==
  /\ Deletes(r, n)
  /\ \/ reqs[r].op = "down" /\ reqs[r].ret # "pending"
     \/ reqs[r].op = "rm" /\ reqs[r].ret = "pending"

-----------------------------------------------------------------------------
(* A request r whose step leaves it req.                                   *)
Sets(r, req) == reqs' = [reqs EXCEPT ![r] = req]

LEMMA SetsReqs ==
  ASSUME ReqsOK, NEW r \in Reqs, NEW req, req = NoReq \/ ReqOK(req), Sets(r, req)
  PROVE  ReqsOK'
<1>1. reqs' \in [Reqs -> Request \cup {NoReq}]
  BY DEF ReqsOK, ReqOK, Sets
<1>2. ASSUME NEW q \in Live' PROVE ReqOK(reqs'[q])
  <2>1. CASE q = r  BY <1>2, <2>1 DEF ReqsOK, Sets, Live
  <2>2. CASE q # r  BY <1>2, <2>2 DEF ReqsOK, Sets, Live
  <2> QED  BY <2>1, <2>2
<1> QED  BY <1>1, <1>2 DEF ReqsOK, ReqOK

LEMMA SetsOthers ==
  ASSUME ReqsOK, NEW r \in Reqs, NEW req, Sets(r, req), NEW q \in Reqs, q # r, NEW n
  PROVE  /\ Writes(q, n) <=> Writes(q, n)'
         /\ Revokes(q, n) <=> Revokes(q, n)'
         /\ PastDownBy(q, n) <=> PastDownBy(q, n)'
<1>1. reqs'[q] = reqs[q]  BY DEF ReqsOK, Sets
<1>2. q \in Live <=> q \in Live'  BY <1>1 DEF Live
<1>3. Deletes(q, n) <=> Deletes(q, n)'  BY <1>1, <1>2 DEF Deletes
<1> QED  BY <1>1, <1>2, <1>3 DEF Writes, Revokes, PastDownBy

(* What r may do to the stack of its request: it stops writing or revoking *)
(* only with a reason, and is past `down` only if it was before.           *)
LEMMA Quiet ==
  ASSUME IInv, NEW r \in Reqs, NEW req, req = NoReq \/ ReqOK(req), Sets(r, req),
         UNCHANGED <<files, hooks, projects>>,
         \A n \in Names : Writes(r, n) => Writes(r, n)',
         \A n \in Names : ~Revokes(r, n),
         \A n \in Names : PastDownBy(r, n)' => PastDownBy(r, n)
  PROVE  IInv'
<1> USE DEF files, hooks, projects
<1>1. ReqsOK'  BY SetsReqs DEF IInv
<1>2. TypeOK'  BY <1>1 DEF IInv, TypeOK, ReqsOK, ReqOK, Live
<1>3. NoHalfStack'
  <2> SUFFICES ASSUME NEW n \in Names, disk[n] = "empty", n \notin torn
               PROVE  \E q \in Reqs : Writes(q, n)'
    BY DEF NoHalfStack
  <2>1. PICK q \in Reqs : Writes(q, n)  BY DEF IInv, NoHalfStack
  <2> QED  BY <2>1, SetsOthers DEF IInv
<1>4. HookHasStack'
  <2> SUFFICES ASSUME NEW n \in Names, hook[n] # 0, disk[n] # "file", n \notin left
               PROVE  \E q \in Reqs : Revokes(q, n)'
    BY DEF HookHasStack
  <2>1. PICK q \in Reqs : Revokes(q, n)  BY DEF IInv, HookHasStack
  <2> QED  BY <2>1, SetsOthers DEF IInv
<1>5. NoOrphans'  BY DEF IInv, NoOrphans
<1>6. DownIsDone'
  <2> SUFFICES ASSUME NEW n \in running, PastDown(n)' PROVE n \in orphaned
    BY DEF DownIsDone
  <2>0. n \in Names  BY DEF IInv, TypeOK
  <2>1. PICK q \in Reqs : PastDownBy(q, n)'  BY DEF PastDown, PastDownBy
  <2>2. PastDownBy(q, n)  BY <2>0, <2>1, SetsOthers DEF IInv
  <2> QED  BY <2>2 DEF IInv, DownIsDone, PastDown, PastDownBy
<1>7. HooksInv'  BY DEF IInv, HooksInv
<1> QED  BY <1>1, <1>2, <1>3, <1>4, <1>5, <1>6, <1>7 DEF IInv

-----------------------------------------------------------------------------
(* The steps that only move a request on.                                  *)
AtEase(r) ==
  /\ r \in Live
  /\ reqs[r].op \in {"mkdir", "write"} =>
       reqs[r].ret # "pending" /\ (reqs[r].op = "mkdir" => reqs[r].ret # "yes")
  /\ reqs[r].op = "rm" => reqs[r].kind # "remove" \/ reqs[r].ret # "yes"

LEMMA AtEaseQuiet ==
  ASSUME NEW r \in Reqs, AtEase(r), NEW n
  PROVE  ~Writes(r, n) /\ ~Revokes(r, n)
BY DEF AtEase, Writes, Revokes

LEMMA EndInv ==
  ASSUME IInv, NEW r \in Reqs, AtEase(r), End(r), UNCHANGED <<files, hooks, projects>>
  PROVE  IInv'
<1>1. Sets(r, NoReq)  BY DEF Sets, End
<1>2. \A n \in Names : ~PastDownBy(r, n)'
  BY <1>1 DEF IInv, ReqsOK, Sets, PastDownBy, Deletes, Live
<1> QED  BY <1>1, <1>2, AtEaseQuiet, Quiet

(* On to the next await.                                                   *)
LEMMA GoInv ==
  ASSUME IInv, NEW r \in Reqs, NEW op \in Ops \ {"rm"}, Go(r, op), reqs[r].name \in Names,
         UNCHANGED <<files, hooks, projects>>,
         \/ AtEase(r)
         \/ r \in Live /\ reqs[r].op = "mkdir" /\ op = "write"
  PROVE  IInv'
<1> DEFINE req == [reqs[r] EXCEPT !.op = op, !.ret = "pending"]
<1>1. r \in Live  BY DEF AtEase
<1>2. ReqOK(reqs[r])  BY <1>1 DEF IInv, ReqsOK
<1>3. ReqOK(req) /\ req.op = op /\ req.ret = "pending" /\ req.name = reqs[r].name
  BY <1>2 DEF ReqOK, Request
<1>4. Sets(r, req)  BY DEF Sets, Go
<1>5. reqs'[r] = req  BY <1>4 DEF Sets, IInv, ReqsOK
<1> HIDE DEF req
<1>6. \A n \in Names : ~PastDownBy(r, n)'  BY <1>3, <1>5 DEF PastDownBy
<1>7. \A n \in Names : ~Revokes(r, n)  BY AtEaseQuiet DEF Revokes
<1>8. \A n \in Names : Writes(r, n) => Writes(r, n)'
  <2>1. CASE AtEase(r)  BY <2>1, AtEaseQuiet
  <2>2. CASE op = "write"
    BY <2>2, <1>2, <1>3, <1>5, NoReqAssumption DEF Writes, Live, ReqOK
  <2> QED  BY <2>1, <2>2
<1> QED  BY <1>3, <1>4, <1>6, <1>7, <1>8, Quiet

(* An operation that changes nothing returns.                              *)
LEMMA ReturnInv ==
  ASSUME IInv, NEW r \in Reqs, NEW op \in Ops \ {"mkdir", "write", "down", "rm"},
         NEW ret \in Returned, Awaiting(r, op), Return(r, ret),
         UNCHANGED <<files, hooks, projects>>
  PROVE  IInv'
<1> DEFINE req == [reqs[r] EXCEPT !.ret = ret]
<1>1. ReqOK(reqs[r]) /\ reqs[r].op = op  BY DEF IInv, ReqsOK, Awaiting
<1>2. ReqOK(req) /\ req.op = op  BY <1>1 DEF ReqOK, Request
<1>3. Sets(r, req)  BY DEF Sets, Return
<1>4. reqs'[r] = req  BY <1>3 DEF Sets, IInv, ReqsOK
<1> HIDE DEF req
<1>5. AtEase(r)  BY <1>1 DEF AtEase, Awaiting
<1>6. \A n \in Names : ~PastDownBy(r, n)'  BY <1>2, <1>4, SMTT(60) DEF PastDownBy
<1> QED  BY <1>2, <1>3, <1>5, <1>6, AtEaseQuiet, Quiet

(* On to the next stack of a reset or restore.                             *)
LEMMA NextStackInv ==
  ASSUME IInv, NEW r \in Reqs, NEW op \in {"mkdir", "down"}, AtEase(r), NextStack(r, op),
         UNCHANGED <<files, hooks, projects>>
  PROVE  IInv'
<1>1. CASE End(r)  BY <1>1, EndInv
<1>2. ASSUME NEW n \in reqs[r].todo,
             reqs' = [reqs EXCEPT ![r].name = n, ![r].todo = @ \ {n}, ![r].op = op, ![r].ret = "pending"]
      PROVE  IInv'
  <2> DEFINE req == [reqs[r] EXCEPT !.name = n, !.todo = reqs[r].todo \ {n}, !.op = op, !.ret = "pending"]
  <2>1. ReqOK(reqs[r])  BY DEF AtEase, IInv, ReqsOK
  <2>0. reqs[r].todo \ {n} \in SUBSET Names /\ n \in Names  BY <1>2, <2>1 DEF ReqOK, Request
  <2>2. ReqOK(req) /\ req.op = op /\ req.ret = "pending"
    BY <2>1, <2>0 DEF ReqOK, Request, Ops
  <2>3. Sets(r, req)  BY <1>2 DEF Sets
  <2>4. reqs'[r] = req  BY <2>3 DEF Sets, IInv, ReqsOK
  <2> HIDE DEF req
  <2>5. \A m \in Names : ~PastDownBy(r, m)'  BY <2>2, <2>4 DEF PastDownBy
  <2> QED  BY <2>2, <2>3, <2>5, AtEaseQuiet, Quiet
<1> QED  BY <1>1, <1>2, Zenon DEF NextStack

-----------------------------------------------------------------------------
(* The actions that change nothing but the requests.                       *)
LEMMA RequestOK == IInv => \A r \in Live : ReqOK(reqs[r])
BY DEF IInv, ReqsOK

LEMMA OperationsInv ==
  ASSUME IInv, NEW r \in Reqs, Access(r) \/ Fetch(r) \/ List(r) \/ ComposeUp(r)
  PROVE  IInv'
<1>1. CASE Access(r)
  BY <1>1, ReturnInv DEF Access, Ops, Returned, files, hooks, projects
<1>2. CASE Fetch(r)
  BY <1>2, ReturnInv DEF Fetch, Ops, files, hooks, projects
<1>3. CASE List(r)
  <2> DEFINE req == [reqs[r] EXCEPT !.ret = "yes", !.todo = {n \in Names : disk[n] # "none"}]
  <2>1. r \in Live /\ reqs[r].op = "list" /\ ReqOK(reqs[r])  BY <1>3, RequestOK DEF List, Awaiting
  <2>2. ReqOK(req) /\ req.op = "list"  BY <2>1 DEF ReqOK, Request, Returned
  <2>3. Sets(r, req)  BY <1>3 DEF Sets, List
  <2>4. reqs'[r] = req  BY <2>3 DEF Sets, IInv, ReqsOK
  <2> HIDE DEF req
  <2>5. AtEase(r)  BY <2>1 DEF AtEase
  <2>6. \A n \in Names : ~PastDownBy(r, n)'  BY <2>2, <2>4 DEF PastDownBy
  <2> QED  BY <1>3, <2>2, <2>3, <2>5, <2>6, AtEaseQuiet, Quiet DEF List, files, hooks, projects
<1>4. CASE ComposeUp(r)
  <2>1. CASE Return(r, "no")
    BY <1>4, <2>1, ReturnInv DEF ComposeUp, Ops, Returned, files, hooks, projects
  <2>2. CASE reqs' = [reqs EXCEPT ![r].op = "start"]
    <3> DEFINE req == [reqs[r] EXCEPT !.op = "start"]
    <3>1. r \in Live /\ reqs[r].op = "up" /\ ReqOK(reqs[r])
      BY <1>4, RequestOK DEF ComposeUp, Awaiting
    <3>2. ReqOK(req) /\ req.op = "start"  BY <3>1 DEF ReqOK, Request, Ops
    <3>3. Sets(r, req)  BY <2>2 DEF Sets
    <3>4. reqs'[r] = req  BY <3>3 DEF Sets, IInv, ReqsOK
    <3> HIDE DEF req
    <3>5. AtEase(r)  BY <3>1 DEF AtEase
    <3>6. \A n \in Names : ~PastDownBy(r, n)'  BY <3>2, <3>4 DEF PastDownBy
    <3> QED  BY <1>4, <3>2, <3>3, <3>5, <3>6, AtEaseQuiet, Quiet
             DEF ComposeUp, files, hooks, projects
  <2> QED  BY <1>4, <2>1, <2>2 DEF ComposeUp
<1> QED  BY <1>1, <1>2, <1>3, <1>4

LEMMA ArriveInv ==
  ASSUME IInv, NEW r \in Reqs, Arrive(r)
  PROVE  IInv'
<1>1. PICK req : Arrives(r, req) /\ ReqOK(req) /\ req.op \in {"access", "list", "mkdir"}
  <2> USE DEF ReqOK, Request, Ops, Kinds, Guarded, Makers, Returned
  <2>1. ASSUME NEW kind \in (Guarded \cup Makers) \ {"trigger"}, NEW n \in Names
        PROVE  LET req == [kind |-> kind, name |-> n, todo |-> {}, token |-> 0,
                           op |-> "access", ret |-> "pending"]
               IN  ReqOK(req) /\ req.op = "access"
    BY MaxTokenAssumption
  <2>2. ASSUME NEW n \in Names, NEW token \in 1..issued
        PROVE  LET req == [kind |-> "trigger", name |-> n, todo |-> {}, token |-> token,
                           op |-> "access", ret |-> "pending"]
               IN  ReqOK(req) /\ req.op = "access"
    <3>1. token \in 0..MaxToken  BY MaxTokenAssumption DEF IInv, TypeOK
    <3> QED  BY <3>1
  <2>3. LET req == [kind |-> "reset", name |-> NoName, todo |-> {}, token |-> 0,
                    op |-> "list", ret |-> "pending"]
        IN  ReqOK(req) /\ req.op = "list"
    BY MaxTokenAssumption
  <2>4. ASSUME NEW N \in SUBSET Names, NEW n \in N
        PROVE  LET req == [kind |-> "restore", name |-> n, todo |-> N \ {n}, token |-> 0,
                           op |-> "mkdir", ret |-> "pending"]
               IN  ReqOK(req) /\ req.op = "mkdir"
    BY MaxTokenAssumption
  <2> HIDE DEF ReqOK, Request, Ops, Kinds, Guarded, Makers, Returned
  <2> QED  BY <2>1, <2>2, <2>3, <2>4 DEF Arrive
<1>2. r \notin Live /\ Sets(r, req)  BY <1>1 DEF Arrives, Live, Sets
<1>3. reqs'[r] = req  BY <1>2 DEF Sets, IInv, ReqsOK
<1>4. \A n \in Names : ~Writes(r, n) /\ ~Revokes(r, n)  BY <1>2 DEF Writes, Revokes
<1>5. \A n \in Names : PastDownBy(r, n)' => PastDownBy(r, n)
  BY <1>1, <1>3 DEF PastDownBy
<1> QED  BY <1>1, <1>2, <1>4, <1>5, Quiet DEF Arrive, files, hooks, projects

LEMMA HandlersInv ==
  ASSUME IInv, NEW r \in Reqs,
         \/ Refused(r) \/ Write(r) \/ Import(r) \/ Made(r) \/ Written(r)
         \/ Deploy(r) \/ Down(r) \/ Composed(r) \/ Remove(r) \/ Trigger(r)
  PROVE  IInv'
<1>1. r \in Live  BY DEF Refused, Write, Import, Made, Written, Deploy, Down, Composed, Remove, Trigger, After
<1>2. ReqOK(reqs[r])  BY <1>1, RequestOK
<1>3. UNCHANGED <<files, hooks, projects>>
  BY DEF Refused, Write, Import, Made, Written, Deploy, Down, Composed, Remove, Trigger
<1>4. reqs[r].op \in {"access", "fetch", "up", "start", "down"} => AtEase(r) /\ reqs[r].name \in Names
  BY <1>1, <1>2 DEF AtEase, ReqOK
<1>5. CASE Refused(r)  BY <1>3, <1>4, <1>5, EndInv DEF Refused, After
<1>6. CASE Write(r)    BY <1>3, <1>4, <1>6, EndInv, GoInv DEF Write, After, Ops
<1>7. CASE Import(r)   BY <1>3, <1>4, <1>7, EndInv, GoInv DEF Import, After, Ops
<1>8. CASE Made(r)
  <2>1. reqs[r].op = "mkdir" /\ Go(r, "write")  BY <1>8 DEF Made, After
  <2>2. reqs[r].name \in Names  BY <1>2, <2>1 DEF ReqOK
  <2> QED  BY <1>1, <1>3, <2>1, <2>2, GoInv DEF Ops
<1>9. CASE Written(r)
  <2>1. AtEase(r) /\ reqs[r].name \in Names
    BY <1>1, <1>2, <1>9 DEF Written, After, Got, AtEase, ReqOK
  <2>2. CASE End(r)  BY <1>3, <2>1, <2>2, EndInv
  <2>3. CASE Go(r, "up")  BY <1>3, <2>1, <2>3, GoInv DEF Ops
  <2>4. CASE NextStack(r, "mkdir")  BY <1>3, <2>1, <2>4, NextStackInv
  <2> QED  BY <1>9, <2>2, <2>3, <2>4 DEF Written
<1>10. CASE Deploy(r)  BY <1>3, <1>4, <1>10, GoInv DEF Deploy, After, Ops
<1>11. CASE Down(r)    BY <1>3, <1>4, <1>11, GoInv DEF Down, After, Ops
<1>12. CASE Composed(r)  BY <1>3, <1>4, <1>12, EndInv DEF Composed, After
<1>13. CASE Remove(r)  BY <1>3, <1>4, <1>13, GoInv DEF Remove, After, Ops
<1>14. CASE Trigger(r) BY <1>3, <1>4, <1>14, EndInv, GoInv DEF Trigger, After, Ops
<1> QED  BY <1>5, <1>6, <1>7, <1>8, <1>9, <1>10, <1>11, <1>12, <1>13, <1>14

(* `down` of a deletion is over: from here on nothing may be running.      *)
LEMMA DeleteDownInv ==
  ASSUME IInv, NEW r \in Reqs, DeleteDown(r)
  PROVE  IInv'
<1> DEFINE req == [reqs[r] EXCEPT !.op = "rm", !.ret = "pending"]
<1>1. /\ r \in Live /\ ReqOK(reqs[r])
      /\ reqs[r].op = "down" /\ reqs[r].ret # "pending"
      /\ reqs[r].kind \in {"remove", "reset"}
  BY RequestOK DEF DeleteDown, After, Got, Returned
<1>2. ReqOK(req) /\ req.name = reqs[r].name  BY <1>1 DEF ReqOK, Request, Ops
<1>3. Sets(r, req)  BY DEF Sets, DeleteDown, Go
<1>4. reqs'[r] = req  BY <1>3 DEF Sets, IInv, ReqsOK
<1> HIDE DEF req
<1>5. AtEase(r)  BY <1>1 DEF AtEase
<1>6. \A n \in Names : PastDownBy(r, n)' => PastDownBy(r, n)
  BY <1>1, <1>2, <1>4 DEF PastDownBy, Deletes
<1> QED  BY <1>2, <1>3, <1>5, <1>6, AtEaseQuiet, Quiet DEF DeleteDown, files, hooks, projects

LEMMA ResetStackInv ==
  ASSUME IInv, NEW r \in Reqs, ResetStack(r)
  PROVE  IInv'
<1>1. AtEase(r)  BY DEF ResetStack, After, Got, AtEase
<1> QED  BY <1>1, NextStackInv, EndInv DEF ResetStack, files, hooks, projects

-----------------------------------------------------------------------------
(* The actions that change the disk, the containers or the rows.           *)
LEMMA MkdirInv ==
  ASSUME IInv, NEW r \in Reqs, Mkdir(r)
  PROVE  IInv'
<1> DEFINE req == [reqs[r] EXCEPT !.ret = "yes"]
<1>1. r \in Live /\ ReqOK(reqs[r]) /\ reqs[r].op = "mkdir" /\ reqs[r].name \in Names
  BY RequestOK DEF Mkdir, Awaiting, ReqOK
<1>2. ReqOK(req) /\ req.op = "mkdir" /\ req.ret = "yes" /\ req.name = reqs[r].name
  BY <1>1 DEF ReqOK, Request, Returned
<1>3. Sets(r, req)  BY DEF Sets, Mkdir, Return
<1>4. reqs'[r] = req  BY <1>3 DEF Sets, IInv, ReqsOK
<1>5. reqs'[r] # NoReq  BY <1>2, <1>4, NoReqAssumption DEF ReqOK
<1> HIDE DEF req
<1>6. UNCHANGED <<torn, hooks, projects>>
      /\ disk' = [disk EXCEPT ![reqs[r].name] = IF @ = "none" THEN "empty" ELSE @]
  BY DEF Mkdir
<1> USE DEF hooks, projects
<1>7. ReqsOK'  BY <1>2, <1>3, SetsReqs DEF IInv
<1>8. TypeOK'  BY <1>1, <1>6, <1>7 DEF IInv, TypeOK, ReqsOK, ReqOK, Live
<1>9. \A n \in Names : /\ disk'[n] = "file" <=> disk[n] = "file"
                       /\ n # reqs[r].name => disk'[n] = disk[n]
  BY <1>6 DEF IInv, TypeOK
<1>10. NoHalfStack'
  <2> SUFFICES ASSUME NEW n \in Names, disk'[n] = "empty", n \notin torn
               PROVE  \E q \in Reqs : Writes(q, n)'
    BY <1>6 DEF NoHalfStack
  <2>1. CASE n = reqs[r].name  BY <2>1, <1>2, <1>4, <1>5 DEF Writes, Live
  <2>2. CASE n # reqs[r].name
    <3>1. PICK q \in Reqs : Writes(q, n)  BY <2>2, <1>9 DEF IInv, NoHalfStack
    <3>2. q # r  BY <2>2, <3>1 DEF Writes
    <3> QED  BY <1>3, <3>1, <3>2, SetsOthers DEF IInv
  <2> QED  BY <2>1, <2>2
<1>11. HookHasStack'
  <2> SUFFICES ASSUME NEW n \in Names, hook[n] # 0, disk[n] # "file", n \notin left
               PROVE  \E q \in Reqs : Revokes(q, n)'
    BY <1>6, <1>9 DEF HookHasStack
  <2>1. PICK q \in Reqs : Revokes(q, n)  BY DEF IInv, HookHasStack
  <2>2. q # r  BY <1>1, <2>1 DEF Revokes
  <2> QED  BY <1>3, <2>1, <2>2, SetsOthers DEF IInv
<1>12. NoOrphans'  BY <1>6, <1>9 DEF IInv, NoOrphans, TypeOK
<1>13. DownIsDone'
  <2> SUFFICES ASSUME NEW n \in running, PastDown(n)' PROVE n \in orphaned
    BY <1>6 DEF DownIsDone
  <2>1. PICK q \in Reqs : PastDownBy(q, n)'  BY DEF PastDown, PastDownBy
  <2>2. q # r  BY <1>2, <1>4, <2>1 DEF PastDownBy
  <2>3. PastDownBy(q, n)  BY <1>3, <2>1, <2>2, SetsOthers DEF IInv
  <2> QED  BY <2>3 DEF IInv, DownIsDone, PastDown, PastDownBy
<1>14. HooksInv'  BY <1>6 DEF IInv, HooksInv
<1> QED  BY <1>7, <1>8, <1>10, <1>11, <1>12, <1>13, <1>14 DEF IInv

(* What the other actions of this kind share.                              *)
OthersSame(r) ==
  \A q \in Reqs, n \in Names : q # r =>
    /\ Writes(q, n) <=> Writes(q, n)'
    /\ Revokes(q, n) <=> Revokes(q, n)'
    /\ PastDownBy(q, n) <=> PastDownBy(q, n)'

LEMMA ReturnFacts ==
  ASSUME IInv, NEW r \in Reqs, NEW op \in Ops \ {"list"}, NEW ret \in Returned,
         Awaiting(r, op), Return(r, ret)
  PROVE  /\ ReqsOK' /\ OthersSame(r)
         /\ r \in Live /\ r \in Live'
         /\ reqs[r].name \in Names
         /\ reqs[r].op = op /\ reqs[r].ret = "pending"
         /\ reqs'[r].name = reqs[r].name /\ reqs'[r].kind = reqs[r].kind
         /\ reqs'[r].op = op /\ reqs'[r].ret = ret
<1> DEFINE req == [reqs[r] EXCEPT !.ret = ret]
<1>1. r \in Live /\ ReqOK(reqs[r]) /\ reqs[r].op = op /\ reqs[r].ret = "pending"
  BY RequestOK DEF Awaiting
<1>2. /\ ReqOK(req) /\ req.op = op /\ req.ret = ret
      /\ req.name = reqs[r].name /\ req.kind = reqs[r].kind
  BY <1>1 DEF ReqOK, Request
<1>3. Sets(r, req)  BY DEF Sets, Return
<1>4. reqs'[r] = req  BY <1>3 DEF Sets, IInv, ReqsOK
<1> HIDE DEF req
<1>5. r \in Live'  BY <1>2, <1>4, NoReqAssumption DEF ReqOK, Live
<1>6. ReqsOK'  BY <1>2, <1>3, SetsReqs DEF IInv
<1>7. OthersSame(r)  BY <1>3, SetsOthers DEF IInv, OthersSame
<1> QED  BY <1>1, <1>2, <1>4, <1>5, <1>6, <1>7 DEF ReqOK

LEMMA EndFacts ==
  ASSUME IInv, NEW r \in Reqs, End(r)
  PROVE  ReqsOK' /\ OthersSame(r) /\ r \notin Live'
<1>1. Sets(r, NoReq)  BY DEF Sets, End
<1>2. r \notin Live'  BY <1>1 DEF IInv, ReqsOK, Sets, Live
<1>3. ReqsOK'  BY <1>1, SetsReqs DEF IInv
<1>4. OthersSame(r)  BY <1>1, SetsOthers DEF IInv, OthersSame
<1> QED  BY <1>2, <1>3, <1>4

LEMMA WriteFileInv ==
  ASSUME IInv, NEW r \in Reqs, WriteFile(r)
  PROVE  IInv'
<1> DEFINE s == reqs[r].name
<1>1. PICK ret \in Returned : Return(r, ret)  BY DEF WriteFile, Returned
<1>2. Awaiting(r, "write")  BY DEF WriteFile
<1>3. /\ ReqsOK' /\ OthersSame(r) /\ s \in Names
      /\ reqs[r].op = "write" /\ reqs'[r].op = "write"
  BY <1>1, <1>2, ReturnFacts DEF Ops
<1> HIDE DEF s
<1>4. /\ UNCHANGED <<hook, issued, retired, running>>
      /\ \/ /\ disk' = [disk EXCEPT ![s] = "file"]
            /\ torn' = torn \ {s}
            /\ left' = left \ {s}
            /\ orphaned' = orphaned \ {m \in {s} : ~PastDown(m)}
         \/ /\ disk' = disk
            /\ torn' = torn \cup {m \in {s} : disk[m] = "empty"}
            /\ UNCHANGED <<left, orphaned>>
  BY DEF WriteFile, s
<1>5. TypeOK'  BY <1>3, <1>4 DEF IInv, TypeOK, ReqsOK, ReqOK, Live
<1>6. \A n \in Names : n # s =>
        /\ disk'[n] = disk[n]
        /\ n \in torn' <=> n \in torn
        /\ n \in left' <=> n \in left
        /\ n \in orphaned' <=> n \in orphaned
  BY <1>4 DEF IInv, TypeOK
<1>7. \/ disk'[s] = "file"
      \/ disk'[s] = disk[s] /\ (disk[s] = "empty" => s \in torn') /\ UNCHANGED <<left, orphaned>>
  BY <1>3, <1>4 DEF IInv, TypeOK
<1>8. NoHalfStack'
  <2> SUFFICES ASSUME NEW n \in Names, disk'[n] = "empty", n \notin torn'
               PROVE  \E q \in Reqs : Writes(q, n)'
    BY DEF NoHalfStack
  <2>1. n # s  BY <1>7
  <2>2. PICK q \in Reqs : Writes(q, n)  BY <2>1, <1>6 DEF IInv, NoHalfStack
  <2>3. q # r  BY <2>1, <2>2 DEF Writes, s
  <2> QED  BY <1>3, <2>2, <2>3 DEF OthersSame
<1>9. HookHasStack'
  <2> SUFFICES ASSUME NEW n \in Names, hook[n] # 0, disk'[n] # "file", n \notin left'
               PROVE  \E q \in Reqs : Revokes(q, n)'
    BY <1>4 DEF HookHasStack
  <2>1. disk[n] # "file" /\ n \notin left  BY <1>6, <1>7
  <2>2. PICK q \in Reqs : Revokes(q, n)  BY <2>1 DEF IInv, HookHasStack
  <2>3. q # r  BY <1>3, <2>2 DEF Revokes
  <2> QED  BY <1>3, <2>2, <2>3 DEF OthersSame
<1>10. NoOrphans'
  <2> SUFFICES ASSUME NEW n \in running, disk'[n] # "file" PROVE n \in orphaned'
    BY <1>4 DEF NoOrphans
  <2>1. n \in Names  BY DEF IInv, TypeOK
  <2> QED  BY <1>6, <1>7, <2>1 DEF IInv, NoOrphans
<1>11. DownIsDone'
  <2> SUFFICES ASSUME NEW n \in running, PastDown(n)' PROVE n \in orphaned'
    BY <1>4 DEF DownIsDone
  <2>0. n \in Names  BY DEF IInv, TypeOK
  <2>1. PICK q \in Reqs : PastDownBy(q, n)'  BY DEF PastDown, PastDownBy
  <2>2. q # r  BY <1>3, <2>1 DEF PastDownBy
  <2>3. PastDownBy(q, n)  BY <1>3, <2>0, <2>1, <2>2 DEF OthersSame
  <2>4. PastDown(n) /\ n \in orphaned  BY <2>3 DEF IInv, DownIsDone, PastDown, PastDownBy
  <2> QED  BY <1>4, <2>4
<1>12. HooksInv'  BY <1>4 DEF IInv, HooksInv
<1> QED  BY <1>3, <1>5, <1>8, <1>9, <1>10, <1>11, <1>12 DEF IInv

LEMMA HalfStackKept ==
  ASSUME IInv, NEW r \in Reqs, OthersSame(r), \A n \in Names : ~Writes(r, n), UNCHANGED files
  PROVE  NoHalfStack'
<1> SUFFICES ASSUME NEW n \in Names, disk[n] = "empty", n \notin torn
             PROVE  \E q \in Reqs : Writes(q, n)'
  BY DEF NoHalfStack, files
<1>1. PICK q \in Reqs : Writes(q, n)  BY DEF IInv, NoHalfStack
<1> QED  BY <1>1 DEF OthersSame

LEMMA HookKept ==
  ASSUME IInv, NEW r \in Reqs, OthersSame(r), \A n \in Names : ~Revokes(r, n),
         UNCHANGED <<disk, hook, left>>
  PROVE  HookHasStack'
<1> SUFFICES ASSUME NEW n \in Names, hook[n] # 0, disk[n] # "file", n \notin left
             PROVE  \E q \in Reqs : Revokes(q, n)'
  BY DEF HookHasStack
<1>1. PICK q \in Reqs : Revokes(q, n)  BY DEF IInv, HookHasStack
<1> QED  BY <1>1 DEF OthersSame

LEMMA DownKept ==
  ASSUME IInv, NEW r \in Reqs, OthersSame(r), \A n \in Names : ~PastDownBy(r, n)',
         UNCHANGED projects
  PROVE  DownIsDone'
<1> SUFFICES ASSUME NEW n \in running, PastDown(n)' PROVE n \in orphaned
  BY DEF DownIsDone, projects
<1>0. n \in Names  BY DEF IInv, TypeOK
<1>1. PICK q \in Reqs : PastDownBy(q, n)'  BY DEF PastDown, PastDownBy
<1>2. PastDownBy(q, n)  BY <1>0, <1>1 DEF OthersSame
<1> QED  BY <1>2 DEF IInv, DownIsDone, PastDown, PastDownBy

LEMMA ComposeStartInv ==
  ASSUME IInv, NEW r \in Reqs, ComposeStart(r)
  PROVE  IInv'
<1> DEFINE s == reqs[r].name
<1>1. PICK ret \in Returned : Return(r, ret)  BY DEF ComposeStart, Returned
<1>2. Awaiting(r, "start")  BY DEF ComposeStart
<1>3. /\ ReqsOK' /\ OthersSame(r) /\ s \in Names
      /\ reqs[r].op = "start" /\ reqs'[r].op = "start"
  BY <1>1, <1>2, ReturnFacts DEF Ops
<1> HIDE DEF s
<1>4. /\ UNCHANGED <<files, hooks>>
      /\ \/ /\ running' = running \cup {s}
            /\ orphaned' = orphaned \cup {m \in {s} : disk[m] # "file" \/ PastDown(m)}
         \/ UNCHANGED projects
  BY DEF ComposeStart, s
<1> USE DEF files, hooks, projects
<1>5. TypeOK'  BY <1>3, <1>4 DEF IInv, TypeOK, ReqsOK, ReqOK, Live
<1>6. NoHalfStack'  BY <1>3, <1>4, HalfStackKept DEF Writes
<1>7. HookHasStack'  BY <1>3, <1>4, HookKept DEF Revokes
<1>8. NoOrphans'  BY <1>3, <1>4 DEF IInv, NoOrphans, TypeOK
<1>9. DownIsDone'
  <2> SUFFICES ASSUME NEW n \in running', PastDown(n)' PROVE n \in orphaned'
    BY DEF DownIsDone
  <2>0. n \in Names  BY <1>5 DEF TypeOK
  <2>1. PICK q \in Reqs : PastDownBy(q, n)'  BY DEF PastDown, PastDownBy
  <2>2. q # r  BY <1>3, <2>1 DEF PastDownBy
  <2>3. PastDownBy(q, n)  BY <1>3, <2>0, <2>1, <2>2 DEF OthersSame
  <2>4. PastDown(n)  BY <2>3 DEF PastDown, PastDownBy
  <2> QED  BY <1>4, <2>4 DEF IInv, DownIsDone
<1>10. HooksInv'  BY <1>4 DEF IInv, HooksInv
<1> QED  BY <1>3, <1>5, <1>6, <1>7, <1>8, <1>9, <1>10 DEF IInv

(* A deletion's `down` either has worked or has made the stack an orphan.  *)
LEMMA ComposeDownInv ==
  ASSUME IInv, NEW r \in Reqs, ComposeDown(r)
  PROVE  IInv'
<1> DEFINE s == reqs[r].name
<1>1. PICK ret \in Returned : Return(r, ret)  BY DEF ComposeDown, Returned
<1>2. Awaiting(r, "down")  BY DEF ComposeDown
<1>3. /\ ReqsOK' /\ OthersSame(r) /\ s \in Names
      /\ r \in Live /\ r \in Live'
      /\ reqs[r].op = "down" /\ reqs'[r].op = "down"
      /\ reqs'[r].name = s /\ reqs'[r].kind = reqs[r].kind
  BY <1>1, <1>2, ReturnFacts DEF Ops
<1>4. /\ UNCHANGED <<files, hooks>>
      /\ \/ /\ disk[s] = "file"
            /\ running' = running \ {s}
            /\ orphaned' = orphaned \ {s}
         \/ /\ running' = running
            /\ orphaned' = orphaned \cup {m \in {s} : Deletes(r, m) /\ m \in running}
  BY DEF ComposeDown
<1> USE DEF files, hooks
<1>5. TypeOK'  BY <1>3, <1>4 DEF IInv, TypeOK, ReqsOK, ReqOK, Live
<1>6. NoHalfStack'  BY <1>3, <1>4, HalfStackKept DEF Writes
<1>7. HookHasStack'  BY <1>3, <1>4, HookKept DEF Revokes
<1>8. NoOrphans'  BY <1>3, <1>4 DEF IInv, NoOrphans, TypeOK
<1>9. DownIsDone'
  <2> SUFFICES ASSUME NEW n \in running', PastDown(n)' PROVE n \in orphaned'
    BY DEF DownIsDone
  <2>0. n \in Names /\ n \in running  BY <1>4 DEF IInv, TypeOK
  <2>1. PICK q \in Reqs : PastDownBy(q, n)'  BY DEF PastDown, PastDownBy
  <2>2. CASE q # r
    <3>1. PastDownBy(q, n)  BY <1>3, <2>0, <2>1, <2>2 DEF OthersSame
    <3>2. n \in orphaned  BY <2>0, <3>1 DEF IInv, DownIsDone, PastDown, PastDownBy
    <3> QED  BY <1>4, <3>2
  <2>3. CASE q = r
    <3>1. n = s /\ Deletes(r, s)  BY <1>3, <2>1, <2>3 DEF PastDownBy, Deletes
    <3> QED  BY <1>4, <2>0, <3>1
  <2> QED  BY <2>2, <2>3
<1>10. HooksInv'  BY <1>4 DEF IInv, HooksInv
<1> QED  BY <1>3, <1>5, <1>6, <1>7, <1>8, <1>9, <1>10 DEF IInv

(* The directory goes when its containers are gone or counted as orphaned, *)
(* and with a request behind it that will revoke the row, or the row is    *)
(* counted as left.                                                        *)
LEMMA RmInv ==
  ASSUME IInv, NEW r \in Reqs, Rm(r)
  PROVE  IInv'
<1> DEFINE s == reqs[r].name
<1>1. PICK ret \in Returned :
        /\ Return(r, ret)
        /\ \/ /\ ret = "yes"
              /\ disk' = [disk EXCEPT ![s] = "none"]
              /\ torn' = torn \ {s}
              /\ left' = left \cup {m \in {s} : reqs[r].kind = "reset" /\ hook[m] # 0}
           \/ /\ disk' = [disk EXCEPT ![s] = "empty"]
              /\ torn' = torn \cup {s}
              /\ left' = left \cup {m \in {s} : hook[m] # 0}
           \/ UNCHANGED <<files, left>>
  BY DEF Rm, Returned
<1>2. Awaiting(r, "rm") /\ UNCHANGED <<hook, issued, retired, projects>>  BY DEF Rm
<1>3. /\ ReqsOK' /\ OthersSame(r) /\ s \in Names
      /\ r \in Live /\ r \in Live'
      /\ reqs[r].op = "rm" /\ reqs[r].ret = "pending"
      /\ reqs'[r].op = "rm" /\ reqs'[r].ret = ret
      /\ reqs'[r].name = s /\ reqs'[r].kind = reqs[r].kind
  BY <1>1, <1>2, ReturnFacts DEF Ops
<1>4. reqs[r].kind \in {"remove", "reset"}  BY <1>3, RequestOK DEF ReqOK
<1>5. PastDown(s)  BY <1>3, <1>4 DEF PastDown, Deletes
<1>6. s \in running => s \in orphaned  BY <1>5 DEF IInv, DownIsDone
<1> USE DEF files, projects
<1> HIDE DEF s
<1>7. TypeOK'  BY <1>1, <1>2, <1>3 DEF IInv, TypeOK, ReqsOK, ReqOK, Live
<1>8. \A n \in Names : n # s =>
        /\ disk'[n] = disk[n]
        /\ n \in torn' <=> n \in torn
        /\ n \in left' <=> n \in left
  BY <1>1 DEF IInv, TypeOK
<1>9. ~Writes(r, s) /\ ~Revokes(r, s)  BY <1>3 DEF Writes, Revokes
<1>10. NoHalfStack'
  <2> SUFFICES ASSUME NEW n \in Names, disk'[n] = "empty", n \notin torn'
               PROVE  \E q \in Reqs : Writes(q, n)'
    BY DEF NoHalfStack
  <2>1. disk[n] = "empty" /\ n \notin torn  BY <1>1, <1>3, <1>8 DEF IInv, TypeOK
  <2>2. PICK q \in Reqs : Writes(q, n)  BY <2>1 DEF IInv, NoHalfStack
  <2>3. q # r  BY <1>3, <2>2 DEF Writes
  <2> QED  BY <1>3, <2>2, <2>3 DEF OthersSame
<1>11. HookHasStack'
  <2> SUFFICES ASSUME NEW n \in Names, hook[n] # 0, disk'[n] # "file", n \notin left'
               PROVE  \E q \in Reqs : Revokes(q, n)'
    BY <1>2 DEF HookHasStack
  <2>1. CASE n = s /\ ret = "yes" /\ reqs[r].kind = "remove"
    <3>1. Revokes(r, n)'  BY <1>3, <2>1 DEF Revokes
    <3> QED  BY <3>1
  <2>2. CASE ~(n = s /\ ret = "yes" /\ reqs[r].kind = "remove")
    <3>1. disk[n] # "file" /\ n \notin left
      BY <1>1, <1>3, <1>4, <1>8, <2>2 DEF IInv, TypeOK
    <3>2. PICK q \in Reqs : Revokes(q, n)  BY <3>1 DEF IInv, HookHasStack
    <3>3. q # r  BY <1>3, <3>2 DEF Revokes
    <3> QED  BY <1>3, <3>2, <3>3 DEF OthersSame
  <2> QED  BY <2>1, <2>2
<1>12. NoOrphans'
  <2> SUFFICES ASSUME NEW n \in running, disk'[n] # "file" PROVE n \in orphaned
    BY <1>2 DEF NoOrphans
  <2>1. n \in Names  BY DEF IInv, TypeOK
  <2> QED  BY <1>6, <1>8, <2>1 DEF IInv, NoOrphans
<1>13. \A n \in Names : ~PastDownBy(r, n)'
  BY <1>3 DEF PastDownBy, Returned
<1>14. DownIsDone'  BY <1>2, <1>3, <1>13, DownKept
<1>15. HooksInv'  BY <1>2 DEF IInv, HooksInv
<1> QED  BY <1>3, <1>7, <1>10, <1>11, <1>12, <1>14, <1>15 DEF IInv

-----------------------------------------------------------------------------
(* The actions on a row end their request.                                 *)
LEMMA RowInv ==
  ASSUME IInv, NEW r \in Reqs, r \in Live, End(r), NEW s \in Names,
         reqs[r].name = s, reqs[r].op \notin {"mkdir", "write"},
         UNCHANGED <<files, projects>>, TypeOK', HooksInv',
         \A n \in Names : n # s => hook'[n] = hook[n] /\ (n \in left' <=> n \in left),
         hook'[s] # 0 => disk[s] = "file" \/ s \in left'
  PROVE  IInv'
<1>1. ReqsOK' /\ OthersSame(r) /\ r \notin Live'  BY EndFacts
<1>2. NoHalfStack'  BY <1>1, HalfStackKept DEF Writes
<1>3. HookHasStack'
  <2> SUFFICES ASSUME NEW n \in Names, hook'[n] # 0, disk[n] # "file", n \notin left'
               PROVE  \E q \in Reqs : Revokes(q, n)'
    BY DEF HookHasStack, files
  <2>1. n # s  OBVIOUS
  <2>2. PICK q \in Reqs : Revokes(q, n)  BY <2>1 DEF IInv, HookHasStack
  <2>3. q # r  BY <2>1, <2>2 DEF Revokes
  <2> QED  BY <1>1, <2>2, <2>3 DEF OthersSame
<1>4. NoOrphans'  BY DEF IInv, NoOrphans, files, projects
<1>5. \A n \in Names : ~PastDownBy(r, n)'  BY <1>1 DEF PastDownBy, Deletes
<1>6. DownIsDone'  BY <1>1, <1>5, DownKept
<1> QED  BY <1>1, <1>2, <1>3, <1>4, <1>6 DEF IInv

LEMMA RevokedInv ==
  ASSUME IInv, NEW r \in Reqs, r \in Live, End(r),
         reqs[r].op \notin {"list", "mkdir", "write"},
         Revoked(reqs[r].name), UNCHANGED <<files, projects>>
  PROVE  IInv'
<1> DEFINE s == reqs[r].name
<1>1. s \in Names  BY RequestOK DEF ReqOK
<1>2. ReqsOK'  BY EndFacts
<1> HIDE DEF s
<1>3. /\ hook' = [hook EXCEPT ![s] = 0]
      /\ retired' = retired \cup ({hook[s]} \ {0})
      /\ left' = left \ {s}
      /\ issued' = issued
  BY DEF Revoked, s
<1>4. hook'[s] = 0 /\ \A n \in Names : n # s => hook'[n] = hook[n]
  BY <1>1, <1>3 DEF IInv, TypeOK
<1>5. TypeOK'
  <2>1. /\ hook \in [Names -> 0..issued] /\ issued \in Nat
        /\ retired \in SUBSET (1..issued)
    BY MaxTokenAssumption DEF IInv, TypeOK
  <2>2. hook' \in [Names -> 0..issued]  BY <1>1, <1>3, <2>1
  <2>3. ASSUME NEW k \in retired' PROVE k \in 1..issued
    <3>1. hook[s] \in 0..issued  BY <1>1, <2>1
    <3>2. k \in retired \/ (k = hook[s] /\ k # 0)  BY <1>3
    <3>3. k \in retired => k \in 1..issued  BY <2>1
    <3>4. k = hook[s] /\ k # 0 => k \in 1..issued  BY <2>1, <3>1
    <3> QED  BY <3>2, <3>3, <3>4
  <2> QED  BY <1>2, <1>3, <2>2, <2>3 DEF IInv, TypeOK, ReqsOK, ReqOK, files, projects, Live
<1>6. HooksInv'
  <2>1. 0 \notin retired'  BY <1>5, <1>3, MaxTokenAssumption DEF TypeOK
  <2>2. \A n \in Names : hook'[n] \notin retired'
    BY <1>1, <1>3, <1>4, <2>1 DEF IInv, HooksInv
  <2> QED  BY <1>1, <1>4, <2>2 DEF IInv, HooksInv
<1>7. /\ \A n \in Names : n # s => hook'[n] = hook[n] /\ (n \in left' <=> n \in left)
      /\ hook'[s] # 0 => disk[s] = "file" \/ s \in left'
  BY <1>3, <1>4
<1> QED  BY <1>1, <1>5, <1>6, <1>7, RowInv DEF s

LEMMA RegenerateInv ==
  ASSUME IInv, NEW r \in Reqs, Regenerate(r)
  PROVE  IInv'
<1> DEFINE s == reqs[r].name
<1>1. r \in Live /\ reqs[r].op = "access" /\ End(r) /\ UNCHANGED <<files, projects>>
  BY DEF Regenerate, After
<1>2. s \in Names  BY <1>1, RequestOK DEF ReqOK
<1>3. ReqsOK'  BY <1>1, EndFacts
<1>4. /\ issued < MaxToken /\ issued' = issued + 1
      /\ hook' = [hook EXCEPT ![s] = issued']
      /\ retired' = retired \cup ({hook[s]} \ {0})
      /\ left' = IF disk[s] = "file" THEN left \ {s} ELSE left \cup {s}
  BY DEF Regenerate
<1>5. \A n \in Names : n # s => hook'[n] = hook[n] /\ (n \in left' <=> n \in left)
  BY <1>2, <1>4 DEF IInv, TypeOK
<1>6. disk[s] = "file" \/ s \in left'  BY <1>4
<1> HIDE DEF s
<1>7. /\ hook \in [Names -> 0..issued] /\ issued \in Nat /\ retired \in SUBSET (1..issued)
  BY MaxTokenAssumption DEF IInv, TypeOK
<1>8. TypeOK'
  <2>1. issued' \in 0..MaxToken  BY <1>4, <1>7, MaxTokenAssumption
  <2>2. hook' \in [Names -> 0..issued']  BY <1>2, <1>4, <1>7
  <2>3. ASSUME NEW k \in retired' PROVE k \in 1..issued'
    <3>1. hook[s] \in 0..issued  BY <1>2, <1>7
    <3>2. k \in retired \/ (k = hook[s] /\ k # 0)  BY <1>4
    <3> QED  BY <1>4, <1>7, <3>1, <3>2
  <2>4. left' \in SUBSET Names  BY <1>2, <1>4 DEF IInv, TypeOK
  <2> QED  BY <1>1, <1>3, <2>1, <2>2, <2>3, <2>4
           DEF IInv, TypeOK, ReqsOK, ReqOK, files, projects, Live
<1>9. HooksInv'
  <2>1. hook'[s] = issued + 1  BY <1>2, <1>4, <1>7
  <2>2. issued + 1 \notin retired' /\ 0 \notin retired'  BY <1>2, <1>4, <1>7
  <2>3. \A n \in Names : hook[n] # issued + 1  BY <1>7
  <2>4. \A n \in Names : hook'[n] \notin retired'
    BY <1>2, <1>4, <1>5, <2>1, <2>2 DEF IInv, HooksInv
  <2> QED  BY <1>2, <1>5, <2>1, <2>3, <2>4 DEF IInv, HooksInv
<1> QED  BY <1>1, <1>2, <1>5, <1>6, <1>8, <1>9, RowInv DEF s

LEMMA RemovedInv ==
  ASSUME IInv, NEW r \in Reqs, Removed(r)
  PROVE  IInv'
<1>1. /\ r \in Live /\ reqs[r].op = "rm" /\ End(r)
      /\ UNCHANGED <<files, projects>>
  BY DEF Removed, After
<1>2. CASE Revoked(reqs[r].name)  BY <1>1, <1>2, RevokedInv
<1>3. CASE Got(r, "no") /\ UNCHANGED hooks
  <2>1. AtEase(r)  BY <1>1, <1>3 DEF AtEase, Got
  <2> QED  BY <1>1, <1>3, <2>1, EndInv
<1> QED  BY <1>2, <1>3 DEF Removed

LEMMA RevokeInv ==
  ASSUME IInv, NEW r \in Reqs, Revoke(r)
  PROVE  IInv'
BY RevokedInv DEF Revoke, After

LEMMA CrashInv ==
  ASSUME IInv, Crash
  PROVE  IInv'
<1>1. \A r \in Reqs : r \notin Live'  BY DEF Crash, Live
<1>2. ReqsOK'  BY <1>1 DEF Crash, ReqsOK, Live
<1>3. TypeOK'  BY <1>2, <1>1 DEF IInv, TypeOK, ReqsOK, Crash, projects, Live
<1>4. NoHalfStack' /\ HookHasStack' /\ NoOrphans'
  BY DEF Crash, IInv, NoHalfStack, HookHasStack, NoOrphans, projects
<1>5. DownIsDone'  BY <1>1 DEF DownIsDone, PastDown, Deletes
<1>6. HooksInv'  BY DEF Crash, IInv, HooksInv
<1> QED  BY <1>2, <1>3, <1>4, <1>5, <1>6 DEF IInv

-----------------------------------------------------------------------------
LEMMA InitIInv == Init => IInv
<1> SUFFICES ASSUME Init PROVE IInv
  OBVIOUS
<1> USE DEF Init
<1>1. Live = {}  BY DEF Live
<1>2. TypeOK  BY <1>1, MaxTokenAssumption DEF TypeOK
<1>3. ReqsOK  BY <1>1 DEF ReqsOK
<1>4. NoHalfStack /\ HookHasStack /\ NoOrphans  BY DEF NoHalfStack, HookHasStack, NoOrphans
<1>5. DownIsDone /\ HooksInv  BY DEF DownIsDone, HooksInv
<1> QED  BY <1>2, <1>3, <1>4, <1>5 DEF IInv

LEMMA NextIInv == IInv /\ [Next]_vars => IInv'
<1> SUFFICES ASSUME IInv, [Next]_vars PROVE IInv'
  OBVIOUS
<1>1. CASE Crash  BY <1>1, CrashInv
<1>2. ASSUME NEW r \in Reqs, Operation(r) PROVE IInv'
  BY <1>2, OperationsInv, MkdirInv, WriteFileInv, ComposeStartInv, ComposeDownInv, RmInv
  DEF Operation
<1>3. ASSUME NEW r \in Reqs, Handler(r) PROVE IInv'
  BY <1>3, ArriveInv, HandlersInv, DeleteDownInv, ResetStackInv, RemovedInv, RegenerateInv, RevokeInv
  DEF Handler
<1>4. CASE UNCHANGED vars
  BY <1>4 DEF vars, files, hooks, projects, IInv, TypeOK, ReqsOK, Live, NoHalfStack, Writes,
     HookHasStack, Revokes, NoOrphans, DownIsDone, PastDown, Deletes, HooksInv
<1> QED  BY <1>1, <1>2, <1>3, <1>4 DEF Next

(* Only Trigger sends a webhook call on to a deployment, and it has just   *)
(* compared the token with that of the row.                                *)
LEMMA RetiredStep ==
  ASSUME IInv, [Next]_vars, NEW r \in Live,
         reqs[r].kind = "trigger", reqs[r].op = "access",
         reqs'[r] # NoReq, reqs'[r].op = "up"
  PROVE  reqs[r].token \notin retired
<1>0. r \in Reqs /\ ReqOK(reqs[r])  BY RequestOK DEF Live
<1>1. CASE Crash  BY <1>0, <1>1 DEF Crash
<1>2. ASSUME NEW q \in Reqs, Operation(q) PROVE FALSE
  <2>1. CASE q # r
    <3>1. reqs'[r] = reqs[r]
      BY <1>0, <1>2, <2>1 DEF Operation, Access, Fetch, List, Mkdir, WriteFile, ComposeUp,
         ComposeStart, ComposeDown, Rm, Return, IInv, ReqsOK
    <3> QED  BY <3>1
  <2>2. CASE q = r
    <3>1. Access(r)
      BY <1>2, <2>2 DEF Operation, Access, Fetch, List, Mkdir, WriteFile, ComposeUp,
         ComposeStart, ComposeDown, Rm, Awaiting
    <3>2. reqs'[r].op = "access"  BY <1>0, <3>1, ReturnFacts DEF Access, Ops, Returned
    <3> QED  BY <3>2
  <2> QED  BY <2>1, <2>2
<1>3. ASSUME NEW q \in Reqs, Handler(q) PROVE q = r /\ Trigger(q)
  <2>1. CASE q # r
    <3>1. reqs'[r] = reqs[r]
      BY <1>0, <1>3, <2>1 DEF Handler, Arrive, Arrives, Refused, Write, Import, Made, Written,
         Deploy, Down, Composed, Remove, DeleteDown, Removed, ResetStack, Regenerate, Revoke,
         Trigger, NextStack, Go, End, IInv, ReqsOK
    <3> QED  BY <3>1, SMTT(60)
  <2>2. CASE q = r
    <3>1. ~Refused(r)  BY <1>0 DEF Refused, End, IInv, ReqsOK
    <3> QED
      BY <1>0, <1>3, <2>2, <3>1 DEF Handler, Arrive, Arrives, Write, Import, Made, Written,
         Deploy, Down, Composed, Remove, DeleteDown, Removed, ResetStack, Regenerate, Revoke,
         After, Makers, Live
  <2> QED  BY <2>1, <2>2
<1>4. CASE \E q \in Reqs : Trigger(q) /\ q = r
  <2>1. Trigger(r)  BY <1>4
  <2>2. hook[reqs[r].name] = reqs[r].token  BY <1>0, <2>1 DEF Trigger, End, IInv, ReqsOK
  <2>3. reqs[r].name \in Names  BY <1>0 DEF ReqOK
  <2> QED  BY <2>2, <2>3 DEF IInv, HooksInv
<1>5. CASE UNCHANGED vars  BY <1>5 DEF vars
<1> QED  BY <1>1, <1>2, <1>3, <1>4, <1>5 DEF Next

-----------------------------------------------------------------------------
(* The inductive invariant holds in every reachable state.                 *)
THEOREM StacksInv == Spec => []IInv
<1> QED  BY InitIInv, NextIInv, PTL DEF Spec

(* Types: in particular a request awaits an operation on a stack, unless   *)
(* it lists them.                                                          *)
THEOREM StacksTypeOK == Spec => []TypeOK
<1>1. IInv => TypeOK  BY DEF IInv
<1> QED  BY <1>1, StacksInv, PTL

(* A directory without a compose file is being written, or is what is left *)
(* of a write or deletion that failed or was cut off.                      *)
THEOREM HalfStacksAreBroken == Spec => []NoHalfStack
<1>1. IInv => NoHalfStack  BY DEF IInv
<1> QED  BY <1>1, StacksInv, PTL

(* A webhook row belongs to a stack, or to one whose deletion revokes it,  *)
(* but for those left in one of the ways HookHasStack names.               *)
THEOREM HooksHaveStacks == Spec => []HookHasStack
<1>1. IInv => HookHasStack  BY DEF IInv
<1> QED  BY <1>1, StacksInv, PTL

(* A deletion leaves no containers behind, unless its `down` failed or a   *)
(* deployment overtook it.                                                 *)
THEOREM DeletionsLeaveNothing == Spec => []NoOrphans
<1>1. IInv => NoOrphans  BY DEF IInv
<1> QED  BY <1>1, StacksInv, PTL

(* A webhook call with a retired token never gets as far as a deployment,  *)
(* whatever happens between its two looks at the stack.                    *)
THEOREM RetiredTokensAreDead == Spec => RetiredTokensNeverDeploy
<1>1. IInv /\ [Next]_vars =>
        [\A r \in Live :
           reqs[r].kind = "trigger" /\ reqs[r].op = "access" /\ reqs'[r] # NoReq
             /\ reqs'[r].op = "up" => reqs[r].token \notin retired]_vars
  BY RetiredStep
<1> QED  BY <1>1, StacksInv, PTL DEF Spec, RetiredTokensNeverDeploy
=============================================================================
