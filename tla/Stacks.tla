------------------------------- MODULE Stacks -------------------------------
(***************************************************************************)
(* Compose stacks (stacks.ts, controllers/stacks.controller.ts), their     *)
(* deploy webhooks (stackWebhooks.ts, controllers/deployWebhook.           *)
(* controller.ts), and the restore and factory reset that write and delete *)
(* them (backup.ts, controllers/settings.controller.ts).                   *)
(*                                                                         *)
(* Every handler here awaits the file system or `docker compose` (both     *)
(* external) several times.  A request under way awaits one operation op;  *)
(* the operation takes effect at some moment, and at some later one the    *)
(* handler goes on with what it returned (ret), up to its next await.      *)
(* The text of a compose file is left out: it is there or it is not.       *)
(***************************************************************************)
EXTENDS Naturals, FiniteSets

CONSTANTS
  Names,      \* names of stacks
  Reqs,       \* BOUND: requests under way at a time
  MaxToken,   \* BOUND: webhook tokens generated
  NoReq, NoName

ASSUME MaxTokenAssumption == MaxToken \in Nat
ASSUME NoNameAssumption == NoName \notin Names

Guarded == {"update", "deploy", "down", "remove", "regenerate", "revoke", "trigger"}
Makers == {"create", "import"}
Kinds == Guarded \cup Makers \cup {"reset", "restore"}
Ops == {"access", "fetch", "list", "mkdir", "write", "up", "start", "down", "rm"}
Returned == {"yes", "no"}

(* todo: the stacks a reset or restore has not come to; token: the one a   *)
(* webhook call presents, 0 for none.                                      *)
Request == [kind : Kinds, name : Names \cup {NoName}, todo : SUBSET Names,
            token : 0..MaxToken, op : Ops, ret : Returned \cup {"pending"}]

ASSUME NoReqAssumption == NoReq \notin Request

VARIABLES
  disk,       \* disk[n]: "none", "empty" (a directory without a file), "file"
  hook,       \* hook[n]: the token of n's webhook row, 0 if there is no row
  issued,     \* tokens generated so far
  running,    \* the stacks whose compose project has containers
  reqs,       \* reqs[r]: the request under way, or NoReq
  retired,    \* history: tokens that were replaced or revoked
  torn,       \* history: stacks whose write failed or was cut off
  left,       \* history: stacks whose webhook row was left without a stack
  orphaned    \* history: stacks whose containers escaped a deletion

files == <<disk, torn>>
hooks == <<hook, issued, retired, left>>
projects == <<running, orphaned>>
vars == <<files, hooks, projects, reqs>>

Live == {r \in Reqs : reqs[r] # NoReq}

TypeOK ==
  /\ disk \in [Names -> {"none", "empty", "file"}]
  /\ issued \in 0..MaxToken
  /\ hook \in [Names -> 0..issued]
  /\ retired \in SUBSET (1..issued)
  /\ running \in SUBSET Names
  /\ reqs \in [Reqs -> Request \cup {NoReq}]
  /\ \A r \in Live : reqs[r].op # "list" => reqs[r].name \in Names
  /\ torn \in SUBSET Names /\ left \in SUBSET Names /\ orphaned \in SUBSET Names

(* A first start: no stack.                                                *)
Init ==
  /\ disk = [n \in Names |-> "none"]
  /\ hook = [n \in Names |-> 0]
  /\ issued = 0
  /\ running = {}
  /\ reqs = [r \in Reqs |-> NoReq]
  /\ retired = {} /\ torn = {} /\ left = {} /\ orphaned = {}

-----------------------------------------------------------------------------
(* The operations that are awaited.                                        *)
Awaiting(r, op) == r \in Live /\ reqs[r].op = op /\ reqs[r].ret = "pending"
Return(r, ret) == reqs' = [reqs EXCEPT ![r].ret = ret]

(* A remove or reset of n that is done with `down` and has yet to rm.      *)
Deletes(r, n) == r \in Live /\ reqs[r].kind \in {"remove", "reset"} /\ reqs[r].name = n
PastDown(n) ==
  \E r \in Reqs : /\ Deletes(r, n)
                  /\ \/ reqs[r].op = "down" /\ reqs[r].ret # "pending"
                     \/ reqs[r].op = "rm" /\ reqs[r].ret = "pending"

Access(r) ==
  /\ Awaiting(r, "access")
  /\ Return(r, IF disk[reqs[r].name] = "file" THEN "yes" ELSE "no")
  /\ UNCHANGED <<files, hooks, projects>>

(* Portainer's answer, which may not come.                                 *)
Fetch(r) ==
  /\ Awaiting(r, "fetch")
  /\ \E ret \in Returned : Return(r, ret)
  /\ UNCHANGED <<files, hooks, projects>>

List(r) ==
  /\ Awaiting(r, "list")
  /\ reqs' = [reqs EXCEPT ![r].ret = "yes", ![r].todo = {n \in Names : disk[n] # "none"}]
  /\ UNCHANGED <<files, hooks, projects>>

Mkdir(r) ==
  /\ Awaiting(r, "mkdir")
  /\ Return(r, "yes")
  /\ disk' = [disk EXCEPT ![reqs[r].name] = IF @ = "none" THEN "empty" ELSE @]
  /\ UNCHANGED <<torn, hooks, projects>>

(* writeFile fails without the directory, and may fail with it.            *)
WriteFile(r) ==
  /\ Awaiting(r, "write")
  /\ LET n == reqs[r].name IN
     \/ /\ disk[n] # "none"
        /\ Return(r, "yes")
        /\ disk' = [disk EXCEPT ![n] = "file"]
        /\ torn' = torn \ {n}
        /\ left' = left \ {n}
        /\ orphaned' = orphaned \ {m \in {n} : ~PastDown(m)}
     \/ /\ Return(r, "no")
        /\ disk' = disk
        /\ torn' = torn \cup {m \in {n} : disk[m] = "empty"}
        /\ UNCHANGED <<left, orphaned>>
  /\ UNCHANGED <<hook, issued, retired, running>>

(* `docker compose up` reads the file, pulls the images and starts the     *)
(* containers, in up to ten minutes; one that fails may have started some. *)
ComposeUp(r) ==
  /\ Awaiting(r, "up")
  /\ \/ disk[reqs[r].name] = "file" /\ reqs' = [reqs EXCEPT ![r].op = "start"]
     \/ Return(r, "no")
  /\ UNCHANGED <<files, hooks, projects>>

ComposeStart(r) ==
  /\ Awaiting(r, "start")
  /\ LET n == reqs[r].name IN
     \/ /\ \E ret \in Returned : Return(r, ret)
        /\ running' = running \cup {n}
        /\ orphaned' = orphaned \cup {m \in {n} : disk[m] # "file" \/ PastDown(m)}
     \/ /\ Return(r, "no")
        /\ UNCHANGED projects
  /\ UNCHANGED <<files, hooks>>

(* `docker compose down` needs the file too.                               *)

ComposeDown(r) ==
  /\ Awaiting(r, "down")
  /\ LET n == reqs[r].name IN
     \/ /\ disk[n] = "file"
        /\ \E ret \in Returned : Return(r, ret)
        /\ running' = running \ {n}
        /\ orphaned' = orphaned \ {n}
     \/ /\ Return(r, "no")
        /\ running' = running
        /\ orphaned' = orphaned \cup {m \in {n} : Deletes(r, m) /\ m \in running}
  /\ UNCHANGED <<files, hooks>>

(* fs.rm of the directory, which may fail, also half way.                  *)
Rm(r) ==
  /\ Awaiting(r, "rm")
  /\ LET n == reqs[r].name IN
     \/ /\ Return(r, "yes")
        /\ disk' = [disk EXCEPT ![n] = "none"]
        /\ torn' = torn \ {n}
        /\ left' = left \cup {m \in {n} : reqs[r].kind = "reset" /\ hook[m] # 0}
     \/ /\ Return(r, "no")
        /\ disk[n] # "none"
        /\ disk' = [disk EXCEPT ![n] = "empty"]
        /\ torn' = torn \cup {n}
        /\ left' = left \cup {m \in {n} : hook[m] # 0}
     \/ /\ Return(r, "no")
        /\ UNCHANGED <<files, left>>
  /\ UNCHANGED <<hook, issued, retired, projects>>

-----------------------------------------------------------------------------
(* A request arrives: it asks whether the stack exists (in the handler, or *)
(* in requireStack before it), a reset lists the directories, a restore    *)
(* makes the directory of its first stack.                                 *)
Arrives(r, req) == reqs[r] = NoReq /\ reqs' = [reqs EXCEPT ![r] = req]

Arrive(r) ==
  /\ \/ \E kind \in (Guarded \cup Makers) \ {"trigger"}, n \in Names :
          Arrives(r, [kind |-> kind, name |-> n, todo |-> {}, token |-> 0,
                      op |-> "access", ret |-> "pending"])
     \/ \E n \in Names, token \in 1..issued :
          Arrives(r, [kind |-> "trigger", name |-> n, todo |-> {}, token |-> token,
                      op |-> "access", ret |-> "pending"])
     \/ Arrives(r, [kind |-> "reset", name |-> NoName, todo |-> {}, token |-> 0,
                    op |-> "list", ret |-> "pending"])
     \/ \E N \in SUBSET Names : \E n \in N :
          Arrives(r, [kind |-> "restore", name |-> n, todo |-> N \ {n}, token |-> 0,
                      op |-> "mkdir", ret |-> "pending"])
  /\ UNCHANGED <<files, hooks, projects>>

(* A handler goes on after its await, to the next one or to its end.       *)
After(r, kinds, op) == r \in Live /\ reqs[r].kind \in kinds /\ reqs[r].op = op
Got(r, ret) == reqs[r].ret = ret
Go(r, op) == reqs' = [reqs EXCEPT ![r].op = op, ![r].ret = "pending"]
End(r) == reqs' = [reqs EXCEPT ![r] = NoReq]

(* 409 for a stack to be made, 404 for any other.                          *)
Refused(r) ==
  /\ \/ After(r, Makers, "access") /\ Got(r, "yes")
     \/ After(r, Guarded, "access") /\ Got(r, "no")
  /\ End(r)
  /\ UNCHANGED <<files, hooks, projects>>

(* stackService.write: a text without services is refused before mkdir.    *)
Write(r) ==
  /\ \/ After(r, {"create"}, "access") /\ Got(r, "no")
     \/ After(r, {"import"}, "fetch") /\ Got(r, "yes")
     \/ After(r, {"update"}, "access") /\ Got(r, "yes")
  /\ Go(r, "mkdir") \/ End(r)
  /\ UNCHANGED <<files, hooks, projects>>

Import(r) ==
  /\ \/ After(r, {"import"}, "access") /\ Got(r, "no") /\ Go(r, "fetch")
     \/ After(r, {"import"}, "fetch") /\ Got(r, "no") /\ End(r)
  /\ UNCHANGED <<files, hooks, projects>>

MadeUnchecked(r) ==                   \* mutant: mkdir before the text is checked
  /\ After(r, Kinds, "mkdir") /\ Got(r, "yes")
  /\ Go(r, "write") \/ End(r)
  /\ UNCHANGED <<files, hooks, projects>>

Made(r) ==
  /\ After(r, Kinds, "mkdir") /\ Got(r, "yes")
  /\ Go(r, "write")
  /\ UNCHANGED <<files, hooks, projects>>

(* create() may go on to deploy; restore() to the next stack.              *)
NextStackDoWhile(r, op) ==            \* mutant: a first stack is taken for granted
  \E n \in IF reqs[r].todo = {} THEN {reqs[r].name} ELSE reqs[r].todo :
    reqs' = [reqs EXCEPT ![r].name = n, ![r].todo = @ \ {n}, ![r].op = op, ![r].ret = "pending"]

NextStack(r, op) ==
  \/ reqs[r].todo = {} /\ End(r)
  \/ \E n \in reqs[r].todo :
       reqs' = [reqs EXCEPT ![r].name = n, ![r].todo = @ \ {n}, ![r].op = op, ![r].ret = "pending"]

Written(r) ==
  /\ After(r, Kinds, "write")
  /\ \/ Got(r, "no") /\ End(r)
     \/ Got(r, "yes") /\ reqs[r].kind \in Makers \cup {"update"} /\ End(r)
     \/ Got(r, "yes") /\ reqs[r].kind = "create" /\ Go(r, "up")
     \/ Got(r, "yes") /\ reqs[r].kind = "restore" /\ NextStack(r, "mkdir")
  /\ UNCHANGED <<files, hooks, projects>>

Deploy(r) ==
  /\ After(r, {"deploy"}, "access") /\ Got(r, "yes")
  /\ Go(r, "up")
  /\ UNCHANGED <<files, hooks, projects>>

Down(r) ==
  /\ After(r, {"down"}, "access") /\ Got(r, "yes")
  /\ Go(r, "down")
  /\ UNCHANGED <<files, hooks, projects>>

Composed(r) ==
  /\ After(r, Kinds, "up") \/ After(r, Kinds, "start") \/ After(r, {"down"}, "down")
  /\ \E ret \in Returned : Got(r, ret)
  /\ End(r)
  /\ UNCHANGED <<files, hooks, projects>>

(* remove(): down, rm, then the webhook is revoked.  Whether `down` worked *)
(* is not looked at.                                                       *)
Revoked(n) ==
  /\ hook' = [hook EXCEPT ![n] = 0]
  /\ retired' = retired \cup ({hook[n]} \ {0})
  /\ left' = left \ {n}
  /\ UNCHANGED issued

RemoveRmFirst(r) ==                   \* mutant: the file is deleted before `down`
  /\ After(r, {"remove"}, "access") /\ Got(r, "yes")
  /\ Go(r, "rm")
  /\ UNCHANGED <<files, hooks, projects>>

Remove(r) ==
  /\ After(r, {"remove"}, "access") /\ Got(r, "yes")
  /\ Go(r, "down")
  /\ UNCHANGED <<files, hooks, projects>>

DeleteDown(r) ==
  /\ After(r, {"remove", "reset"}, "down")
  /\ \E ret \in Returned : Got(r, ret)
  /\ Go(r, "rm")
  /\ UNCHANGED <<files, hooks, projects>>

RemovedKeepsHook(r) ==                \* mutant: the webhook is not revoked
  /\ After(r, {"remove"}, "rm")
  /\ \E ret \in Returned : Got(r, ret)
  /\ End(r)
  /\ UNCHANGED <<files, hooks, projects>>

Removed(r) ==
  /\ After(r, {"remove"}, "rm")
  /\ \/ Got(r, "yes") /\ Revoked(reqs[r].name)
     \/ Got(r, "no") /\ UNCHANGED hooks
  /\ End(r)
  /\ UNCHANGED <<files, projects>>

(* reset(): one stack after the other; a failed rm ends it.                *)
ResetStack(r) ==
  /\ \/ After(r, {"reset"}, "list") /\ Got(r, "yes") /\ NextStack(r, "down")
     \/ After(r, {"reset"}, "rm") /\ Got(r, "yes") /\ NextStack(r, "down")
     \/ After(r, {"reset"}, "rm") /\ Got(r, "no") /\ End(r)
  /\ UNCHANGED <<files, hooks, projects>>

(* The webhook: a token replaces the one before, or the row is deleted; a  *)
(* call deploys with the token of the row.                                 *)
Regenerate(r) ==
  /\ After(r, {"regenerate"}, "access") /\ Got(r, "yes")
  /\ issued < MaxToken
  /\ LET n == reqs[r].name IN
     /\ issued' = issued + 1
     /\ hook' = [hook EXCEPT ![n] = issued']
     /\ retired' = retired \cup ({hook[n]} \ {0})
     /\ left' = IF disk[n] = "file" THEN left \ {n} ELSE left \cup {n}
  /\ End(r)
  /\ UNCHANGED <<files, projects>>

Revoke(r) ==
  /\ After(r, {"revoke"}, "access") /\ Got(r, "yes")
  /\ Revoked(reqs[r].name)
  /\ End(r)
  /\ UNCHANGED <<files, projects>>

TriggerStale(r) ==                    \* mutant: verified before the stack is looked for
  /\ After(r, {"trigger"}, "access") /\ Got(r, "yes")
  /\ Go(r, "up") \/ End(r)
  /\ UNCHANGED <<files, hooks, projects>>

Trigger(r) ==
  /\ After(r, {"trigger"}, "access") /\ Got(r, "yes")
  /\ IF hook[reqs[r].name] = reqs[r].token THEN Go(r, "up") ELSE End(r)
  /\ UNCHANGED <<files, hooks, projects>>

-----------------------------------------------------------------------------
(* A crash drops the requests under way; disk, table and containers stay.  *)
Crash ==
  /\ Live # {}
  /\ reqs' = [r \in Reqs |-> NoReq]
  /\ torn' = torn \cup {n \in Names : disk[n] = "empty"}
  /\ left' = left \cup {n \in Names : disk[n] # "file" /\ hook[n] # 0}
  /\ UNCHANGED <<disk, hook, issued, retired, projects>>

Operation(r) ==
  \/ Access(r) \/ Fetch(r) \/ List(r) \/ Mkdir(r) \/ WriteFile(r)
  \/ ComposeUp(r) \/ ComposeStart(r) \/ ComposeDown(r) \/ Rm(r)

Handler(r) ==
  \/ Arrive(r) \/ Refused(r) \/ Write(r) \/ Import(r) \/ Made(r) \/ Written(r)
  \/ Deploy(r) \/ Down(r) \/ Composed(r)
  \/ Remove(r) \/ DeleteDown(r) \/ Removed(r) \/ ResetStack(r)
  \/ Regenerate(r) \/ Revoke(r) \/ Trigger(r)

Next == (\E r \in Reqs : Operation(r) \/ Handler(r)) \/ Crash

Spec == Init /\ [][Next]_vars

-----------------------------------------------------------------------------
(* No stack is half made: a directory without a compose file - which the   *)
(* list shows, no route finds and a backup cannot read - is there only     *)
(* while somebody is writing it, or after a write or a deletion that       *)
(* failed or that a crash cut off (stacks.ts 50-58, 113-122, 155).         *)
Writes(r, n) ==
  /\ r \in Live
  /\ reqs[r].name = n
  /\ \/ reqs[r].op = "mkdir" /\ reqs[r].ret = "yes"
     \/ reqs[r].op = "write" /\ reqs[r].ret = "pending"

NoHalfStack ==
  \A n \in Names : disk[n] = "empty" => n \in torn \/ \E r \in Reqs : Writes(r, n)

(* A webhook row is one of a stack that exists, or of one whose deletion   *)
(* is about to revoke it - but for rows left behind by a factory reset, a  *)
(* crash, a deletion that failed half way or a token generated for a stack *)
(* under deletion, and those only until the stack is written again         *)
(* (stacks.controller.ts 182-184, 211-212; settings.controller.ts 72-76).  *)
Revokes(r, n) ==
  r \in Live /\ reqs[r].kind = "remove" /\ reqs[r].name = n
    /\ reqs[r].op = "rm" /\ reqs[r].ret = "yes"

HookHasStack ==
  \A n \in Names : hook[n] # 0 =>
    disk[n] = "file" \/ n \in left \/ \E r \in Reqs : Revokes(r, n)

(* No containers are left of a stack that is gone - one only the Docker    *)
(* command line could stop - unless its deletion's `down` failed, or a     *)
(* deployment started them when that `down` was over: a deletion takes     *)
(* them down while the file is still there (stacks.ts 124-156).            *)
NoOrphans ==
  \A n \in running : disk[n] = "file" \/ n \in orphaned

(* A token that was replaced or revoked never starts a deployment, though  *)
(* the stack is looked for, with an await, before the token is verified    *)
(* (deployWebhook.controller.ts 16-35; stackWebhooks.ts 28-50).            *)
RetiredTokensNeverDeploy ==
  [][\A r \in Live :
       reqs[r].kind = "trigger" /\ reqs[r].op = "access" /\ reqs'[r] # NoReq
         /\ reqs'[r].op = "up" => reqs[r].token \notin retired]_vars

(* What test/routes/settings.test.ts:513 says: a factory reset "deletes    *)
(* every user and stack, resets settings, and keeps only the audit log".   *)
(* One that ends alone and has deleted every stack leaves no webhook row.  *)
ResetKeepsOnlyAuditLog ==
  [][\A r \in Reqs :
       ResetStack(r) /\ (\A q \in Reqs : reqs'[q] = NoReq)
         /\ (\A n \in Names : disk[n] = "none") =>
           \A n \in Names : hook'[n] = 0]_vars
=============================================================================
