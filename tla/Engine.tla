------------------------------- MODULE Engine -------------------------------
(***************************************************************************)
(* What the server has Docker do on one host: the container, image, volume *)
(* and network controllers, docker.ts and the vulnerability scans of       *)
(* trivy.ts.  A request is a few awaited calls; others may come between    *)
(* any two of them, and Docker may refuse each.  A request that a schema,  *)
(* a permission or the quota turns away changes nothing and is left out.   *)
(* Docker is external.                                                     *)
(***************************************************************************)
EXTENDS Integers

CONSTANTS
  Orders,     \* requests, numbered as they come in
  Tags,       \* names: a container is made from the image of its name
  Wishes,     \* what may be asked of the resources; 0 CPUs are so few that they round to none
  Quotas,     \* what the quota may be, with CPUs in the same way
  MaxMishaps  \* bound: lost connections, ends of the process, changes of the settings

ASSUME EngineAssumption ==
  /\ Orders \subseteq Nat /\ MaxMishaps \in Nat
  /\ Wishes \cup Quotas \subseteq [{"memory", "cpus"} -> Int]
  /\ \A limits \in Wishes \cup Quotas : \A x \in {"memory", "cpus"} : limits[x] >= -1
  /\ \A limits \in Wishes \cup Quotas : limits["memory"] # 0   \* the schemas: a positive integer

VARIABLES
  things,   \* what Docker has: kinds with names
  made,     \* per container, who made it and the quota of that moment, or NoMaker
  quota,    \* the settings: maxContainerMemoryMb and maxContainerCpus
  logging,  \* the settings: featureFlags.auditLog
  order,    \* per request, what it is about and the call it awaits
  logged,   \* the rows of audit_log: requests with a status
  mishaps,  \* lost connections, ends of the process and changes of the settings so far
  did,      \* history: per request, the calls that Docker has done
  severed,      \* history: requests whose connection or process ended under way
  silent,   \* history: requests that ended with the audit log off
  requoted  \* history: requests during which the quota was changed

engineVars == <<things, made, quota, logging, order, logged, mishaps, did, severed, silent, requoted>>

Things    == {"container", "image", "volume", "network"} \X Tags
Resources == {"memory", "cpus"}
NoLimit   == -1
Unlimited == [x \in Resources |-> NoLimit]
NoMaker   == [by |-> NoLimit, quota |-> Unlimited]

DockerCalls == {"create", "again", "start", "inspect", "run",
                "action", "remove", "pull", "build", "make", "prune"}

Placed == [op : {"create", "scan", "action", "remove", "pull", "build", "make", "prune"},
           thing : Things, user : BOOLEAN, asked : Wishes \cup {Unlimited}, limits : [Resources -> Int],
           at : DockerCalls \cup {"answer", "failed", "done"}]
NoOrder == [op |-> "none", thing |-> <<"none", "none">>, user |-> FALSE, asked |-> Unlimited,
            limits |-> Unlimited, at |-> "new"]

EngineTypeOK ==
  /\ things \subseteq Things
  /\ made \in [Tags -> [by : Orders \cup {NoLimit}, quota : Quotas \cup {Unlimited}]]
  /\ quota \in Quotas /\ logging \in BOOLEAN
  /\ order \in [Orders -> Placed \cup {NoOrder}]
  /\ logged \subseteq Orders \X {"success", "failure"}
  /\ mishaps \in 0 .. MaxMishaps
  /\ did \in [Orders -> SUBSET DockerCalls]
  /\ severed \subseteq Orders /\ silent \subseteq Orders /\ requoted \subseteq Orders

EngineInit ==
  /\ things \in {{}, {"container", "image"} \X Tags}
  /\ made = [n \in Tags |-> NoMaker]
  /\ quota \in Quotas
  /\ logging = TRUE
  /\ order = [r \in Orders |-> NoOrder]
  /\ logged = {} /\ mishaps = 0
  /\ did = [r \in Orders |-> {}]
  /\ severed = {} /\ silent = {} /\ requoted = {}

UnderWay(r) == order[r].at \notin {"new", "done"}
At(r, to)   == order' = [order EXCEPT ![r].at = to]

settled == <<quota, logging, logged, mishaps, severed, silent, requoted>>

-----------------------------------------------------------------------------
\* Requests come in.

Begins(r, op, thing, user, asked, limits, call) ==
  /\ order[r].at = "new" /\ \A s \in Orders : s < r => order[s].at # "new"
  /\ order' = [order EXCEPT ![r] =
       [op |-> op, thing |-> thing, user |-> user, asked |-> asked, limits |-> limits, at |-> call]]
  /\ UNCHANGED <<things, made, did, settled>>

\* Memory and NanoCpus of the HostConfig: none where the number is 0.
HostConfig(amount) == IF amount = 0 THEN NoLimit ELSE amount

\* create() of the containers controller up to its first await: a user may
\* not ask for more than the quota, and gets all of it by asking for nothing.
Create(r, n, user, asked) ==
  /\ user => \A x \in Resources : quota[x] # NoLimit => asked[x] <= quota[x]
  /\ Begins(r, "create", <<"container", n>>, user, asked,
            [x \in Resources |-> HostConfig(IF user /\ asked[x] = NoLimit THEN quota[x] ELSE asked[x])], "create")

\* The handlers that make one call.
OneCall(r, op, kind, n) == Begins(r, op, <<kind, n>>, FALSE, Unlimited, Unlimited, op)

ContainerAction(r, n) == OneCall(r, "action", "container", n)
ContainerRemove(r, n) == OneCall(r, "remove", "container", n)
ImagePull(r, n)       == OneCall(r, "pull", "image", n)
ImageBuild(r, n)      == OneCall(r, "build", "image", n)
ImageRemove(r, n)     == OneCall(r, "remove", "image", n)
ImagePrune(r, n)      == OneCall(r, "prune", "image", n)
VolumeCreate(r, n)    == OneCall(r, "make", "volume", n)
VolumeRemove(r, n)    == OneCall(r, "remove", "volume", n)
VolumePrune(r, n)     == OneCall(r, "prune", "volume", n)
NetworkCreate(r, n)   == OneCall(r, "make", "network", n)
NetworkRemove(r, n)   == OneCall(r, "remove", "network", n)
Simple(r, n) ==
  \/ ContainerAction(r, n) \/ ContainerRemove(r, n)
  \/ ImagePull(r, n) \/ ImageBuild(r, n) \/ ImageRemove(r, n) \/ ImagePrune(r, n)
  \/ VolumeCreate(r, n) \/ VolumeRemove(r, n) \/ VolumePrune(r, n)
  \/ NetworkCreate(r, n) \/ NetworkRemove(r, n)

\* scan(): scanImage() looks for the scanner's own image.
Scan(r, n) == Begins(r, "scan", <<"image", n>>, FALSE, Unlimited, Unlimited, "inspect")

-----------------------------------------------------------------------------
\* Docker does a call, and the handler makes the next one.

Did(r) == did' = [did EXCEPT ![r] = @ \cup {order[r].at}]
Image(r) == <<"image", order[r].thing[2]>>

MakesContainerLogged(r) ==    \* mutant: the audit entry is written before start()
  /\ order[r].at \in {"create", "again"} /\ Image(r) \in things /\ order[r].thing \notin things
  /\ things' = things \cup {order[r].thing}
  /\ made' = [made EXCEPT ![order[r].thing[2]] = [by |-> r, quota |-> quota]]
  /\ logged' = logged \cup {<<r, "success">>}
  /\ Did(r) /\ At(r, "start")
  /\ UNCHANGED <<quota, logging, mishaps, severed, silent, requoted>>

MakesContainer(r) ==
  /\ order[r].at \in {"create", "again"} /\ Image(r) \in things /\ order[r].thing \notin things
  /\ things' = things \cup {order[r].thing}
  /\ made' = [made EXCEPT ![order[r].thing[2]] = [by |-> r, quota |-> quota]]
  /\ Did(r) /\ At(r, "start")
  /\ UNCHANGED settled

\* 404: the image is pulled first; so is the scanner's if the look at it fails.
LacksImage(r) ==
  /\ \/ order[r].at = "create" /\ Image(r) \notin things
     \/ order[r].at = "inspect"
  /\ At(r, "pull")
  /\ UNCHANGED <<things, made, did, settled>>

\* pullImage(), buildImageFromGit(), createVolume(), createNetwork()
Adds(r) ==
  /\ order[r].at \in {"pull", "build", "make"}
  /\ things' = things \cup {IF order[r].op = "create" THEN Image(r) ELSE order[r].thing}
  /\ At(r, CASE order[r].op = "create" -> "again" [] order[r].op = "scan" -> "run" [] OTHER -> "answer")
  /\ Did(r)
  /\ UNCHANGED <<made, settled>>

\* container.start(), an action; the scanner's container, from start to end
Uses(r) ==
  /\ \/ order[r].at \in {"start", "action"} /\ order[r].thing \in things
     \/ order[r].at = "run"
  /\ Did(r) /\ At(r, "answer")
  /\ UNCHANGED <<things, made, settled>>

\* ensureImagePulled() finds the image.
HasScanner(r) ==
  /\ order[r].at = "inspect" /\ Image(r) \in things
  /\ At(r, "run")
  /\ UNCHANGED <<things, made, did, settled>>

\* remove(), prune(): what is pruned is up to Docker.
Removes(r) ==
  /\ \/ order[r].at = "remove" /\ order[r].thing \in things /\ things' = things \ {order[r].thing}
     \/ /\ order[r].at = "prune"
        /\ \E S \in SUBSET {t \in things : t[1] = order[r].thing[1]} : things' = things \ S
  /\ made' = [n \in Tags |-> IF <<"container", n>> \in things' THEN made[n] ELSE NoMaker]
  /\ Did(r) /\ At(r, "answer")
  /\ UNCHANGED settled

\* Docker refuses: something is in the way, missing, or in use.
Refuses(r) ==
  /\ order[r].at \in DockerCalls \ {"inspect"}
  /\ At(r, "failed")
  /\ UNCHANGED <<things, made, did, settled>>

-----------------------------------------------------------------------------
\* The handler ends: auditLog.record(), if it is on.
Enters(r, status) ==
  /\ logged' = IF logging THEN logged \cup {<<r, status>>} ELSE logged
  /\ silent' = IF logging THEN silent ELSE silent \cup {r}
EndsWell(r) ==
  /\ order[r].at = "answer"
  /\ Enters(r, "success") /\ At(r, "done")
  /\ UNCHANGED <<things, made, did, quota, logging, mishaps, severed, requoted>>

\* Only a build and a scan record their failure.
EndsBadly(r) ==
  /\ order[r].at = "failed"
  /\ IF order[r].op \in {"build", "scan"} THEN Enters(r, "failure") ELSE UNCHANGED <<logged, silent>>
  /\ At(r, "done")
  /\ UNCHANGED <<things, made, did, quota, logging, mishaps, severed, requoted>>

\* The connection to the host is lost, perhaps after Docker did the call.
Disconnects(r) ==
  /\ UnderWay(r) /\ order[r].at # "failed" /\ mishaps < MaxMishaps
  /\ At(r, "failed")
  /\ severed' = severed \cup {r} /\ mishaps' = mishaps + 1
  /\ UNCHANGED <<things, made, did, quota, logging, logged, silent, requoted>>

\* The process ends: killed, or because the promise of collect() rejects, for
\* too much output, before anything awaits it.
ProcessEnds ==
  /\ mishaps < MaxMishaps
  /\ order' = [r \in Orders |-> IF UnderWay(r) THEN [order[r] EXCEPT !.at = "done"] ELSE order[r]]
  /\ severed' = severed \cup {r \in Orders : UnderWay(r)} /\ mishaps' = mishaps + 1
  /\ UNCHANGED <<things, made, did, quota, logging, logged, silent, requoted>>

\* The settings are changed.
SetQuota(q) ==
  /\ mishaps < MaxMishaps /\ q # quota
  /\ quota' = q /\ mishaps' = mishaps + 1
  /\ requoted' = requoted \cup {r \in Orders : UnderWay(r)}
  /\ UNCHANGED <<things, made, did, order, logging, logged, severed, silent>>
SwitchLogging ==
  /\ mishaps < MaxMishaps
  /\ logging' = ~logging /\ mishaps' = mishaps + 1
  /\ UNCHANGED <<things, made, did, order, quota, logged, severed, silent, requoted>>

-----------------------------------------------------------------------------
EngineNext ==
  \/ \E r \in Orders, n \in Tags :
       \/ \E user \in BOOLEAN, asked \in Wishes : Create(r, n, user, asked)
       \/ Simple(r, n) \/ Scan(r, n)
  \/ \E r \in Orders :
       \/ MakesContainer(r) \/ LacksImage(r) \/ Adds(r) \/ Uses(r) \/ HasScanner(r) \/ Removes(r)
       \/ Refuses(r) \/ EndsWell(r) \/ EndsBadly(r) \/ Disconnects(r)
  \/ ProcessEnds \/ SwitchLogging
  \/ \E q \in Quotas : SetQuota(q)

EngineSpec == EngineInit /\ [][EngineNext]_engineVars

-----------------------------------------------------------------------------
\* What a request was to do is done.
Complete(r) ==
  CASE order[r].op = "create" -> "start" \in did[r] /\ did[r] \cap {"create", "again"} # {}
    [] order[r].op = "scan"   -> "run" \in did[r]
    [] OTHER                  -> order[r].op \in did[r]

\* A success in the audit log is one at Docker.  What a request changed is in
\* the audit log, unless the log was off or the answer lost; only a create and
\* a scan leave behind the first of their calls when a later one fails.
AuditIsTrue ==
  \A r \in Orders :
    /\ <<r, "success">> \in logged => Complete(r) /\ <<r, "failure">> \notin logged
    /\ order[r].at = "done" /\ did[r] # {} /\ r \notin severed \cup silent =>
         \/ <<r, "success">> \in logged
         \/ order[r].op \in {"create", "scan"} /\ ~Complete(r)

\* A container that a user made had, when it was made, no more than the quota
\* of that moment, unless the quota changed since its request began; and a
\* number of CPUs that rounds to none, asked for or as the quota, is no limit.
QuotaKept ==
  \A n \in Tags :
    LET r == made[n].by IN
    r \in Orders /\ order[r].user /\ r \notin requoted =>
      \A x \in Resources : made[n].quota[x] # NoLimit =>
        \/ order[r].limits[x] \in 0 .. made[n].quota[x]
        \/ x = "cpus" /\ 0 \in {order[r].asked[x], made[n].quota[x]}

\* What the controllers have Docker do is in the audit log and in the quota.
DockerIsToldRight == AuditIsTrue /\ QuotaKept

=============================================================================
