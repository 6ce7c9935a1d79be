---------------------------- MODULE ImageUpdates ----------------------------
(***************************************************************************)
(* Update checks of images (apps/server/src/imageUpdates.ts, with the      *)
(* registry's answers of integrations/registry/registry.ts): checks that   *)
(* users ask for and the rounds of the scheduler, over several hosts, with *)
(* one cached status per host and reference.  Here every host has an image *)
(* of the same reference.                                                  *)
(***************************************************************************)
EXTENDS Integers, FiniteSets

CONSTANTS
  Hosts,       \* the hosts of allHostIds()
  MaxDigest,   \* bound: versions that are published under the reference
  MaxChecks    \* bound: checks by users, and rounds

ASSUME ImageUpdatesAssumption ==
  IsFiniteSet(Hosts) /\ MaxDigest \in Nat /\ MaxChecks \in Nat /\ "idle" \notin Hosts /\ "list" \notin Hosts

VARIABLES
  remote,    \* the digest the registry serves, as a number
  local,     \* per host, the digest its image was pulled with, or NoDigest
  reach,     \* the hosts that answer
  statuses,  \* statusCache: per host, the status or NoStatus
  checks,    \* checks that await the registry
  round,     \* the scheduler's round: hosts to do, the host it is at, and its sum
  asked,     \* checks and rounds so far
  sure,      \* history: hosts with an update and within reach since the round began
  newest,    \* history: per host, the start of the last started check that has ended
  overlaps,  \* history: hosts of whose checks two were under way at once, until one ends alone
  unsaid     \* history: a round ended in silence though there was something sure to say

imageUpdatesVars == <<remote, local, reach, statuses, checks, round, asked, sure, newest, overlaps, unsaid>>

NoDigest == -1
NoStatus(h) == [host |-> h, at |-> 0, update |-> "none", local |-> NoDigest, remote |-> NoDigest]
Updates == {"yes", "no", "unknown"}
NoRound == [at |-> "idle", left |-> {}, sum |-> 0]

\* A check knows the digest its image had, and when it started.
Checks == [host : Hosts, start : 1 .. MaxChecks + Cardinality(Hosts) * MaxChecks,
           local : NoDigest .. MaxDigest, by : {"user", "round"}, at : {"manifest", "token", "again"}]

ImageUpdatesTypeOK ==
  /\ remote \in 0 .. MaxDigest
  /\ local \in [Hosts -> NoDigest .. MaxDigest]
  /\ reach \subseteq Hosts
  /\ \A h \in Hosts : statuses[h].update \in Updates \cup {"none"} /\ statuses[h].at \in Nat
  /\ checks \subseteq Checks
  /\ round.at \in {"idle", "list"} \cup Hosts /\ round.left \subseteq Hosts /\ round.sum \in Nat
  /\ sure \subseteq Hosts /\ overlaps \subseteq Hosts /\ newest \in [Hosts -> Nat] /\ unsaid \in BOOLEAN

ImageUpdatesInit ==
  /\ remote = 0 /\ reach = Hosts
  /\ local \in [Hosts -> {NoDigest, 0}]
  /\ statuses = [h \in Hosts |-> NoStatus(h)]
  /\ checks = {} /\ round = NoRound /\ asked = 0
  /\ sure = {} /\ overlaps = {} /\ newest = [h \in Hosts |-> 0] /\ unsaid = FALSE

-----------------------------------------------------------------------------
OthersOf(h) == {d \in checks : d.host = h}

CacheKeyOfReference(h) == CHOOSE x \in Hosts : TRUE    \* mutant: the key without the host

\* cacheKey(): the entry of a reference on a host.
CacheKey(h) == h

\* statusCache.set(), whatever the entry holds by then.
Cached(h, status, others) ==
  /\ statuses' = [statuses EXCEPT ![CacheKey(h)] = status]
  /\ newest' = [newest EXCEPT ![h] = IF status.at > @ THEN status.at ELSE @]
  /\ overlaps' = IF others # {} THEN overlaps \cup {h}
                 ELSE IF status.at < newest[h] THEN overlaps ELSE overlaps \ {h}

\* checkOne() up to its first await: an image without a digest has its status
\* at once, another one asks the registry.
Begin(h, by) ==
  LET start == asked' IN
  IF local[h] = NoDigest
    THEN /\ Cached(h, [NoStatus(h) EXCEPT !.at = start, !.update = "unknown"], OthersOf(h))
         /\ UNCHANGED checks
    ELSE /\ checks' = checks \cup {[host |-> h, start |-> start, local |-> local[h], by |-> by, at |-> "manifest"]}
         /\ overlaps' = IF OthersOf(h) # {} THEN overlaps \cup {h} ELSE overlaps
         /\ UNCHANGED <<statuses, newest>>

\* checkUpdate() and checkUpdates() of the images controller
UserCheck(h) ==
  /\ h \in reach /\ asked < MaxChecks
  /\ asked' = asked + 1
  /\ Begin(h, "user")
  /\ UNCHANGED <<remote, local, reach, round, sure, unsaid>>

\* Results of a check count for the round that waits for it.
Counted(c, update) ==
  round' = IF c.by = "round"
             THEN [round EXCEPT !.at = "list", !.sum = @ + IF update = "yes" THEN 1 ELSE 0]
             ELSE round

Ends(c, update, digest) ==
  /\ checks' = checks \ {c}
  /\ Cached(c.host, [host |-> c.host, at |-> c.start, update |-> update, local |-> c.local, remote |-> digest],
            OthersOf(c.host) \ {c})
  /\ Counted(c, update)

\* getRemoteDigest(): the registry serves the digest, wants a token first
\* (once), or the check ends without knowing: refused, failed or timed out.
Answer(c) ==
  /\ \/ c.at \in {"manifest", "again"} /\ Ends(c, IF remote = c.local THEN "no" ELSE "yes", remote)
     \/ Ends(c, "unknown", NoDigest)
     \/ /\ c.at = "manifest"
        /\ checks' = (checks \ {c}) \cup {[c EXCEPT !.at = "token"]}
        /\ UNCHANGED <<statuses, newest, overlaps, round>>
     \/ /\ c.at = "token"
        /\ checks' = (checks \ {c}) \cup {[c EXCEPT !.at = "again"]}
        /\ UNCHANGED <<statuses, newest, overlaps, round>>
  \* An answer that did not come is no evidence of an update.
  /\ sure' = IF c.by = "round" /\ statuses'[c.host].update = "unknown" /\ c \notin checks' THEN sure \ {c.host} ELSE sure
  /\ UNCHANGED <<remote, local, reach, asked, unsaid>>

-----------------------------------------------------------------------------
HasUpdate(h) == local[h] # NoDigest /\ local[h] # remote

\* runScheduledCheck(): one host after the other, in any order here.
StartRound ==
  /\ round = NoRound /\ asked < MaxChecks
  /\ asked' = asked + 1
  /\ round' = [at |-> "list", left |-> Hosts, sum |-> 0]
  /\ sure' = {h \in reach : HasUpdate(h)}
  /\ UNCHANGED <<remote, local, reach, statuses, checks, newest, overlaps, unsaid>>

\* getClient() and listImages(): a host that fails is passed over.
RoundHost(h) ==
  /\ round.at = "list" /\ h \in round.left
  /\ asked' = asked + 1
  /\ IF h \in reach
       THEN /\ Begin(h, "round")
            /\ round' = [round EXCEPT !.left = @ \ {h}, !.at = IF local[h] = NoDigest THEN "list" ELSE h]
       ELSE /\ round' = [round EXCEPT !.left = @ \ {h}]
            /\ UNCHANGED <<statuses, newest, overlaps, checks>>
  /\ UNCHANGED <<remote, local, reach, sure, unsaid>>

\* The round is through and tells the notification targets if its sum says so.
Tells == round.sum > 0
EndRound ==
  /\ round.at = "list" /\ round.left = {}
  /\ round' = NoRound
  /\ unsaid' = (unsaid \/ (sure # {} /\ ~Tells))
  /\ sure' = {}
  /\ UNCHANGED <<remote, local, reach, statuses, checks, asked, newest, overlaps>>

-----------------------------------------------------------------------------
\* The world: a new version is published, a host pulls it (pull() of the images
\* controller leaves the status cache alone), hosts come and go.
Publish ==
  /\ remote < MaxDigest /\ remote' = remote + 1
  /\ UNCHANGED <<local, reach, statuses, checks, round, asked, sure, newest, overlaps, unsaid>>

Pull(h) ==
  /\ h \in reach
  /\ local' = [local EXCEPT ![h] = remote]
  /\ sure' = sure \ {h}
  /\ UNCHANGED <<remote, reach, statuses, checks, round, asked, newest, overlaps, unsaid>>

HostTurns(h) ==
  /\ reach' = IF h \in reach THEN reach \ {h} ELSE reach \cup {h}
  /\ sure' = sure \ {h}
  /\ UNCHANGED <<remote, local, statuses, checks, round, asked, newest, overlaps, unsaid>>

ImageUpdatesNext ==
  \/ \E h \in Hosts : UserCheck(h) \/ RoundHost(h) \/ Pull(h) \/ HostTurns(h)
  \/ \E c \in checks : Answer(c)
  \/ StartRound \/ EndRound \/ Publish

ImageUpdatesSpec == ImageUpdatesInit /\ [][ImageUpdatesNext]_imageUpdatesVars

-----------------------------------------------------------------------------
\* One host that cannot be reached, or one registry that does not answer, costs
\* nobody else the notification: a round ends in silence only if no host had an
\* update, and was within reach, all through it (imageUpdates.ts
\* runScheduledCheck).
RoundTellsAll == ~unsaid

\* What is shown for an image was found for the image of that host, and by the
\* last of its checks, whatever order the registry's answers come in; only two
\* checks of one image at once may leave the older answer (imageUpdates.ts
\* checkOne, cacheKey).
StatusIsOwnAndLast ==
  \A h \in Hosts :
    /\ statuses[h].host = h
    /\ statuses[h].update = "yes" => statuses[h].local # statuses[h].remote
    /\ statuses[h].update = "no" => statuses[h].local = statuses[h].remote
    /\ h \notin overlaps => statuses[h].at = newest[h]

\* Updates of images are found and told of (imageUpdates.ts).
UpdatesAreTold == RoundTellsAll /\ StatusIsOwnAndLast

=============================================================================
