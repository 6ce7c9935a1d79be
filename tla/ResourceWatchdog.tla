-------------------------- MODULE ResourceWatchdog --------------------------
(***************************************************************************)
(* The resource alerts (apps/server/src/resourceWatchdog.ts).  A timer     *)
(* starts a check at every interval, whether or not the last has ended; a  *)
(* check samples Challoupe's own machine and the containers of every       *)
(* registered host, and tells of what is over its threshold and was not    *)
(* told of within the cooldown.                                            *)
(***************************************************************************)
EXTENDS Integers, FiniteSets

CONSTANTS
  Remotes,     \* the registered hosts
  Signatures,  \* what can be over its threshold: "host" is Challoupe's machine, a member of Remotes a container there
  Interval,    \* ticks between two checks
  Cooldown,    \* ALERT_NOTIFY_COOLDOWN_MS in ticks
  MaxTicks     \* bound: the clock

ASSUME ResourceWatchdogAssumption ==
  /\ IsFiniteSet(Remotes) /\ "host" \notin Remotes
  /\ Signatures \subseteq {"host"} \cup Remotes
  /\ Interval \in Nat \ {0} /\ Cooldown \in Nat \ {0} /\ MaxTicks \in Nat

VARIABLES
  alive,   \* the server runs
  ticks,     \* Date.now()
  nextCheck, \* when the interval timer fires next
  samplings, \* checks under way: when they started and the samples they have
  reachable, \* the remote hosts that answer
  lastTold,  \* lastNotifiedAt: per signature, the start of the check that told last, or Never
  told,      \* history: of this run of the server, the starts of the checks that told, by signature
  found,     \* history: of this run, the starts of the checks that found, by signature
  ended      \* history: why the server ended last

resourceVars == <<alive, ticks, nextCheck, samplings, reachable, lastTold, told, found, ended>>

Never == -1
Places == {"host"} \cup Remotes
Samplings == [start : 0 .. MaxTicks, left : SUBSET Places, over : SUBSET Signatures]

ResourceTypeOK ==
  /\ alive \in BOOLEAN /\ ticks \in 0 .. MaxTicks /\ nextCheck \in 0 .. MaxTicks + Interval
  /\ samplings \subseteq Samplings /\ reachable \subseteq Remotes
  /\ lastTold \in [Signatures -> Never .. MaxTicks]
  /\ told \in [Signatures -> SUBSET (0 .. MaxTicks)]
  /\ found \in [Signatures -> SUBSET (0 .. MaxTicks)]
  /\ ended \in {"not", "stopped", "rejection"}

ResourceInit ==
  /\ alive = TRUE /\ ticks = 0 /\ nextCheck = Interval
  /\ samplings = {} /\ reachable = Remotes
  /\ lastTold = [s \in Signatures |-> Never]
  /\ told = [s \in Signatures |-> {}] /\ found = [s \in Signatures |-> {}]
  /\ ended = "not"

-----------------------------------------------------------------------------
\* Time passes; the timer starts a check, which takes its time from its start.
ResourceTick ==
  /\ ticks < MaxTicks /\ ticks' = ticks + 1
  /\ IF alive /\ ticks' = nextCheck
       THEN /\ samplings' = samplings \cup {[start |-> ticks', left |-> Places, over |-> {}]}
            /\ nextCheck' = nextCheck + Interval
       ELSE UNCHANGED <<samplings, nextCheck>>
  /\ UNCHANGED <<alive, reachable, lastTold, told, found, ended>>

\* One sample comes in.  Usage at the time is anything.
Sample(c, p, over) ==
  /\ c \in samplings /\ p \in c.left /\ (p \in Remotes => p \in reachable)
  /\ over \subseteq Signatures \cap {p}
  /\ samplings' = (samplings \ {c}) \cup {[c EXCEPT !.left = @ \ {p}, !.over = @ \cup over]}
  /\ UNCHANGED <<alive, ticks, nextCheck, reachable, lastTold, told, found, ended>>

\* getClient() or listContainers() of a host that does not answer, or info() of
\* a Docker daemon that is down, rejects the whole check.  The timer's callback
\* drops the promise of checkNow(), so that nothing handles the rejection, and
\* Node ends the process.
SampleFails(c, p) ==
  /\ c \in samplings /\ p \in c.left /\ (p \in Remotes => p \notin reachable)
  /\ alive' = FALSE /\ ended' = "rejection"
  /\ samplings' = {}
  /\ UNCHANGED <<ticks, nextCheck, reachable, lastTold, told, found>>

FreshNow(c) ==    \* mutant: the cooldown counts to the present, not to the start of the check
  {s \in c.over : lastTold[s] = Never \/ ticks - lastTold[s] >= Cooldown}

\* The samples are complete: the filter, the time of the cooldown, the message.
Fresh(c) == {s \in c.over : lastTold[s] = Never \/ c.start - lastTold[s] >= Cooldown}
Decide(c) ==
  /\ c \in samplings /\ c.left = {}
  /\ samplings' = samplings \ {c}
  /\ lastTold' = [s \in Signatures |-> IF s \in Fresh(c) THEN c.start ELSE lastTold[s]]
  /\ told' = [s \in Signatures |-> IF s \in Fresh(c) THEN told[s] \cup {c.start} ELSE told[s]]
  /\ found' = [s \in Signatures |-> IF s \in c.over THEN found[s] \cup {c.start} ELSE found[s]]
  /\ UNCHANGED <<alive, ticks, nextCheck, reachable, ended>>

HostComesOrGoes(h) ==
  /\ reachable' = IF h \in reachable THEN reachable \ {h} ELSE reachable \cup {h}
  /\ UNCHANGED <<alive, ticks, nextCheck, samplings, lastTold, told, found, ended>>

\* Only the settings outlive the process.
StopResource ==
  /\ alive /\ alive' = FALSE /\ ended' = "stopped" /\ samplings' = {}
  /\ UNCHANGED <<ticks, nextCheck, reachable, lastTold, told, found>>

StartResource ==
  /\ ~alive /\ alive' = TRUE
  /\ nextCheck' = ticks + Interval
  /\ lastTold' = [s \in Signatures |-> Never]
  /\ told' = [s \in Signatures |-> {}] /\ found' = [s \in Signatures |-> {}]
  /\ UNCHANGED <<ticks, samplings, reachable, ended>>

ResourceNext ==
  \/ ResourceTick \/ StopResource \/ StartResource
  \/ \E c \in samplings : Decide(c) \/ (\E p \in c.left : SampleFails(c, p) \/ (\E over \in SUBSET Signatures : Sample(c, p, over)))
  \/ \E h \in Remotes : HostComesOrGoes(h)

ResourceSpec == ResourceInit /\ [][ResourceNext]_resourceVars

-----------------------------------------------------------------------------
\* However checks overlap and in whatever order they end: what is over its
\* threshold is told of no more often than once in a cooldown, and is silent no
\* longer than that (resourceWatchdog.ts checkNow).
ToldApart == \A s \in Signatures : \A t, u \in told[s] : t < u => u - t >= Cooldown
SilenceIsShort ==
  \A s \in Signatures : \A t \in found[s] : \E u \in told[s] : t - u < Cooldown
OncePerCooldown == ToldApart /\ SilenceIsShort

\* "Resource alerts watch CPU, memory and disk usage against thresholds you set
\* yourself, on a timer you also control.  Checks on individual containers
\* apply across every host you have registered": a host that cannot be reached
\* does not end the server, and with it all other checks.
HostsMayBeAway == ended # "rejection"

=============================================================================
