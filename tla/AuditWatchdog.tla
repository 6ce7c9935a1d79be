--------------------------- MODULE AuditWatchdog ---------------------------
(***************************************************************************)
(* The audit log (apps/server/src/audit.ts) and the watchdog that looks    *)
(* through its last rows at every interval for one user's failures in a    *)
(* row (apps/server/src/auditWatchdog.ts).  Failed logins stand for the    *)
(* denied permissions too, which are counted in the same way.              *)
(***************************************************************************)
EXTENDS Integers, Sequences, FiniteSets

CONSTANTS
  Suspects,   \* the user names of the failed logins
  Lookback,   \* LOOKBACK_MS in ticks
  Threshold,  \* FAILED_LOGIN_THRESHOLD
  Limit,      \* the rows that a check asks for
  Suppress,   \* ANOMALY_NOTIFY_COOLDOWN_MS in ticks
  Intervals,  \* what auditCheckIntervalMinutes is set to, in ticks
  MaxNow,     \* bound: the clock
  MaxRows     \* bound: rows of the log

ASSUME AuditWatchdogAssumption ==
  /\ IsFiniteSet(Suspects)
  /\ Lookback \in Nat /\ Threshold \in Nat \ {0} /\ Limit \in Nat /\ Suppress \in Nat
  /\ Intervals \subseteq Nat \ {0} /\ Intervals # {}
  /\ MaxNow \in Nat /\ MaxRows \in Nat

VARIABLES
  now,
  rows,      \* audit_log in the order of its ids
  recording, \* featureFlags.auditLog
  every,     \* the interval the timer was started with
  due,       \* when the timer fires next
  lastFlag,  \* lastNotifiedAt
  flags,     \* history: per suspect, when checks told of it, since the start of the server
  steady     \* history: since when no restart moved the timer and no row was cleared

auditVars == <<now, rows, recording, every, due, lastFlag, flags, steady>>

NotYet == -1
Nobody == "nobody"
AuditRows == [by : Suspects \cup {Nobody}, at : 0 .. MaxNow]

AuditTypeOK ==
  /\ now \in 0 .. MaxNow
  /\ rows \in Seq(AuditRows) /\ Len(rows) <= MaxRows
  /\ recording \in BOOLEAN /\ every \in Intervals
  /\ due \in Nat /\ due > now
  /\ lastFlag \in [Suspects -> NotYet .. now]
  /\ flags \in [Suspects -> SUBSET (0 .. now)]
  /\ steady \in 0 .. now

AuditInit ==
  /\ now = 0 /\ rows = <<>> /\ recording = TRUE
  /\ every \in Intervals /\ due = every
  /\ lastFlag = [u \in Suspects |-> NotYet]
  /\ flags = [u \in Suspects |-> {}]
  /\ steady = 0

-----------------------------------------------------------------------------
\* record(): a failed login, or (by nobody) any other entry.
Record(by) ==
  /\ Len(rows) < MaxRows
  /\ rows' = IF recording THEN Append(rows, [by |-> by, at |-> now]) ELSE rows
  /\ UNCHANGED <<now, recording, every, due, lastFlag, flags, steady>>

ListedOldest == {i \in 1 .. Len(rows) : i <= Limit}    \* mutant: `ORDER BY id DESC` dropped

\* list(500) and detectAuditAnomalies().
Listed == {i \in 1 .. Len(rows) : i > Len(rows) - Limit}
Anomalous(t) ==
  {u \in Suspects : Cardinality({i \in Listed : rows[i].by = u /\ t - rows[i].at <= Lookback}) >= Threshold}

\* The timer: checkNow() up to the message, which nothing waits for.
NewlyAnomalous(t) == {u \in Anomalous(t) : lastFlag[u] = NotYet \/ t - lastFlag[u] >= Suppress}
AuditTick ==
  /\ now < MaxNow /\ now' = now + 1
  /\ IF now' = due
       THEN /\ due' = due + every
            /\ lastFlag' = [u \in Suspects |-> IF u \in NewlyAnomalous(now') THEN now' ELSE lastFlag[u]]
            /\ flags' = [u \in Suspects |-> IF u \in NewlyAnomalous(now') THEN flags[u] \cup {now'} ELSE flags[u]]
       ELSE UNCHANGED <<due, lastFlag, flags>>
  /\ UNCHANGED <<rows, recording, every, steady>>

SaveIntervalFromLast(n) ==    \* mutant: the interval goes on from its last start
  /\ every' = n /\ due' = due - every + n
  /\ steady' = now
  /\ UNCHANGED <<now, rows, recording, lastFlag, flags>>

\* restartScheduler(), by a save of the watchdog's settings: the interval starts anew.
SaveInterval(n) ==
  /\ every' = n /\ due' = now + n
  /\ steady' = now
  /\ UNCHANGED <<now, rows, recording, lastFlag, flags>>

\* clear() of the audit log
ClearLog ==
  /\ rows # <<>> /\ rows' = <<>>
  /\ steady' = now
  /\ UNCHANGED <<now, recording, every, due, lastFlag, flags>>

SwitchLog ==
  /\ recording' = ~recording
  /\ UNCHANGED <<now, rows, every, due, lastFlag, flags, steady>>

\* The server starts again with the table as it is.
RestartServer ==
  /\ due' = now + every
  /\ lastFlag' = [u \in Suspects |-> NotYet]
  /\ flags' = [u \in Suspects |-> {}]
  /\ steady' = now
  /\ UNCHANGED <<now, rows, recording, every>>

AuditNext ==
  \/ \E by \in Suspects \cup {Nobody} : Record(by)
  \/ \E n \in Intervals : SaveInterval(n)
  \/ AuditTick \/ ClearLog \/ SwitchLog \/ RestartServer

AuditSpec == AuditInit /\ [][AuditNext]_auditVars

-----------------------------------------------------------------------------
\* A burst of failures of one user is told of within an interval of its last
\* row, or was within the cooldown before.  The burst has to fit in what is
\* left of the lookback after an interval (an interval of half an hour leaves
\* nothing), the log must not have more rows since its first than a check
\* reads, and no save, clear or restart may have come since then
\* (auditWatchdog.ts detectAuditAnomalies and checkNow, audit.ts list).
Since(e) == {i \in 1 .. Len(rows) : rows[i].at >= e}
BurstNoticed ==
  \A u \in Suspects, first, last \in 1 .. Len(rows) :
    LET e == rows[first].at
        l == rows[last].at IN
    /\ Cardinality({i \in first .. last : rows[i].by = u}) >= Threshold
    /\ l - e <= Lookback - every
    /\ Cardinality(Since(e)) <= Limit
    /\ steady <= e
    /\ now >= l + every
    => \E f \in flags[u] : f > l - Suppress /\ f <= l + every

\* A burst that goes on is not told of at every check.
FlagsApart == \A u \in Suspects : \A f, g \in flags[u] : f < g => g - f >= Suppress

\* Each burst is flagged, and once (auditWatchdog.ts).
BurstsAreFlagged == BurstNoticed /\ FlagsApart

=============================================================================
