------------------------------ MODULE Settings ------------------------------
(***************************************************************************)
(* The settings table (apps/server/src/settings.ts, with the secrets that  *)
(* hostCrypto.ts encrypts) and what has to follow it: the four schedulers, *)
(* which the settings controller restarts, which a restored backup leaves  *)
(* alone, and which the boot of the server starts.  A backup may come from *)
(* another installation, whose key file is not this one's.                 *)
(***************************************************************************)
EXTENDS Integers, Sequences

CONSTANTS
  Jobs,          \* the schedulers: imageUpdateCheck, scheduledBackup, aiWatchdog, resourceAlerts
  Counts,        \* per scheduler, the hours or minutes that can be set
  Secrets,       \* oidc.clientSecret, notifications.webhookUrl, ntfy.password
  LongestDelay,  \* the seconds that a timer of Node can be set to
  MaxChanges     \* bound: updates, resets and restores

ASSUME SettingsAssumption ==
  /\ Jobs \subseteq {"imageUpdateCheck", "scheduledBackup", "aiWatchdog", "resourceAlerts"}
  /\ LongestDelay \in Nat /\ MaxChanges \in Nat
  /\ \A j \in Jobs : Counts[j] \subseteq Nat

VARIABLES
  up,        \* the server runs
  stored,    \* per scheduler, the rows of its group: a row holds one value or is not there
  sealed,    \* per secret, the installation whose key encrypted its row, or Unset
  timer,     \* per scheduler, the period of its interval in seconds, or NoTimer
  exports,   \* backups at hand
  changes,   \* updates, resets and restores so far
  unstarted, \* history: schedulers that were not restarted after the last restore
  foreign    \* history: the last restore was of another installation's backup

settingsVars == <<up, stored, sealed, timer, exports, changes, unstarted, foreign>>

NoTimer == -1
NoRow == <<>>
Row(S) == {NoRow} \cup {<<v>> : v \in S}
Rows(j) == [on : Row(BOOLEAN), audit : Row(IF j = "aiWatchdog" THEN BOOLEAN ELSE {}), count : Row(Counts[j])]
NoGroupRows == [on |-> NoRow, audit |-> NoRow, count |-> NoRow]
Unset == "blank"
Groups == {rows \in [Jobs -> UNION {Rows(j) : j \in Jobs}] : \A j \in Jobs : rows[j] \in Rows(j)}
Seals == [Secrets -> {"here", "elsewhere", Unset}]

SettingsTypeOK ==
  /\ up \in BOOLEAN
  /\ stored \in Groups /\ sealed \in Seals
  /\ timer \in [Jobs -> NoTimer .. LongestDelay]
  /\ exports \subseteq [rows : Groups, secrets : Seals]
  /\ changes \in 0 .. MaxChanges
  /\ unstarted \subseteq Jobs /\ foreign \in BOOLEAN

-----------------------------------------------------------------------------
\* get(): the rows laid over the defaults.
DefaultCount == [imageUpdateCheck |-> 24, scheduledBackup |-> 24, aiWatchdog |-> 15, resourceAlerts |-> 5]
Or(row, default) == IF row = NoRow THEN default ELSE row[1]
Get(j) ==
  [on    |-> Or(stored[j].on, FALSE),
   audit |-> Or(stored[j].audit, TRUE),
   count |-> Or(stored[j].count, DefaultCount[j])]

\* decryptSecret() throws for a secret sealed elsewhere, and get() with it.
Readable == \A s \in Secrets : sealed[s] # "elsewhere"

\* restartScheduler(): what the settings ask for, and what setInterval() makes
\* of it: a period no timer can hold becomes one of a millisecond.
AtLeastOne(n) == IF n < 1 THEN 1 ELSE n
Period(j) ==
  IF j \in {"imageUpdateCheck", "scheduledBackup"} THEN AtLeastOne(Get(j).count) * 3600 ELSE Get(j).count * 60
Asked(j) == IF Get(j).on /\ (j = "aiWatchdog" => Get(j).audit) THEN Period(j) ELSE NoTimer
Restarted(j) == IF Asked(j) > LongestDelay THEN 0 ELSE Asked(j)

SettingsInit ==
  /\ up = TRUE
  /\ stored = [j \in Jobs |-> NoGroupRows]
  /\ sealed = [s \in Secrets |-> Unset]
  /\ timer = [j \in Jobs |-> NoTimer]
  /\ exports = {[rows |-> stored, secrets |-> [s \in Secrets |-> "elsewhere"]]}
  /\ changes = 0 /\ unstarted = {} /\ foreign = FALSE

-----------------------------------------------------------------------------
\* settingsService.update(): the fields a body carries replace their rows; a
\* secret left blank leaves its row as it is.
Carried(row, body) == [f \in DOMAIN row |-> IF body[f] = NoRow THEN row[f] ELSE body[f]]

\* update() of the controller.  The audit entry it writes first reads the
\* settings, so that unreadable ones cannot be updated.  The schedulers of the
\* groups in the body are restarted.
Update(groups, body, typed) ==
  /\ up /\ Readable /\ changes < MaxChanges
  /\ groups # {} \/ typed # [s \in Secrets |-> "absent"]
  /\ stored' = [j \in Jobs |-> IF j \in groups THEN Carried(stored[j], body) ELSE stored[j]]
  /\ sealed' = [s \in Secrets |-> IF typed[s] = "new" THEN "here" ELSE sealed[s]]
  /\ timer' = [j \in Jobs |-> IF j \in groups THEN Restarted(j)' ELSE timer[j]]
  /\ unstarted' = unstarted \ groups
  /\ changes' = changes + 1
  /\ UNCHANGED <<up, exports, foreign>>

FactoryResetOnly ==    \* mutant: the schedulers are not restarted
  /\ up /\ changes < MaxChanges
  /\ stored' = [j \in Jobs |-> NoGroupRows]
  /\ sealed' = [s \in Secrets |-> Unset]
  /\ unstarted' = {} /\ foreign' = FALSE
  /\ changes' = changes + 1
  /\ UNCHANGED <<up, timer, exports>>

\* reset() of the controller works whatever is stored.
FactoryReset ==
  /\ up /\ changes < MaxChanges
  /\ stored' = [j \in Jobs |-> NoGroupRows]
  /\ sealed' = [s \in Secrets |-> Unset]
  /\ timer' = [j \in Jobs |-> Restarted(j)']
  /\ unstarted' = {} /\ foreign' = FALSE
  /\ changes' = changes + 1
  /\ UNCHANGED <<up, exports>>

\* build() copies the rows as they are, and the secrets as they are sealed.
ExportSettings ==
  /\ up /\ Readable
  /\ exports' = exports \cup {[rows |-> stored, secrets |-> sealed]}
  /\ UNCHANGED <<up, stored, sealed, timer, changes, unstarted, foreign>>

\* restore() replaces all rows, and no scheduler is told.
RestoreSettings(b) ==
  /\ up /\ changes < MaxChanges
  /\ stored' = b.rows /\ sealed' = b.secrets
  /\ unstarted' = Jobs
  /\ foreign' = (\E s \in Secrets : b.secrets[s] = "elsewhere")
  /\ changes' = changes + 1
  /\ UNCHANGED <<up, timer, exports>>

\* The process ends.  The next one starts the schedulers before it listens, and
\* does not get to listen when the settings cannot be read.
StopServer ==
  /\ up
  /\ up' = FALSE
  /\ timer' = [j \in Jobs |-> NoTimer]
  /\ UNCHANGED <<stored, sealed, exports, changes, unstarted, foreign>>

StartServer ==
  /\ ~up /\ Readable
  /\ up' = TRUE
  /\ timer' = [j \in Jobs |-> Restarted(j)]
  /\ unstarted' = {}
  /\ UNCHANGED <<stored, sealed, exports, changes, foreign>>

\* A body carries any groups, with the same fields in each, and any secrets.
SettingsNext ==
  \/ \E groups \in SUBSET Jobs, typed \in [Secrets -> {"absent", "blank", "new"}] :
       \E body \in {b \in UNION {Rows(j) : j \in groups} : \A j \in groups : b \in Rows(j)} \cup {NoGroupRows} :
         Update(groups, body, typed)
  \/ FactoryReset \/ ExportSettings \/ StopServer \/ StartServer
  \/ \E b \in exports : RestoreSettings(b)

SettingsSpec == SettingsInit /\ [][SettingsNext]_settingsVars

-----------------------------------------------------------------------------
\* While the server runs every scheduler runs with the period the settings ask
\* for, or not at all if they say so, whatever was updated, reset, restored and
\* restarted in between (settings.controller.ts update and reset, index.ts).
\* Two exceptions: a restore leaves the schedulers as they were, and a period
\* that a timer of Node cannot hold is not the one that was asked for.
TimersFollowSettings ==
  up => \A j \in Jobs \ unstarted :
          timer[j] = Asked(j) \/ (Asked(j) > LongestDelay /\ timer[j] = 0)

\* The server can read its own secrets, and so boot, update and record its
\* audit log, unless the last restore was of another installation's backup
\* (backup.ts restore, hostCrypto.ts decryptSecret).
SecretsReadable == foreign \/ Readable

\* What is set is in force and can be read (settings.controller.ts, settings.ts).
SettingsInForce == TimersFollowSettings /\ SecretsReadable

=============================================================================
