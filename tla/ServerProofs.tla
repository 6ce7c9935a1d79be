---------------------------- MODULE ServerProofs ----------------------------
(* Proofs about the server's parts that keep state of their own.  What the   *)
(* administrators set: the schedulers and secrets of Settings, the sign-on   *)
(* configuration of OidcConfig, the files of Backups, and what Engine has    *)
(* Docker do under the quotas.  What the server tells of by itself: resource *)
(* alerts (ResourceWatchdog), container events (Alerts), bursts of failed    *)
(* logins (AuditWatchdog) and image updates (ImageUpdates).                  *)
EXTENDS Settings, OidcConfig, Backups, Engine, ResourceWatchdog, Alerts, AuditWatchdog, ImageUpdates,
        FiniteSetTheorems, WellFoundedInduction, TLAPS

(***************************************************************************)
(* The configuration of the sign-on provider (OidcConfig).                 *)
(***************************************************************************)

(* A configuration that is cached is the one of its key: what lets get()     *)
(* answer from the cache by comparing keys.                                  *)
CacheIsOfKey == cachedConfig # NoKey => cachedKey = cachedConfig

OidcInv == OidcTypeOK /\ CacheIsOfKey /\ ConfigIsOfSettings

LEMMA OidcInitInv == OidcInit => OidcInv
BY DEF OidcInit, OidcInv, OidcTypeOK, ProviderKeys, CacheIsOfKey, ConfigIsOfSettings

(* The call of get() that a sign-on makes.                                   *)
LEMMA GetConfigInv == ASSUME OidcInv, NEW s \in Signins, GetConfig(s) PROVE OidcInv'
<1> USE DEF OidcInv, OidcTypeOK, ProviderKeys, CacheIsOfKey, ConfigIsOfSettings
<1>1. CASE provider = NoKey \/ (cachedConfig # NoKey /\ cachedKey = provider)
  BY <1>1 DEF GetConfig
<1>2. CASE ~(provider = NoKey \/ (cachedConfig # NoKey /\ cachedKey = provider))
  BY <1>2 DEF GetConfig
<1> QED BY <1>1, <1>2

(* The end of a discovery, whatever happened to cache and settings before.   *)
LEMMA DiscoveryInv ==
  ASSUME OidcInv, NEW s \in Signins, DiscoveryDone(s) \/ DiscoveryFails(s)
  PROVE  OidcInv'
<1> USE DEF OidcInv, OidcTypeOK, ProviderKeys, CacheIsOfKey, ConfigIsOfSettings
<1>1. CASE DiscoveryDone(s)   BY <1>1 DEF DiscoveryDone
<1>2. CASE DiscoveryFails(s)  BY <1>2 DEF DiscoveryFails
<1> QED BY <1>1, <1>2

(* A change of the settings.                                                 *)
LEMMA ProviderInv ==
  ASSUME OidcInv, NEW p \in ProviderKeys, SaveProvider(p) \/ RestoreProvider(p)
  PROVE  OidcInv'
BY DEF OidcInv, OidcTypeOK, ProviderKeys, CacheIsOfKey, ConfigIsOfSettings,
       SaveProvider, RestoreProvider

LEMMA OidcStep == OidcInv /\ [OidcNext]_oidcVars => OidcInv'
<1> SUFFICES ASSUME OidcInv, [OidcNext]_oidcVars PROVE OidcInv'
  OBVIOUS
<1>1. CASE \E s \in Signins : GetConfig(s) \/ DiscoveryDone(s) \/ DiscoveryFails(s)
  BY <1>1, GetConfigInv, DiscoveryInv
<1>2. CASE \E p \in ProviderKeys : SaveProvider(p) \/ RestoreProvider(p)
  BY <1>2, ProviderInv
<1>3. CASE UNCHANGED oidcVars
  BY <1>3 DEF oidcVars, OidcInv, OidcTypeOK, ProviderKeys, CacheIsOfKey, ConfigIsOfSettings
<1> QED BY <1>1, <1>2, <1>3 DEF OidcNext

(* The inductive invariant of the sign-on configuration (oidc.ts get): the   *)
(* cached configuration is the one of its key.                               *)
THEOREM OidcConfigInv == OidcSpec => []OidcInv
BY OidcInitInv, OidcStep, PTL DEF OidcSpec

(* Every sign-on gets the configuration of the provider that was set when it *)
(* began, for any number of providers and of sign-ons under way (oidc.ts).   *)
THEOREM SignOnGoesToItsProvider == OidcSpec => []ConfigIsOfSettings
<1>1. OidcInv => ConfigIsOfSettings  BY DEF OidcInv
<1> QED BY <1>1, OidcConfigInv, PTL

(***************************************************************************)
(* The schedulers and secrets (Settings).                                  *)
(***************************************************************************)

SettingsInv == SettingsTypeOK /\ SettingsInForce

(* What a restarted scheduler does is what was asked for, or the period that *)
(* no timer can hold.                                                        *)
LEMMA RestartFollows ==
  ASSUME NEW j \in Jobs
  PROVE  Restarted(j) = Asked(j) \/ (Asked(j) > LongestDelay /\ Restarted(j) = 0)
BY DEF Restarted

(* A row of one value, or none, read over a default of its kind.             *)
LEMMA OrTyped ==
  ASSUME NEW S, NEW row \in Row(S), NEW default \in S
  PROVE  Or(row, default) \in S
BY DEF Or, Row, NoRow

(* A group's rows are read as a switch and a count.                          *)
LEMMA GetTyped ==
  ASSUME stored \in Groups, NEW j \in Jobs
  PROVE  Get(j).on \in BOOLEAN /\ Get(j).count \in Nat
<1>1. stored[j].on \in Row(BOOLEAN) /\ stored[j].count \in Row(Counts[j])
  BY DEF Groups, Rows
<1>2. stored[j].count \in Row(Nat)
  BY <1>1, SettingsAssumption DEF Row
<1>3. DefaultCount[j] \in Nat
  BY SettingsAssumption DEF DefaultCount
<1>4. Or(stored[j].on, FALSE) \in BOOLEAN
  BY <1>1, OrTyped
<1>5. Or(stored[j].count, DefaultCount[j]) \in Nat
  BY <1>2, <1>3, OrTyped
<1> QED BY <1>4, <1>5 DEF Get

(* A timer that was restarted is off or has a period a timer can hold.       *)
LEMMA RestartTyped ==
  ASSUME stored \in Groups, NEW j \in Jobs
  PROVE  Restarted(j) \in NoTimer .. LongestDelay
<1>1. Get(j).count \in Nat
  BY GetTyped
<1>2. Period(j) \in Nat
  <2> DEFINE n == Get(j).count
  <2>1. n \in Nat  BY <1>1
  <2>2. Period(j) = IF j \in {"imageUpdateCheck", "scheduledBackup"}
                    THEN AtLeastOne(n) * 3600 ELSE n * 60
    BY DEF Period
  <2> HIDE DEF n
  <2>3. AtLeastOne(n) \in Nat  BY <2>1 DEF AtLeastOne
  <2>4. AtLeastOne(n) * 3600 \in Nat /\ n * 60 \in Nat  BY <2>1, <2>3
  <2> QED BY <2>2, <2>4
<1>3. Asked(j) = Period(j) \/ Asked(j) = NoTimer
  BY DEF Asked
<1>4. Restarted(j) = Asked(j) \/ Restarted(j) = 0
  BY RestartFollows
<1>5. Asked(j) > LongestDelay => Restarted(j) = 0
  BY DEF Restarted
<1>6. Asked(j) \in Int /\ Asked(j) >= NoTimer
  BY <1>2, <1>3 DEF NoTimer
<1> QED BY <1>4, <1>5, <1>6, SettingsAssumption DEF NoTimer

(* The same of the next state, which an action reaches.                      *)
LEMMA NextRestartTyped ==
  (stored \in Groups => \A j \in Jobs : Restarted(j) \in NoTimer .. LongestDelay)'
<1>1. stored \in Groups => \A j \in Jobs : Restarted(j) \in NoTimer .. LongestDelay
  BY RestartTyped
<1> QED BY <1>1, PTL

(* What an action leaves alone goes on to follow the settings.               *)
LEMMA TimersRest ==
  ASSUME TimersFollowSettings, up' => up, UNCHANGED <<stored, timer, unstarted>>
  PROVE  TimersFollowSettings'
<1>1. \A j \in Jobs : Asked(j)' = Asked(j)
  BY DEF Asked, Period, Get
<1> QED BY <1>1 DEF TimersFollowSettings

LEMMA SecretsRest ==
  ASSUME SecretsReadable, UNCHANGED <<sealed, foreign>> PROVE SecretsReadable'
BY DEF SecretsReadable, Readable

(* All timers restarted: they follow the settings.                           *)
LEMMA AllRestarted ==
  ASSUME stored \in Groups, timer = [j \in Jobs |-> Restarted(j)]
  PROVE  timer \in [Jobs -> NoTimer .. LongestDelay] /\ TimersFollowSettings
BY RestartTyped, RestartFollows DEF TimersFollowSettings

LEMMA EmptyRowsTyped == [j \in Jobs |-> NoGroupRows] \in Groups
BY DEF Groups, NoGroupRows, Rows, Row

LEMMA SettingsInitInv == SettingsInit => SettingsInv
<1> SUFFICES ASSUME SettingsInit PROVE SettingsInv
  OBVIOUS
<1>1. stored \in Groups
  BY EmptyRowsTyped DEF SettingsInit
<1>2. SettingsTypeOK
  <2>1. [s \in Secrets |-> Unset] \in Seals /\ [s \in Secrets |-> "elsewhere"] \in Seals
    BY DEF Seals
  <2>2. exports \subseteq [rows : Groups, secrets : Seals]
    BY <1>1, <2>1 DEF SettingsInit
  <2>3. timer \in [Jobs -> NoTimer .. LongestDelay]
    BY SettingsAssumption DEF SettingsInit, NoTimer
  <2>4. changes \in 0 .. MaxChanges
    BY SettingsAssumption DEF SettingsInit
  <2> QED BY <1>1, <2>1, <2>2, <2>3, <2>4 DEF SettingsInit, SettingsTypeOK
<1>3. \A j \in Jobs : Asked(j) = NoTimer
  BY DEF SettingsInit, Asked, Get, Or, NoGroupRows, NoRow
<1>4. TimersFollowSettings /\ SecretsReadable
  BY <1>3 DEF SettingsInit, TimersFollowSettings, SecretsReadable, Readable, Unset
<1> QED BY <1>2, <1>4 DEF SettingsInv, SettingsInForce

(* The rows a body carries replace those of its groups, and stay rows.       *)
LEMMA CarriedTyped ==
  ASSUME stored \in Groups, NEW j \in Jobs, NEW body,
         body = NoGroupRows \/ body \in Rows(j)
  PROVE  Carried(stored[j], body) \in Rows(j)
<1>1. stored[j] \in Rows(j)
  BY DEF Groups
<1>2. CASE body = NoGroupRows
  BY <1>1, <1>2 DEF Carried, NoGroupRows, Rows
<1>3. CASE body \in Rows(j)
  BY <1>1, <1>3 DEF Carried, Rows
<1> QED BY <1>2, <1>3

(* An update writes the rows of its groups and restarts their schedulers; the*)
(* others keep their rows and their timers.                                  *)
LEMMA UpdateInv ==
  ASSUME SettingsInv, NEW groups \in SUBSET Jobs, NEW typed \in [Secrets -> {"absent", "blank", "new"}],
         NEW body, body = NoGroupRows \/ (\A j \in groups : body \in Rows(j)),
         Update(groups, body, typed)
  PROVE  SettingsInv'
<1> USE DEF SettingsInv, SettingsTypeOK
<1>1. stored' \in Groups
  <2>1. \A j \in Jobs : stored'[j] \in Rows(j)
    BY CarriedTyped DEF Update, Groups
  <2> QED BY <2>1 DEF Update, Groups
<1>2. ASSUME NEW j \in Jobs
      PROVE  timer'[j] \in NoTimer .. LongestDelay
  <2>1. Restarted(j)' \in NoTimer .. LongestDelay
    BY <1>1, NextRestartTyped
  <2> QED BY <2>1 DEF Update
<1>3. sealed' \in Seals
  BY DEF Update, Seals
<1>4. SettingsTypeOK'
  BY <1>1, <1>2, <1>3, SettingsAssumption DEF Update
<1>5. ASSUME up', NEW j \in Jobs \ unstarted'
      PROVE  timer'[j] = Asked(j)' \/ (Asked(j)' > LongestDelay /\ timer'[j] = 0)
  <2>1. CASE j \in groups
    <3>1. Restarted(j)' = Asked(j)' \/ (Asked(j)' > LongestDelay /\ Restarted(j)' = 0)
      BY DEF Restarted
    <3> QED BY <2>1, <3>1 DEF Update
  <2>2. CASE j \notin groups
    <3>1. stored'[j] = stored[j] /\ timer'[j] = timer[j] /\ up /\ j \notin unstarted
      BY <1>5, <2>2 DEF Update
    <3>2. Asked(j)' = Asked(j)
      BY <3>1 DEF Asked, Period, Get
    <3> QED BY <3>1, <3>2 DEF SettingsInForce, TimersFollowSettings
  <2> QED BY <2>1, <2>2
<1>6. SecretsReadable'
  BY DEF Update, SecretsReadable, Readable, SettingsInForce
<1> QED BY <1>4, <1>5, <1>6 DEF SettingsInForce, TimersFollowSettings

(* All rows go and all schedulers are restarted.                             *)
LEMMA ResetInv == ASSUME SettingsInv, FactoryReset PROVE SettingsInv'
<1> USE DEF SettingsInv, SettingsTypeOK
<1>1. stored' \in Groups
  BY EmptyRowsTyped DEF FactoryReset
<1>2. \A j \in Jobs : timer'[j] = Restarted(j)'
  BY DEF FactoryReset
<1>3. \A j \in Jobs : timer'[j] \in NoTimer .. LongestDelay
  BY <1>1, <1>2, NextRestartTyped
<1>4. SettingsTypeOK'
  <2>1. sealed' \in Seals
    BY DEF FactoryReset, Seals
  <2>2. changes' \in 0 .. MaxChanges
    BY SettingsAssumption DEF FactoryReset
  <2>3. timer' \in [Jobs -> NoTimer .. LongestDelay]
    BY <1>3 DEF FactoryReset
  <2> QED BY <1>1, <2>1, <2>2, <2>3 DEF FactoryReset
<1>5. TimersFollowSettings'
  BY <1>2 DEF TimersFollowSettings, Restarted
<1>6. SecretsReadable'
  BY DEF FactoryReset, SecretsReadable, Readable, Unset
<1> QED BY <1>4, <1>5, <1>6 DEF SettingsInForce

(* A restore brings other rows and tells no scheduler.                       *)
LEMMA RestoreInv == ASSUME SettingsInv, NEW b \in exports, RestoreSettings(b) PROVE SettingsInv'
<1> USE DEF SettingsInv, SettingsTypeOK
<1>1. b.rows \in Groups /\ b.secrets \in Seals
  OBVIOUS
<1>2. SettingsTypeOK'
  BY <1>1, SettingsAssumption DEF RestoreSettings
<1>3. TimersFollowSettings'
  BY DEF RestoreSettings, TimersFollowSettings
<1>4. SecretsReadable'
  BY DEF RestoreSettings, SecretsReadable, Readable
<1> QED BY <1>2, <1>3, <1>4 DEF SettingsInForce

(* An export, a stop and a start change no row.                              *)
LEMMA ExportInv == ASSUME SettingsInv, ExportSettings PROVE SettingsInv'
<1> USE DEF SettingsInv, SettingsTypeOK
<1>1. exports' \subseteq [rows : Groups, secrets : Seals]
  BY DEF ExportSettings
<1>2. SettingsTypeOK'
  BY <1>1 DEF ExportSettings
<1>3. SettingsInForce'
  BY TimersRest, SecretsRest DEF ExportSettings, SettingsInForce
<1> QED BY <1>2, <1>3

LEMMA StopInv == ASSUME SettingsInv, StopServer PROVE SettingsInv'
<1> USE DEF SettingsInv, SettingsTypeOK
<1>1. timer' \in [Jobs -> NoTimer .. LongestDelay]
  BY SettingsAssumption DEF StopServer, NoTimer
<1>2. SettingsTypeOK'
  BY <1>1 DEF StopServer
<1>3. TimersFollowSettings'
  BY DEF StopServer, TimersFollowSettings
<1>4. SecretsReadable'
  BY SecretsRest DEF StopServer, SettingsInForce
<1> QED BY <1>2, <1>3, <1>4 DEF SettingsInForce

LEMMA StartInv == ASSUME SettingsInv, StartServer PROVE SettingsInv'
<1> USE DEF SettingsInv, SettingsTypeOK
<1>1. \A j \in Jobs : timer'[j] = Restarted(j)
  BY DEF StartServer
<1>2. \A j \in Jobs : timer'[j] \in NoTimer .. LongestDelay
  BY <1>1, RestartTyped
<1>3. SettingsTypeOK'
  BY <1>2 DEF StartServer
<1>4. \A j \in Jobs : Asked(j)' = Asked(j)
  BY DEF StartServer, Asked, Period, Get
<1>5. TimersFollowSettings'
  BY <1>1, <1>4, RestartFollows DEF TimersFollowSettings
<1>6. SecretsReadable'
  BY SecretsRest DEF StartServer, SettingsInForce
<1> QED BY <1>3, <1>5, <1>6 DEF SettingsInForce

LEMMA SettingsStep == SettingsInv /\ [SettingsNext]_settingsVars => SettingsInv'
<1> SUFFICES ASSUME SettingsInv, [SettingsNext]_settingsVars PROVE SettingsInv'
  OBVIOUS
<1>1. ASSUME NEW groups \in SUBSET Jobs, NEW typed \in [Secrets -> {"absent", "blank", "new"}],
             NEW body \in {b \in UNION {Rows(j) : j \in groups} : \A j \in groups : b \in Rows(j)}
                         \cup {NoGroupRows},
             Update(groups, body, typed)
      PROVE  SettingsInv'
  <2>1. body = NoGroupRows \/ (\A j \in groups : body \in Rows(j))
    OBVIOUS
  <2> QED BY <1>1, <2>1, UpdateInv
<1>2. CASE FactoryReset     BY <1>2, ResetInv
<1>3. CASE ExportSettings   BY <1>3, ExportInv
<1>4. CASE StopServer       BY <1>4, StopInv
<1>5. CASE StartServer      BY <1>5, StartInv
<1>6. CASE \E b \in exports : RestoreSettings(b)
  BY <1>6, RestoreInv
<1>7. CASE UNCHANGED settingsVars
  <2>1. SettingsTypeOK'
    BY <1>7 DEF settingsVars, SettingsInv, SettingsTypeOK
  <2>2. SettingsInForce'
    BY <1>7, TimersRest, SecretsRest DEF settingsVars, SettingsInv, SettingsInForce
  <2> QED BY <2>1, <2>2 DEF SettingsInv
<1> QED BY <1>1, <1>2, <1>3, <1>4, <1>5, <1>6, <1>7 DEF SettingsNext

(* Types: in particular no timer has a period that Node could not hold, and  *)
(* the rows of a scheduler's group are of that group.                        *)
THEOREM SettingsInvariant == SettingsSpec => []SettingsInv
BY SettingsInitInv, SettingsStep, PTL DEF SettingsSpec

(* Each scheduler runs as the settings say, and the secrets can be read, but *)
(* for the named exceptions, whatever is updated, reset, restored and        *)
(* restarted, for any schedulers, periods, secrets and number of changes     *)
(* (settings.controller.ts update and reset, backup.ts restore, index.ts).   *)
THEOREM SchedulersFollowSettings == SettingsSpec => []SettingsInForce
<1>1. SettingsInv => SettingsInForce  BY DEF SettingsInv
<1> QED BY <1>1, SettingsInvariant, PTL

(***************************************************************************)
(* Backups as files (Backups).                                             *)
(***************************************************************************)

Newer(files, f) == {g \in files : g > f}
Kept == AtLeastOneFile(Max(Keeps))

BackupsInv ==
  /\ clock \in 0 .. MaxTime /\ keep \in Keeps
  /\ backups \subseteq 0 .. clock /\ torn \subseteq backups /\ written \subseteq 0 .. clock
  /\ OnlyOlderPruned /\ NoMoreThanKept

LEMMA MostKept == \A n \in Keeps : n \in Nat /\ Max(Keeps) \in Nat /\ n <= Max(Keeps)
<1>1. Max(Keeps) \in Keeps /\ \A m \in Keeps : Max(Keeps) >= m
  BY BackupsAssumption DEF Max
<1> QED BY <1>1, BackupsAssumption

LEMMA BackupsInitInv == BackupsInit => BackupsInv
<1> SUFFICES ASSUME BackupsInit PROVE BackupsInv
  OBVIOUS
<1>1. backups \ torn = {} /\ keep \in Nat /\ keep \in Keeps
  BY BackupsAssumption DEF BackupsInit
<1>2. Cardinality(backups \ torn) = 0
  BY <1>1, FS_EmptySet
<1>3. Kept \in Nat
  BY <1>1, MostKept DEF Kept, AtLeastOneFile
<1> QED BY <1>1, <1>2, <1>3, BackupsAssumption DEF BackupsInit, BackupsInv, OnlyOlderPruned, NoMoreThanKept, Kept

LEMMA FilesFinite ==
  ASSUME NEW t \in Nat, NEW files \in SUBSET (0 .. t)
  PROVE  IsFiniteSet(files) /\ Cardinality(files) \in Nat
<1>1. IsFiniteSet(0 .. t)
  BY FS_Interval
<1>2. IsFiniteSet(files)
  BY <1>1, FS_Subset
<1> QED BY <1>2, FS_CardinalityType

LEMMA OldestOf ==
  ASSUME NEW files \in SUBSET Nat, files # {}
  PROVE  \E f \in files : \A g \in files : g >= f
<1> DEFINE R == OpToRel(<, Nat)
<1>1. IsWellFoundedOn(R, Nat)
  BY NatLessThanWellFounded
<1>2. \A f, g \in Nat : <<g, f>> \in R <=> g < f
  BY DEF OpToRel
<1> HIDE DEF R
<1>3. PICK f \in files : \A g \in files : ~ (<<g, f>> \in R)
  BY <1>1, WFMin
<1>4. ASSUME NEW g \in files PROVE g >= f
  <2>1. f \in Nat /\ g \in Nat
    OBVIOUS
  <2>2. ~(g < f)
    BY <1>2, <1>3, <2>1
  <2> QED BY <2>1, <2>2
<1> QED BY <1>4

(* No more files are left than are kept: those newer than the oldest left    *)
(* are too few to count against it.                                          *)
LEMMA PrunedIsFew ==
  ASSUME NEW t \in Nat, NEW files \in SUBSET (0 .. t), NEW count \in Nat
  PROVE  /\ IsFiniteSet(Pruned(files, count))
         /\ Cardinality(Pruned(files, count)) \in Nat
         /\ Cardinality(Pruned(files, count)) <= AtLeastOneFile(count)
<1> DEFINE P == Pruned(files, count)
<1>1. P \in SUBSET (0 .. t) /\ P \subseteq files
  BY DEF Pruned
<1>2. IsFiniteSet(P) /\ Cardinality(P) \in Nat
  BY <1>1, FilesFinite
<1>3. AtLeastOneFile(count) \in Nat \ {0}
  BY DEF AtLeastOneFile
<1>4. CASE P = {}
  BY <1>2, <1>3, <1>4, FS_EmptySet
<1>5. CASE P # {}
  <2>1. P \in SUBSET Nat
    BY <1>1
  <2>2. PICK f \in P : \A g \in P : g >= f
    BY <1>5, <2>1, OldestOf
  <2>3. Cardinality(Newer(files, f)) < AtLeastOneFile(count)
    BY <2>2 DEF Pruned, Newer
  <2>4. Newer(files, f) \in SUBSET (0 .. t)
    BY DEF Newer
  <2>5. IsFiniteSet(Newer(files, f)) /\ Cardinality(Newer(files, f)) \in Nat
    BY <2>4, FilesFinite
  <2>6. P \in SUBSET (Newer(files, f) \cup {f})
    <3> SUFFICES ASSUME NEW g \in P, g # f PROVE g \in Newer(files, f)
      OBVIOUS
    <3>1. g \in files /\ f \in Nat /\ g \in Nat /\ g >= f
      BY <1>1, <2>1, <2>2
    <3>2. g > f
      BY <3>1
    <3> QED BY <3>1, <3>2 DEF Newer
  <2>7. /\ IsFiniteSet(Newer(files, f) \cup {f})
        /\ Cardinality(Newer(files, f) \cup {f}) \in Nat
        /\ Cardinality(Newer(files, f) \cup {f}) <= Cardinality(Newer(files, f)) + 1
    BY <2>5, FS_AddElement
  <2>8. Cardinality(P) <= Cardinality(Newer(files, f) \cup {f})
    BY <2>6, <2>7, FS_Subset
  <2>9. Cardinality(P) <= AtLeastOneFile(count)
    <3> HIDE DEF P
    <3> QED BY <1>2, <1>3, <2>3, <2>5, <2>7, <2>8
  <2> QED BY <1>2, <2>9
<1> QED BY <1>2, <1>4, <1>5

(* What is pruned is older than whatever is left, and the newest is left.    *)
LEMMA PrunedIsOld ==
  ASSUME NEW t \in Nat, NEW files \in SUBSET (0 .. t), NEW count \in Nat
  PROVE  /\ \A f \in files \ Pruned(files, count) : \A g \in Pruned(files, count) : f < g
         /\ \A f \in files : (\A g \in files : g <= f) => f \in Pruned(files, count)
<1>1. ASSUME NEW f \in files \ Pruned(files, count), NEW g \in Pruned(files, count) PROVE f < g
  <2> SUFFICES ASSUME ~(f < g) PROVE FALSE
    OBVIOUS
  <2>1. g \in files /\ f \in Nat /\ g \in Nat
    BY DEF Pruned
  <2>2. Newer(files, f) \subseteq Newer(files, g)
    <3> SUFFICES ASSUME NEW h \in files, h > f PROVE h > g
      BY DEF Newer
    <3>1. h \in Nat
      OBVIOUS
    <3> QED BY <2>1, <3>1
  <2>3. Newer(files, g) \in SUBSET (0 .. t) /\ Newer(files, f) \in SUBSET (0 .. t)
    BY DEF Newer
  <2>4. /\ IsFiniteSet(Newer(files, g)) /\ Cardinality(Newer(files, g)) \in Nat
        /\ Cardinality(Newer(files, f)) \in Nat
    BY <2>3, FilesFinite
  <2>5. Cardinality(Newer(files, f)) <= Cardinality(Newer(files, g))
    BY <2>2, <2>4, FS_Subset
  <2>6. Cardinality(Newer(files, g)) < AtLeastOneFile(count)
    BY DEF Pruned, Newer
  <2>7. ~(Cardinality(Newer(files, f)) < AtLeastOneFile(count))
    BY DEF Pruned, Newer
  <2>8. AtLeastOneFile(count) \in Nat
    BY DEF AtLeastOneFile
  <2> QED BY <2>4, <2>5, <2>6, <2>7, <2>8
<1>2. ASSUME NEW f \in files, \A g \in files : g <= f PROVE f \in Pruned(files, count)
  <2>1. {g \in files : g > f} = {}
    <3> SUFFICES ASSUME NEW g \in files, g > f PROVE FALSE
      OBVIOUS
    <3>1. g \in Nat /\ f \in Nat /\ g <= f
      BY <1>2
    <3> QED BY <3>1
  <2>2. Cardinality({g \in files : g > f}) = 0
    BY <2>1, FS_EmptySet
  <2>3. 0 < AtLeastOneFile(count)
    BY DEF AtLeastOneFile
  <2> QED BY <2>2, <2>3 DEF Pruned
<1> QED BY <1>1, <1>2

(* Whatever leaves fewer whole files leaves few enough.                      *)
LEMMA FewerAreFew ==
  ASSUME BackupsInv, backups' \ torn' \subseteq backups \ torn PROVE NoMoreThanKept'
<1>1. clock \in Nat /\ backups \ torn \in SUBSET (0 .. clock)
  BY BackupsAssumption DEF BackupsInv
<1>2. IsFiniteSet(backups \ torn) /\ Cardinality(backups \ torn) \in Nat
  BY <1>1, FilesFinite
<1>3. IsFiniteSet(backups' \ torn') /\ Cardinality(backups' \ torn') <= Cardinality(backups \ torn)
  BY <1>2, FS_Subset
<1>4. Cardinality(backups' \ torn') \in Nat
  BY <1>3, FS_CardinalityType
<1>5. Cardinality(backups \ torn) <= Kept /\ Kept \in Nat
  BY BackupsAssumption, MostKept DEF BackupsInv, NoMoreThanKept, Kept, AtLeastOneFile
<1>6. Cardinality(backups' \ torn') <= Kept
  BY <1>2, <1>3, <1>4, <1>5
<1> QED BY <1>6 DEF NoMoreThanKept, Kept

LEMMA FinishBuildInv == ASSUME BackupsInv, NEW r \in Runs, FinishBuild(r) PROVE BackupsInv'
<1>1. CASE builds[r].kind = "download"
  <2>1. UNCHANGED <<clock, keep, backups, torn, written, deleted>>
    BY <1>1 DEF FinishBuild
  <2>2. NoMoreThanKept'
    BY <2>1, FewerAreFew
  <2> QED BY <2>1, <2>2 DEF BackupsInv, OnlyOlderPruned
<1>2. CASE builds[r].kind # "download"
  <2> DEFINE files == backups \cup {clock}
  <2>1. /\ clock' = clock /\ keep' = keep /\ backups' = Pruned(files, keep)
        /\ torn' = (torn \cap backups') \ {clock}
        /\ written' = written \cup {clock} /\ deleted' = deleted \ {clock}
    BY <1>2 DEF FinishBuild
  <2>2. clock \in Nat /\ clock \in 0 .. MaxTime /\ keep \in Nat /\ keep \in Keeps /\ files \in SUBSET (0 .. clock)
    BY BackupsAssumption DEF BackupsInv
  <2>3. backups' \subseteq files /\ torn' \subseteq backups'
    BY <2>1 DEF Pruned
  <2>4. /\ \A f \in files \ backups' : \A g \in backups' : f < g
        /\ clock \in backups'
    <3>1. \A g \in files : g <= clock
      BY <2>2
    <3> HIDE DEF files
    <3> QED BY <2>1, <2>2, <3>1, PrunedIsOld DEF files
  <2>5. OnlyOlderPruned'
    <3> SUFFICES ASSUME NEW f \in written' \ (backups' \cup deleted')
                 PROVE (\A g \in backups' : f < g) /\ (\E g \in written' : f < g)
      BY DEF OnlyOlderPruned
    <3>1. f # clock /\ f \in written /\ f \notin deleted /\ f \in 0 .. clock
      BY <2>1, <2>4 DEF BackupsInv
    <3>2. f < clock /\ clock \in written'
      BY <2>1, <2>2, <3>1
    <3>3. CASE f \in backups
      BY <2>4, <3>2, <3>3
    <3>4. CASE f \notin backups
      <4>1. \A g \in backups : f < g
        BY <3>1, <3>4 DEF BackupsInv, OnlyOlderPruned
      <4> QED BY <2>3, <3>2, <4>1
    <3> QED BY <3>3, <3>4
  <2>6. NoMoreThanKept'
    <3>1. IsFiniteSet(backups') /\ Cardinality(backups') \in Nat /\ Cardinality(backups') <= AtLeastOneFile(keep)
      <4> HIDE DEF files
      <4> QED BY <2>1, <2>2, PrunedIsFew
    <3>2. Cardinality(backups' \ torn') \in Nat /\ Cardinality(backups' \ torn') <= Cardinality(backups')
      <4>1. backups' \ torn' \in SUBSET backups'
        OBVIOUS
      <4>2. IsFiniteSet(backups' \ torn') /\ Cardinality(backups' \ torn') <= Cardinality(backups')
        BY <3>1, <4>1, FS_Subset
      <4> QED BY <4>2, FS_CardinalityType
    <3>3. AtLeastOneFile(keep) <= Kept /\ Kept \in Nat /\ AtLeastOneFile(keep) \in Nat
      BY <2>2, MostKept DEF Kept, AtLeastOneFile
    <3>4. Cardinality(backups' \ torn') <= Kept
      BY <3>1, <3>2, <3>3
    <3> QED BY <3>4 DEF NoMoreThanKept, Kept
  <2>7. backups' \subseteq 0 .. clock /\ written' \subseteq 0 .. clock
    BY <2>1, <2>2, <2>3 DEF BackupsInv
  <2> QED BY <2>1, <2>2, <2>3, <2>5, <2>6, <2>7 DEF BackupsInv
<1> QED BY <1>1, <1>2

LEMMA CrashWritingInv == ASSUME BackupsInv, NEW r \in Runs, CrashWriting(r) PROVE BackupsInv'
<1>1. /\ clock' = clock /\ keep' = keep /\ backups' = backups \cup {clock} /\ torn' = torn \cup {clock}
      /\ written' = written /\ deleted' = deleted \ {clock}
  BY DEF CrashWriting
<1>2. clock \in Nat
  BY BackupsAssumption DEF BackupsInv
<1>3. NoMoreThanKept'
  BY <1>1, FewerAreFew
<1>4. OnlyOlderPruned'
  <2> SUFFICES ASSUME NEW f \in written' \ (backups' \cup deleted')
               PROVE (\A g \in backups' : f < g) /\ (\E g \in written' : f < g)
    BY DEF OnlyOlderPruned
  <2>1. f \in written \ (backups \cup deleted) /\ f # clock /\ f \in 0 .. clock
    BY <1>1 DEF BackupsInv
  <2>2. f < clock
    BY <1>2, <2>1
  <2>3. (\A g \in backups : f < g) /\ (\E g \in written : f < g)
    BY <2>1 DEF BackupsInv, OnlyOlderPruned
  <2> QED BY <1>1, <2>2, <2>3
<1>5. backups' \subseteq 0 .. clock /\ torn' \subseteq backups'
  BY <1>1, <1>2 DEF BackupsInv
<1> QED BY <1>1, <1>3, <1>4, <1>5 DEF BackupsInv

LEMMA DeleteBackupInv == ASSUME BackupsInv, NEW f \in backups, DeleteBackup(f) PROVE BackupsInv'
<1>1. /\ clock' = clock /\ keep' = keep /\ backups' = backups \ {f} /\ torn' = torn \ {f}
      /\ written' = written /\ deleted' = deleted \cup (written \cap {f})
  BY DEF DeleteBackup
<1>2. NoMoreThanKept'
  BY <1>1, FewerAreFew
<1>3. OnlyOlderPruned'
  <2>1. written' \ (backups' \cup deleted') \subseteq written \ (backups \cup deleted) /\ backups' \subseteq backups
    BY <1>1
  <2> QED BY <1>1, <2>1 DEF BackupsInv, OnlyOlderPruned
<1> QED BY <1>1, <1>2, <1>3 DEF BackupsInv

LEMMA FilesRestInv ==
  ASSUME BackupsInv, UNCHANGED <<backups, torn, written, deleted>>, keep' \in Keeps,
         clock' \in 0 .. MaxTime, clock' >= clock
  PROVE  BackupsInv'
<1>1. clock \in Nat /\ clock' \in Nat
  BY BackupsAssumption DEF BackupsInv
<1>2. NoMoreThanKept'
  BY FewerAreFew
<1>3. backups' \subseteq 0 .. clock' /\ written' \subseteq 0 .. clock'
  BY <1>1 DEF BackupsInv
<1>4. OnlyOlderPruned' /\ torn' \subseteq backups'
  BY DEF BackupsInv, OnlyOlderPruned
<1> QED BY <1>2, <1>3, <1>4 DEF BackupsInv

LEMMA BackupsStep == BackupsInv /\ [BackupsNext]_backupsVars => BackupsInv'
<1> SUFFICES ASSUME BackupsInv, [BackupsNext]_backupsVars PROVE BackupsInv'
  OBVIOUS
<1>1. clock \in Nat /\ clock \in 0 .. MaxTime /\ keep \in Keeps
  BY BackupsAssumption DEF BackupsInv
<1>2. CASE UNCHANGED <<backups, torn, written, deleted, keep, clock>>
  BY <1>1, <1>2, FilesRestInv
<1>3. ASSUME NEW n \in Keeps, SetKeep(n) PROVE BackupsInv'
  BY <1>1, <1>3, FilesRestInv DEF SetKeep
<1>4. CASE BackupClock
  <2>1. clock' \in 0 .. MaxTime /\ clock' >= clock
    BY <1>1, <1>4, BackupsAssumption DEF BackupClock
  <2> QED BY <1>1, <1>4, <2>1, FilesRestInv DEF BackupClock
<1>5. CASE UNCHANGED backupsVars
  BY <1>2, <1>5 DEF backupsVars
<1>6. ASSUME NEW r \in Runs,
             \/ \E k \in BuildKinds : StartBuild(r, k)
             \/ ListNames(r)
             \/ \E n \in Names : ReadStack(r, n)
      PROVE  BackupsInv'
  BY <1>2, <1>6 DEF StartBuild, ListNames, ReadStack
<1>7. ASSUME NEW n \in Names, StackStep(n) PROVE BackupsInv'
  BY <1>2, <1>7 DEF StackStep
<1> QED BY <1>3, <1>4, <1>5, <1>6, <1>7, FinishBuildInv, CrashWritingInv, DeleteBackupInv DEF BackupsNext

(* The inductive invariant of the backup files: the bounds of their times,   *)
(* OnlyOlderPruned and NoMoreThanKept, for any number of overlapping runs,   *)
(* stacks and values of keepCount (scheduledBackups.ts).                     *)
THEOREM BackupsInvariant == BackupsSpec => []BackupsInv
BY BackupsInitInv, BackupsStep, PTL DEF BackupsSpec

(* Pruning removes only older files, never more than keepCount asks, and     *)
(* leaves no more than the settings allow (scheduledBackups.ts               *)
(* pruneOldBackups), however builds overlap and wherever one crashes.        *)
THEOREM OnlyExcessIsRemoved == BackupsSpec => []BackupsKept
<1>1. BackupsInv => BackupsKept
  BY DEF BackupsInv, BackupsKept
<1> QED BY <1>1, BackupsInvariant, PTL

-----------------------------------------------------------------------------
LEMMA BackupsTypesInit == BackupsInit => BackupsTypeOK
BY BackupsAssumption DEF BackupsInit, BackupsTypeOK, Builds, NoBuild

LEMMA BackupsTypesStep == BackupsTypeOK /\ [BackupsNext]_backupsVars => BackupsTypeOK'
<1> SUFFICES ASSUME BackupsTypeOK, [BackupsNext]_backupsVars PROVE BackupsTypeOK'
  OBVIOUS
<1>0. MaxTime \in Nat /\ clock \in Nat /\ 0 .. clock \subseteq 0 .. clock + 1 /\ clock \in 0 .. clock
  BY BackupsAssumption DEF BackupsTypeOK
<1>1. ASSUME NEW r \in Runs, NEW kind \in BuildKinds, StartBuild(r, kind) PROVE BackupsTypeOK'
  BY <1>1 DEF StartBuild, BackupsTypeOK, Builds
<1>2. ASSUME NEW r \in Runs, ListNames(r) PROVE BackupsTypeOK'
  <2>1. builds[r] \in Builds /\ builds[r] # NoBuild
    BY <1>2 DEF ListNames, BackupsTypeOK, NoBuild
  <2>2. [builds[r] EXCEPT !.at = "reading", !.left = {n \in Names : stacks[n] # "absent"}] \in Builds
    BY <2>1 DEF Builds
  <2>3. builds' = [builds EXCEPT ![r] = [builds[r] EXCEPT !.at = "reading", !.left = {n \in Names : stacks[n] # "absent"}]]
    BY <1>2 DEF ListNames, BackupsTypeOK
  <2> QED BY <1>2, <2>2, <2>3, ZenonT(30) DEF ListNames, BackupsTypeOK
<1>3. ASSUME NEW r \in Runs, NEW n \in Names, ReadStack(r, n) PROVE BackupsTypeOK'
  <2>1. builds[r] \in Builds /\ builds[r] # NoBuild
    BY <1>3 DEF ReadStack, BackupsTypeOK, NoBuild
  <2>2. [builds[r] EXCEPT !.left = @ \ {n}] \in Builds /\ NoBuild \in Builds
    BY <2>1 DEF Builds
  <2>3. builds' \in [Runs -> Builds]
    BY <1>3, <2>2 DEF ReadStack, BackupsTypeOK
  <2> QED BY <1>3, <2>3 DEF ReadStack, BackupsTypeOK
<1>4. ASSUME NEW r \in Runs, FinishBuild(r) PROVE BackupsTypeOK'
  <2>1. builds' \in [Runs -> Builds]
    BY <1>4 DEF FinishBuild, BackupsTypeOK, Builds
  <2>2. Pruned(backups \cup {clock}, keep) \subseteq backups \cup {clock}
    BY DEF Pruned
  <2> QED BY <1>0, <1>4, <2>1, <2>2 DEF FinishBuild, BackupsTypeOK
<1>5. ASSUME NEW r \in Runs, CrashWriting(r) PROVE BackupsTypeOK'
  BY <1>0, <1>5 DEF CrashWriting, BackupsTypeOK, Builds
<1>6. ASSUME NEW n \in Names, StackStep(n) PROVE BackupsTypeOK'
  <2>1. stacks' \in [Names -> {"absent", "half", "whole"}]
    BY <1>6 DEF StackStep, BackupsTypeOK
  <2> QED BY <1>6, <2>1 DEF StackStep, BackupsTypeOK
<1>7. ASSUME NEW f \in backups, DeleteBackup(f) PROVE BackupsTypeOK'
  BY <1>7 DEF DeleteBackup, BackupsTypeOK
<1>8. ASSUME NEW n \in Keeps, SetKeep(n) PROVE BackupsTypeOK'
  BY <1>8 DEF SetKeep, BackupsTypeOK
<1>9. CASE BackupClock
  <2>1. clock' \in 0 .. MaxTime /\ clock' = clock + 1
    BY <1>0, <1>9 DEF BackupClock
  <2> QED BY <1>0, <1>9, <2>1 DEF BackupClock, BackupsTypeOK
<1>10. CASE UNCHANGED backupsVars
  BY <1>10 DEF backupsVars, BackupsTypeOK
<1> QED BY <1>1, <1>2, <1>3, <1>4, <1>5, <1>6, <1>7, <1>8, <1>9, <1>10 DEF BackupsNext

LEMMA BackupsTypes == BackupsSpec => []BackupsTypeOK
BY BackupsTypesInit, BackupsTypesStep, PTL DEF BackupsSpec

(***************************************************************************)
(* What the controllers have Docker do (Engine).                           *)
(***************************************************************************)

(* What Docker has done for a request that awaits a call: not yet the one    *)
(* that makes the request complete.                                          *)
Awaits(r) ==
  LET at == order[r].at IN
  CASE order[r].op = "create" -> \/ at \in {"create", "pull"} /\ did[r] = {}
                                 \/ at = "again" /\ "start" \notin did[r]
                                 \/ /\ at = "start" /\ "start" \notin did[r]
                                    /\ did[r] \cap {"create", "again"} # {}
    [] order[r].op = "scan"   -> \/ at \in {"inspect", "pull"} /\ did[r] = {}
                                 \/ at = "run" /\ "run" \notin did[r]
    [] OTHER                  -> at = order[r].op /\ did[r] = {}

(* A request through its life: it has no effect before it comes in, no row   *)
(* before it is done, an answer only when complete, and a failure only when  *)
(* not, unless the answer was lost.                                          *)
Told(r) ==
  /\ <<r, "success">> \in logged => Complete(r) /\ <<r, "failure">> \notin logged
  /\ order[r].at = "done" /\ did[r] # {} /\ r \notin severed \cup silent =>
       \/ <<r, "success">> \in logged
       \/ order[r].op \in {"create", "scan"} /\ ~Complete(r)
Lives(r) ==
  /\ order[r].at = "new" => did[r] = {} /\ \A n \in Tags : made[n].by # r
  /\ order[r].at # "done" => <<r, "success">> \notin logged /\ <<r, "failure">> \notin logged
  /\ order[r].at \in DockerCalls => Awaits(r)
  /\ order[r].at = "answer" => Complete(r)
  /\ order[r].at = "failed" /\ r \notin severed =>
       did[r] = {} \/ (order[r].op \in {"create", "scan"} /\ ~Complete(r))

(* What a user's container will be made with, until it is made.              *)
Within(limits, want, bounds) ==
  \A x \in Resources : bounds[x] # NoLimit =>
    limits[x] \in 0 .. bounds[x] \/ (x = "cpus" /\ 0 \in {want[x], bounds[x]})
Allowed(r) ==
  LET o == order[r] IN
  o.op = "create" /\ o.at \in {"create", "pull", "again"} /\ o.user /\ r \notin requoted =>
    Within(order[r].limits, order[r].asked, quota)
MadeWithin(n) ==
  \A r \in Orders : made[n].by = r /\ order[r].user /\ r \notin requoted =>
    Within(order[r].limits, order[r].asked, made[n].quota)

EngineInv ==
  /\ EngineTypeOK
  /\ \A r \in Orders : Told(r) /\ Lives(r) /\ Allowed(r)
  /\ \A n \in Tags : MadeWithin(n)

LEMMA EngineInitInv == EngineInit => EngineInv
<1> SUFFICES ASSUME EngineInit PROVE EngineInv
  OBVIOUS
<1> USE EngineAssumption DEF EngineInit
<1>1. EngineTypeOK
  BY DEF EngineTypeOK, Things, NoMaker, Placed
<1>2. \A r \in Orders : order[r] = NoOrder /\ did[r] = {}
  OBVIOUS
<1>3. \A r \in Orders : Told(r) /\ Lives(r) /\ Allowed(r)
  <2> TAKE r \in Orders
  <2>1. \A n \in Tags : made[n].by # r  BY DEF NoMaker, NoLimit
  <2>2. order[r].at = "new" /\ "new" \notin DockerCalls  BY <1>2 DEF NoOrder, DockerCalls
  <2> QED BY <1>2, <2>1, <2>2 DEF Told, Lives, Allowed
<1>4. \A n \in Tags : MadeWithin(n)
  BY DEF MadeWithin, NoMaker, NoLimit
<1> QED BY <1>1, <1>3, <1>4 DEF EngineInv

(* What is left of a request that an action does not touch.                  *)
LEMMA RequestRests ==
  ASSUME NEW r \in Orders, Told(r), Lives(r),
         order'[r] = order[r], did'[r] = did[r],
         \A s \in {"success", "failure"} : <<r, s>> \in logged' <=> <<r, s>> \in logged,
         r \in severed' <=> r \in severed, r \in silent' <=> r \in silent,
         \A n \in Tags : made'[n].by = r => made[n].by = r
  PROVE  Told(r)' /\ Lives(r)'
BY DEF Told, Lives, Awaits, Complete

LEMMA QuotaRests ==
  ASSUME NEW r \in Orders, Allowed(r), order'[r].op = order[r].op, order'[r].user = order[r].user,
         order'[r].limits = order[r].limits, order'[r].asked = order[r].asked,
         order'[r].at \in {"create", "pull", "again"} => order[r].at \in {"create", "pull", "again"},
         UNCHANGED <<quota, requoted>>
  PROVE  Allowed(r)'
BY DEF Allowed, Within

(* A step of one request: the others rest.                                   *)
LEMMA Moves ==
  ASSUME EngineTypeOK, NEW r \in Orders, NEW to \in DockerCalls \cup {"answer", "failed", "done"},
         order[r].at # "new", At(r, to)
  PROVE  /\ order' \in [Orders -> Placed \cup {NoOrder}]
         /\ order[r] \in Placed /\ order'[r] = [order[r] EXCEPT !.at = to]
         /\ \A s \in Orders : s # r => order'[s] = order[s]
<1>1. order[r] \in Placed
  BY DEF EngineTypeOK, NoOrder
<1>2. order'[r] = [order[r] EXCEPT !.at = to] /\ \A s \in Orders : s # r => order'[s] = order[s]
  BY DEF EngineTypeOK, At
<1>3. [order[r] EXCEPT !.at = to] \in Placed
  BY <1>1 DEF Placed
<1>4. order' = [s \in Orders |-> order'[s]]
  BY DEF EngineTypeOK, At
<1> QED BY <1>1, <1>2, <1>3, <1>4 DEF EngineTypeOK


(* Containers that are not made anew stay within their quota, while a        *)
(* request that made one keeps what it want for.                            *)
LEMMA MadeRests ==
  ASSUME EngineInv, NEW n \in Tags, requoted \subseteq requoted',
         made'[n] = made[n] \/ made'[n] = NoMaker,
         \A r \in Orders : order[r].at = "new" \/ ( /\ order'[r].user = order[r].user
                                                  /\ order'[r].asked = order[r].asked
                                                  /\ order'[r].limits = order[r].limits )
  PROVE  MadeWithin(n)'
<1>1. \A r \in Orders : NoMaker.by # r
  BY EngineAssumption DEF NoMaker, NoLimit
<1>2. \A r \in Orders : made'[n].by = r => made[n] = made'[n] /\ order[r].at # "new"
  BY <1>1, ZenonT(60) DEF EngineInv, Lives
<1> QED BY <1>2 DEF EngineInv, MadeWithin, Within

(* A step of a request that changes neither the quota nor the audit log nor  *)
(* what was made: what is left to show of it is about the request itself.    *)
LEMMA OneMoves ==
  ASSUME EngineInv, NEW r \in Orders, NEW to \in DockerCalls \cup {"answer", "failed", "done"},
         order[r].at # "new", At(r, to),
         \A s \in Orders : s # r =>
           /\ did'[s] = did[s]
           /\ \A x \in {"success", "failure"} : <<s, x>> \in logged' <=> <<s, x>> \in logged
           /\ s \in severed' <=> s \in severed
           /\ s \in silent' <=> s \in silent,
         \A n \in Tags : made'[n] = made[n] \/ made'[n] = NoMaker \/ (made'[n].by = r /\ MadeWithin(n)'),
         UNCHANGED <<quota, requoted>>,
         Told(r)', Lives(r)', Allowed(r)', EngineTypeOK'
  PROVE  EngineInv'
<1>1. order[r] \in Placed /\ order'[r] = [order[r] EXCEPT !.at = to]
  BY Moves DEF EngineInv
<1>2. \A s \in Orders : s # r => order'[s] = order[s]
  BY Moves DEF EngineInv
<1>3. order'[r].user = order[r].user /\ order'[r].asked = order[r].asked /\ order'[r].limits = order[r].limits
  BY <1>1 DEF Placed
<1>4. \A n \in Tags : MadeWithin(n)'
  BY <1>2, <1>3, MadeRests
<1>5. ASSUME NEW s \in Orders, s # r PROVE Told(s)' /\ Lives(s)' /\ Allowed(s)'
  <2>1. \A n \in Tags : made'[n].by = s => made[n].by = s
    BY <1>5, EngineAssumption DEF NoMaker, NoLimit
  <2>2. Told(s)' /\ Lives(s)'
    BY <1>2, <1>5, <2>1, RequestRests DEF EngineInv
  <2>3. Allowed(s)'
    BY <1>2, <1>5, QuotaRests DEF EngineInv
  <2> QED BY <2>2, <2>3
<1> QED BY <1>4, <1>5 DEF EngineInv

(* A request comes in: Docker has done nothing for it.                       *)
LEMMA BeginsInv ==
  ASSUME EngineInv, NEW r \in Orders, NEW thing \in Things, NEW user \in BOOLEAN,
         NEW want \in Wishes \cup {Unlimited}, NEW limits \in [Resources -> Int], NEW op, NEW call,
         \/ op = "create" /\ call = "create"
         \/ op = "scan" /\ call = "inspect"
         \/ op \in {"action", "remove", "pull", "build", "make", "prune"} /\ call = op,
         op = "create" /\ user => Within(limits, want, quota),
         Begins(r, op, thing, user, want, limits, call)
  PROVE  EngineInv'
<1> DEFINE new == [op |-> op, thing |-> thing, user |-> user, asked |-> want, limits |-> limits, at |-> call]
<1>1. order' = [order EXCEPT ![r] = new] /\ order[r].at = "new" /\ UNCHANGED <<things, made, did, settled>>
  BY DEF Begins
<1>2. order'[r] = new /\ \A s \in Orders : s # r => order'[s] = order[s]
  BY <1>1 DEF EngineInv, EngineTypeOK
<1>3. new \in Placed
  BY DEF Placed, DockerCalls
<1>4. EngineTypeOK'
  BY <1>1, <1>3 DEF EngineInv, EngineTypeOK, settled
<1>5. did[r] = {} /\ <<r, "success">> \notin logged /\ \A n \in Tags : made[n].by # r
  BY <1>1 DEF EngineInv, Lives
<1>6. <<r, "failure">> \notin logged
  BY <1>1 DEF EngineInv, Lives
<1>7. order'[r].at = call /\ call \notin {"new", "done", "answer", "failed"}
  BY <1>2
<1>8. Told(r)'
  BY <1>1, <1>5, <1>6, <1>7 DEF Told, settled
<1>9. Lives(r)'
  <2>1. Awaits(r)'  BY <1>1, <1>2, <1>5 DEF Awaits
  <2> QED BY <1>1, <1>5, <1>6, <1>7, <2>1 DEF Lives, settled
<1>10. Allowed(r)'
  BY <1>1, <1>2 DEF Allowed, Within, settled
<1>11. \A n \in Tags : MadeWithin(n)'
  BY <1>1, <1>2, MadeRests DEF settled
<1>12. ASSUME NEW s \in Orders, s # r PROVE Told(s)' /\ Lives(s)' /\ Allowed(s)'
  <2>1. Told(s)' /\ Lives(s)'
    BY <1>1, <1>2, <1>12, RequestRests DEF EngineInv, settled
  <2>2. Allowed(s)'
    BY <1>1, <1>2, <1>12, QuotaRests DEF EngineInv, settled
  <2> QED BY <2>1, <2>2
<1> QED BY <1>4, <1>8, <1>9, <1>10, <1>11, <1>12 DEF EngineInv

(* What create() asks Docker for is within the quota.                        *)
LEMMA CreateInv ==
  ASSUME EngineInv, NEW r \in Orders, NEW n \in Tags, NEW user \in BOOLEAN, NEW want \in Wishes,
         Create(r, n, user, want)
  PROVE  EngineInv'
<1> DEFINE limits == [x \in Resources |-> HostConfig(IF user /\ want[x] = NoLimit THEN quota[x] ELSE want[x])]
<1>1. \A x \in Resources : /\ want[x] \in Int /\ want[x] >= -1
                           /\ quota[x] \in Int /\ quota[x] >= -1
                           /\ (x # "cpus" => want[x] # 0 /\ quota[x] # 0)
  BY EngineAssumption DEF EngineInv, EngineTypeOK, Resources
<1>2. limits \in [Resources -> Int]
  BY <1>1 DEF HostConfig, NoLimit
<1>3. ASSUME user, NEW x \in Resources, quota[x] # NoLimit
      PROVE  limits[x] \in 0 .. quota[x] \/ (x = "cpus" /\ 0 \in {want[x], quota[x]})
  <2>1. want[x] <= quota[x]  BY <1>3 DEF Create
  <2>2. limits[x] = HostConfig(IF want[x] = NoLimit THEN quota[x] ELSE want[x])  BY <1>3
  <2> HIDE DEF limits
  <2>3. CASE want[x] = NoLimit
    BY <1>1, <1>3, <2>2, <2>3 DEF HostConfig, NoLimit
  <2>4. CASE want[x] # NoLimit
    BY <1>1, <2>1, <2>2, <2>4 DEF HostConfig, NoLimit
  <2> QED BY <2>3, <2>4
<1>4. user => Within(limits, want, quota)
  BY <1>3 DEF Within
<1>5. Begins(r, "create", <<"container", n>>, user, want, limits, "create")
  BY DEF Create
<1>6. <<"container", n>> \in Things
  BY DEF Things
<1> HIDE DEF limits
<1> QED BY <1>2, <1>4, <1>5, <1>6, BeginsInv

LEMMA OtherRequestInv ==
  ASSUME EngineInv, NEW r \in Orders, NEW n \in Tags, Simple(r, n) \/ Scan(r, n) PROVE EngineInv'
<1>1. \A kind \in {"container", "image", "volume", "network"} : <<kind, n>> \in Things
  BY DEF Things
<1>2. Unlimited \in [Resources -> Int]
  BY DEF Unlimited, NoLimit
<1>3. CASE Scan(r, n)
  BY <1>1, <1>2, <1>3, BeginsInv DEF Scan
<1>4. ASSUME NEW op \in {"action", "remove", "pull", "build", "make", "prune"},
             NEW kind \in {"container", "image", "volume", "network"}, OneCall(r, op, kind, n)
      PROVE  EngineInv'
  BY <1>1, <1>2, <1>4, BeginsInv DEF OneCall
<1>5. CASE Simple(r, n)
  BY <1>4, <1>5 DEF Simple, ContainerAction, ContainerRemove, ImagePull, ImageBuild, ImageRemove, ImagePrune,
                    VolumeCreate, VolumeRemove, VolumePrune, NetworkCreate, NetworkRemove
<1> QED BY <1>3, <1>5

(* What a request is, that awaits something.                                 *)
LEMMA UnderWayTyped ==
  ASSUME EngineInv, NEW r \in Orders, order[r].at # "new"
  PROVE  /\ order[r] \in Placed /\ order[r].thing[2] \in Tags /\ Image(r) \in Things
         /\ did[r] \in SUBSET DockerCalls
         /\ order[r].at \in DockerCalls => Awaits(r)
<1>1. order[r] \in Placed
  BY DEF EngineInv, EngineTypeOK, NoOrder
<1> QED BY <1>1 DEF EngineInv, EngineTypeOK, Lives, Placed, Things, Image

(* Docker does the call, or another is made instead of it: the goals of      *)
(* OneMoves but for what is about the request itself.                        *)
LEMMA CallInv ==
  ASSUME EngineInv, NEW r \in Orders, NEW to \in DockerCalls \cup {"answer", "failed"},
         order[r].at \in DockerCalls, At(r, to), UNCHANGED settled,
         Did(r) \/ UNCHANGED did, things' \subseteq Things,
         \/ made' = [n \in Tags |-> IF <<"container", n>> \in things' THEN made[n] ELSE NoMaker]
         \/ UNCHANGED made
         \/ order[r].at \in {"create", "again"}
            /\ made' = [made EXCEPT ![order[r].thing[2]] = [by |-> r, quota |-> quota]],
         to \in {"create", "pull", "again"} => order[r].at \in {"create", "pull", "again"} \/ order[r].op # "create",
         to \in DockerCalls => Awaits(r)',
         to = "answer" => Complete(r)',
         to = "failed" => did' = did
  PROVE  EngineInv'
<1>1. order[r].at # "new" /\ to \notin {"new", "done"}
  BY DEF DockerCalls
<1>2. order[r] \in Placed /\ did[r] \in SUBSET DockerCalls /\ Awaits(r) /\ order[r].thing[2] \in Tags
  BY <1>1, UnderWayTyped
<1>3. order'[r] = [order[r] EXCEPT !.at = to] /\ order' \in [Orders -> Placed \cup {NoOrder}]
  BY <1>1, Moves DEF EngineInv
<1>4. order'[r].at = to /\ order'[r].op = order[r].op /\ order'[r].user = order[r].user
      /\ order'[r].asked = order[r].asked /\ order'[r].limits = order[r].limits
  BY <1>2, <1>3 DEF Placed
<1>5. did' \in [Orders -> SUBSET DockerCalls] /\ \A s \in Orders : s # r => did'[s] = did[s]
  BY DEF EngineInv, EngineTypeOK, Did
<1>6. made' \in [Tags -> [by : Orders \cup {NoLimit}, quota : Quotas \cup {Unlimited}]]
  <2>1. NoMaker \in [by : Orders \cup {NoLimit}, quota : Quotas \cup {Unlimited}]
    BY DEF NoMaker
  <2>2. [by |-> r, quota |-> quota] \in [by : Orders \cup {NoLimit}, quota : Quotas \cup {Unlimited}]
    BY DEF EngineInv, EngineTypeOK
  <2> QED BY <1>2, <2>1, <2>2 DEF EngineInv, EngineTypeOK
<1>7. EngineTypeOK'
  BY <1>3, <1>5, <1>6 DEF EngineInv, EngineTypeOK, settled
<1>8. Told(r)'
  BY <1>1, <1>4, UnderWayTyped DEF EngineInv, Told, Lives, settled, DockerCalls
<1>9. Lives(r)'
  <2>1. <<r, "success">> \notin logged /\ <<r, "failure">> \notin logged
    BY DEF EngineInv, Lives, DockerCalls
  <2>2. to = "failed" => did'[r] = {} \/ (order'[r].op \in {"create", "scan"} /\ ~Complete(r)')
    BY <1>2, <1>4 DEF Awaits, Complete
  <2> QED BY <1>1, <1>4, <2>1, <2>2 DEF Lives, settled
<1>10. Allowed(r)'
  BY <1>4, ZenonT(60) DEF EngineInv, Allowed, Within, settled
<1>11. \A n \in Tags : made'[n] = made[n] \/ made'[n] = NoMaker \/ (made'[n].by = r /\ MadeWithin(n)')
  <2> TAKE n \in Tags
  <2>1. CASE made' = [made EXCEPT ![order[r].thing[2]] = [by |-> r, quota |-> quota]]
    <3>1. CASE n = order[r].thing[2] /\ order[r].at \in {"create", "again"}
      <4>1. made'[n] = [by |-> r, quota |-> quota]
        BY <2>1, <3>1 DEF EngineInv, EngineTypeOK
      <4>0. order[r].op = "create"
        BY <1>2, <3>1 DEF Awaits, Placed
      <4>2. order[r].user /\ r \notin requoted => Within(order[r].limits, order[r].asked, quota)
        BY <3>1, <4>0 DEF EngineInv, Allowed
      <4>3. MadeWithin(n)'
        BY <1>4, <4>1, <4>2 DEF MadeWithin, Within, settled
      <4> QED BY <4>1, <4>3
    <3>2. CASE n # order[r].thing[2]
      BY <2>1, <3>2 DEF EngineInv, EngineTypeOK
    <3> QED BY <2>1, <3>1, <3>2
  <2> QED BY <2>1
<1> QED BY <1>1, <1>5, <1>7, <1>8, <1>9, <1>10, <1>11, OneMoves DEF settled

LEMMA MakesContainerInv ==
  ASSUME EngineInv, NEW r \in Orders, MakesContainer(r) PROVE EngineInv'
<1>1. order[r].at \in DockerCalls /\ order[r].at # "new"
  BY DEF MakesContainer, DockerCalls
<1>2. order[r] \in Placed /\ Awaits(r)
  BY <1>1, UnderWayTyped
<1>3. order'[r] = [order[r] EXCEPT !.at = "start"] /\ did'[r] = did[r] \cup {order[r].at}
  BY DEF MakesContainer, At, Did, EngineInv, EngineTypeOK
<1>4. Awaits(r)'
  BY <1>2, <1>3 DEF Awaits, Placed, MakesContainer
<1>5. things' \subseteq Things
  BY <1>2 DEF MakesContainer, EngineInv, EngineTypeOK, Placed
<1>6. "start" \in DockerCalls
  BY DEF DockerCalls
<1> QED BY <1>1, <1>4, <1>5, <1>6, CallInv DEF MakesContainer

LEMMA LacksImageInv ==
  ASSUME EngineInv, NEW r \in Orders, LacksImage(r) PROVE EngineInv'
<1>1. order[r].at \in DockerCalls /\ order[r].at # "new"
  BY DEF LacksImage, DockerCalls
<1>2. order[r] \in Placed /\ Awaits(r)
  BY <1>1, UnderWayTyped
<1>3. order'[r] = [order[r] EXCEPT !.at = "pull"] /\ UNCHANGED <<things, made, did, settled>>
  BY DEF LacksImage, At, EngineInv, EngineTypeOK
<1>4. Awaits(r)'
  BY <1>2, <1>3 DEF Awaits, Placed, LacksImage
<1>5. order[r].at = "create" \/ order[r].op # "create"
  BY <1>2 DEF LacksImage, Awaits
<1>6. "pull" \in DockerCalls
  BY DEF DockerCalls
<1> QED BY <1>1, <1>3, <1>4, <1>5, <1>6, CallInv DEF LacksImage, EngineInv, EngineTypeOK

LEMMA AddsInv ==
  ASSUME EngineInv, NEW r \in Orders, Adds(r) PROVE EngineInv'
<1> DEFINE to == CASE order[r].op = "create" -> "again" [] order[r].op = "scan" -> "run" [] OTHER -> "answer"
<1>1. order[r].at \in DockerCalls /\ order[r].at # "new"
  BY DEF Adds, DockerCalls
<1>2. order[r] \in Placed /\ Awaits(r) /\ Image(r) \in Things
  BY <1>1, UnderWayTyped
<1>3. At(r, to) /\ order[r].at \in {"pull", "build", "make"} /\ Did(r) /\ UNCHANGED <<made, settled>>
  BY DEF Adds
<1>4. /\ order[r].op = "create" => to = "again"
      /\ order[r].op = "scan" => to = "run"
      /\ order[r].op \notin {"create", "scan"} => to = "answer"
  OBVIOUS
<1> HIDE DEF to
<1>5. order'[r] = [order[r] EXCEPT !.at = to] /\ did'[r] = did[r] \cup {order[r].at}
  BY <1>3 DEF At, Did, EngineInv, EngineTypeOK
<1>6. to \in {"again", "run"} => Awaits(r)'
  BY <1>2, <1>3, <1>4, <1>5 DEF Awaits, Placed
<1>7. to = "answer" => Complete(r)'
  BY <1>2, <1>3, <1>4, <1>5 DEF Awaits, Complete, Placed
<1>8. things' \subseteq Things
  BY <1>2 DEF Adds, EngineInv, EngineTypeOK, Placed
<1>9. to \in {"again", "run", "answer"} /\ {"again", "run"} \subseteq DockerCalls /\ "answer" \notin DockerCalls
  BY <1>4 DEF DockerCalls
<1>10. to = "again" => order[r].at \in {"create", "pull", "again"}
  BY <1>2, <1>3, <1>4 DEF Awaits
<1>11. to \in DockerCalls \cup {"answer", "failed"} /\ to # "failed"
       /\ (to \in {"create", "pull", "again"} => to = "again") /\ (to \in DockerCalls => to \in {"again", "run"})
  BY <1>9
<1> QED BY <1>1, <1>3, <1>6, <1>7, <1>8, <1>10, <1>11, CallInv

LEMMA UsesInv ==
  ASSUME EngineInv, NEW r \in Orders, Uses(r) PROVE EngineInv'
<1>1. order[r].at \in DockerCalls /\ order[r].at # "new" /\ "answer" \notin DockerCalls
  BY DEF Uses, DockerCalls
<1>2. order[r] \in Placed /\ Awaits(r)
  BY <1>1, UnderWayTyped
<1>3. order'[r] = [order[r] EXCEPT !.at = "answer"] /\ did'[r] = did[r] \cup {order[r].at}
  BY DEF Uses, At, Did, EngineInv, EngineTypeOK
<1>4. Complete(r)'
  BY <1>2, <1>3 DEF Uses, Awaits, Complete, Placed
<1> QED BY <1>1, <1>4, CallInv DEF Uses, EngineInv, EngineTypeOK

LEMMA HasScannerInv ==
  ASSUME EngineInv, NEW r \in Orders, HasScanner(r) PROVE EngineInv'
<1>1. order[r].at \in DockerCalls /\ order[r].at # "new" /\ "run" \in DockerCalls
  BY DEF HasScanner, DockerCalls
<1>2. order[r] \in Placed /\ Awaits(r)
  BY <1>1, UnderWayTyped
<1>3. order'[r] = [order[r] EXCEPT !.at = "run"] /\ did' = did
  BY DEF HasScanner, At, EngineInv, EngineTypeOK
<1>4. Awaits(r)'
  BY <1>2, <1>3 DEF HasScanner, Awaits, Placed
<1> QED BY <1>1, <1>4, CallInv DEF HasScanner, EngineInv, EngineTypeOK

LEMMA RemovesInv ==
  ASSUME EngineInv, NEW r \in Orders, Removes(r) PROVE EngineInv'
<1>1. order[r].at \in DockerCalls /\ order[r].at # "new" /\ "answer" \notin DockerCalls
  BY DEF Removes, DockerCalls
<1>2. order[r] \in Placed /\ Awaits(r)
  BY <1>1, UnderWayTyped
<1>3. order'[r] = [order[r] EXCEPT !.at = "answer"] /\ did'[r] = did[r] \cup {order[r].at}
  BY DEF Removes, At, Did, EngineInv, EngineTypeOK
<1>4. Complete(r)'
  BY <1>2, <1>3 DEF Removes, Awaits, Complete, Placed
<1>5. things' \subseteq Things
  BY DEF Removes, EngineInv, EngineTypeOK
<1> QED BY <1>1, <1>4, <1>5, CallInv DEF Removes

LEMMA RefusesInv ==
  ASSUME EngineInv, NEW r \in Orders, Refuses(r) PROVE EngineInv'
<1>1. order[r].at \in DockerCalls /\ "failed" \notin DockerCalls
  BY DEF Refuses, DockerCalls
<1> QED BY <1>1, CallInv DEF Refuses, EngineInv, EngineTypeOK

(* The handler ends: what it enters in the audit log is so, and what it does *)
(* not enter, Docker has not done.                                           *)
LEMMA RequestEndsInv ==
  ASSUME EngineInv, NEW r \in Orders, EndsWell(r) \/ EndsBadly(r) PROVE EngineInv'
<1>1. order[r].at \in {"answer", "failed"} /\ At(r, "done")
      /\ UNCHANGED <<things, made, did, quota, logging, mishaps, severed, requoted>>
  BY DEF EndsWell, EndsBadly
<1>2. order[r] \in Placed
  BY <1>1, UnderWayTyped
<1>3. order'[r] = [order[r] EXCEPT !.at = "done"] /\ order' \in [Orders -> Placed \cup {NoOrder}]
  BY <1>1, Moves DEF EngineInv
<1>4. order'[r].at = "done" /\ order'[r].op = order[r].op
  BY <1>2, <1>3 DEF Placed
<1>5. Complete(r)' <=> Complete(r)
  BY <1>1, <1>4 DEF Complete
<1>6. <<r, "success">> \notin logged /\ <<r, "failure">> \notin logged
  BY <1>1 DEF EngineInv, Lives
<1>7. CASE EndsWell(r)
  <2>1. Complete(r)
    BY <1>7 DEF EndsWell, EngineInv, Lives
  <2>2. logged' = (IF logging THEN logged \cup {<<r, "success">>} ELSE logged)
        /\ silent' = (IF logging THEN silent ELSE silent \cup {r})
    BY <1>7 DEF EndsWell, Enters
  <2>3. EngineTypeOK'
    BY <1>1, <1>3, <2>2 DEF EngineInv, EngineTypeOK
  <2>4. Told(r)'
    BY <1>1, <1>4, <1>5, <1>6, <2>1, <2>2 DEF Told
  <2>5. Lives(r)' /\ Allowed(r)'
    BY <1>4 DEF Lives, Allowed, DockerCalls
  <2>6. \A s \in Orders : s # r => /\ s \in silent' <=> s \in silent
                                   /\ \A x \in {"success", "failure"} : <<s, x>> \in logged' <=> <<s, x>> \in logged
    BY <2>2
  <2> QED BY <1>1, <2>3, <2>4, <2>5, <2>6, OneMoves
<1>8. CASE EndsBadly(r)
  <2>1. r \notin severed => did[r] = {} \/ (order[r].op \in {"create", "scan"} /\ ~Complete(r))
    BY <1>8 DEF EndsBadly, EngineInv, Lives
  <2>2. \/ UNCHANGED <<logged, silent>>
        \/ logged' = logged \cup {<<r, "failure">>} /\ silent' = silent
        \/ logged' = logged /\ silent' = silent \cup {r}
    BY <1>8 DEF EndsBadly, Enters
  <2>3. EngineTypeOK'
    BY <1>1, <1>3, <2>2 DEF EngineInv, EngineTypeOK
  <2>4. Told(r)'
    BY <1>1, <1>4, <1>5, <1>6, <2>1, <2>2 DEF Told
  <2>5. Lives(r)' /\ Allowed(r)'
    BY <1>4 DEF Lives, Allowed, DockerCalls
  <2>6. \A s \in Orders : s # r => /\ s \in silent' <=> s \in silent
                                   /\ \A x \in {"success", "failure"} : <<s, x>> \in logged' <=> <<s, x>> \in logged
    BY <2>2
  <2> QED BY <1>1, <2>3, <2>4, <2>5, <2>6, OneMoves
<1> QED BY <1>7, <1>8

LEMMA DisconnectsInv ==
  ASSUME EngineInv, NEW r \in Orders, Disconnects(r) PROVE EngineInv'
<1>1. order[r].at \notin {"new", "done"} /\ At(r, "failed") /\ severed' = severed \cup {r}
      /\ UNCHANGED <<things, made, did, quota, logging, logged, silent, requoted>>
  BY DEF Disconnects, UnderWay
<1>2. order[r] \in Placed
  BY <1>1, UnderWayTyped
<1>3. order'[r] = [order[r] EXCEPT !.at = "failed"] /\ order' \in [Orders -> Placed \cup {NoOrder}]
  BY <1>1, Moves DEF EngineInv
<1>4. order'[r].at = "failed"
  BY <1>2, <1>3 DEF Placed
<1>5. EngineTypeOK'
  BY <1>1, <1>3, EngineAssumption DEF EngineInv, EngineTypeOK, Disconnects
<1>6. <<r, "success">> \notin logged /\ <<r, "failure">> \notin logged
  BY <1>1 DEF EngineInv, Lives
<1>7. Told(r)' /\ Lives(r)' /\ Allowed(r)'
  BY <1>1, <1>4, <1>6 DEF Told, Lives, Allowed, DockerCalls
<1> QED BY <1>1, <1>5, <1>7, OneMoves

LEMMA ProcessEndsInv ==
  ASSUME EngineInv, ProcessEnds PROVE EngineInv'
<1>1. order' = [r \in Orders |-> IF UnderWay(r) THEN [order[r] EXCEPT !.at = "done"] ELSE order[r]]
      /\ severed' = severed \cup {r \in Orders : UnderWay(r)} /\ mishaps' = mishaps + 1 /\ mishaps < MaxMishaps
      /\ UNCHANGED <<things, made, did, quota, logging, logged, silent, requoted>>
  BY DEF ProcessEnds
<1>2. ASSUME NEW r \in Orders, UnderWay(r)
      PROVE  /\ order'[r] \in Placed /\ order'[r].at = "done" /\ r \in severed'
             /\ order'[r].user = order[r].user /\ order'[r].asked = order[r].asked
             /\ order'[r].limits = order[r].limits
             /\ <<r, "success">> \notin logged
  <2>1. order[r] \in Placed
    BY <1>2, UnderWayTyped DEF UnderWay
  <2>2. order'[r] = [order[r] EXCEPT !.at = "done"]
    BY <1>1, <1>2
  <2> QED BY <1>1, <1>2, <2>1, <2>2 DEF Placed, UnderWay, EngineInv, Lives
<1>3. \A r \in Orders : ~UnderWay(r) => order'[r] = order[r] /\ (r \in severed' <=> r \in severed)
  BY <1>1
<1>4. order' \in [Orders -> Placed \cup {NoOrder}]
  <2>1. \A r \in Orders : order'[r] \in Placed \cup {NoOrder}
    BY <1>2, <1>3 DEF EngineInv, EngineTypeOK
  <2> QED BY <1>1, <2>1
<1>5. EngineTypeOK'
  BY <1>1, <1>4, EngineAssumption DEF EngineInv, EngineTypeOK
<1>6. ASSUME NEW r \in Orders PROVE Told(r)' /\ Lives(r)' /\ Allowed(r)'
  <2>1. CASE UnderWay(r)
    BY <1>1, <1>2, <2>1 DEF Told, Lives, Allowed, DockerCalls
  <2>2. CASE ~UnderWay(r)
    <3>1. Told(r)' /\ Lives(r)'
      BY <1>1, <1>3, <2>2, RequestRests DEF EngineInv
    <3>2. Allowed(r)'
      BY <1>1, <1>3, <2>2, QuotaRests DEF EngineInv
    <3> QED BY <3>1, <3>2
  <2> QED BY <2>1, <2>2
<1>7. \A n \in Tags : MadeWithin(n)'
  <2>1. \A r \in Orders : order[r].at = "new" \/ ( /\ order'[r].user = order[r].user
                                                 /\ order'[r].asked = order[r].asked
                                                 /\ order'[r].limits = order[r].limits )
    BY <1>2, <1>3
  <2> QED BY <1>1, <2>1, MadeRests
<1> QED BY <1>5, <1>6, <1>7 DEF EngineInv

LEMMA SettingsChangeInv ==
  ASSUME EngineInv, SwitchLogging \/ (\E q \in Quotas : SetQuota(q)) PROVE EngineInv'
<1>1. /\ UNCHANGED <<things, made, did, order, logged, severed, silent>>
      /\ mishaps' = mishaps + 1 /\ mishaps < MaxMishaps
  BY DEF SwitchLogging, SetQuota
<1>2. UNCHANGED <<quota, requoted>> \/ requoted' = requoted \cup {r \in Orders : UnderWay(r)}
  BY DEF SwitchLogging, SetQuota
<1>3. quota' \in Quotas /\ logging' \in BOOLEAN
  BY DEF SwitchLogging, SetQuota, EngineInv, EngineTypeOK
<1>4. EngineTypeOK'
  <2>1. requoted' \subseteq Orders
    BY <1>2 DEF EngineInv, EngineTypeOK
  <2>2. mishaps' \in 0 .. MaxMishaps
    BY <1>1, EngineAssumption DEF EngineInv, EngineTypeOK
  <2> QED BY <1>1, <1>3, <2>1, <2>2 DEF EngineInv, EngineTypeOK
<1>5. ASSUME NEW r \in Orders PROVE Told(r)' /\ Lives(r)'
  BY <1>1, RequestRests DEF EngineInv
<1>6. ASSUME NEW r \in Orders PROVE Allowed(r)'
  BY <1>1, <1>2 DEF EngineInv, Allowed, Within, UnderWay
<1>7. \A n \in Tags : MadeWithin(n)'
  BY <1>1, <1>2, MadeRests
<1> QED BY <1>4, <1>5, <1>6, <1>7 DEF EngineInv

LEMMA EngineStep == EngineInv /\ [EngineNext]_engineVars => EngineInv'
<1> SUFFICES ASSUME EngineInv, [EngineNext]_engineVars PROVE EngineInv'
  OBVIOUS
<1>1. CASE \E r \in Orders, n \in Tags : \/ \E user \in BOOLEAN, want \in Wishes : Create(r, n, user, want)
                                         \/ Simple(r, n) \/ Scan(r, n)
  BY <1>1, CreateInv, OtherRequestInv
<1>2. CASE \E r \in Orders : MakesContainer(r) \/ LacksImage(r) \/ Adds(r) \/ Uses(r) \/ HasScanner(r)
  BY <1>2, MakesContainerInv, LacksImageInv, AddsInv, UsesInv, HasScannerInv
<1>3. CASE \E r \in Orders : Removes(r) \/ Refuses(r) \/ EndsWell(r) \/ EndsBadly(r) \/ Disconnects(r)
  BY <1>3, RemovesInv, RefusesInv, RequestEndsInv, DisconnectsInv
<1>4. CASE ProcessEnds \/ SwitchLogging \/ \E q \in Quotas : SetQuota(q)
  BY <1>4, ProcessEndsInv, SettingsChangeInv
<1>5. CASE UNCHANGED engineVars
  BY <1>5 DEF engineVars, EngineInv, EngineTypeOK, Told, Lives, Awaits, Complete, Allowed, MadeWithin, Within
<1> QED BY <1>1, <1>2, <1>3, <1>4, <1>5 DEF EngineNext

(* The audit log tells of what Docker did, and no user's container has more  *)
(* than the quota, for any number of requests and however they, refusals,    *)
(* lost connections and ends of the process come between each other's calls  *)
(* (the containers, images, volumes and networks controllers, docker.ts).    *)
THEOREM DockerToldRight == EngineSpec => []DockerIsToldRight
<1>1. EngineInv => DockerIsToldRight
  <2> SUFFICES ASSUME EngineInv PROVE DockerIsToldRight
    OBVIOUS
  <2>1. AuditIsTrue
    BY DEF EngineInv, Told, AuditIsTrue
  <2>2. QuotaKept
    BY DEF EngineInv, MadeWithin, Within, QuotaKept
  <2> QED BY <2>1, <2>2 DEF DockerIsToldRight
<1>2. EngineSpec => []EngineInv
  BY EngineInitInv, EngineStep, PTL DEF EngineSpec
<1> QED BY <1>1, <1>2, PTL

(***************************************************************************)
(* Resource alerts.                                                        *)
(***************************************************************************)

(* lastNotifiedAt holds the last of the checks that told, and is without an  *)
(* entry as long as nothing was found: what the filter of a check, which     *)
(* knows only that entry, says about all that was told before.               *)
LastIsLatest ==
  \A s \in Signatures :
    /\ lastTold[s] = Never => told[s] = {} /\ found[s] = {}
    /\ lastTold[s] # Never => lastTold[s] \in told[s]
    /\ \A t \in told[s] : t <= lastTold[s]

ResourceInv == ResourceTypeOK /\ LastIsLatest /\ OncePerCooldown

(* What a step does that decides nothing.                                    *)
LEMMA NothingTold ==
  ASSUME LastIsLatest, OncePerCooldown, UNCHANGED <<lastTold, told, found>>
  PROVE  LastIsLatest' /\ OncePerCooldown'
BY DEF LastIsLatest, OncePerCooldown, ToldApart, SilenceIsShort

LEMMA ResourceInitInv == ResourceInit => ResourceInv
<1> SUFFICES ASSUME ResourceInit PROVE ResourceInv
  OBVIOUS
<1>1. ResourceTypeOK
  BY ResourceWatchdogAssumption DEF ResourceInit, ResourceTypeOK, Never
<1>2. LastIsLatest /\ OncePerCooldown
  BY DEF ResourceInit, LastIsLatest, OncePerCooldown, ToldApart, SilenceIsShort
<1> QED BY <1>1, <1>2 DEF ResourceInv

LEMMA ResourceTickInv == ASSUME ResourceInv, ResourceTick PROVE ResourceInv'
<1> USE ResourceWatchdogAssumption
<1>1. ResourceTypeOK'
  <2>1. ticks' \in 0 .. MaxTicks
    BY DEF ResourceTick, ResourceInv, ResourceTypeOK
  <2>2. samplings' \subseteq Samplings
    <3>1. [start |-> ticks', left |-> Places, over |-> {}] \in Samplings
      BY <2>1 DEF Samplings
    <3> QED BY <3>1 DEF ResourceTick, ResourceInv, ResourceTypeOK
  <2>3. nextCheck' \in 0 .. MaxTicks + Interval
    BY <2>1 DEF ResourceTick, ResourceInv, ResourceTypeOK
  <2> QED BY <2>1, <2>2, <2>3 DEF ResourceTick, ResourceInv, ResourceTypeOK
<1>2. LastIsLatest' /\ OncePerCooldown'
  BY NothingTold DEF ResourceTick, ResourceInv
<1> QED BY <1>1, <1>2 DEF ResourceInv

LEMMA SampleInv ==
  ASSUME ResourceInv, NEW c \in samplings, NEW p \in c.left,
         SampleFails(c, p) \/ \E over \in SUBSET Signatures : Sample(c, p, over)
  PROVE  ResourceInv'
<1>1. ResourceTypeOK'
  <2>1. CASE SampleFails(c, p)
    BY <2>1 DEF SampleFails, ResourceInv, ResourceTypeOK
  <2>2. ASSUME NEW over \in SUBSET Signatures, Sample(c, p, over)
        PROVE  ResourceTypeOK'
    <3>1. c \in Samplings
      BY DEF ResourceInv, ResourceTypeOK
    <3>2. [c EXCEPT !.left = @ \ {p}, !.over = @ \cup over] \in Samplings
      BY <3>1 DEF Samplings
    <3>3. samplings' \subseteq Samplings
      BY <2>2, <3>2 DEF Sample, ResourceInv, ResourceTypeOK
    <3> QED BY <2>2, <3>3 DEF Sample, ResourceInv, ResourceTypeOK
  <2> QED BY <2>1, <2>2
<1>2. UNCHANGED <<lastTold, told, found>>
  BY DEF SampleFails, Sample
<1>3. LastIsLatest' /\ OncePerCooldown'
  BY <1>2, NothingTold DEF ResourceInv
<1> QED BY <1>1, <1>3 DEF ResourceInv

(* A check tells: of what it was, its start is the last, and is a cooldown   *)
(* after all the others; of what it was not, the last was within a cooldown. *)
LEMMA DecideInv == ASSUME ResourceInv, NEW c \in samplings, Decide(c) PROVE ResourceInv'
<1> USE ResourceWatchdogAssumption
<1>1. c.start \in 0 .. MaxTicks /\ c.over \subseteq Signatures
  BY DEF ResourceInv, ResourceTypeOK, Samplings
<1>2. ResourceTypeOK'
  BY <1>1 DEF Decide, Never, ResourceInv, ResourceTypeOK
<1>3. ASSUME NEW s \in Signatures
      PROVE  /\ lastTold'[s] = Never => told'[s] = {} /\ found'[s] = {}
             /\ lastTold'[s] # Never => lastTold'[s] \in told'[s]
             /\ \A t \in told'[s] : t <= lastTold'[s]
             /\ \A t, u \in told'[s] : t < u => u - t >= Cooldown
             /\ \A t \in found'[s] : \E u \in told'[s] : t - u < Cooldown
  <2>1. /\ lastTold[s] \in Never .. MaxTicks
        /\ told[s] \subseteq 0 .. MaxTicks /\ found[s] \subseteq 0 .. MaxTicks
    BY DEF ResourceInv, ResourceTypeOK
  <2>2. /\ lastTold[s] = Never => told[s] = {} /\ found[s] = {}
        /\ lastTold[s] # Never => lastTold[s] \in told[s]
        /\ \A t \in told[s] : t <= lastTold[s]
        /\ \A t, u \in told[s] : t < u => u - t >= Cooldown
        /\ \A t \in found[s] : \E u \in told[s] : t - u < Cooldown
    BY DEF ResourceInv, LastIsLatest, OncePerCooldown, ToldApart, SilenceIsShort
  <2>3. CASE s \in Fresh(c)
    <3>1. /\ lastTold'[s] = c.start /\ told'[s] = told[s] \cup {c.start}
          /\ found'[s] = found[s] \cup {c.start}
      BY <2>3 DEF Decide, Fresh, ResourceInv, ResourceTypeOK
    <3>2. \A t \in told[s] : c.start - t >= Cooldown
      BY <1>1, <2>1, <2>2, <2>3 DEF Fresh, Never
    <3> QED BY <1>1, <2>1, <2>2, <3>1, <3>2 DEF Never
  <2>4. CASE s \notin Fresh(c) /\ s \in c.over
    <3>1. /\ lastTold'[s] = lastTold[s] /\ told'[s] = told[s]
          /\ found'[s] = found[s] \cup {c.start}
      BY <2>4 DEF Decide, ResourceInv, ResourceTypeOK
    <3>2. lastTold[s] \in told[s] /\ c.start - lastTold[s] < Cooldown
      BY <1>1, <2>1, <2>2, <2>4 DEF Fresh, Never
    <3> QED BY <2>2, <3>1, <3>2
  <2>5. CASE s \notin c.over
    <3>1. lastTold'[s] = lastTold[s] /\ told'[s] = told[s] /\ found'[s] = found[s]
      BY <2>5 DEF Decide, Fresh, ResourceInv, ResourceTypeOK
    <3> QED BY <2>2, <3>1
  <2> QED BY <2>3, <2>4, <2>5
<1>4. LastIsLatest' /\ OncePerCooldown'
  BY <1>3 DEF LastIsLatest, OncePerCooldown, ToldApart, SilenceIsShort
<1> QED BY <1>2, <1>4 DEF ResourceInv

LEMMA HostComesOrGoesInv ==
  ASSUME ResourceInv, NEW h \in Remotes, HostComesOrGoes(h) PROVE ResourceInv'
<1>1. ResourceTypeOK'
  BY DEF HostComesOrGoes, ResourceInv, ResourceTypeOK
<1>2. LastIsLatest' /\ OncePerCooldown'
  BY NothingTold DEF HostComesOrGoes, ResourceInv
<1> QED BY <1>1, <1>2 DEF ResourceInv

LEMMA StopResourceInv == ASSUME ResourceInv, StopResource PROVE ResourceInv'
<1>1. ResourceTypeOK'
  BY DEF StopResource, ResourceInv, ResourceTypeOK
<1>2. LastIsLatest' /\ OncePerCooldown'
  BY NothingTold DEF StopResource, ResourceInv
<1> QED BY <1>1, <1>2 DEF ResourceInv

LEMMA StartResourceInv == ASSUME ResourceInv, StartResource PROVE ResourceInv'
<1>1. ResourceTypeOK'
  BY ResourceWatchdogAssumption DEF StartResource, ResourceInv, ResourceTypeOK, Never
<1>2. LastIsLatest' /\ OncePerCooldown'
  BY DEF StartResource, LastIsLatest, OncePerCooldown, ToldApart, SilenceIsShort
<1> QED BY <1>1, <1>2 DEF ResourceInv

LEMMA ResourceStep == ResourceInv /\ [ResourceNext]_resourceVars => ResourceInv'
<1> SUFFICES ASSUME ResourceInv, [ResourceNext]_resourceVars PROVE ResourceInv'
  OBVIOUS
<1>1. CASE ResourceTick   BY <1>1, ResourceTickInv
<1>2. CASE StopResource   BY <1>2, StopResourceInv
<1>3. CASE StartResource  BY <1>3, StartResourceInv
<1>4. ASSUME NEW c \in samplings,
             \/ Decide(c)
             \/ \E p \in c.left : SampleFails(c, p) \/ (\E over \in SUBSET Signatures : Sample(c, p, over))
      PROVE  ResourceInv'
  BY <1>4, DecideInv, SampleInv
<1>5. CASE \E h \in Remotes : HostComesOrGoes(h)
  BY <1>5, HostComesOrGoesInv
<1>6. CASE UNCHANGED resourceVars
  <2>1. ResourceTypeOK'
    BY <1>6 DEF resourceVars, ResourceInv, ResourceTypeOK
  <2>2. LastIsLatest' /\ OncePerCooldown'
    BY <1>6, NothingTold DEF resourceVars, ResourceInv
  <2> QED BY <2>1, <2>2 DEF ResourceInv
<1> QED BY <1>1, <1>2, <1>3, <1>4, <1>5, <1>6 DEF ResourceNext

(* The inductive invariant of the resource watchdog: lastNotifiedAt holds    *)
(* the latest of all checks that told (resourceWatchdog.ts checkNow).        *)
THEOREM ResourceWatchdogInv == ResourceSpec => []ResourceInv
BY ResourceInitInv, ResourceStep, PTL DEF ResourceSpec

(* However many checks overlap, for any hosts, interval and cooldown: what is*)
(* over its threshold is told of once in a cooldown, no more and no less     *)
(* (resourceWatchdog.ts checkNow).                                           *)
THEOREM AlertsOncePerCooldown == ResourceSpec => []OncePerCooldown
<1>1. ResourceInv => OncePerCooldown  BY DEF ResourceInv
<1> QED BY <1>1, ResourceWatchdogInv, PTL

(***************************************************************************)
(* Container events.                                                       *)
(***************************************************************************)

(* Until an event is done, what was on since it came is still on: what the   *)
(* settings say when a target's turn comes is what they said all along.      *)
SteadyIsOn ==
  \A e \in Events : alerts[e] # NoAlert /\ alerts[e].at # "done" => steadyOn[e] \subseteq flagsOn

(* A target is posted to in its turn, and no earlier.                        *)
InTurn ==
  \A e \in Events :
    /\ alerts[e].at \in {"none", "diagnose"} => tries[e]["webhook"] = 0
    /\ alerts[e].at \in {"none", "diagnose", "webhook", "ntfy"} => tries[e]["ntfy"] = 0
    /\ alerts[e].at \in {"webhook", "ntfy"} /\ {"webhook", "kind"} \subseteq steadyOn[e]
         => tries[e]["webhook"] = 1

(* An event on cooldown came soon after one of its container that started    *)
(* the cooldown, and what starts the cooldown is not past lastCheckedAt.     *)
StartsCooldown(e) == looks[e].how \in {"began", "noModel"}

LooksAreOfEvents ==
  \A e \in Events :
    /\ alerts[e] = NoAlert => looks[e] = NoLook
    /\ alerts[e] # NoAlert /\ {"watch", "model"} \subseteq steadyOn[e]
         => looks[e].how \in {"began", "skipped"}
    /\ StartsCooldown(e) => /\ lastAsked[alerts[e].box] # Unasked
                            /\ looks[e].when <= lastAsked[alerts[e].box]
    /\ looks[e].how = "skipped" =>
         \E d \in Events \ {e} : /\ SameBox(d, e) /\ StartsCooldown(d)
                                 /\ looks[e].when - looks[d].when \in 0 .. Pause - 1

(* lastCheckedAt is the time of an event that started the cooldown, in the   *)
(* past.                                                                     *)
LastIsLook ==
  \A b \in Boxes : lastAsked[b] # Unasked =>
    /\ lastAsked[b] <= hours
    /\ \E e \in Events : /\ alerts[e] # NoAlert /\ alerts[e].box = b
                         /\ StartsCooldown(e) /\ looks[e].when = lastAsked[b]

(* Two diagnoses of one container are a cooldown apart.                      *)
LooksApart ==
  \A d, e \in Events : d # e /\ SameBox(d, e) /\ looks[d].how = "began" /\ looks[e].how = "began" =>
    looks[e].when - looks[d].when >= Pause \/ looks[d].when - looks[e].when >= Pause

LooksInv == LooksAreOfEvents /\ LastIsLook /\ LooksApart

AlertsInv == AlertsTypeOK /\ SteadyIsOn /\ InTurn /\ LooksInv /\ EventsReachTargets

(* With the watchdog and a model on, what was not diagnosed was on cooldown. *)
LEMMA LooksMeanOneDiagnosis == LooksInv => OneDiagnosis
BY DEF LooksInv, LooksAreOfEvents, LooksApart, OneDiagnosis, SameBox, StartsCooldown

LEMMA AlertsInitInv == AlertsInit => AlertsInv
<1> SUFFICES ASSUME AlertsInit PROVE AlertsInv
  OBVIOUS
<1>1. AlertsTypeOK
  BY AlertsAssumption DEF AlertsInit, AlertsTypeOK, NoAlert, Unasked, NotifyTargets
<1>2. SteadyIsOn /\ InTurn /\ EventsReachTargets
  BY DEF AlertsInit, SteadyIsOn, InTurn, EventsReachTargets, NoAlert, NotifyTargets
<1>3. LooksInv
  BY DEF AlertsInit, LooksInv, LooksAreOfEvents, LastIsLook, LooksApart, StartsCooldown, NoLook, SameBox
<1> QED BY <1>1, <1>2, <1>3 DEF AlertsInv

(* Steps in which no event comes.                                            *)
LEMMA LooksRest ==
  ASSUME AlertsTypeOK, LooksInv, UNCHANGED <<lastAsked, looks>>, hours' \in Nat, hours' >= hours,
         \A e \in Events : /\ alerts'[e] = NoAlert <=> alerts[e] = NoAlert
                           /\ alerts[e] # NoAlert => alerts'[e].box = alerts[e].box
                           /\ steadyOn'[e] \subseteq steadyOn[e]
  PROVE  LooksInv'
<1>1. \A d, e \in Events : SameBox(d, e)' <=> SameBox(d, e)
  BY DEF SameBox
<1>2. \A e \in Events : looks'[e] = looks[e] /\ (StartsCooldown(e)' <=> StartsCooldown(e))
  BY DEF StartsCooldown
<1>3. LooksApart'
  BY <1>1, <1>2 DEF LooksInv, LooksApart
<1>4. LastIsLook'
  BY <1>2 DEF LooksInv, LastIsLook, AlertsTypeOK, Unasked
<1>5. \A e \in Events : alerts[e] = NoAlert => ~StartsCooldown(e) /\ looks[e].how # "skipped"
  BY DEF LooksInv, LooksAreOfEvents, StartsCooldown, NoLook
<1>6. LooksAreOfEvents'
  BY <1>1, <1>2, <1>5 DEF LooksInv, LooksAreOfEvents
<1> QED BY <1>3, <1>4, <1>6 DEF LooksInv

(* Whatever goes on to post to the webhook, having posted to nothing.        *)
LEMMA SendToInv ==
  ASSUME AlertsTypeOK, SteadyIsOn, InTurn, EventsReachTargets,
         NEW e \in Events, NEW b \in Boxes, SendTo(e, b, Wanted("webhook")),
         alerts[e].at \in {"none", "diagnose"}, UNCHANGED flagsOn,
         steadyOn' = [steadyOn EXCEPT ![e] = flagsOn]
           \/ (steadyOn' = steadyOn /\ steadyOn[e] \subseteq flagsOn)
  PROVE  /\ alerts' \in [Events -> {NoAlert} \cup [at : {"diagnose", "webhook", "ntfy", "done"}, box : Boxes]]
         /\ tries' \in [Events -> [NotifyTargets -> 0 .. 1]]
         /\ steadyOn' \in [Events -> SUBSET Switches]
         /\ SteadyIsOn' /\ InTurn' /\ EventsReachTargets'
<1> DEFINE on == Wanted("webhook")
<1>1. alerts'[e] = [at |-> IF on THEN "webhook" ELSE "ntfy", box |-> b]
  BY DEF SendTo, AlertsTypeOK
<1>2. /\ tries'[e]["webhook"] = IF on THEN 1 ELSE 0
      /\ tries'[e]["ntfy"] = 0
  BY DEF SendTo, AlertsTypeOK, InTurn, NotifyTargets
<1>3. \A d \in Events : d # e => alerts'[d] = alerts[d] /\ tries'[d] = tries[d] /\ steadyOn'[d] = steadyOn[d]
  BY DEF SendTo, AlertsTypeOK
<1>4. steadyOn'[e] \subseteq flagsOn /\ steadyOn' \in [Events -> SUBSET Switches]
  BY DEF AlertsTypeOK
<1>5. alerts' \in [Events -> {NoAlert} \cup [at : {"diagnose", "webhook", "ntfy", "done"}, box : Boxes]]
  BY DEF SendTo, AlertsTypeOK
<1>6. tries' \in [Events -> [NotifyTargets -> 0 .. 1]]
  <2>1. tries'[e] \in [NotifyTargets -> 0 .. 1]
    BY <1>2 DEF SendTo, AlertsTypeOK, NotifyTargets
  <2> QED BY <1>3, <2>1 DEF SendTo, AlertsTypeOK
<1>7. SteadyIsOn'
  BY <1>3, <1>4 DEF SteadyIsOn
<1>8. {"webhook", "kind"} \subseteq steadyOn'[e] => on
  BY <1>4 DEF Wanted
<1>9. InTurn'
  BY <1>1, <1>2, <1>3, <1>8 DEF InTurn
<1>10. EventsReachTargets'
  BY <1>1, <1>3 DEF EventsReachTargets
<1> QED BY <1>4, <1>5, <1>6, <1>7, <1>9, <1>10

(* An event that is diagnosed, or not because its container was just looked  *)
(* at, or because there is no model, or no watchdog.                         *)
LEMMA NotifyLooks ==
  ASSUME AlertsTypeOK, LooksInv, NEW e \in Events, NEW b \in Boxes, Notify(e, b)
  PROVE  /\ lastAsked' \in [Boxes -> Unasked .. MaxHours]
         /\ looks' \in [Events -> {NoLook}
                         \cup [how : {"skipped", "noModel", "began"}, when : 0 .. MaxHours]]
         /\ LooksInv'
<1> USE AlertsAssumption
<1>1. /\ hours \in 0 .. MaxHours /\ hours' = hours /\ lastAsked[b] \in Unasked .. MaxHours
      /\ alerts[e] = NoAlert /\ looks[e] = NoLook
      /\ steadyOn'[e] = flagsOn /\ \A d \in Events : d # e => steadyOn'[d] = steadyOn[d]
  BY DEF Notify, AlertsTypeOK, LooksInv, LooksAreOfEvents
<1>2. /\ alerts'[e] # NoAlert /\ alerts'[e].box = b
      /\ \A d \in Events : d # e => alerts'[d] = alerts[d]
  BY DEF Notify, SendTo, AlertsTypeOK, NoAlert
<1>3. \A c, d \in Events : c # e /\ d # e => (SameBox(c, d)' <=> SameBox(c, d))
  BY <1>2 DEF SameBox
<1>4. \A d \in Events : ~SameBox(d, e) /\ ~SameBox(e, d) /\ ~StartsCooldown(e)
  BY <1>1 DEF SameBox, StartsCooldown, NoLook
<1>5. CASE "watch" \notin flagsOn
  <2>1. looks' = looks /\ lastAsked' = lastAsked
    BY <1>5 DEF Notify
  <2>2. \A d \in Events : (StartsCooldown(d)' <=> StartsCooldown(d))
    BY <2>1 DEF StartsCooldown
  <2>3. LooksApart'
    BY <1>1, <1>3, <2>1 DEF LooksInv, LooksApart, NoLook
  <2>4. LastIsLook'
    BY <1>1, <1>2, <1>4, <2>1, <2>2 DEF LooksInv, LastIsLook
  <2>5. LooksAreOfEvents'
    BY <1>1, <1>2, <1>3, <1>4, <1>5, <2>1, <2>2 DEF LooksInv, LooksAreOfEvents, NoLook
  <2> QED BY <2>1, <2>3, <2>4, <2>5 DEF LooksInv, AlertsTypeOK
<1>6. CASE "watch" \in flagsOn
  <2>1. looks' = [looks EXCEPT ![e] = [how |-> Look(b), when |-> hours]]
    BY <1>6 DEF Notify, Diagnose
  <2>2. /\ Look(b) \in {"skipped", "noModel", "began"}
        /\ Look(b) = "skipped" <=> OnCooldown(b)
        /\ Look(b) = "noModel" => "model" \notin flagsOn
    BY DEF Look
  <2>3. looks'[e] = [how |-> Look(b), when |-> hours] /\ \A d \in Events : d # e => looks'[d] = looks[d]
    BY <2>1 DEF AlertsTypeOK
  <2>4. looks' \in [Events -> {NoLook}
                     \cup [how : {"skipped", "noModel", "began"}, when : 0 .. MaxHours]]
    BY <1>1, <2>1, <2>2 DEF AlertsTypeOK
  <2>5. /\ StartsCooldown(e)' <=> ~OnCooldown(b)
        /\ \A d \in Events : d # e => (StartsCooldown(d)' <=> StartsCooldown(d))
    BY <2>2, <2>3 DEF StartsCooldown
  <2>6. CASE OnCooldown(b)
    <3>1. lastAsked' = lastAsked
      BY <1>6, <2>2, <2>6 DEF Notify, Diagnose
    <3>2. lastAsked[b] # Unasked /\ hours - lastAsked[b] < Pause /\ lastAsked[b] <= hours
      BY <2>6 DEF OnCooldown, CooldownKey, LooksInv, LastIsLook
    <3>3. PICK d \in Events : /\ alerts[d] # NoAlert /\ alerts[d].box = b
                              /\ StartsCooldown(d) /\ looks[d].when = lastAsked[b]
      BY <3>2 DEF LooksInv, LastIsLook
    <3>4. d # e /\ SameBox(d, e)'
      BY <1>1, <1>2, <3>3 DEF SameBox
    <3>5. looks'[e].when - looks'[d].when \in 0 .. Pause - 1
      BY <1>1, <2>3, <3>2, <3>3, <3>4 DEF Unasked
    <3>6. looks'[e].how = "skipped" /\ ~StartsCooldown(e)'
      BY <2>2, <2>3, <2>5, <2>6
    <3>7. LooksApart'
      BY <1>3, <2>3, <3>6 DEF LooksInv, LooksApart
    <3>8. LastIsLook'
      BY <1>1, <1>2, <1>4, <2>3, <2>5, <3>1 DEF LooksInv, LastIsLook
    <3>9. LooksAreOfEvents'
      <4>1. ASSUME NEW c \in Events, c # e, looks[c].how = "skipped"
            PROVE  \E f \in Events \ {c} : /\ SameBox(f, c)' /\ StartsCooldown(f)'
                                           /\ looks'[c].when - looks'[f].when \in 0 .. Pause - 1
        <5>1. PICK f \in Events \ {c} : /\ SameBox(f, c) /\ StartsCooldown(f)
                                        /\ looks[c].when - looks[f].when \in 0 .. Pause - 1
          BY <4>1 DEF LooksInv, LooksAreOfEvents
        <5> QED BY <1>3, <1>4, <2>3, <2>5, <4>1, <5>1
      <4>2. \E f \in Events \ {e} : /\ SameBox(f, e)' /\ StartsCooldown(f)'
                                    /\ looks'[e].when - looks'[f].when \in 0 .. Pause - 1
        BY <2>5, <3>3, <3>4, <3>5
      <4> QED BY <1>1, <1>2, <2>3, <2>5, <3>1, <3>6, <4>1, <4>2 DEF LooksInv, LooksAreOfEvents
    <3> QED BY <2>4, <3>1, <3>7, <3>8, <3>9 DEF LooksInv, AlertsTypeOK
  <2>7. CASE ~OnCooldown(b)
    <3>1. lastAsked' = [lastAsked EXCEPT ![b] = hours]
      BY <1>6, <2>2, <2>7 DEF Notify, Diagnose, StampCooldown, CooldownKey
    <3>2. lastAsked'[b] = hours /\ \A c \in Boxes : c # b => lastAsked'[c] = lastAsked[c]
      BY <3>1 DEF AlertsTypeOK
    <3>3. lastAsked[b] # Unasked => lastAsked[b] <= hours /\ hours - lastAsked[b] >= Pause
      BY <1>1, <2>7 DEF OnCooldown, CooldownKey, LooksInv, LastIsLook, Unasked
    <3>4. \A d \in Events : alerts[d] # NoAlert => alerts[d].box \in Boxes
      BY DEF AlertsTypeOK, NoAlert
    <3>5. \A d \in Events : StartsCooldown(d) => alerts[d] # NoAlert /\ looks[d].when \in 0 .. MaxHours
      BY DEF LooksInv, LooksAreOfEvents, AlertsTypeOK, StartsCooldown, NoLook
    <3>6. \A d \in Events : StartsCooldown(d) /\ alerts[d].box = b => hours - looks[d].when >= Pause
      BY <1>1, <3>3, <3>5 DEF LooksInv, LooksAreOfEvents
    <3>7. looks'[e].how # "skipped" /\ StartsCooldown(e)' /\ looks'[e].when = hours
      BY <2>2, <2>3, <2>5, <2>7
    <3>8. LooksApart'
      <4>1. ASSUME NEW d \in Events, d # e, SameBox(d, e)' \/ SameBox(e, d)', looks'[d].how = "began"
            PROVE  looks'[e].when - looks'[d].when >= Pause
        BY <1>2, <2>3, <3>6, <3>7, <4>1 DEF SameBox, StartsCooldown
      <4> QED BY <1>3, <2>3, <4>1 DEF LooksInv, LooksApart
    <3>9. LastIsLook'
      <4>1. ASSUME NEW c \in Boxes, c # b, lastAsked[c] # Unasked
            PROVE  /\ lastAsked'[c] <= hours'
                   /\ \E d \in Events : /\ alerts'[d] # NoAlert /\ alerts'[d].box = c
                                        /\ StartsCooldown(d)' /\ looks'[d].when = lastAsked'[c]
        <5>1. PICK d \in Events : /\ alerts[d] # NoAlert /\ alerts[d].box = c
                                  /\ StartsCooldown(d) /\ looks[d].when = lastAsked[c]
          BY <4>1 DEF LooksInv, LastIsLook
        <5> QED BY <1>1, <1>2, <1>4, <2>3, <2>5, <3>2, <4>1, <5>1 DEF LooksInv, LastIsLook
      <4> QED BY <1>1, <1>2, <3>2, <3>7, <4>1 DEF LastIsLook
    <3>10. LooksAreOfEvents'
      <4>1. ASSUME NEW c \in Events, c # e, looks[c].how = "skipped"
            PROVE  \E f \in Events \ {c} : /\ SameBox(f, c)' /\ StartsCooldown(f)'
                                           /\ looks'[c].when - looks'[f].when \in 0 .. Pause - 1
        <5>1. PICK f \in Events \ {c} : /\ SameBox(f, c) /\ StartsCooldown(f)
                                        /\ looks[c].when - looks[f].when \in 0 .. Pause - 1
          BY <4>1 DEF LooksInv, LooksAreOfEvents
        <5> QED BY <1>3, <1>4, <2>3, <2>5, <4>1, <5>1
      <4>2. ASSUME NEW c \in Events, StartsCooldown(c)'
            PROVE  lastAsked'[alerts'[c].box] # Unasked /\ looks'[c].when <= lastAsked'[alerts'[c].box]
        <5>1. CASE c = e
          BY <1>1, <1>2, <3>2, <3>7, <5>1 DEF Unasked
        <5>2. CASE c # e /\ alerts[c].box = b
          BY <1>1, <1>2, <2>3, <2>5, <3>2, <3>5, <3>6, <4>2, <5>2 DEF Unasked
        <5>3. CASE c # e /\ alerts[c].box # b
          BY <1>2, <2>3, <2>5, <3>2, <3>4, <3>5, <4>2, <5>3 DEF LooksInv, LooksAreOfEvents
        <5> QED BY <5>1, <5>2, <5>3
      <4>3. {"watch", "model"} \subseteq steadyOn'[e] => looks'[e].how \in {"began", "skipped"}
        BY <1>1, <2>2, <2>3
      <4> QED BY <1>1, <1>2, <2>3, <3>7, <4>1, <4>2, <4>3 DEF LooksInv, LooksAreOfEvents
    <3> QED BY <1>1, <2>4, <3>1, <3>8, <3>9, <3>10 DEF LooksInv, AlertsTypeOK, Unasked
  <2> QED BY <2>6, <2>7
<1> QED BY <1>5, <1>6

(* An event comes.                                                           *)
LEMMA NotifyInv ==
  ASSUME AlertsInv, NEW e \in Events, NEW b \in Boxes, Notify(e, b) PROVE AlertsInv'
<1> USE DEF AlertsInv
<1>1. LooksInv'
  BY NotifyLooks
<1>2. alerts[e].at = "none"
  BY DEF Notify, NoAlert
<1>3. /\ alerts' \in [Events -> {NoAlert} \cup [at : {"diagnose", "webhook", "ntfy", "done"}, box : Boxes]]
      /\ tries' \in [Events -> [NotifyTargets -> 0 .. 1]]
      /\ steadyOn' \in [Events -> SUBSET Switches]
      /\ SteadyIsOn' /\ InTurn' /\ EventsReachTargets'
  <2>1. CASE SendTo(e, b, Wanted("webhook"))
    BY <1>2, <2>1, SendToInv DEF Notify
  <2>2. CASE alerts' = [alerts EXCEPT ![e] = [at |-> "diagnose", box |-> b]] /\ UNCHANGED tries
    <3>1. steadyOn' = [steadyOn EXCEPT ![e] = flagsOn] /\ flagsOn' = flagsOn
      BY DEF Notify
    <3> QED BY <1>2, <2>2, <3>1 DEF AlertsTypeOK, SteadyIsOn, InTurn, EventsReachTargets
  <2> QED BY <2>1, <2>2 DEF Notify
<1>4. AlertsTypeOK'
  BY <1>3, NotifyLooks DEF Notify, AlertsTypeOK
<1> QED BY <1>1, <1>3, <1>4

LEMMA DiagnosedInv == ASSUME AlertsInv, NEW e \in Events, Diagnosed(e) PROVE AlertsInv'
<1> USE DEF AlertsInv
<1>1. alerts[e].at = "diagnose" /\ alerts[e].box \in Boxes /\ steadyOn[e] \subseteq flagsOn
  BY DEF Diagnosed, AlertsTypeOK, SteadyIsOn, NoAlert
<1>2. /\ alerts' \in [Events -> {NoAlert} \cup [at : {"diagnose", "webhook", "ntfy", "done"}, box : Boxes]]
      /\ tries' \in [Events -> [NotifyTargets -> 0 .. 1]]
      /\ SteadyIsOn' /\ InTurn' /\ EventsReachTargets'
  BY <1>1, SendToInv DEF Diagnosed
<1>3. AlertsTypeOK'
  BY <1>2 DEF Diagnosed, AlertsTypeOK
<1>4. LooksInv'
  <2>1. \A d \in Events : /\ alerts'[d] = NoAlert <=> alerts[d] = NoAlert
                          /\ alerts[d] # NoAlert => alerts'[d].box = alerts[d].box
    BY <1>1 DEF Diagnosed, SendTo, AlertsTypeOK, NoAlert
  <2> QED BY <2>1, LooksRest DEF Diagnosed, AlertsTypeOK
<1> QED BY <1>2, <1>3, <1>4

(* The webhook is done with, failed or not: ntfy's turn comes.               *)
LEMMA WebhookDoneInv ==
  ASSUME AlertsInv, NEW e \in Events, NEW failed \in BOOLEAN, WebhookDone(e, failed) PROVE AlertsInv'
<1> USE DEF AlertsInv
<1>1. alerts[e] \in [at : {"diagnose", "webhook", "ntfy", "done"}, box : Boxes] /\ alerts[e].at = "webhook"
  BY DEF WebhookDone, AlertsTypeOK, NoAlert
<1>2. alerts'[e] = [alerts[e] EXCEPT !.at = "ntfy"]
  BY <1>1 DEF WebhookDone, AlertsTypeOK
<1>3. alerts'[e].at = "ntfy" /\ alerts'[e] \in [at : {"diagnose", "webhook", "ntfy", "done"}, box : Boxes]
  BY <1>1, <1>2
<1>4. \A d \in Events : d # e => alerts'[d] = alerts[d]
  BY DEF WebhookDone, AlertsTypeOK
<1>5. AlertsTypeOK'
  BY <1>3, <1>4 DEF WebhookDone, AlertsTypeOK
<1>6. SteadyIsOn' /\ InTurn' /\ EventsReachTargets'
  BY <1>1, <1>3, <1>4 DEF WebhookDone, SteadyIsOn, InTurn, EventsReachTargets, NoAlert
<1>7. LooksInv'
  <2>1. alerts'[e].box = alerts[e].box /\ alerts[e] # NoAlert /\ alerts'[e] # NoAlert
    BY <1>1, <1>2, <1>3 DEF NoAlert
  <2> QED BY <1>4, <2>1, LooksRest DEF WebhookDone, AlertsTypeOK
<1> QED BY <1>5, <1>6, <1>7

(* ntfy is posted to, if the settings say so now, and the event is done.     *)
LEMMA NtfyInv == ASSUME AlertsInv, NEW e \in Events, Ntfy(e) PROVE AlertsInv'
<1> USE DEF AlertsInv
<1>1. alerts[e] \in [at : {"diagnose", "webhook", "ntfy", "done"}, box : Boxes] /\ alerts[e].at = "ntfy"
  BY DEF Ntfy, AlertsTypeOK, NoAlert
<1>2. alerts'[e] = [alerts[e] EXCEPT !.at = "done"]
  BY <1>1 DEF Ntfy, AlertsTypeOK
<1>3. alerts'[e].at = "done" /\ alerts'[e] \in [at : {"diagnose", "webhook", "ntfy", "done"}, box : Boxes]
  BY <1>1, <1>2
<1>4. \A d \in Events : d # e => alerts'[d] = alerts[d] /\ tries'[d] = tries[d]
  BY DEF Ntfy, AlertsTypeOK
<1>5. /\ tries'[e]["webhook"] = tries[e]["webhook"]
      /\ tries'[e]["ntfy"] = IF Wanted("ntfy") THEN 1 ELSE 0
      /\ tries'[e] \in [NotifyTargets -> 0 .. 1]
  BY <1>1 DEF Ntfy, AlertsTypeOK, InTurn, NotifyTargets
<1>6. AlertsTypeOK'
  BY <1>3, <1>4, <1>5 DEF Ntfy, AlertsTypeOK
<1>7. {"ntfy", "kind"} \subseteq steadyOn[e] => Wanted("ntfy")
  BY <1>1 DEF SteadyIsOn, NoAlert, Wanted
<1>8. SteadyIsOn' /\ InTurn'
  BY <1>3, <1>4 DEF Ntfy, SteadyIsOn, InTurn
<1>9. EventsReachTargets'
  BY <1>1, <1>4, <1>5, <1>7 DEF Ntfy, EventsReachTargets, InTurn, NotifyTargets
<1>10. LooksInv'
  <2>1. alerts'[e].box = alerts[e].box /\ alerts[e] # NoAlert /\ alerts'[e] # NoAlert
    BY <1>1, <1>2, <1>3 DEF NoAlert
  <2> QED BY <1>4, <2>1, LooksRest DEF Ntfy, AlertsTypeOK
<1> QED BY <1>6, <1>8, <1>9, <1>10

(* A setting that is switched was not on all along for any event under way.  *)
LEMMA SaveSwitchInv == ASSUME AlertsInv, NEW s \in Switches, SaveSwitch(s) PROVE AlertsInv'
<1> USE DEF AlertsInv
<1>1. \A e \in Events : steadyOn'[e] \subseteq steadyOn[e] /\ (alerts[e].at # "done" => s \notin steadyOn'[e])
  BY DEF SaveSwitch, AlertsTypeOK
<1>2. \A e \in Events : alerts[e].at = "done" => steadyOn'[e] = steadyOn[e]
  BY DEF SaveSwitch
<1>3. AlertsTypeOK'
  BY AlertsAssumption DEF SaveSwitch, AlertsTypeOK
<1>4. SteadyIsOn'
  BY <1>1 DEF SaveSwitch, SteadyIsOn
<1>5. InTurn'
  BY <1>1 DEF SaveSwitch, InTurn
<1>6. EventsReachTargets'
  BY <1>2 DEF SaveSwitch, EventsReachTargets
<1>7. LooksInv'
  BY <1>1, LooksRest DEF SaveSwitch, AlertsTypeOK
<1> QED BY <1>3, <1>4, <1>5, <1>6, <1>7

LEMMA AlertsStep == AlertsInv /\ [AlertsNext]_alertsVars => AlertsInv'
<1> SUFFICES ASSUME AlertsInv, [AlertsNext]_alertsVars PROVE AlertsInv'
  OBVIOUS
<1>1. ASSUME NEW e \in Events, NEW b \in Boxes, Notify(e, b) PROVE AlertsInv'
  BY <1>1, NotifyInv
<1>2. ASSUME NEW e \in Events, Diagnosed(e) PROVE AlertsInv'
  BY <1>2, DiagnosedInv
<1>3. ASSUME NEW e \in Events, Ntfy(e) PROVE AlertsInv'
  BY <1>3, NtfyInv
<1>4. ASSUME NEW e \in Events, NEW failed \in BOOLEAN, WebhookDone(e, failed) PROVE AlertsInv'
  BY <1>4, WebhookDoneInv
<1>5. ASSUME NEW s \in Switches, SaveSwitch(s) PROVE AlertsInv'
  BY <1>5, SaveSwitchInv
<1>6. CASE Hour \/ UNCHANGED alertsVars
  <2>1. /\ hours' \in 0 .. MaxHours /\ hours' >= hours
        /\ UNCHANGED <<flagsOn, switched, alerts, lastAsked, looks, steadyOn, tries>>
    BY <1>6, AlertsAssumption DEF Hour, alertsVars, AlertsInv, AlertsTypeOK
  <2>2. AlertsTypeOK'
    BY <2>1 DEF AlertsInv, AlertsTypeOK
  <2>3. SteadyIsOn' /\ InTurn' /\ EventsReachTargets'
    BY <2>1 DEF AlertsInv, SteadyIsOn, InTurn, EventsReachTargets
  <2>4. LooksInv'
    BY <2>1, LooksRest DEF AlertsInv, AlertsTypeOK
  <2> QED BY <2>2, <2>3, <2>4 DEF AlertsInv
<1> QED BY <1>1, <1>2, <1>3, <1>4, <1>5, <1>6 DEF AlertsNext

(* The inductive invariant of container events (dockerEvents.ts notify,      *)
(* containerWatchdog.ts diagnose, notifications.ts send).                    *)
THEOREM AlertsInvariant == AlertsSpec => []AlertsInv
BY AlertsInitInv, AlertsStep, PTL DEF AlertsSpec

(* Every event is told once to each target that was on all along; no two     *)
(* events of a container are diagnosed within a cooldown, not even at once,  *)
(* and none goes without for another reason than the cooldown, for any       *)
(* containers, events, cooldown and changes of the settings.                 *)
THEOREM EventsAreToldOnce == AlertsSpec => []EventsAreTold
<1>1. AlertsInv => EventsAreTold
  BY LooksMeanOneDiagnosis DEF AlertsInv, EventsAreTold
<1> QED BY <1>1, AlertsInvariant, PTL

(***************************************************************************)
(* The audit watchdog (AuditWatchdog).                                     *)
(***************************************************************************)

(* Rows are in the order of their times; the timer's last start was at       *)
(* due - every.                                                              *)
InOrder ==
  /\ \A i \in 1 .. Len(rows) : rows[i].at <= now
  /\ \A i, j \in 1 .. Len(rows) : i <= j => rows[i].at <= rows[j].at
  /\ due - every <= now

(* lastNotifiedAt holds the last of the checks that flagged a user.          *)
LastIsFlag ==
  \A u \in Suspects :
    /\ lastFlag[u] = NotYet => flags[u] = {}
    /\ lastFlag[u] # NotYet => lastFlag[u] \in flags[u]
    /\ \A f \in flags[u] : f <= lastFlag[u]

(* A burst that a check can see: what BurstNoticed asks of one, but for the  *)
(* time that has gone by since.                                              *)
ByOf(u, first, last) == {i \in first .. last : rows[i].by = u}
Visible(u, first, last) ==
  /\ Cardinality(ByOf(u, first, last)) >= Threshold
  /\ rows[last].at - rows[first].at <= Lookback - every
  /\ Cardinality(Since(rows[first].at)) <= Limit
  /\ steady <= rows[first].at

(* A visible burst was flagged by the first check after its last row.        *)
Flagged(u, first, last) ==
  Visible(u, first, last) /\ due - every > rows[last].at =>
    \E f \in flags[u] : f > rows[last].at - Suppress /\ f <= rows[last].at + every
FlaggedInTime == \A u \in Suspects, first, last \in 1 .. Len(rows) : Flagged(u, first, last)

AuditInv == AuditTypeOK /\ InOrder /\ LastIsFlag /\ FlaggedInTime /\ FlagsApart

LEMMA AuditInitInv == AuditInit => AuditInv
<1> SUFFICES ASSUME AuditInit PROVE AuditInv
  OBVIOUS
<1>1. AuditTypeOK
  BY AuditWatchdogAssumption DEF AuditInit, AuditTypeOK, NotYet
<1>2. InOrder /\ LastIsFlag /\ FlaggedInTime /\ FlagsApart
  BY AuditWatchdogAssumption DEF AuditInit, InOrder, LastIsFlag, FlaggedInTime, FlagsApart
<1> QED BY <1>1, <1>2 DEF AuditInv

(* Rows of the log after a time are finitely many.                           *)
LEMMA RowsFinite ==
  ASSUME rows \in Seq(AuditRows), NEW S \in SUBSET (1 .. Len(rows))
  PROVE  IsFiniteSet(S) /\ Cardinality(S) \in Nat
<1>1. IsFiniteSet(1 .. Len(rows))
  <2>1. Len(rows) \in Nat
    OBVIOUS
  <2> QED BY <2>1, FS_Interval
<1>2. IsFiniteSet(S)
  BY <1>1, FS_Subset
<1> QED BY <1>2, FS_CardinalityType

LEMMA RowTimes ==
  ASSUME rows \in Seq(AuditRows), NEW i \in 1 .. Len(rows) PROVE rows[i].at \in Nat
<1>1. rows[i] \in AuditRows
  OBVIOUS
<1> QED BY <1>1, AuditWatchdogAssumption DEF AuditRows

(* A burst that is visible has a row, and goes on being visible as long as   *)
(* nothing but its user's other rows is new.                                 *)
LEMMA VisibleInOrder ==
  ASSUME NEW u \in Suspects, NEW first, NEW last, Visible(u, first, last) PROVE \E i \in first .. last : rows[i].by = u
<1>1. ByOf(u, first, last) # {}
  <2>1. Cardinality(ByOf(u, first, last)) >= Threshold /\ Threshold > 0
    BY AuditWatchdogAssumption DEF Visible
  <2>2. Cardinality({}) = 0
    BY FS_EmptySet
  <2> QED BY <2>1, <2>2, AuditWatchdogAssumption
<1> QED BY <1>1 DEF ByOf

LEMMA NextVisibleInOrder ==
  (\A u \in Suspects : \A first, last : Visible(u, first, last) => \E i \in first .. last : rows[i].by = u)'
<1>1. \A u \in Suspects : \A first, last : Visible(u, first, last) => \E i \in first .. last : rows[i].by = u
  BY VisibleInOrder
<1> QED BY <1>1, PTL

LEMMA VisibleRests ==
  ASSUME NEW u, NEW first, NEW last, UNCHANGED <<rows, every, steady>>
  PROVE  Visible(u, first, last)' <=> Visible(u, first, last)
<1>1. ByOf(u, first, last)' = ByOf(u, first, last)
  BY DEF ByOf
<1>2. Since(rows[first].at)' = Since(rows[first].at)
  BY DEF Since
<1> QED BY <1>1, <1>2 DEF Visible

(* Nothing that counts changes.                                              *)
LEMMA AuditRests ==
  ASSUME AuditInv, UNCHANGED <<now, rows, every, due, lastFlag, flags, steady>>, recording' \in BOOLEAN
  PROVE  AuditInv'
<1>1. AuditTypeOK' /\ InOrder' /\ LastIsFlag' /\ FlagsApart'
  BY DEF AuditInv, AuditTypeOK, InOrder, LastIsFlag, FlagsApart
<1>2. FlaggedInTime'
  BY VisibleRests DEF AuditInv, FlaggedInTime, Flagged
<1> QED BY <1>1, <1>2 DEF AuditInv

(* What is left of a burst that an action does not touch: the timer and the  *)
(* flags are as they were, or the action starts the timer anew.              *)
LEMMA AppendInv ==
  ASSUME AuditInv, NEW by \in Suspects \cup {Nobody}, Record(by) PROVE AuditInv'
<1>1. /\ UNCHANGED <<now, recording, every, due, lastFlag, flags, steady>> /\ Len(rows) < MaxRows
      /\ rows' = IF recording THEN Append(rows, [by |-> by, at |-> now]) ELSE rows
  BY DEF Record
<1>2. CASE ~recording
  BY <1>1, <1>2, AuditRests DEF AuditInv, AuditTypeOK
<1>3. CASE recording
  <2> DEFINE row == [by |-> by, at |-> now]
  <2>1. row \in AuditRows /\ rows \in Seq(AuditRows) /\ now \in Int
    BY DEF AuditInv, AuditTypeOK, AuditRows
  <2>2. row.at = now /\ rows' = Append(rows, row)
    BY <1>1, <1>3
  <2> HIDE DEF row
  <2>3. rows' \in Seq(AuditRows) /\ Len(rows') = Len(rows) + 1 /\ rows'[Len(rows) + 1] = row
        /\ \A i \in 1 .. Len(rows) : rows'[i] = rows[i]
    BY <2>1, <2>2
  <2>4. AuditTypeOK'
    BY <1>1, <2>3, AuditWatchdogAssumption DEF AuditInv, AuditTypeOK
  <2>5. ASSUME NEW i \in 1 .. Len(rows) PROVE rows[i].at \in Int /\ rows[i].at <= now
    <3>1. rows[i] \in AuditRows
      BY <2>1
    <3> QED BY <3>1, AuditWatchdogAssumption DEF AuditInv, InOrder, AuditRows
  <2>6. InOrder'
    <3>1. \A i \in 1 .. Len(rows') : i \in 1 .. Len(rows) \/ i = Len(rows) + 1
      BY <2>1, <2>3
    <3>2. \A i \in 1 .. Len(rows') : rows'[i].at <= now
      BY <2>1, <2>2, <2>3, <2>5, <3>1
    <3>3. ASSUME NEW i \in 1 .. Len(rows'), NEW j \in 1 .. Len(rows'), i <= j PROVE rows'[i].at <= rows'[j].at
      <4>1. CASE j = Len(rows) + 1
        BY <2>1, <2>2, <2>3, <3>2, <4>1
      <4>2. CASE j # Len(rows) + 1
        BY <2>1, <2>3, <3>3, <4>2 DEF AuditInv, InOrder
      <4> QED BY <4>1, <4>2
    <3> QED BY <1>1, <3>2, <3>3 DEF AuditInv, InOrder
  <2>7. ASSUME NEW u \in Suspects, NEW first \in 1 .. Len(rows'), NEW last \in 1 .. Len(rows'),
               Visible(u, first, last)', due - every > rows'[last].at
        PROVE  \E f \in flags[u] : f > rows'[last].at - Suppress /\ f <= rows'[last].at + every
    <3>1. last # Len(rows) + 1
      <4>1. due \in Int /\ every \in Int /\ due - every <= now
        BY AuditWatchdogAssumption DEF AuditInv, InOrder, AuditTypeOK
      <4> QED BY <2>1, <2>2, <2>3, <2>7, <4>1
    <3>2. last \in 1 .. Len(rows) /\ rows'[last] = rows[last]
      BY <2>1, <2>3, <3>1
    <3>3. \E i \in first .. last : rows'[i].by = u
      BY <2>7, NextVisibleInOrder
    <3>4. first <= last
      BY <3>3
    <3>5. first \in 1 .. Len(rows) /\ rows'[first] = rows[first]
      BY <2>1, <2>3, <3>2, <3>4
    <3>6. ByOf(u, first, last)' = ByOf(u, first, last)
      BY <2>1, <2>3, <3>2, <3>5 DEF ByOf
    <3>7. Since(rows[first].at) \subseteq Since(rows[first].at)'
      BY <2>1, <2>3, <3>5 DEF Since
    <3>8. Since(rows[first].at) \in SUBSET (1 .. Len(rows)) /\ Since(rows[first].at)' \in SUBSET (1 .. Len(rows'))
      BY DEF Since
    <3>9. Cardinality(Since(rows[first].at)) \in Nat /\ Cardinality(Since(rows[first].at)') \in Nat
          /\ IsFiniteSet(Since(rows[first].at)')
      <4>1. IsFiniteSet(1 .. Len(rows)) /\ IsFiniteSet(1 .. Len(rows'))
        <5>1. Len(rows) \in Int /\ Len(rows') \in Int
          BY <2>1, <2>3
        <5> QED BY <5>1, FS_Interval
      <4>2. IsFiniteSet(Since(rows[first].at)) /\ IsFiniteSet(Since(rows[first].at)')
        BY <3>8, <4>1, FS_Subset
      <4> QED BY <4>2, FS_CardinalityType
    <3>10. Cardinality(Since(rows[first].at)) <= Cardinality(Since(rows[first].at)')
      BY <3>7, <3>9, FS_Subset
    <3>11. Visible(u, first, last)
      BY <1>1, <2>7, <3>2, <3>5, <3>6, <3>9, <3>10, AuditWatchdogAssumption DEF Visible
    <3> QED BY <2>7, <3>2, <3>5, <3>11 DEF AuditInv, FlaggedInTime, Flagged
  <2>8. FlaggedInTime'
    BY <1>1, <2>7 DEF FlaggedInTime, Flagged
  <2> QED BY <1>1, <2>4, <2>6, <2>8 DEF AuditInv, LastIsFlag, FlagsApart
<1> QED BY <1>2, <1>3

LEMMA StillLooked ==
  ASSUME NEW e \in Nat, NEW l \in Nat, NEW r \in Nat, NEW t \in Nat, NEW n \in Nat, NEW b \in Nat,
         e <= r, l - e <= b - n, t <= l + n
  PROVE  t - r <= b
OBVIOUS

(* A check counts every row of a burst that is visible and not older than    *)
(* one interval.                                                             *)
LEMMA CheckSeesBurst ==
  ASSUME AuditInv, NEW u \in Suspects, NEW first \in 1 .. Len(rows), NEW last \in 1 .. Len(rows),
         Visible(u, first, last), NEW t \in Nat, t <= rows[last].at + every
  PROVE  u \in Anomalous(t)
<1> DEFINE seen == {i \in Listed : rows[i].by = u /\ t - rows[i].at <= Lookback}
<1>1. rows \in Seq(AuditRows) /\ Len(rows) \in Nat /\ every \in Nat
  BY AuditWatchdogAssumption DEF AuditInv, AuditTypeOK
<1>2. ASSUME NEW i \in 1 .. Len(rows) PROVE rows[i].at \in Nat
  BY <1>1, RowTimes
<1>3. first .. Len(rows) \subseteq Since(rows[first].at)
  BY <1>1 DEF Since, AuditInv, InOrder
<1>4. Since(rows[first].at) \in SUBSET (1 .. Len(rows))
  BY DEF Since
<1>5. Len(rows) - first + 1 <= Limit
  <2>1. IsFiniteSet(Since(rows[first].at)) /\ Cardinality(Since(rows[first].at)) \in Nat
    BY <1>1, <1>4, RowsFinite
  <2>2. Cardinality(first .. Len(rows)) <= Cardinality(Since(rows[first].at))
    BY <1>3, <2>1, FS_Subset
  <2>3. Cardinality(first .. Len(rows)) = Len(rows) - first + 1
    <3>1. first \in Int /\ Len(rows) \in Int /\ first <= Len(rows)
      BY <1>1
    <3> QED BY <3>1, FS_Interval
  <2> QED BY <1>1, <2>1, <2>2, <2>3, AuditWatchdogAssumption DEF Visible
<1>6. ByOf(u, first, last) \subseteq seen
  <2> SUFFICES ASSUME NEW i \in first .. last, rows[i].by = u PROVE i \in seen
    BY DEF ByOf
  <2>1. i \in 1 .. Len(rows) /\ i >= first
    BY <1>1
  <2>2. i \in Listed
    BY <1>1, <1>5, <2>1, AuditWatchdogAssumption DEF Listed
  <2>3. rows[first].at <= rows[i].at /\ rows[last].at - rows[first].at <= Lookback - every
    BY <2>1 DEF AuditInv, InOrder, Visible
  <2>4. t - rows[i].at <= Lookback
    <3>1. /\ rows[i].at \in Nat /\ rows[first].at \in Nat /\ rows[last].at \in Nat
          /\ every \in Nat /\ Lookback \in Nat
      BY <1>1, <1>2, <2>1, AuditWatchdogAssumption
    <3>2. t \in Nat /\ t <= rows[last].at + every
      OBVIOUS
    <3> QED BY <2>3, <3>1, <3>2, StillLooked
  <2> QED BY <2>2, <2>4
<1>7. seen \in SUBSET (1 .. Len(rows))
  BY DEF Listed
<1> HIDE DEF seen
<1>8. IsFiniteSet(seen) /\ Cardinality(seen) \in Nat
  BY <1>1, <1>7, RowsFinite
<1>9. Cardinality(ByOf(u, first, last)) <= Cardinality(seen) /\ Cardinality(ByOf(u, first, last)) \in Nat
  BY <1>6, <1>8, FS_Subset, FS_CardinalityType
<1>10. Cardinality(seen) >= Threshold
  BY <1>8, <1>9, AuditWatchdogAssumption DEF Visible
<1> QED BY <1>10 DEF Anomalous, seen

LEMMA AuditTickInv == ASSUME AuditInv, AuditTick PROVE AuditInv'
<1>1. /\ now' = now + 1 /\ now < MaxNow /\ UNCHANGED <<rows, recording, every, steady>>
  BY DEF AuditTick
<1>2. /\ now \in Nat /\ due \in Nat /\ every \in Nat \ {0} /\ due > now /\ due - every <= now /\ now' \in 0 .. MaxNow
      /\ rows \in Seq(AuditRows) /\ steady \in 0 .. now'
  BY <1>1, AuditWatchdogAssumption DEF AuditInv, AuditTypeOK, InOrder
<1>3. ASSUME NEW i \in 1 .. Len(rows) PROVE rows[i].at \in Nat /\ rows[i].at <= now
  <2>1. rows[i] \in AuditRows
    BY <1>2
  <2> QED BY <2>1, AuditWatchdogAssumption DEF AuditRows, AuditInv, InOrder
<1>4. lastFlag \in [Suspects -> NotYet .. now] /\ flags \in [Suspects -> SUBSET (0 .. now)]
  BY DEF AuditInv, AuditTypeOK
<1>5. CASE now' # due
  <2>1. UNCHANGED <<due, lastFlag, flags>>
    BY <1>5 DEF AuditTick
  <2>2. lastFlag' \in [Suspects -> NotYet .. now'] /\ flags' \in [Suspects -> SUBSET (0 .. now')]
    <3>1. NotYet .. now \subseteq NotYet .. now' /\ 0 .. now \subseteq 0 .. now'
      BY <1>1, <1>2 DEF NotYet
    <3> QED BY <1>4, <2>1, <3>1
  <2>3. AuditTypeOK'
    BY <1>1, <1>2, <1>5, <2>1, <2>2 DEF AuditInv, AuditTypeOK
  <2>4. InOrder'
    <3>1. \A i \in 1 .. Len(rows') : rows'[i].at <= now'
      <4>1. ASSUME NEW i \in 1 .. Len(rows) PROVE rows[i].at <= now'
        <5>1. rows[i].at \in Nat /\ rows[i].at <= now /\ now \in Nat /\ now' = now + 1
          BY <1>1, <1>2, <1>3
        <5> QED BY <5>1
      <4> QED BY <1>1, <4>1
    <3>2. \A i, j \in 1 .. Len(rows') : i <= j => rows'[i].at <= rows'[j].at
      BY <1>1 DEF AuditInv, InOrder
    <3>3. due' - every' <= now'
      BY <1>1, <1>2, <2>1
    <3> QED BY <3>1, <3>2, <3>3 DEF InOrder
  <2>5. FlaggedInTime'
    BY <1>1, <2>1, VisibleRests DEF AuditInv, FlaggedInTime, Flagged
  <2> QED BY <2>1, <2>3, <2>4, <2>5 DEF AuditInv, LastIsFlag, FlagsApart
<1>6. CASE now' = due
  <2>1. /\ due' = due + every
        /\ lastFlag' = [u \in Suspects |-> IF u \in NewlyAnomalous(due) THEN due ELSE lastFlag[u]]
        /\ flags' = [u \in Suspects |-> IF u \in NewlyAnomalous(due) THEN flags[u] \cup {due} ELSE flags[u]]
    BY <1>6 DEF AuditTick
  <2>2. ASSUME NEW u \in Suspects
        PROVE  /\ lastFlag'[u] \in NotYet .. now' /\ flags'[u] \in SUBSET (0 .. now')
               /\ flags[u] \subseteq flags'[u]
    BY <1>1, <1>2, <1>4, <1>6, <2>1 DEF NotYet
  <2>3. AuditTypeOK'
    <3>1. lastFlag' \in [Suspects -> NotYet .. now'] /\ flags' \in [Suspects -> SUBSET (0 .. now')]
      BY <2>1, <2>2
    <3>2. due' \in Nat /\ due' > now'
      BY <1>2, <1>6, <2>1
    <3> QED BY <1>1, <1>2, <3>1, <3>2 DEF AuditInv, AuditTypeOK
  <2>4. InOrder'
    <3>1. \A i \in 1 .. Len(rows') : rows'[i].at <= now'
      <4>1. ASSUME NEW i \in 1 .. Len(rows) PROVE rows[i].at <= now'
        <5>1. rows[i].at \in Nat /\ rows[i].at <= now /\ now \in Nat /\ now' = now + 1
          BY <1>1, <1>2, <1>3
        <5> QED BY <5>1
      <4> QED BY <1>1, <4>1
    <3>2. \A i, j \in 1 .. Len(rows') : i <= j => rows'[i].at <= rows'[j].at
      BY <1>1 DEF AuditInv, InOrder
    <3>3. due' - every' <= now'
      BY <1>1, <1>2, <1>6, <2>1
    <3> QED BY <3>1, <3>2, <3>3 DEF InOrder
  <2>5. ASSUME NEW u \in Suspects
        PROVE  /\ lastFlag'[u] = NotYet => flags'[u] = {}
               /\ lastFlag'[u] # NotYet => lastFlag'[u] \in flags'[u]
               /\ \A f \in flags'[u] : f <= lastFlag'[u]
               /\ \A f, g \in flags'[u] : f < g => g - f >= Suppress
    <3>1. /\ lastFlag[u] = NotYet => flags[u] = {}
          /\ lastFlag[u] # NotYet => lastFlag[u] \in flags[u]
          /\ \A f \in flags[u] : f <= lastFlag[u] /\ f \in 0 .. now
          /\ \A f, g \in flags[u] : f < g => g - f >= Suppress
      BY <1>4 DEF AuditInv, LastIsFlag, FlagsApart
    <3>2. CASE u \notin NewlyAnomalous(due)
      BY <2>1, <3>1, <3>2
    <3>3. CASE u \in NewlyAnomalous(due)
      <4>1. lastFlag'[u] = due /\ flags'[u] = flags[u] \cup {due}
        BY <2>1, <3>3
      <4>2. \A f \in flags[u] : f < due /\ due - f >= Suppress
        <5> TAKE f \in flags[u]
        <5>1. lastFlag[u] # NotYet /\ lastFlag[u] \in 0 .. now /\ f \in 0 .. now /\ f <= lastFlag[u]
          BY <3>1
        <5>2. due - lastFlag[u] >= Suppress
          BY <3>3, <5>1 DEF NewlyAnomalous
        <5> QED BY <1>2, <5>1, <5>2, AuditWatchdogAssumption
      <4> QED BY <1>2, <3>1, <4>1, <4>2 DEF NotYet
    <3> QED BY <3>2, <3>3
  <2>6. ASSUME NEW u \in Suspects, NEW first \in 1 .. Len(rows), NEW last \in 1 .. Len(rows),
               Visible(u, first, last), due > rows[last].at
        PROVE  \E f \in flags'[u] : f > rows[last].at - Suppress /\ f <= rows[last].at + every
    <3>1. CASE due - every > rows[last].at
      <4>1. \E f \in flags[u] : f > rows[last].at - Suppress /\ f <= rows[last].at + every
        BY <2>6, <3>1 DEF AuditInv, FlaggedInTime, Flagged
      <4> QED BY <2>2, <4>1
    <3>2. CASE due - every <= rows[last].at
      <4>1. rows[last].at \in Nat /\ due <= rows[last].at + every
        BY <1>2, <1>3, <3>2
      <4>2. u \in Anomalous(due)
        BY <1>2, <2>6, <4>1, CheckSeesBurst
      <4>3. CASE u \in NewlyAnomalous(due)
        <5>1. due \in flags'[u]
          BY <2>1, <4>3
        <5> QED BY <1>2, <2>6, <4>1, <5>1, AuditWatchdogAssumption
      <4>4. CASE u \notin NewlyAnomalous(due)
        <5>1. lastFlag[u] # NotYet /\ ~(due - lastFlag[u] >= Suppress)
          BY <4>2, <4>4 DEF NewlyAnomalous
        <5>2. lastFlag[u] \in flags'[u] /\ lastFlag[u] \in 0 .. now
          BY <1>4, <2>2, <5>1 DEF AuditInv, LastIsFlag
        <5>3. lastFlag[u] > rows[last].at - Suppress /\ lastFlag[u] <= rows[last].at + every
          BY <1>1, <1>2, <1>6, <2>6, <3>2, <4>1, <5>1, <5>2, AuditWatchdogAssumption, SMTT(60)
        <5> QED BY <5>2, <5>3
      <4> QED BY <4>3, <4>4
    <3> QED BY <1>2, <1>3, <3>1, <3>2
  <2>7. FlaggedInTime'
    <3>1. due' - every' = due
      BY <1>1, <1>2, <2>1
    <3> QED BY <1>1, <2>6, <3>1, VisibleRests DEF FlaggedInTime, Flagged
  <2>8. LastIsFlag' /\ FlagsApart'
    BY <2>5 DEF LastIsFlag, FlagsApart
  <2> QED BY <2>3, <2>4, <2>7, <2>8 DEF AuditInv
<1> QED BY <1>5, <1>6

LEMMA FromNow ==
  ASSUME NEW t \in Nat, NEW e \in Nat \ {0}, NEW d, d = t + e
  PROVE  d - e = t /\ d - e <= t /\ d > t /\ d \in Nat
OBVIOUS

(* The timer starts anew: no burst from before counts.                       *)
LEMMA RestartsInv ==
  ASSUME AuditInv, (\E n \in Intervals : SaveInterval(n)) \/ ClearLog \/ SwitchLog \/ RestartServer PROVE AuditInv'
<1>1. now \in Nat /\ due \in Nat /\ every \in Nat /\ rows \in Seq(AuditRows)
  BY AuditWatchdogAssumption DEF AuditInv, AuditTypeOK
<1>2. CASE SwitchLog
  BY <1>2, AuditRests DEF SwitchLog, AuditInv, AuditTypeOK
<1>3. CASE ClearLog
  BY <1>1, <1>3, AuditWatchdogAssumption DEF ClearLog, AuditInv, AuditTypeOK, InOrder, LastIsFlag, FlagsApart, FlaggedInTime
<1>4. CASE (\E n \in Intervals : SaveInterval(n)) \/ RestartServer
  <2>1. /\ UNCHANGED <<now, rows, recording>> /\ every' \in Intervals /\ due' = now + every' /\ steady' = now
    BY <1>4 DEF SaveInterval, RestartServer, AuditInv, AuditTypeOK
  <2>0. due' - every' = now /\ due' - every' <= now /\ due' > now /\ due' \in Nat
    <3>1. every' \in Nat \ {0}
      BY <2>1, AuditWatchdogAssumption
    <3>2. now \in Nat /\ due' = now + every'
      BY <1>1, <2>1
    <3> QED BY <3>1, <3>2, FromNow
  <2>2. \/ UNCHANGED <<lastFlag, flags>>
        \/ lastFlag' = [u \in Suspects |-> NotYet] /\ flags' = [u \in Suspects |-> {}]
    BY <1>4 DEF SaveInterval, RestartServer
  <2>3. AuditTypeOK'
    <3>1. lastFlag' \in [Suspects -> NotYet .. now] /\ flags' \in [Suspects -> SUBSET (0 .. now)]
      BY <1>1, <2>2 DEF AuditInv, AuditTypeOK, NotYet
    <3>2. now' \in 0 .. MaxNow /\ rows' \in Seq(AuditRows) /\ Len(rows') <= MaxRows /\ recording' \in BOOLEAN
      BY <2>0, <2>1 DEF AuditInv, AuditTypeOK
    <3>3. steady' \in 0 .. now'
      BY <1>1, <2>0, <2>1
    <3>4. every' \in Intervals /\ due' \in Nat /\ due' > now'
      BY <2>0, <2>1
    <3>5. lastFlag' \in [Suspects -> NotYet .. now'] /\ flags' \in [Suspects -> SUBSET (0 .. now')]
      BY <2>1, <3>1
    <3> QED BY <3>2, <3>3, <3>4, <3>5 DEF AuditTypeOK
  <2>4. InOrder'
    <3>1. due' - every' <= now'
      BY <2>0, <2>1
    <3>2. rows' = rows /\ now' = now
      BY <2>1
    <3>3. /\ \A i \in 1 .. Len(rows') : rows'[i].at <= now'
          /\ \A i, j \in 1 .. Len(rows') : i <= j => rows'[i].at <= rows'[j].at
      BY <3>2 DEF AuditInv, InOrder
    <3> QED BY <3>1, <3>3 DEF InOrder
  <2>5. LastIsFlag' /\ FlagsApart'
    BY <2>2 DEF AuditInv, LastIsFlag, FlagsApart
  <2>6. FlaggedInTime'
    <3>1. ASSUME NEW u \in Suspects, NEW first \in 1 .. Len(rows), NEW last \in 1 .. Len(rows), Visible(u, first, last)'
          PROVE  rows[last].at >= now
      <4>1. rows[first].at >= now
        BY <2>1, <3>1 DEF Visible
      <4>2. \E i \in first .. last : rows'[i].by = u
        BY <3>1, NextVisibleInOrder
      <4>3. rows[first].at <= rows[last].at
        BY <4>2 DEF AuditInv, InOrder
      <4>4. rows[first].at \in Nat /\ rows[last].at \in Nat
        BY <1>1, RowTimes
      <4> QED BY <1>1, <4>1, <4>3, <4>4
    <3>3. \A i \in 1 .. Len(rows) : rows[i].at <= now /\ rows[i].at \in Nat
      <4> TAKE i \in 1 .. Len(rows)
      <4> QED BY <1>1, RowTimes DEF AuditInv, InOrder
    <3> QED BY <1>1, <2>0, <2>1, <3>1, <3>3 DEF FlaggedInTime, Flagged
  <2> QED BY <2>3, <2>4, <2>5, <2>6 DEF AuditInv
<1> QED BY <1>2, <1>3, <1>4

LEMMA AuditStep == AuditInv /\ [AuditNext]_auditVars => AuditInv'
<1>1. AuditInv /\ UNCHANGED auditVars => AuditInv'
  BY AuditRests DEF auditVars, AuditInv, AuditTypeOK
<1> QED BY <1>1, AppendInv, AuditTickInv, RestartsInv DEF AuditNext

(* Every visible burst was flagged by the first check after it, for any      *)
(* lookback, threshold, interval and log: the inductive form of BurstNoticed *)
(* (auditWatchdog.ts).                                                       *)
THEOREM AuditWatchdogInv == AuditSpec => []AuditInv
BY AuditInitInv, AuditStep, PTL DEF AuditSpec

(* Each burst of failures is flagged, and once (auditWatchdog.ts             *)
(* detectAuditAnomalies, checkNow).                                          *)
THEOREM BurstsFlagged == AuditSpec => []BurstsAreFlagged
<1>1. AuditInv => BurstsAreFlagged
  <2> SUFFICES ASSUME AuditInv, NEW u \in Suspects, NEW first \in 1 .. Len(rows), NEW last \in 1 .. Len(rows),
                      Visible(u, first, last), now >= rows[last].at + every
               PROVE  \E f \in flags[u] : f > rows[last].at - Suppress /\ f <= rows[last].at + every
    BY DEF BurstsAreFlagged, BurstNoticed, AuditInv, Visible, ByOf
  <2>1. now \in Nat /\ due \in Nat /\ every \in Nat /\ due > now /\ rows \in Seq(AuditRows)
    BY AuditWatchdogAssumption DEF AuditInv, AuditTypeOK
  <2>2. rows[last].at \in Nat
    BY <2>1, RowTimes
  <2>3. due - every > rows[last].at
    BY <2>1, <2>2
  <2> QED BY <2>3 DEF AuditInv, FlaggedInTime, Flagged
<1> QED BY <1>1, AuditWatchdogInv, PTL

(***************************************************************************)
(* Image update checks (ImageUpdates).                                     *)
(***************************************************************************)

Checked == [host : Hosts, start : Nat, local : Int, by : {"user", "round"}, at : {"manifest", "token", "again"}]
StatusRecords == [host : Hosts, at : Nat, update : Updates \cup {"none"}, local : Int, remote : Int]
UpdatesTyped ==
  /\ remote \in Nat /\ asked \in Nat
  /\ local \in [Hosts -> Int] /\ (\A h \in Hosts : local[h] <= remote)
  /\ statuses \in [Hosts -> StatusRecords]
  /\ checks \subseteq Checked
  /\ round \in [at : {"idle", "list"} \cup Hosts, left : SUBSET Hosts, sum : Nat]
  /\ newest \in [Hosts -> Nat]
  /\ sure \subseteq Hosts /\ reach \subseteq Hosts

(* The round waits for one check at most, of the host it is at.              *)
RoundWaits ==
  \A c \in checks : c.by = "round" => /\ round.at = c.host
                                      /\ \A d \in checks : d.by = "round" => d = c

(* A host that has an update for sure is still to be checked, or is being    *)
(* checked with the digest it has, or an update was found.                   *)
SureIsTold ==
  \A h \in sure :
    /\ h \in reach /\ HasUpdate(h)
    /\ \/ h \in round.left
       \/ \E c \in checks : c.by = "round" /\ c.host = h /\ c.local = local[h]
       \/ round.sum > 0

(* The status of an image whose checks do not overlap is that of the last    *)
(* check that ended, and a check under way began after that one.             *)
LastIsKept ==
  \A h \in Hosts :
    /\ newest[h] <= asked
    /\ \A c \in checks : c.host = h /\ h \notin overlaps => c.start >= newest[h]
ChecksBegun == \A c \in checks : c.start <= asked

UpdatesInv ==
  /\ UpdatesTyped /\ RoundWaits /\ SureIsTold /\ LastIsKept /\ ChecksBegun /\ UpdatesAreTold
  /\ round.at = "idle" => sure = {}

LEMMA UpdatesInitInv == ImageUpdatesInit => UpdatesInv
<1> SUFFICES ASSUME ImageUpdatesInit PROVE UpdatesInv
  OBVIOUS
<1> USE DEF ImageUpdatesInit, NoDigest
<1>1. \A h \in Hosts : NoStatus(h) \in StatusRecords
  BY DEF StatusRecords, NoStatus, Updates
<1>2. UpdatesTyped
  BY <1>1 DEF UpdatesTyped, NoRound
<1>3. UpdatesAreTold
  BY DEF UpdatesAreTold, RoundTellsAll, StatusIsOwnAndLast, NoStatus
<1> QED BY <1>2, <1>3 DEF UpdatesInv, RoundWaits, SureIsTold, LastIsKept, ChecksBegun, NoRound

(* A check ends: its status is kept if it is the last.                       *)
LEMMA CachedInv ==
  ASSUME UpdatesInv, NEW h \in Hosts, NEW status \in StatusRecords, status.host = h,
         status.update = "yes" => status.local # status.remote,
         status.update = "no" => status.local = status.remote,
         status.at <= asked', asked <= asked', asked' \in Nat,
         status.at >= newest[h] \/ h \in overlaps,
         checks' \subseteq checks, NEW others, others = {d \in checks' : d.host = h},
         Cached(h, status, others)
  PROVE  /\ StatusIsOwnAndLast' /\ LastIsKept' /\ newest' \in [Hosts -> Nat]
         /\ statuses' \in [Hosts -> StatusRecords] /\ statuses'[h] = status
<1>1. statuses \in [Hosts -> StatusRecords] /\ newest \in [Hosts -> Nat] /\ asked \in Nat
  BY DEF UpdatesInv, UpdatesTyped, StatusRecords
<1>2. statuses' = [statuses EXCEPT ![h] = status]
  BY DEF Cached, CacheKey
<1>3. newest' = [newest EXCEPT ![h] = IF status.at > newest[h] THEN status.at ELSE newest[h]]
  BY <1>1 DEF Cached
<1>4. statuses'[h] = status /\ statuses' \in [Hosts -> StatusRecords] /\ \A g \in Hosts : g # h => statuses'[g] = statuses[g]
  BY <1>1, <1>2
<1>5. status.at \in Nat
  BY DEF StatusRecords
<1>6. /\ newest'[h] = (IF status.at > newest[h] THEN status.at ELSE newest[h]) /\ newest' \in [Hosts -> Nat]
      /\ \A g \in Hosts : g # h => newest'[g] = newest[g]
  BY <1>1, <1>3, <1>5
<1>7. \A g \in Hosts : g # h => (g \in overlaps' <=> g \in overlaps)
  BY DEF Cached
<1>8. h \notin overlaps' => others = {} /\ status.at >= newest[h]
  BY <1>1, <1>5 DEF Cached
<1>9. ASSUME NEW g \in Hosts
      PROVE  /\ statuses'[g].host = g
             /\ statuses'[g].update = "yes" => statuses'[g].local # statuses'[g].remote
             /\ statuses'[g].update = "no" => statuses'[g].local = statuses'[g].remote
             /\ g \notin overlaps' => statuses'[g].at = newest'[g]
             /\ newest'[g] <= asked'
             /\ \A c \in checks' : c.host = g /\ g \notin overlaps' => c.start >= newest'[g]
  <2>1. CASE g = h
    <3>1. newest[h] <= asked
      BY DEF UpdatesInv, LastIsKept
    <3>2. h \notin overlaps' => statuses'[h].at = newest'[h]
      BY <1>1, <1>4, <1>5, <1>6, <1>8
    <3>3. newest'[h] <= asked'
      BY <1>1, <1>5, <1>6, <3>1
    <3>4. \A c \in checks' : c.host = h => h \in overlaps'
      BY <1>8
    <3> QED BY <1>4, <2>1, <3>2, <3>3, <3>4
  <2>2. CASE g # h
    <3>1. newest[g] <= asked /\ newest'[g] = newest[g]
      BY <1>6, <2>2 DEF UpdatesInv, LastIsKept
    <3>2. newest'[g] <= asked'
      BY <1>1, <3>1
    <3>3. \A c \in checks' : c.host = g /\ g \notin overlaps' => c.start >= newest'[g]
      BY <1>7, <2>2, <3>1 DEF UpdatesInv, LastIsKept
    <3> QED BY <1>4, <1>7, <2>2, <3>1, <3>2, <3>3 DEF UpdatesInv, UpdatesAreTold, StatusIsOwnAndLast
  <2> QED BY <2>1, <2>2
<1> QED BY <1>4, <1>6, <1>9 DEF StatusIsOwnAndLast, LastIsKept

(* A check begins, or ends at once because there is no digest to compare.    *)
LEMMA BeginInv ==
  ASSUME UpdatesInv, NEW h \in Hosts, NEW by \in {"user", "round"}, asked' = asked + 1, Begin(h, by),
         UNCHANGED <<remote, local>>
  PROVE  /\ StatusIsOwnAndLast' /\ LastIsKept' /\ ChecksBegun'
         /\ newest' \in [Hosts -> Nat] /\ statuses' \in [Hosts -> StatusRecords]
         /\ IF local[h] = NoDigest THEN checks' = checks
            ELSE \E c \in Checked : checks' = checks \cup {c} /\ c.host = h /\ c.by = by /\ c.local = local[h]
<1>1. asked \in Nat /\ asked' \in Nat /\ asked' > asked /\ newest[h] \in Nat /\ newest[h] <= asked /\ local[h] \in Int
  BY DEF UpdatesInv, UpdatesTyped, LastIsKept
<1>2. CASE local[h] = NoDigest
  <2> DEFINE status == [NoStatus(h) EXCEPT !.at = asked', !.update = "unknown"]
  <2>0. /\ NoStatus(h) \in StatusRecords /\ NoStatus(h).host = h /\ "unknown" \in Updates \cup {"none"}
    BY DEF NoStatus, StatusRecords, NoDigest, Updates
  <2>1. status \in StatusRecords /\ status.host = h /\ status.at = asked' /\ status.update = "unknown"
    BY <1>1, <2>0 DEF StatusRecords
  <2>2. Cached(h, status, OthersOf(h)) /\ checks' = checks
    BY <1>2 DEF Begin
  <2>3. ChecksBegun'
    BY <1>1, <2>2 DEF UpdatesInv, ChecksBegun, UpdatesTyped, Checked
  <2>4. OthersOf(h) = {d \in checks' : d.host = h}
    BY <2>2 DEF OthersOf
  <2> HIDE DEF status
  <2> QED BY <1>1, <1>2, <2>1, <2>2, <2>3, <2>4, CachedInv
<1>3. CASE local[h] # NoDigest
  <2> DEFINE c == [host |-> h, start |-> asked', local |-> local[h], by |-> by, at |-> "manifest"]
  <2>1. c \in Checked /\ c.host = h /\ c.start = asked' /\ c.by = by /\ c.local = local[h]
    BY <1>1 DEF Checked
  <2>2. /\ checks' = checks \cup {c} /\ UNCHANGED <<statuses, newest>> /\ overlaps \subseteq overlaps'
        /\ h \notin overlaps' => OthersOf(h) = {}
    BY <1>3 DEF Begin
  <2> HIDE DEF c
  <2>3. ChecksBegun'
    BY <1>1, <2>1, <2>2 DEF UpdatesInv, ChecksBegun, UpdatesTyped, Checked
  <2>4. StatusIsOwnAndLast'
    BY <2>2 DEF UpdatesInv, UpdatesAreTold, StatusIsOwnAndLast
  <2>5. ASSUME NEW g \in Hosts PROVE newest'[g] <= asked' /\ \A d \in checks' : d.host = g /\ g \notin overlaps' => d.start >= newest'[g]
    <3>1. newest[g] <= asked /\ newest'[g] = newest[g] /\ newest[g] \in Nat
      BY <2>2 DEF UpdatesInv, LastIsKept, UpdatesTyped
    <3>2. newest'[g] <= asked' /\ c.start >= newest'[g]
      BY <1>1, <2>1, <3>1
    <3> QED BY <2>2, <3>1, <3>2 DEF UpdatesInv, LastIsKept
  <2>6. LastIsKept'
    BY <2>5 DEF LastIsKept
  <2> QED BY <1>3, <2>1, <2>2, <2>3, <2>4, <2>6 DEF UpdatesInv, UpdatesTyped
<1> QED BY <1>2, <1>3

LEMMA UserCheckInv == ASSUME UpdatesInv, NEW h \in Hosts, UserCheck(h) PROVE UpdatesInv'
<1>1. Begin(h, "user") /\ asked' = asked + 1 /\ UNCHANGED <<remote, local, reach, round, sure, unsaid>>
  BY DEF UserCheck
<1>2. /\ StatusIsOwnAndLast' /\ LastIsKept' /\ ChecksBegun'
      /\ newest' \in [Hosts -> Nat] /\ statuses' \in [Hosts -> StatusRecords]
  BY <1>1, BeginInv
<1>3. checks' = checks \/ \E c \in Checked : checks' = checks \cup {c} /\ c.by = "user"
  BY <1>1, BeginInv
<1>4. UpdatesTyped'
  BY <1>1, <1>2, <1>3 DEF UpdatesInv, UpdatesTyped
<1>5. RoundWaits'
  BY <1>1, <1>3 DEF UpdatesInv, RoundWaits
<1>6. SureIsTold'
  BY <1>1, <1>3 DEF UpdatesInv, SureIsTold, HasUpdate
<1> QED BY <1>1, <1>2, <1>4, <1>5, <1>6 DEF UpdatesInv, UpdatesAreTold, RoundTellsAll

LEMMA RoundHostInv == ASSUME UpdatesInv, NEW h \in Hosts, RoundHost(h) PROVE UpdatesInv'
<1>1. /\ round.at = "list" /\ h \in round.left /\ asked' = asked + 1
      /\ UNCHANGED <<remote, local, reach, sure, unsaid>>
  BY DEF RoundHost
<1>2. \A c \in checks : c.by # "round"
  BY <1>1, ImageUpdatesAssumption DEF UpdatesInv, UpdatesTyped, RoundWaits, Checked
<1>3. round \in [at : {"idle", "list"} \cup Hosts, left : SUBSET Hosts, sum : Nat]
  BY DEF UpdatesInv, UpdatesTyped
<1>4. CASE h \in reach
  <2>1. Begin(h, "round") /\ round' = [round EXCEPT !.left = @ \ {h}, !.at = IF local[h] = NoDigest THEN "list" ELSE h]
    BY <1>4 DEF RoundHost
  <2>2. /\ StatusIsOwnAndLast' /\ LastIsKept' /\ ChecksBegun'
        /\ newest' \in [Hosts -> Nat] /\ statuses' \in [Hosts -> StatusRecords]
    BY <1>1, <2>1, BeginInv
  <2>3. IF local[h] = NoDigest THEN checks' = checks
        ELSE \E c \in Checked : checks' = checks \cup {c} /\ c.host = h /\ c.by = "round" /\ c.local = local[h]
    BY <1>1, <2>1, BeginInv
  <2>4. /\ round'.left = round.left \ {h} /\ round'.sum = round.sum
        /\ round'.at = (IF local[h] = NoDigest THEN "list" ELSE h)
        /\ round' \in [at : {"idle", "list"} \cup Hosts, left : SUBSET Hosts, sum : Nat]
    BY <1>3, <2>1
  <2>5. UpdatesTyped'
    BY <1>1, <2>2, <2>3, <2>4 DEF UpdatesInv, UpdatesTyped
  <2>6. RoundWaits'
    BY <1>2, <2>3, <2>4 DEF RoundWaits
  <2>7. SureIsTold'
    BY <1>1, <1>2, <2>3, <2>4 DEF UpdatesInv, SureIsTold, HasUpdate
  <2>8. round'.at # "idle"
    BY <2>4, ImageUpdatesAssumption
  <2> QED BY <1>1, <2>2, <2>5, <2>6, <2>7, <2>8 DEF UpdatesInv, UpdatesAreTold, RoundTellsAll
<1>5. CASE h \notin reach
  <2>1. round' = [round EXCEPT !.left = @ \ {h}] /\ UNCHANGED <<statuses, newest, overlaps, checks>>
    BY <1>5 DEF RoundHost
  <2>2. /\ round'.left = round.left \ {h} /\ round'.sum = round.sum /\ round'.at = round.at
        /\ round' \in [at : {"idle", "list"} \cup Hosts, left : SUBSET Hosts, sum : Nat]
    BY <1>3, <2>1
  <2>3. UpdatesTyped'
    BY <1>1, <2>1, <2>2 DEF UpdatesInv, UpdatesTyped
  <2>4. RoundWaits' /\ SureIsTold'
    BY <1>1, <1>5, <2>1, <2>2 DEF UpdatesInv, RoundWaits, SureIsTold, HasUpdate
  <2>5. asked \in Nat /\ asked <= asked' /\ newest \in [Hosts -> Nat]
    BY <1>1 DEF UpdatesInv, UpdatesTyped
  <2>6. ChecksBegun' /\ LastIsKept'
    <3>1. \A g \in Hosts : newest[g] <= asked'
      BY <1>1, <2>5 DEF UpdatesInv, LastIsKept
    <3>2. \A c \in checks : c.start <= asked'
      BY <1>1, <2>5 DEF UpdatesInv, ChecksBegun, UpdatesTyped, Checked
    <3> QED BY <2>1, <3>1, <3>2 DEF UpdatesInv, LastIsKept, ChecksBegun
  <2>7. round'.at # "idle"
    BY <1>1, <2>2
  <2> QED BY <1>1, <2>1, <2>3, <2>4, <2>6, <2>7 DEF UpdatesInv, UpdatesAreTold, RoundTellsAll, StatusIsOwnAndLast
<1> QED BY <1>4, <1>5

(* A check goes on to another request, as the same check.                    *)
LEMMA AsksAgainInv ==
  ASSUME UpdatesInv, NEW c \in checks, NEW to \in {"token", "again"},
         checks' = (checks \ {c}) \cup {[c EXCEPT !.at = to]}, sure' \subseteq sure,
         UNCHANGED <<statuses, newest, overlaps, round, remote, local, reach, asked, unsaid>>
  PROVE  UpdatesInv'
<1> DEFINE d == [c EXCEPT !.at = to]
<1>1. d \in Checked /\ d.host = c.host /\ d.by = c.by /\ d.start = c.start /\ d.local = c.local
  BY DEF UpdatesInv, UpdatesTyped, Checked
<1> HIDE DEF d
<1>2. checks' = (checks \ {c}) \cup {d}
  BY DEF d
<1>3. UpdatesTyped'
  BY <1>1, <1>2 DEF UpdatesInv, UpdatesTyped
<1>4. RoundWaits'
  BY <1>1, <1>2 DEF UpdatesInv, RoundWaits
<1>5. SureIsTold'
  BY <1>1, <1>2 DEF UpdatesInv, SureIsTold, HasUpdate
<1>6. LastIsKept' /\ ChecksBegun'
  BY <1>1, <1>2 DEF UpdatesInv, LastIsKept, ChecksBegun
<1> QED BY <1>3, <1>4, <1>5, <1>6 DEF UpdatesInv, UpdatesAreTold, RoundTellsAll, StatusIsOwnAndLast

(* A check ends: an update that is sure is found, or no longer sure.         *)
LEMMA EndsInv ==
  ASSUME UpdatesInv, NEW c \in checks, NEW update \in Updates, NEW digest \in Int,
         \/ update = "unknown"
         \/ digest = remote /\ update = IF remote = c.local THEN "no" ELSE "yes",
         Ends(c, update, digest),
         sure' = IF c.by = "round" /\ statuses'[c.host].update = "unknown" /\ c \notin checks'
                   THEN sure \ {c.host} ELSE sure,
         UNCHANGED <<remote, local, reach, asked, unsaid>>
  PROVE  UpdatesInv'
<1> DEFINE status == [host |-> c.host, at |-> c.start, update |-> update, local |-> c.local, remote |-> digest]
<1>1. c \in Checked /\ c.host \in Hosts /\ asked \in Nat /\ newest[c.host] \in Nat /\ c.start <= asked
  BY DEF UpdatesInv, UpdatesTyped, Checked, ChecksBegun
<1>2. status \in StatusRecords
  BY <1>1 DEF StatusRecords, Checked
<1>3. /\ status.host = c.host /\ status.at = c.start /\ status.update = update
      /\ status.local = c.local /\ status.remote = digest
  OBVIOUS
<1>4. /\ checks' = checks \ {c} /\ Cached(c.host, status, OthersOf(c.host) \ {c}) /\ Counted(c, update)
  BY DEF Ends
<1>5. OthersOf(c.host) \ {c} = {d \in checks' : d.host = c.host}
  BY <1>4 DEF OthersOf
<1> HIDE DEF status
<1>6. /\ status.update = "yes" => status.local # status.remote
      /\ status.update = "no" => status.local = status.remote
  BY <1>3
<1>7. status.at >= newest[c.host] \/ c.host \in overlaps
  BY <1>1, <1>3 DEF UpdatesInv, LastIsKept
<1>8. /\ StatusIsOwnAndLast' /\ LastIsKept' /\ newest' \in [Hosts -> Nat]
      /\ statuses' \in [Hosts -> StatusRecords] /\ statuses'[c.host] = status
  BY <1>1, <1>2, <1>3, <1>4, <1>5, <1>6, <1>7, CachedInv
<1>9. round \in [at : {"idle", "list"} \cup Hosts, left : SUBSET Hosts, sum : Nat]
  BY DEF UpdatesInv, UpdatesTyped
<1>10. CASE c.by # "round"
  <2>1. round' = round /\ sure' = sure
    BY <1>4, <1>10 DEF Counted
  <2>2. UpdatesTyped'
    BY <1>4, <1>8, <2>1 DEF UpdatesInv, UpdatesTyped
  <2>3. RoundWaits' /\ ChecksBegun'
    BY <1>4, <2>1 DEF UpdatesInv, RoundWaits, ChecksBegun
  <2>4. SureIsTold'
    BY <1>4, <1>10, <2>1 DEF UpdatesInv, SureIsTold, HasUpdate
  <2> QED BY <1>8, <2>1, <2>2, <2>3, <2>4 DEF UpdatesInv, UpdatesAreTold, RoundTellsAll
<1>11. CASE c.by = "round"
  <2>1. /\ round'.at = "list" /\ round'.left = round.left
        /\ round'.sum = round.sum + (IF update = "yes" THEN 1 ELSE 0)
        /\ round' \in [at : {"idle", "list"} \cup Hosts, left : SUBSET Hosts, sum : Nat]
    <3> DEFINE one == IF update = "yes" THEN 1 ELSE 0
    <3>1. round' = [round EXCEPT !.at = "list", !.sum = round.sum + one]
      BY <1>4, <1>9, <1>11 DEF Counted
    <3>2. one \in Nat
      OBVIOUS
    <3> HIDE DEF one
    <3>4. round.sum + one \in Nat
      BY <1>9, <3>2
    <3>3. round'.at = "list" /\ round'.left = round.left /\ round'.sum = round.sum + one
          /\ round' \in [at : {"idle", "list"} \cup Hosts, left : SUBSET Hosts, sum : Nat]
      BY <1>9, <3>1, <3>4
    <3> QED BY <3>3 DEF one
  <2>2. sure' \subseteq sure /\ (update = "unknown" => c.host \notin sure')
    BY <1>3, <1>4, <1>8, <1>11
  <2>3. UpdatesTyped'
    BY <1>4, <1>8, <2>1, <2>2 DEF UpdatesInv, UpdatesTyped
  <2>4. \A d \in checks' : d.by # "round"
    BY <1>4, <1>11 DEF UpdatesInv, RoundWaits
  <2>5. RoundWaits' /\ ChecksBegun'
    BY <1>4, <2>4 DEF UpdatesInv, RoundWaits, ChecksBegun
  <2>6. ASSUME NEW h \in sure'
        PROVE  h \in reach /\ HasUpdate(h)' /\ (h \in round'.left \/ round'.sum > 0)
    <3>1. h \in sure /\ h \in reach /\ HasUpdate(h) /\ HasUpdate(h)'
      BY <2>2 DEF UpdatesInv, SureIsTold, HasUpdate
    <3>2. CASE h \in round.left
      BY <2>1, <3>1, <3>2
    <3>3. CASE round.sum > 0
      BY <1>9, <2>1, <3>1, <3>3
    <3>4. CASE \E d \in checks : d.by = "round" /\ d.host = h /\ d.local = local[h]
      <4>1. c.host = h /\ c.local = local[h]
        BY <1>11, <3>4 DEF UpdatesInv, RoundWaits
      <4>2. update = "yes"
        BY <2>2, <3>1, <4>1 DEF HasUpdate
      <4> QED BY <1>9, <2>1, <3>1, <4>2
    <3> QED BY <3>1, <3>2, <3>3, <3>4 DEF UpdatesInv, SureIsTold
  <2>7. SureIsTold'
    BY <2>6 DEF SureIsTold
  <2> QED BY <1>8, <2>1, <2>3, <2>5, <2>7 DEF UpdatesInv, UpdatesAreTold, RoundTellsAll
<1> QED BY <1>10, <1>11

LEMMA AnswerInv == ASSUME UpdatesInv, NEW c \in checks, Answer(c) PROVE UpdatesInv'
<1>1. /\ sure' = IF c.by = "round" /\ statuses'[c.host].update = "unknown" /\ c \notin checks'
                    THEN sure \ {c.host} ELSE sure
      /\ UNCHANGED <<remote, local, reach, asked, unsaid>>
  BY DEF Answer
<1>2. remote \in Int /\ NoDigest \in Int /\ {"yes", "no", "unknown"} \subseteq Updates
  BY DEF UpdatesInv, UpdatesTyped, NoDigest, Updates
<1>3. CASE Ends(c, IF remote = c.local THEN "no" ELSE "yes", remote)
  BY <1>1, <1>2, <1>3, EndsInv
<1>4. CASE Ends(c, "unknown", NoDigest)
  BY <1>1, <1>2, <1>4, EndsInv
<1>5. CASE \E to \in {"token", "again"} : /\ checks' = (checks \ {c}) \cup {[c EXCEPT !.at = to]}
                                          /\ UNCHANGED <<statuses, newest, overlaps, round>>
  BY <1>1, <1>5, AsksAgainInv
<1> QED BY <1>3, <1>4, <1>5 DEF Answer

LEMMA StartRoundInv == ASSUME UpdatesInv, StartRound PROVE UpdatesInv'
<1>1. /\ round.at = "idle" /\ asked' = asked + 1 /\ round' = [at |-> "list", left |-> Hosts, sum |-> 0]
      /\ sure' = {h \in reach : HasUpdate(h)}
      /\ UNCHANGED <<remote, local, reach, statuses, checks, newest, overlaps, unsaid>>
  BY DEF StartRound, NoRound
<1>2. asked \in Nat /\ newest \in [Hosts -> Nat]
  BY DEF UpdatesInv, UpdatesTyped
<1>3. sure' \subseteq Hosts
  BY <1>1 DEF UpdatesInv, UpdatesTyped
<1>4. UpdatesTyped'
  BY <1>1, <1>3 DEF UpdatesInv, UpdatesTyped
<1>5. RoundWaits'
  BY <1>1, ImageUpdatesAssumption DEF UpdatesInv, RoundWaits, UpdatesTyped, Checked
<1>6. SureIsTold'
  BY <1>1, <1>3 DEF SureIsTold, HasUpdate
<1>7. LastIsKept' /\ ChecksBegun'
  <2>1. \A g \in Hosts : newest[g] <= asked'
    BY <1>1, <1>2 DEF UpdatesInv, LastIsKept
  <2>2. \A c \in checks : c.start <= asked'
    BY <1>1, <1>2 DEF UpdatesInv, ChecksBegun, UpdatesTyped, Checked
  <2> QED BY <1>1, <2>1, <2>2 DEF UpdatesInv, LastIsKept, ChecksBegun
<1> QED BY <1>1, <1>4, <1>5, <1>6, <1>7 DEF UpdatesInv, UpdatesAreTold, RoundTellsAll, StatusIsOwnAndLast

(* A round ends: what was sure is counted, for it waits for nothing.         *)
LEMMA EndRoundInv == ASSUME UpdatesInv, EndRound PROVE UpdatesInv'
<1>1. /\ round.at = "list" /\ round.left = {} /\ round' = NoRound /\ sure' = {}
      /\ unsaid' = (unsaid \/ (sure # {} /\ ~Tells))
      /\ UNCHANGED <<remote, local, reach, statuses, checks, asked, newest, overlaps>>
  BY DEF EndRound
<1>2. \A c \in checks : c.by # "round"
  BY <1>1, ImageUpdatesAssumption DEF UpdatesInv, UpdatesTyped, RoundWaits, Checked
<1>3. sure # {} => Tells
  BY <1>1, <1>2 DEF UpdatesInv, SureIsTold, Tells
<1>4. UpdatesTyped' /\ SureIsTold' /\ RoundWaits'
  BY <1>1, <1>2 DEF UpdatesInv, UpdatesTyped, SureIsTold, RoundWaits, NoRound
<1> QED BY <1>1, <1>3, <1>4 DEF UpdatesInv, UpdatesAreTold, RoundTellsAll, StatusIsOwnAndLast, LastIsKept, ChecksBegun

(* The world changes, and with it what is sure.                              *)
LEMMA WorldInv ==
  ASSUME UpdatesInv, Publish \/ (\E h \in Hosts : Pull(h) \/ HostTurns(h)) PROVE UpdatesInv'
<1>1. UNCHANGED <<statuses, checks, round, asked, newest, overlaps, unsaid>> /\ sure' \subseteq sure
  BY DEF Publish, Pull, HostTurns
<1>2. UpdatesTyped' /\ SureIsTold'
  <2>1. CASE Publish
    <3>1. \A h \in Hosts : local[h] \in Int /\ local[h] <= remote /\ remote' = remote + 1 /\ local' = local
          /\ remote \in Nat
      BY <2>1 DEF Publish, UpdatesInv, UpdatesTyped
    <3>2. \A h \in Hosts : local[h] # remote'
      BY <3>1
    <3> QED BY <2>1, <3>1, <3>2 DEF Publish, UpdatesInv, UpdatesTyped, SureIsTold, HasUpdate
  <2>2. ASSUME NEW h \in Hosts, Pull(h) PROVE UpdatesTyped' /\ SureIsTold'
    BY <2>2 DEF Pull, UpdatesInv, UpdatesTyped, SureIsTold, HasUpdate
  <2>3. ASSUME NEW h \in Hosts, HostTurns(h) PROVE UpdatesTyped' /\ SureIsTold'
    BY <2>3 DEF HostTurns, UpdatesInv, UpdatesTyped, SureIsTold, HasUpdate
  <2> QED BY <2>1, <2>2, <2>3
<1> QED BY <1>1, <1>2 DEF UpdatesInv, UpdatesAreTold, RoundTellsAll, StatusIsOwnAndLast, LastIsKept, ChecksBegun, RoundWaits

LEMMA UpdatesStep == UpdatesInv /\ [ImageUpdatesNext]_imageUpdatesVars => UpdatesInv'
<1> SUFFICES ASSUME UpdatesInv, [ImageUpdatesNext]_imageUpdatesVars PROVE UpdatesInv'
  OBVIOUS
<1>1. CASE ImageUpdatesNext
  BY <1>1, UserCheckInv, RoundHostInv, AnswerInv, StartRoundInv, EndRoundInv, WorldInv DEF ImageUpdatesNext
<1>2. CASE UNCHANGED imageUpdatesVars
  BY <1>2 DEF imageUpdatesVars, UpdatesInv, UpdatesTyped, RoundWaits, SureIsTold, HasUpdate, LastIsKept, ChecksBegun,
              UpdatesAreTold, RoundTellsAll, StatusIsOwnAndLast
<1> QED BY <1>1, <1>2

(* The inductive invariant of the update checks (imageUpdates.ts).           *)
THEOREM ImageUpdatesInv == ImageUpdatesSpec => []UpdatesInv
BY UpdatesInitInv, UpdatesStep, PTL DEF ImageUpdatesSpec

(* A round ends in silence only if there was nothing sure to tell, and what  *)
(* is shown for an image is of that image and of its last check, for any     *)
(* number of hosts, checks and versions (imageUpdates.ts).                   *)
THEOREM UpdatesTold == ImageUpdatesSpec => []UpdatesAreTold
<1>1. UpdatesInv => UpdatesAreTold
  BY DEF UpdatesInv
<1> QED BY <1>1, ImageUpdatesInv, PTL

-----------------------------------------------------------------------------
(* What is asked for beyond MaxChecks is asked for by the round under way,   *)
(* once per host.                                                            *)
AskedIsBound == asked + Cardinality(round.left) <= MaxChecks + Cardinality(Hosts)
UpdatesMore ==
  /\ remote \in 0 .. MaxDigest /\ local \in [Hosts -> NoDigest .. MaxDigest]
  /\ checks \subseteq Checks /\ overlaps \subseteq Hosts /\ unsaid \in BOOLEAN
  /\ AskedIsBound
  /\ round.at # "idle" => MaxChecks >= 1

LEMMA UpdatesTypesAreOK == UpdatesInv /\ UpdatesMore => ImageUpdatesTypeOK
BY DEF UpdatesInv, UpdatesTyped, UpdatesMore, ImageUpdatesTypeOK, StatusRecords

LEMMA HostsLeft ==
  ASSUME UpdatesInv
  PROVE  /\ Cardinality(Hosts) \in Nat /\ Cardinality(round.left) \in Nat /\ asked \in Nat /\ MaxChecks \in Nat
         /\ Cardinality(round.left) <= Cardinality(Hosts)
         /\ round.left \subseteq Hosts
<1>1. round.left \subseteq Hosts /\ IsFiniteSet(Hosts) /\ asked \in Nat /\ MaxChecks \in Nat
  BY ImageUpdatesAssumption DEF UpdatesInv, UpdatesTyped
<1> QED BY <1>1, FS_Subset, FS_CardinalityType

LEMMA StartsInBounds ==
  ASSUME NEW m \in Nat, NEW n \in Nat, NEW k \in Nat, m >= 1, k >= 1, k <= m + n PROVE k \in 1 .. m + n * m
<1>1. n * m >= n
  OBVIOUS
<1> QED BY <1>1

LEMMA UpdatesMoreInit == ImageUpdatesInit => UpdatesMore
<1> SUFFICES ASSUME ImageUpdatesInit PROVE UpdatesMore
  OBVIOUS
<1>1. MaxDigest \in Nat /\ MaxChecks \in Nat /\ Cardinality(Hosts) \in Nat /\ Cardinality({}) = 0
  BY ImageUpdatesAssumption, FS_CardinalityType, FS_EmptySet
<1>2. remote \in 0 .. MaxDigest /\ local \in [Hosts -> NoDigest .. MaxDigest]
  BY <1>1 DEF ImageUpdatesInit, NoDigest
<1>3. AskedIsBound
  BY <1>1 DEF ImageUpdatesInit, NoRound, AskedIsBound
<1> QED BY <1>2, <1>3 DEF ImageUpdatesInit, NoRound, UpdatesMore

(* A check begins within the bounds.                                         *)
LEMMA BeginMore ==
  ASSUME UpdatesMore, NEW h \in Hosts, NEW by \in {"user", "round"}, Begin(h, by),
         asked' \in 1 .. MaxChecks + Cardinality(Hosts) * MaxChecks
  PROVE  checks' \subseteq Checks /\ overlaps' \subseteq Hosts
<1>1. CASE local[h] = NoDigest
  BY <1>1 DEF Begin, Cached, UpdatesMore
<1>2. CASE local[h] # NoDigest
  <2> DEFINE c == [host |-> h, start |-> asked', local |-> local[h], by |-> by, at |-> "manifest"]
  <2>1. local[h] \in NoDigest .. MaxDigest
    BY DEF UpdatesMore
  <2>2. c \in Checks
    BY <2>1 DEF Checks
  <2>3. checks' = checks \cup {c} /\ overlaps' \subseteq overlaps \cup {h}
    BY <1>2 DEF Begin
  <2> HIDE DEF c
  <2> QED BY <2>2, <2>3 DEF UpdatesMore
<1> QED BY <1>1, <1>2

LEMMA UserCheckMore == ASSUME UpdatesInv, UpdatesMore, NEW h \in Hosts, UserCheck(h) PROVE UpdatesMore'
<1>1. /\ asked < MaxChecks /\ asked' = asked + 1 /\ Begin(h, "user")
      /\ UNCHANGED <<remote, local, reach, round, sure, unsaid>>
  BY DEF UserCheck
<1>2. asked' \in 1 .. MaxChecks + Cardinality(Hosts) * MaxChecks
  <2>1. asked' \in Nat /\ asked' >= 1 /\ asked' <= MaxChecks + Cardinality(Hosts) /\ MaxChecks >= 1
    BY <1>1, HostsLeft
  <2> QED BY <2>1, HostsLeft, StartsInBounds
<1>3. checks' \subseteq Checks /\ overlaps' \subseteq Hosts
  BY <1>1, <1>2, BeginMore
<1>4. AskedIsBound'
  BY <1>1, HostsLeft DEF AskedIsBound
<1> QED BY <1>1, <1>3, <1>4 DEF UpdatesMore

LEMMA RoundHostMore == ASSUME UpdatesInv, UpdatesMore, NEW h \in Hosts, RoundHost(h) PROVE UpdatesMore'
<1>1. /\ round.at = "list" /\ h \in round.left /\ asked' = asked + 1
      /\ UNCHANGED <<remote, local, reach, sure, unsaid>>
  BY DEF RoundHost
<1>2. round'.left = round.left \ {h}
  BY DEF RoundHost, UpdatesInv, UpdatesTyped
<1>3. Cardinality(round.left \ {h}) = Cardinality(round.left) - 1 /\ Cardinality(round.left \ {h}) \in Nat
  <2>1. IsFiniteSet(round.left) /\ IsFiniteSet(round.left \ {h})
    BY ImageUpdatesAssumption, FS_Subset, HostsLeft
  <2> QED BY <1>1, <2>1, FS_RemoveElement, FS_CardinalityType
<1>4. AskedIsBound'
  BY <1>1, <1>2, <1>3, HostsLeft DEF AskedIsBound, UpdatesMore
<1>5. MaxChecks >= 1
  BY <1>1 DEF UpdatesMore
<1>6. asked' \in 1 .. MaxChecks + Cardinality(Hosts) * MaxChecks
  <2>1. asked' \in Nat /\ asked' >= 1 /\ asked' <= MaxChecks + Cardinality(Hosts)
    <3>1. asked + Cardinality(round.left) <= MaxChecks + Cardinality(Hosts) /\ Cardinality(round.left) >= 1
      BY <1>3, HostsLeft DEF UpdatesMore, AskedIsBound
    <3> QED BY <1>1, <3>1, HostsLeft
  <2> QED BY <1>5, <2>1, HostsLeft, StartsInBounds
<1>7. checks' \subseteq Checks /\ overlaps' \subseteq Hosts
  <2>1. CASE h \in reach
    BY <1>6, <2>1, BeginMore DEF RoundHost
  <2>2. CASE h \notin reach
    BY <2>2 DEF RoundHost, UpdatesMore
  <2> QED BY <2>1, <2>2
<1> QED BY <1>1, <1>4, <1>5, <1>7 DEF UpdatesMore

LEMMA AnswerMore == ASSUME UpdatesInv, UpdatesMore, NEW c \in checks, Answer(c) PROVE UpdatesMore'
<1>1. UNCHANGED <<remote, local, reach, asked, unsaid>>
  BY DEF Answer
<1>2. c \in Checks /\ c.host \in Hosts
  BY DEF UpdatesMore, Checks
<1>3. ASSUME NEW update, NEW digest, Ends(c, update, digest) PROVE UpdatesMore'
  <2>1. checks' \subseteq checks /\ overlaps' \subseteq overlaps \cup {c.host}
    BY <1>3 DEF Ends, Cached
  <2>2. round'.left = round.left /\ (round'.at # "idle" => round.at # "idle")
    <3>1. CASE c.by = "round"
      <4>1. round.at = c.host /\ c.host # "idle"
        BY <1>2, <3>1, ImageUpdatesAssumption DEF UpdatesInv, RoundWaits
      <4>2. round'.left = round.left
        BY <1>3, <3>1 DEF Ends, Counted, UpdatesInv, UpdatesTyped
      <4> QED BY <4>1, <4>2
    <3>2. CASE c.by # "round"
      BY <1>3, <3>2 DEF Ends, Counted
    <3> QED BY <3>1, <3>2
  <2>3. AskedIsBound'
    BY <1>1, <2>2 DEF AskedIsBound, UpdatesMore
  <2> QED BY <1>1, <1>2, <2>1, <2>2, <2>3 DEF UpdatesMore
<1>4. ASSUME NEW to \in {"token", "again"}, checks' = (checks \ {c}) \cup {[c EXCEPT !.at = to]},
             UNCHANGED <<statuses, newest, overlaps, round>>
      PROVE  UpdatesMore'
  <2>1. [c EXCEPT !.at = to] \in Checks
    BY <1>2 DEF Checks
  <2>2. AskedIsBound'
    BY <1>1, <1>4 DEF AskedIsBound, UpdatesMore
  <2> QED BY <1>1, <1>4, <2>1, <2>2 DEF UpdatesMore
<1> QED BY <1>3, <1>4 DEF Answer

LEMMA RoundMore == ASSUME UpdatesInv, UpdatesMore, StartRound \/ EndRound PROVE UpdatesMore'
<1>1. CASE StartRound
  <2>1. asked' = asked + 1 /\ asked < MaxChecks /\ round'.left = Hosts
    BY <1>1 DEF StartRound
  <2>2. AskedIsBound' /\ MaxChecks >= 1
    BY <2>1, HostsLeft DEF AskedIsBound
  <2> QED BY <1>1, <2>2 DEF StartRound, UpdatesMore
<1>2. CASE EndRound
  <2>1. round' = NoRound /\ round.left = {} /\ round'.left = {} /\ round'.at = "idle" /\ asked' = asked
    BY <1>2 DEF EndRound, NoRound
  <2>2. AskedIsBound'
    BY <2>1 DEF AskedIsBound, UpdatesMore
  <2>3. unsaid' \in BOOLEAN
    BY <1>2 DEF EndRound, UpdatesMore
  <2> QED BY <1>2, <2>1, <2>2, <2>3 DEF EndRound, UpdatesMore
<1> QED BY <1>1, <1>2

LEMMA WorldMore ==
  ASSUME UpdatesInv, UpdatesMore, Publish \/ (\E h \in Hosts : Pull(h) \/ HostTurns(h)) PROVE UpdatesMore'
<1>1. UNCHANGED <<checks, round, asked, overlaps, unsaid>>
  BY DEF Publish, Pull, HostTurns
<1>2. remote' \in 0 .. MaxDigest /\ local' \in [Hosts -> NoDigest .. MaxDigest]
  BY ImageUpdatesAssumption DEF Publish, Pull, HostTurns, UpdatesMore, NoDigest
<1>3. AskedIsBound'
  BY <1>1 DEF AskedIsBound, UpdatesMore
<1> QED BY <1>1, <1>2, <1>3 DEF UpdatesMore

LEMMA UpdatesMoreStep == UpdatesInv /\ UpdatesMore /\ [ImageUpdatesNext]_imageUpdatesVars => UpdatesMore'
<1> SUFFICES ASSUME UpdatesInv, UpdatesMore, [ImageUpdatesNext]_imageUpdatesVars PROVE UpdatesMore'
  OBVIOUS
<1>1. CASE ImageUpdatesNext
  BY <1>1, UserCheckMore, RoundHostMore, AnswerMore, RoundMore, WorldMore DEF ImageUpdatesNext
<1>2. CASE UNCHANGED imageUpdatesVars
  BY <1>2 DEF imageUpdatesVars, UpdatesMore, AskedIsBound
<1> QED BY <1>1, <1>2

LEMMA ImageUpdatesTypes == ImageUpdatesSpec => []ImageUpdatesTypeOK
<1>1. ImageUpdatesInit => UpdatesInv /\ UpdatesMore
  BY UpdatesInitInv, UpdatesMoreInit
<1>2. UpdatesInv /\ UpdatesMore /\ [ImageUpdatesNext]_imageUpdatesVars => UpdatesInv' /\ UpdatesMore'
  BY UpdatesStep, UpdatesMoreStep
<1> QED BY <1>1, <1>2, UpdatesTypesAreOK, PTL DEF ImageUpdatesSpec

=============================================================================
