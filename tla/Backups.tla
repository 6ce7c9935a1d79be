------------------------------ MODULE Backups ------------------------------
(***************************************************************************)
(* Backups as files (apps/server/src/scheduledBackups.ts and build() of    *)
(* backup.ts): scheduled, requested and downloaded backups are built from  *)
(* the stacks while these come and go, several at a time; a scheduled or   *)
(* requested one becomes a file that is named for the time it was built,   *)
(* and the oldest files in excess of keepCount are removed.                *)
(***************************************************************************)
EXTENDS Integers, FiniteSets, FiniteSetsExt

CONSTANTS
  Names,    \* the names of stacks
  Runs,     \* the identities of builds
  Keeps,    \* the keepCounts that are set
  MaxTime   \* bound: the clock, in milliseconds

ASSUME BackupsAssumption ==
  /\ IsFiniteSet(Names) /\ IsFiniteSet(Runs)
  /\ Keeps \subseteq Nat /\ (\E n \in Keeps : \A m \in Keeps : n >= m) /\ MaxTime \in Nat

VARIABLES
  stacks,   \* per name: no directory, a directory without its compose file, or both
  builds,   \* per run: what it does, where it is and the stacks it has yet to read
  backups,  \* the files, by the time in their name
  torn,     \* those of them that a crash left half written
  keep,     \* keepCount in the settings
  clock,
  written,  \* history: the times at which a file was written to its end
  deleted   \* history: those an administrator deleted

backupsVars == <<stacks, builds, backups, torn, keep, clock, written, deleted>>

BuildKinds == {"scheduled", "requested", "download"}
NoBuild == [kind |-> "none", at |-> "none", left |-> {}]
Builds == [kind : BuildKinds, at : {"listing", "reading"}, left : SUBSET Names] \cup {NoBuild}

BackupsTypeOK ==
  /\ stacks \in [Names -> {"absent", "half", "whole"}]
  /\ builds \in [Runs -> Builds]
  /\ keep \in Keeps /\ clock \in 0 .. MaxTime
  /\ backups \subseteq 0 .. clock /\ torn \subseteq backups
  /\ written \subseteq 0 .. clock /\ deleted \subseteq written

BackupsInit ==
  /\ stacks \in [Names -> {"absent", "whole"}]
  /\ builds = [r \in Runs |-> NoBuild]
  /\ backups = {} /\ torn = {} /\ written = {} /\ deleted = {}
  /\ keep \in Keeps
  /\ clock = 0

-----------------------------------------------------------------------------
\* run() and the export: the rows are read, listNames() is awaited.
StartBuild(r, kind) ==
  /\ builds[r] = NoBuild
  /\ builds' = [builds EXCEPT ![r] = [kind |-> kind, at |-> "listing", left |-> {}]]
  /\ UNCHANGED <<stacks, backups, torn, keep, clock, written, deleted>>

\* readdir() answers: every directory is taken for a stack.
ListNames(r) ==
  /\ builds[r].at = "listing"
  /\ builds' = [builds EXCEPT ![r].at = "reading", ![r].left = {n \in Names : stacks[n] # "absent"}]
  /\ UNCHANGED <<stacks, backups, torn, keep, clock, written, deleted>>

\* One of the reads under way answers; one without a file fails the build, and
\* with it the run: a scheduled one tells the notification targets.
ReadStack(r, n) ==
  /\ builds[r].at = "reading" /\ n \in builds[r].left
  /\ builds' = IF stacks[n] = "whole"
                 THEN [builds EXCEPT ![r].left = @ \ {n}]
                 ELSE [builds EXCEPT ![r] = NoBuild]
  /\ UNCHANGED <<stacks, backups, torn, keep, clock, written, deleted>>

\* pruneOldBackups(): the names sort by time, the first ones go.
AtLeastOneFile(n) == IF n < 1 THEN 1 ELSE n

PrunedNewest(files, count) ==    \* mutant: sorted the other way round
  {f \in files : Cardinality({g \in files : g < f}) < count}

Pruned(files, count) ==
  {f \in files : Cardinality({g \in files : g > f}) < AtLeastOneFile(count)}

\* The last read has answered: the backup is dated, written and the excess
\* removed without another await.
FinishBuild(r) ==
  /\ builds[r].at = "reading" /\ builds[r].left = {}
  /\ builds' = [builds EXCEPT ![r] = NoBuild]
  /\ IF builds[r].kind = "download"
       THEN UNCHANGED <<backups, torn, written, deleted>>
       ELSE /\ backups' = Pruned(backups \cup {clock}, keep)
            /\ torn' = (torn \cap backups') \ {clock}
            /\ written' = written \cup {clock}
            /\ deleted' = deleted \ {clock}
  /\ UNCHANGED <<stacks, keep, clock>>

\* The server ends while it writes: the file is there, not all of it, and
\* nothing was removed.
CrashWriting(r) ==
  /\ builds[r].at = "reading" /\ builds[r].left = {} /\ builds[r].kind # "download"
  /\ builds' = [q \in Runs |-> NoBuild]
  /\ backups' = backups \cup {clock} /\ torn' = torn \cup {clock}
  /\ deleted' = deleted \ {clock}
  /\ UNCHANGED <<stacks, keep, clock, written>>

\* deleteScheduled()
DeleteBackup(f) ==
  /\ f \in backups
  /\ backups' = backups \ {f} /\ torn' = torn \ {f}
  /\ deleted' = deleted \cup (written \cap {f})
  /\ UNCHANGED <<stacks, builds, keep, clock, written>>

SetKeep(n) ==
  /\ keep' = n
  /\ UNCHANGED <<stacks, builds, backups, torn, clock, written, deleted>>

\* write() makes the directory and then the file; delete() removes the
\* directory with what is in it.
StackStep(n) ==
  /\ stacks' \in {[stacks EXCEPT ![n] = s] :
                    s \in CASE stacks[n] = "absent" -> {"half"}
                            [] stacks[n] = "half"   -> {"whole", "absent"}
                            [] stacks[n] = "whole"  -> {"absent"}}
  /\ UNCHANGED <<builds, backups, torn, keep, clock, written, deleted>>

BackupClock ==
  /\ clock < MaxTime /\ clock' = clock + 1
  /\ UNCHANGED <<stacks, builds, backups, torn, keep, written, deleted>>

BackupsNext ==
  \/ \E r \in Runs : \/ \E kind \in BuildKinds : StartBuild(r, kind)
                     \/ ListNames(r) \/ FinishBuild(r) \/ CrashWriting(r)
                     \/ \E n \in Names : ReadStack(r, n)
  \/ \E n \in Names : StackStep(n)
  \/ \E f \in backups : DeleteBackup(f)
  \/ \E n \in Keeps : SetKeep(n)
  \/ BackupClock

BackupsSpec == BackupsInit /\ [][BackupsNext]_backupsVars

-----------------------------------------------------------------------------
\* However many runs overlap, whenever keepCount is changed and whatever an
\* earlier crash left behind, a backup that was written is only ever removed by
\* an administrator or to make room for newer ones: every file that is left is
\* newer than it, and the newest written is there (scheduledBackups.ts run and
\* pruneOldBackups).
OnlyOlderPruned ==
  \A f \in written \ (backups \cup deleted) :
    /\ \A g \in backups : f < g
    /\ \E g \in written : f < g

\* keepCount bounds the files: as many as the largest count in the settings,
\* and one more for each crash during a write since.
NoMoreThanKept ==
  Cardinality(backups \ torn) <= AtLeastOneFile(Max(Keeps))

\* Backups are kept as they should be (scheduledBackups.ts).
BackupsKept == OnlyOlderPruned /\ NoMoreThanKept

=============================================================================
