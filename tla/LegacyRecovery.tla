------------------------------ MODULE LegacyRecovery ------------------------------
(***************************************************************************)
(* Recovery of the merges that writers before v5 left unfinished           *)
(* (recover_pending and legacy_has_pending_recovery in crates/inex-git/    *)
(* src/lib.rs).  No command writes these journals any more, but every      *)
(* merge and every recover first settles the one it finds.  The writer is  *)
(* a sequence of changes of the disk, cut by a kill after any of them;     *)
(* recovery is another one, and may be cut as well.  Between two runs the  *)
(* user goes on working.                                                   *)
(*                                                                         *)
(* A disk is a record.  Private files are Gone, Partial or Whole, or an    *)
(* index "old" or "new"; index is also "drifted" (old, with another entry  *)
(* changed), "later" (new, with another entry changed) or "reset"; lock is *)
(* .git/index.lock: Gone, the "marker", the "new" index or "git" for some  *)
(* other process; target and source are the two files of the worktree.     *)
(***************************************************************************)
EXTENDS Naturals, SequencesExt

CONSTANTS
  MaxRecoveries,      \* the recoveries that run, one after another
  MaxForeign    \* the changes that the user makes meanwhile

ASSUME LegacyBounds == MaxRecoveries \in Nat /\ MaxForeign \in Nat

Gone == "gone"
Partial == "partial"
Whole == "whole"
PlanKinds == {"InPlace", "DetectedRename", "SplitRename"}

\* cas: the writer is v4, which compares and swaps the index.  had: the source of a
\* split rename is in the worktree.
Before(kind, cas, had) ==
  [kind |-> kind, cas |-> cas, had |-> had,
   resStaging |-> Gone, reservation |-> Gone, candidate |-> Gone, candidateLock |-> Gone,
   initial |-> Gone, final |-> Gone, marker |-> Gone, journalStaging |-> Gone,
   journal |-> Gone, lock |-> Gone, index |-> "old", target |-> "old",
   source |-> IF had THEN "old" ELSE Gone]
Disks == {Before(k, cas, k = "SplitRename" /\ had) : k \in PlanKinds, cas \in BOOLEAN, had \in BOOLEAN}

\* The disks from d on, one for each change.
Path(d, changes) == FoldLeft(LAMBDA path, c : Append(path, c @@ Last(path)), <<d>>, changes)

-----------------------------------------------------------------------------
(* The writers.                                                            *)

\* create_private_file.
Create(name) == <<name :> Partial, name :> Whole>>

\* prepare_index_cas: the reservation, the candidate with its receipts, the lock.
Prepare ==
  Create("resStaging") \o <<[resStaging |-> Gone, reservation |-> Whole]>>
    \o <<[candidate |-> Partial], [candidate |-> "old"]>> \o Create("initial")
    \o <<[candidateLock |-> Whole], [candidate |-> "new", candidateLock |-> Gone]>>
    \o Create("final") \o Create("marker") \o <<[marker |-> Gone, lock |-> "marker"]>>

\* write_journal.
Journal == Create("journalStaging") \o <<[journalStaging |-> Gone, journal |-> Whole]>>

\* remove_prelock_after_stable_journal.
DropReservation == <<[final |-> Gone], [initial |-> Gone], [reservation |-> Gone]>>

\* advance_split_rename_worktree: the destination before the source.
Worktree(d) ==
  <<[target |-> "new"]>> \o (IF d.kind = "SplitRename" THEN <<[source |-> Gone]>> ELSE <<>>)

Merged(d) == d.index \in {"new", "later"}

\* update_index: through publish_cas_index, or by Git itself.
Index(d) ==
  CASE Merged(d) -> <<>>
    [] ~Merged(d) /\ ~d.cas ->
         <<[lock |-> "git"],
           [lock |-> Gone, index |-> IF d.index = "old" THEN "new" ELSE "later"]>>
    [] ~Merged(d) /\ d.cas ->
         <<[candidate |-> Gone, lock |-> "new"], [lock |-> Gone, index |-> "new"]>>

Writer(d) ==
  (IF d.cas THEN Prepare \o Journal \o DropReservation ELSE Journal)
    \o Worktree(d) \o Index(d) \o <<[journal |-> Gone]>>

-----------------------------------------------------------------------------
(* Recovery: a result, and the changes made before it.                     *)

Settled(changes) == [result |-> "recovered", changes |-> changes]
Refused == [result |-> "refused", changes |-> <<>>]
Nothing == [result |-> "nothing", changes |-> <<>>]

\* exact_reserved_private_names.
PrivateNames == {"resStaging", "reservation", "candidate", "candidateLock", "initial",
                 "final", "marker", "journalStaging", "journal"}
Reserved(d) == {name \in PrivateNames : d[name] # Gone}
Readable(receipt) == receipt \in {Gone, Whole}

\* inspect_orphan_prelock_staging.
OrphanStaging(d) ==
  /\ Reserved(d) = {"resStaging"} /\ d.resStaging = Whole
  /\ d.lock = Gone /\ d.index = "old"

\* validate_prelock_owned_files: the newest receipt says what the candidate is.
OwnedFilesFit(d) ==
  /\ Readable(d.initial) /\ Readable(d.final)
  /\ d.final # Gone => d.initial # Gone
  /\ d.candidateLock = Gone
  /\ d.candidate # Gone =>
       \/ d.final # Gone /\ d.candidate = "new"
       \/ d.final = Gone /\ d.initial # Gone /\ d.candidate = "old"
  /\ d.marker # Gone => d.final # Gone /\ d.marker = Whole

\* clean_verified_prelock_owned_files: the receipts outlive what they describe.
CleanOwnedFiles == <<[marker |-> Gone], [candidate |-> Gone]>> \o DropReservation

\* recover_prelock_without_index_lock.
RecoverPrelock(d) ==
  IF /\ d.lock = Gone /\ d.journalStaging = Gone /\ d.resStaging = Gone
     /\ d.index = "old" /\ OwnedFilesFit(d)
  THEN Settled(CleanOwnedFiles) ELSE Refused

\* inspect_abandoned_cas_reservation: the lock is taken, the journal not published.
MarkerFits(d) == d.marker = Gone /\ d.candidate = "new" /\ d.index = "old"

\* recover_abandoned_cas_reservation: the lock goes before what proves it ours.
RecoverMarker(d) ==
  IF /\ MarkerFits(d)
     /\ d.reservation # Gone => d.initial = Whole /\ d.final = Whole
     /\ d.journalStaging # Partial
  THEN Settled(<<[journalStaging |-> Gone], [lock |-> Gone], [candidate |-> Gone]>>
                 \o (IF d.reservation # Gone THEN DropReservation ELSE <<>>))
  ELSE Refused

RecoverUnjournaled(d) ==
  CASE d.reservation = Gone /\ d.resStaging # Gone ->
         IF OrphanStaging(d) THEN Settled(<<[resStaging |-> Gone]>>) ELSE Refused
    [] (d.reservation # Gone \/ d.resStaging = Gone) /\ d.lock = "marker" -> RecoverMarker(d)
    [] (d.reservation # Gone \/ d.resStaging = Gone) /\ d.lock # "marker" ->
         IF d.reservation # Gone THEN RecoverPrelock(d)
         ELSE IF Reserved(d) = {} THEN Nothing ELSE Refused

\* recover_pending and remove_prelock_after_stable_journal: what may lie beside a
\* journal.
BesideJournal(d) ==
  IF d.reservation = Gone THEN {d.resStaging, d.initial, d.final} = {Gone}
  ELSE /\ d.cas
       /\ d.resStaging = Gone /\ d.journalStaging = Gone
       /\ d.candidateLock = Gone /\ d.marker = Gone
       /\ Readable(d.initial) /\ Readable(d.final)

\* recover_cas_pending: the candidate is beside the index, on the lock or in place.
CasFits(d) ==
  \/ d.index = "old" /\ d.lock = "marker" /\ d.candidate = "new"
  \/ d.index = "old" /\ d.lock = "new" /\ d.candidate = Gone
  \/ Merged(d) /\ d.lock \notin {"marker", "new"} /\ d.candidate = Gone

\* What recovery of each payload asks of the index and of the worktree: both are as
\* before or as after the merge, never the index alone for a rename.
InPlaceFits(d) == d.target \in {"old", "new"}
DetectedFits(d) ==
  d.source = Gone /\ d.target \in (IF Merged(d) THEN {"new"} ELSE {"old", "new"})
SplitFits(d) ==
  LET left == IF d.had THEN "old" ELSE Gone
  IN \/ d.target = "new" /\ d.source = Gone
     \/ ~Merged(d) /\ d.target \in {"old", "new"} /\ d.source = left
PayloadFits(d) ==
  /\ d.index # "reset"
  /\ CASE d.kind = "InPlace" -> InPlaceFits(d)
       [] d.kind = "DetectedRename" -> DetectedFits(d)
       [] d.kind = "SplitRename" -> SplitFits(d)

\* A lock of another Git makes update_index fail after the worktree was written.
RecoverPayload(d) ==
  CASE ~PayloadFits(d) -> Refused
    [] PayloadFits(d) /\ Index(d) # <<>> /\ d.lock = "git" ->
         [result |-> "refused", changes |-> Worktree(d)]
    [] OTHER -> Settled(Worktree(d) \o Index(d) \o <<[journal |-> Gone]>>)

RecoverJournal(d) ==
  IF ~BesideJournal(d) THEN Refused
  ELSE LET dropped == IF d.reservation # Gone THEN DropReservation ELSE <<>>
           after == Last(Path(d, dropped))
           payload == IF d.cas => CasFits(after) THEN RecoverPayload(after) ELSE Refused
       IN [payload EXCEPT !.changes = dropped \o @]

Recover(d) == IF d.journal # Gone THEN RecoverJournal(d) ELSE RecoverUnjournaled(d)
Recovery(d) == Path(d, Recover(d).changes)

\* legacy_has_pending_recovery, which `inex verify` prints.
HasPending(d) ==
  LET Told(fits) == IF fits THEN "yes" ELSE "error"
  IN CASE d.journal # Gone ->
            Told(IF d.reservation # Gone
                 THEN d.cas /\ d.journalStaging = Gone /\ Readable(d.initial) /\ Readable(d.final)
                 ELSE {d.resStaging, d.initial, d.final} = {Gone})
       [] d.journal = Gone /\ d.reservation # Gone ->
            Told(d.journalStaging = Gone /\ d.resStaging = Gone /\ OwnedFilesFit(d))
       [] d.journal = Gone /\ d.reservation = Gone /\ d.resStaging # Gone ->
            Told(OrphanStaging(d))
       [] OTHER -> IF d.lock = "marker" THEN "yes"
                   ELSE IF Reserved(d) = {} THEN "no" ELSE "error"

-----------------------------------------------------------------------------
(* The disks that runs, kills and the user's work reach.                   *)

\* Git takes or leaves the lock, changes another entry or gives up the merge, none
\* of them while the lock is held; a session saves one of the files.
Worked(d) ==
  LET Drift == CASE d.index = "old" -> {"drifted"} [] d.index = "new" -> {"later"} [] OTHER -> {}
  IN (IF d.lock = Gone
      THEN {[d EXCEPT !.lock = "git"], [d EXCEPT !.index = "reset"]}
             \cup {[d EXCEPT !.index = i] : i \in Drift}
      ELSE IF d.lock = "git" THEN {[d EXCEPT !.lock = Gone]} ELSE {})
     \cup {[d EXCEPT !.target = "edited"], [d EXCEPT !.source = "edited"]}

Killed == UNION {ToSet(Path(d, Writer(d))) : d \in Disks}
AfterRuns(disks) ==
  LET runs[n \in 0..MaxRecoveries] ==
        IF n = 0 THEN disks ELSE runs[n - 1] \cup UNION {ToSet(Recovery(d)) : d \in runs[n - 1]}
  IN runs[MaxRecoveries]
Alone == AfterRuns(Killed)
Reached ==
  LET works[n \in 0..MaxForeign] ==
        IF n = 0 THEN Alone
        ELSE works[n - 1] \cup AfterRuns(UNION {Worked(d) : d \in works[n - 1]})
  IN works[MaxForeign]

-----------------------------------------------------------------------------
(* What recovery promises, on every disk reached.                          *)

\* A file was being written, or the candidate is not what its newest receipt says:
\* the gaps of the earlier writers, which recovery leaves for an audit.
Gap(d) ==
  \/ \E name \in PrivateNames : d[name] = Partial
  \/ d.candidateLock # Gone
  \/ /\ d.journal = Gone /\ d.lock # "marker" /\ d.candidate # Gone
     /\ d.candidate # (CASE d.final = Whole -> "new"
                         [] d.final # Whole /\ d.initial = Whole -> "old"
                         [] OTHER -> Gone)
  \/ d.journal = Gone /\ d.reservation = Gone /\ d.journalStaging # Gone
  \/ ~d.cas /\ d.lock = "git"

\* When nobody else works on the repository, recovery refuses nothing but the gaps,
\* and it makes none: it may be killed anywhere and run again.
ASSUME RefusesOnlyGaps ==
  \A d \in Alone :
    /\ Recover(d).result = "refused" <=> Gap(d)
    /\ ~Gap(d) => \A e \in ToSet(Recovery(d)) : ~Gap(e) \/ (~d.cas /\ e.lock = "git")

\* A merge whose journal was published is completed in the index and the worktree,
\* any other one is undone; no private file is left.
ASSUME RecoversAllOrNothing ==
  \A d \in Reached :
    Recover(d).result = "recovered" =>
      LET e == Last(Recovery(d))
      IN /\ Reserved(e) = {} /\ e.lock \in {Gone, "git"}
         /\ IF d.journal # Gone
            THEN /\ Merged(e) /\ e.target = "new"
                 /\ e.kind = "SplitRename" => e.source = Gone
            ELSE e = [Before(d.kind, d.cas, d.had) EXCEPT !.target = d.target, !.source = d.source]

\* Recovery never undoes or overwrites what the user did meanwhile: an edited file,
\* another entry of the index, a merge that was given up, another process's lock.
ASSUME OthersWorkIsKept ==
  \A d \in Reached : \A e \in ToSet(Recovery(d)) :
    /\ d.target = "edited" => e.target = "edited"
    /\ d.kind = "SplitRename" /\ d.source = "edited" => e.source = "edited"
    /\ d.index = "drifted" => e.index \in {"drifted", "later"}
    /\ d.index \in {"later", "reset"} => e.index = d.index
    /\ d.lock = "git" => e.lock = "git"

\* Once the index has the result, another entry changed by Git does not stop recovery.
ASSUME LaterEntriesDoNotMatter ==
  \A d \in Alone :
    d.index = "new" => Recover([d EXCEPT !.index = "later"]).result = Recover(d).result

\* In the worktree a merge only goes forward, and the index never names a result
\* that the worktree does not have, unless the user changed a file.
ASSUME WorktreeBeforeIndex ==
  \A d \in Alone : \A e \in {d} \cup ToSet(Recovery(d)) :
    /\ e.index = "new" => e.target = "new" /\ e.source = Gone
    /\ e.source = Gone /\ e.had => e.target = "new"
    /\ e.target = "new" => d.target = "new" \/ d.journal # Gone

\* `inex verify` says that something is pending where recovery does something, and
\* nothing where it does nothing (docs/spec/git-merge-v1.md); the exception is a v4
\* journal that was written but not published, where verify fails.
ASSUME VerifyTellsPending ==
  \A d \in Reached :
    /\ HasPending(d) = "no" <=> Recover(d).result = "nothing"
    /\ Recover(d).result = "recovered" =>
         HasPending(d) = IF d.lock = "marker" /\ d.journalStaging = Whole THEN "error" ELSE "yes"

=============================================================================
