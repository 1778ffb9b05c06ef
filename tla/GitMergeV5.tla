------------------------------ MODULE GitMergeV5 ------------------------------
(***************************************************************************)
(* The merge transaction of inex-git: crates/inex-git/src/lib.rs and       *)
(* candidate_bundle_v5.rs.                                                 *)
(*                                                                         *)
(* `inex merge` replaces one conflict of the Git index by an encrypted     *)
(* result.  Two files must change together, the document in the worktree   *)
(* and .git/index, so the change is prepared as a bundle in .vault-local,  *)
(* .git/index.lock is taken with a marker that other Git commands respect, *)
(* and a journal makes the transaction final before either file changes.   *)
(* Every run first finishes whatever an earlier run left behind; the       *)
(* writer and the recovery are the same code, driven by what is on disk.   *)
(*                                                                         *)
(* One set of files is a record.  "vis" is the visible one and "disk" the  *)
(* set of those that a power loss may leave.  A rename is atomic, also     *)
(* between two directories, and the changes of one directory reach the     *)
(* disk in their order; different directories are independent until they   *)
(* are synchronized.                                                       *)
(***************************************************************************)
EXTENDS Naturals

CONSTANTS
  Procs,      \* processes that run inex merge or inex git recover
  NoProc,     \* nobody holds the vault's mutation lock
  NoTx,       \* no transaction
  Kinds,      \* the kinds of conflict that Git may report
  MaxRuns,    \* bound: runs started
  MaxGits,    \* bound: index updates of Git commands
  MaxEdits,   \* bound: documents written by editors
  MaxFaults,  \* bound: directory fsyncs that fail
  MaxKills,   \* bound: killed processes
  MaxLosses   \* bound: power losses

\* MergePlan: a modified document; a rename that Git detected, leaving three
\* stages at the new path; a rename that it did not, leaving a conflict at the
\* old path and a stage-zero entry at the new one, on our side or on theirs.
AllKinds == {"inPlace", "detected", "splitOurs", "splitTheirs"}
Split(k) == k \in {"splitOurs", "splitTheirs"}

ASSUME NameAssumption ==
  Kinds \subseteq AllKinds /\ Kinds # {} /\ NoProc \notin Procs

ASSUME BoundAssumption ==
  /\ MaxRuns \in Nat /\ MaxGits \in Nat /\ MaxEdits \in Nat
  /\ MaxFaults \in Nat /\ MaxKills \in Nat /\ MaxLosses \in Nat

\* A document is the version of its ciphertext, a new one for every write.
Absent   == 0
Versions == 1 .. (2 + MaxRuns + MaxEdits)

\* The index entries of the merged document, and a version of all the others.
\* A conflict names the stages that Git wrote to the worktree.
Targets ==
  [kind : AllKinds \cup {"merged"}, dst : Versions, src : Versions \cup {Absent}]
Indexes == [target : Targets, rest : 0 .. MaxGits]

\* CandidateBundleManifestV5: the conflict that is merged, the source that the
\* worktree held, the exact index it starts from, and the result.
Transactions ==
  [conflict : Targets, src : Versions \cup {Absent}, old : Indexes,
   result : Versions]

ASSUME TransactionAssumption ==
  NoTx \notin Transactions /\ NoTx \notin [conflict : Targets, result : Versions]

\* candidate.index of the bundle: apply_payload_to_index.
FinalIndex(tx) ==
  [target |-> [kind |-> "merged", dst |-> tx.result, src |-> Absent],
   rest   |-> tx.old.rest]

Steps ==
  {"idle", "recover", "inspect", "plan", "commit", "bundle", "bundleSync",
   "staging", "stagingSync", "marker", "markerMove", "markerSync", "journal",
   "journalSync", "worktree", "worktreeSync", "source", "sourceSync",
   "publish", "publishSync", "install", "installSync", "verify", "cleanup",
   "cleanupSync"}

Unguarded == {"idle", "recover", "plan", "commit"}

Replies ==
  {"none", "Merged", "Recovered", "NoConflict", "IndexChanged",
   "WorktreeChanged", "JournalAlreadyExists", "RecoveryConflict",
   "DurabilityNotConfirmed"}

VARIABLES
  vis,     \* the visible files
  disk,    \* the files that a power loss may leave
  holder,  \* the process that holds VaultMutationGuard
  pc,      \* pc[p]: the next step of p
  plan,    \* plan[p]: the conflict that p merges and its encrypted result
  reply,   \* what the last step returned to its caller, if it returned
  born,    \* the last ciphertext version
  runs, gits, edits, faults, kills, losses

files  == <<vis, disk>>
counts == <<born, runs, gits, edits, faults, kills, losses>>
others == <<plan, born, runs, gits, edits, kills, losses>>
vars   == <<vis, disk, holder, pc, plan, reply, born, runs, gits, edits, faults,
            kills, losses>>

Owned(kinds) ==
  [kind : {"none"}, tx : {NoTx}] \cup [kind : kinds, tx : Transactions]

\* bundle: the directory in .vault-local, under its stable or its cleanup name;
\* publish: the staged copy of the candidate index; journal: the active journal
\* or the receipt it becomes; lock: .git/index.lock.
IsFiles(s) ==
  /\ s.bundle \in Owned({"stable", "full", "manifest", "empty"})
  /\ s.publish \in Transactions \cup {NoTx}
  /\ s.journal \in Owned({"journal", "receipt"})
  /\ \/ s.lock \in Owned({"marker", "candidate"})
     \/ s.lock = [kind |-> "foreign", tx |-> NoTx]
  /\ s.index \in Indexes
  /\ s.dst \in Versions /\ s.src \in Versions \cup {Absent}

\* The visible files are one of the possibilities on disk, each of them well
\* formed, and at most the lock holder is in a step that needs the lock.
TypeOK ==
  /\ vis \in disk /\ \A s \in disk : IsFiles(s)
  /\ holder \in Procs \cup {NoProc}
  /\ pc \in [Procs -> Steps]
  /\ \A p \in Procs : pc[p] \notin Unguarded <=> holder = p
  /\ \A p \in Procs :
       plan[p] = NoTx \/ plan[p] \in [conflict : Targets, result : Versions]
  /\ reply \in Replies
  /\ born \in 2 .. (2 + runs + edits)
  /\ runs \in 0 .. MaxRuns /\ gits \in 0 .. MaxGits /\ edits \in 0 .. MaxEdits
  /\ faults \in 0 .. MaxFaults /\ kills \in 0 .. MaxKills
  /\ losses \in 0 .. MaxLosses

None     == [kind |-> "none", tx |-> NoTx]
A(k, tx) == [kind |-> k, tx |-> tx]

\* Git has just stopped at a conflict.  A source exists unless Git detected
\* the rename; a rename on our side may have removed it from the worktree.
Init ==
  /\ \E k \in Kinds :
       LET stage == IF Split(k) THEN 2 ELSE Absent
       IN \E src \in {stage} \cup (IF k = "splitOurs" THEN {Absent} ELSE {}) :
            vis = [bundle |-> None, publish |-> NoTx, journal |-> None,
                   lock |-> None,
                   index |-> [target |-> [kind |-> k, dst |-> 1, src |-> stage],
                              rest |-> 0],
                   dst |-> 1, src |-> src]
  /\ disk = {vis}
  /\ holder = NoProc
  /\ pc = [p \in Procs |-> "idle"]
  /\ plan = [p \in Procs |-> NoTx]
  /\ reply = "none"
  /\ born = 2
  /\ runs = 0 /\ gits = 0 /\ edits = 0 /\ faults = 0 /\ kills = 0 /\ losses = 0

-------------------------------------------------------------------------------
(* Directories.                                                            *)

\* .vault-local, .git and the directories of the two documents.
Entries(s, d) ==
  CASE d = "local" -> <<s.bundle, s.publish, s.journal>>
    [] d = "git"   -> <<s.lock, s.index>>
    [] d = "dst"   -> <<s.dst>>
    [] d = "src"   -> <<s.src>>

\* Everything done in these directories so far is on disk.
Synced(set, dirs) ==
  {s \in set : \A d \in dirs : Entries(s, d) = Entries(vis, d)}

\* An fsync of "before", then a change of entries in the directories "dirs".
Change(before, F(_), dirs) ==
  LET reached == Synced(disk, before)
  IN /\ vis' = F(vis)
     /\ disk' = reached \cup {F(s) : s \in Synced(reached, dirs)}

Holds(p, step) == holder = p /\ pc[p] = step

Goto(p, step) ==
  /\ pc' = [pc EXCEPT ![p] = step]
  /\ reply' = "none"
  /\ UNCHANGED holder

\* Dropping the guard on the way out.
Return(p, r) ==
  /\ pc' = [pc EXCEPT ![p] = "idle"]
  /\ reply' = r
  /\ holder' = IF holder = p THEN NoProc ELSE holder

Refuse(p, r) == Return(p, r) /\ UNCHANGED <<files, faults>>

\* Some of the directories could not be synchronized: DurabilityNotConfirmed.
SyncFails(p, dirs) ==
  /\ faults < MaxFaults /\ faults' = faults + 1
  /\ \E done \in SUBSET dirs \ {dirs} : disk' = Synced(disk, done)
  /\ Return(p, "DurabilityNotConfirmed")
  /\ UNCHANGED vis

Sync(dirs) == disk' = Synced(disk, dirs) /\ UNCHANGED <<vis, faults>>

-------------------------------------------------------------------------------
(* What is on disk decides what is done: inspect_v5_prejournal_state,       *)
(* inspect_v5_postjournal_state and inspect_held_v5_cleanup_state.          *)

\* A stable bundle, with or without its staged index and its journal, and the
\* index lock absent or bound to it.
Bound(s, published, journalled, lock) ==
  LET tx == s.bundle.tx
  IN /\ s.bundle.kind = "stable"
     /\ s.publish = IF published THEN tx ELSE NoTx
     /\ s.journal = IF journalled THEN A("journal", tx) ELSE None
     /\ s.lock = IF lock = "none" THEN None ELSE A(lock, tx)

\* Mutant: the other entries of the index are not compared.
ConflictUnmoved(s) == s.index.target = s.bundle.tx.old.target

\* The live index is byte for byte the one that the bundle was built from.
Unmoved(s) == s.index = s.bundle.tx.old

StableOnly(s)      == Bound(s, FALSE, FALSE, "none") /\ Unmoved(s)
PublishReady(s)    == Bound(s, TRUE, FALSE, "none") /\ Unmoved(s)
MarkerNoJournal(s) == Bound(s, TRUE, FALSE, "marker") /\ Unmoved(s)
JournalReady(s)    == Bound(s, TRUE, TRUE, "marker") /\ Unmoved(s)
CandidateInLock(s) == Bound(s, FALSE, TRUE, "candidate") /\ Unmoved(s)
ExactFinal(s) ==
  Bound(s, FALSE, TRUE, "none") /\ s.index = FinalIndex(s.bundle.tx)
LiveIndexDrift(s) ==
  /\ Bound(s, FALSE, FALSE, "none") \/ Bound(s, TRUE, FALSE, "none")
  /\ ~ Unmoved(s)

\* The entries that a transaction wrote are still in the index.
ResultStaged(s, tx) == s.index.target = FinalIndex(tx).target

\* ExactFinal or LaterUnrelated: Git may have changed other entries since.
Completed(s) ==
  Bound(s, FALSE, TRUE, "none") /\ ResultStaged(s, s.bundle.tx)

\* V5CleanupState: the bundle is retired, then its journal becomes a receipt,
\* then its parts, its directory and the receipt are removed.
Chain ==
  << <<"stable", "journal">>, <<"full", "journal">>, <<"full", "receipt">>,
     <<"manifest", "receipt">>, <<"empty", "receipt">>, <<"none", "receipt">>,
     <<"none", "none">> >>

Place(kind, tx) == IF kind = "none" THEN None ELSE A(kind, tx)

\* inspect_held_v5_cleanup_state: the journal or the receipt names the bundle.
Retiring(s, i) ==
  /\ s.publish = NoTx
  /\ s.journal.kind = Chain[i][2]
  /\ s.bundle = Place(Chain[i][1], s.journal.tx)
  /\ s.journal.kind = "journal" => s.lock = None

Clean(s) == Retiring(s, 7)

\* recover_pending: a transaction in cleanup is looked for first.
InCleanup(s) ==
  s.bundle.kind \in {"full", "manifest", "empty"} \/ s.journal.kind = "receipt"

\* Mutant: a candidate that has already replaced the marker is not resumed.
ResumesMarkerOnly(s, step) ==
  \/ step = "staging"  /\ StableOnly(s)
  \/ step = "marker"   /\ PublishReady(s)
  \/ step = "journal"  /\ MarkerNoJournal(s)
  \/ step = "worktree" /\ JournalReady(s)
  \/ step = "verify"   /\ Completed(s)
  \/ step = "cleanup"  /\ InCleanup(s)

\* Where recover_pending resumes a transaction; nowhere if it refuses to.
Resumes(s, step) ==
  \/ step = "staging"  /\ StableOnly(s)
  \/ step = "marker"   /\ PublishReady(s)
  \/ step = "journal"  /\ MarkerNoJournal(s)
  \/ step = "worktree" /\ JournalReady(s)
  \/ step = "install"  /\ CandidateInLock(s)
  \/ step = "verify"   /\ Completed(s)
  \/ step = "cleanup"  /\ InCleanup(s)

-------------------------------------------------------------------------------
(* The worktree.                                                           *)

\* An in-place merge has no source.
SourceIs(s, conflict, allowed) == conflict.kind = "inPlace" \/ s.src \in allowed

\* What commit_result, commit_detected_rename_result and
\* commit_split_rename_result require of the worktree.
WorktreeFits(s, conflict) ==
  /\ s.dst = conflict.dst
  /\ SourceIs(s, conflict, {conflict.src} \cup
                (IF conflict.kind = "splitOurs" THEN {Absent} ELSE {}))

\* verify_authenticated_payload_original_v5, ..._worktree_final_v5.
WorktreeOriginal(s, tx) ==
  s.dst = tx.conflict.dst /\ SourceIs(s, tx.conflict, {tx.src})

WorktreeFinal(s, tx) ==
  s.dst = tx.result /\ SourceIs(s, tx.conflict, {Absent})

\* The absence of a detected rename's source is synchronized when it is seen.
SourceDirs(tx)   == IF tx.conflict.kind = "detected" THEN {"src"} ELSE {}
WorktreeDirs(tx) == IF tx.conflict.kind = "inPlace" THEN {"dst"}
                                                   ELSE {"dst", "src"}

-------------------------------------------------------------------------------
(* Starting: merge() first recovers, then plans without the guard.         *)

Start(p) ==
  /\ pc[p] = "idle" /\ runs < MaxRuns
  /\ runs' = runs + 1
  /\ plan' = [plan EXCEPT ![p] = NoTx]
  /\ Goto(p, "recover")
  /\ UNCHANGED <<files, born, gits, edits, faults, kills, losses>>

AcquireRecover(p) ==
  /\ pc[p] = "recover" /\ holder = NoProc
  /\ holder' = p
  /\ pc' = [pc EXCEPT ![p] = "inspect"]
  /\ reply' = "none"
  /\ UNCHANGED <<files, plan, counts>>

\* recover() ends here; merge() releases the guard and goes on.
Recovered(p) ==
  \/ Return(p, "Recovered")
  \/ /\ pc' = [pc EXCEPT ![p] = "plan"]
     /\ holder' = NoProc
     /\ reply' = "none"

\* recover_pending.
Inspect(p) ==
  /\ Holds(p, "inspect")
  /\ \/ \E step \in Steps : Resumes(vis, step) /\ Goto(p, step)
     \/ Clean(vis) /\ Recovered(p)
     \/ /\ ~ Clean(vis) /\ \A step \in Steps : ~ Resumes(vis, step)
        /\ Return(p, IF LiveIndexDrift(vis) THEN "IndexChanged"
                                            ELSE "RecoveryConflict")
  /\ UNCHANGED <<files, plan, counts>>

\* validate_conflict_set and prepare_result: the stages are read and their
\* merge is encrypted, all without the guard.
Plan(p) ==
  /\ pc[p] = "plan"
  /\ LET target == vis.index.target
     IN \/ /\ target.kind # "merged"
           /\ born' = born + 1
           /\ plan' = [plan EXCEPT ![p] = [conflict |-> target,
                                           result   |-> born + 1]]
           /\ Goto(p, "commit")
        \/ /\ target.kind = "merged"
           /\ Return(p, "NoConflict")
           /\ UNCHANGED <<plan, born>>
  /\ UNCHANGED <<files, runs, gits, edits, faults, kills, losses>>

\* commit_result, commit_detected_rename_result and commit_split_rename_result
\* up to commit_payload_v5.
Commit(p) ==
  LET conflict == plan[p].conflict
      dirs     == IF conflict.kind = "detected" THEN {"src"} ELSE {}
  IN /\ pc[p] = "commit" /\ holder = NoProc
     /\ \/ /\ vis.journal.kind = "journal"
           /\ Refuse(p, "JournalAlreadyExists")
        \/ /\ vis.journal.kind # "journal" /\ vis.index.target # conflict
           /\ Refuse(p, "IndexChanged")
        \/ /\ vis.journal.kind # "journal" /\ vis.index.target = conflict
           /\ ~ WorktreeFits(vis, conflict)
           /\ Refuse(p, "WorktreeChanged")
        \/ /\ vis.journal.kind # "journal" /\ vis.index.target = conflict
           /\ WorktreeFits(vis, conflict)
           /\ Sync(dirs)
           /\ holder' = p
           /\ pc' = [pc EXCEPT ![p] = "bundle"]
           /\ reply' = "none"
        \/ SyncFails(p, dirs)
     /\ UNCHANGED others

-------------------------------------------------------------------------------
(* Before the journal.                                                     *)

\* A step ends by looking at the disk again: it goes on only from the state
\* that it should have reached.
Proceed(p, reached, step) ==
  \/ reached /\ Goto(p, step)
  \/ /\ ~ reached
     /\ Return(p, IF Unmoved(vis) THEN "RecoveryConflict" ELSE "IndexChanged")

\* prepare_candidate_bundle_v5 up to the move of the directory.
MoveBundle(p) ==
  LET tx == [conflict |-> plan[p].conflict, src |-> vis.src,
             old |-> vis.index, result |-> plan[p].result]
      F(s) == [s EXCEPT !.bundle = A("stable", tx)]
  IN /\ Holds(p, "bundle")
     /\ \/ /\ ~ Clean(vis)
           /\ Refuse(p, "RecoveryConflict")
        \/ /\ Clean(vis)
           /\ Change({"local"}, F, {"local"})
           /\ Goto(p, "bundleSync")
           /\ UNCHANGED faults
        \/ SyncFails(p, {"local"})
     /\ UNCHANGED others

SyncBundle(p) ==
  /\ Holds(p, "bundleSync")
  /\ \/ Sync({"local"}) /\ Proceed(p, StableOnly(vis), "staging")
     \/ SyncFails(p, {"local"})
  /\ UNCHANGED others

\* prepare_candidate_publish_staging_v5.
MoveStaging(p) ==
  LET F(s) == [s EXCEPT !.publish = vis.bundle.tx]
  IN /\ Holds(p, "staging")
     /\ \/ ~ Unmoved(vis) /\ Refuse(p, "IndexChanged")
        \/ /\ Unmoved(vis)
           /\ Change({"local"}, F, {"local"})
           /\ Goto(p, "stagingSync")
           /\ UNCHANGED faults
        \/ SyncFails(p, {"local"})
     /\ UNCHANGED others

SyncStaging(p) ==
  /\ Holds(p, "stagingSync")
  /\ \/ Sync({"local"}) /\ Proceed(p, PublishReady(vis), "marker")
     \/ SyncFails(p, {"local"})
  /\ UNCHANGED others

\* authorize_payload_before_v5_journal: the conflict, the exact index and the
\* worktree are still those that the bundle was built from.
Authorized(s) ==
  LET tx == s.bundle.tx
  IN Unmoved(s) /\ tx.old.target = tx.conflict /\ WorktreeOriginal(s, tx)

Unauthorized(s) ==
  IF Unmoved(s) /\ s.bundle.tx.old.target = s.bundle.tx.conflict
  THEN "WorktreeChanged" ELSE "IndexChanged"

\* acquire_index_lock_marker_v5 up to audit_index_lock_marker_before_move_v5.
AuditMarker(p) ==
  LET dirs == {"local"} \cup SourceDirs(vis.bundle.tx)
  IN /\ Holds(p, "marker")
     /\ \/ ~ Authorized(vis) /\ Refuse(p, Unauthorized(vis))
        \/ Authorized(vis) /\ vis.lock # None /\ Refuse(p, "IndexChanged")
        \/ /\ Authorized(vis) /\ vis.lock = None
           /\ Sync(dirs)
           /\ Goto(p, "markerMove")
        \/ SyncFails(p, dirs)
     /\ UNCHANGED others

\* Git may have taken the lock, or used it, since the audit: the no-replace
\* move excludes the first, a second look at the index finds the second.
MoveMarker(p) ==
  LET F(s) == [s EXCEPT !.lock = A("marker", vis.bundle.tx)]
  IN /\ Holds(p, "markerMove")
     /\ \/ vis.lock # None /\ Refuse(p, "IndexChanged")
        \/ /\ vis.lock = None
           /\ Change({}, F, {"git"})
           /\ Goto(p, "markerSync")
           /\ UNCHANGED faults
     /\ UNCHANGED others

\* The end of acquire_index_lock_marker_v5; the marker stays if it fails.
SyncMarker(p) ==
  /\ Holds(p, "markerSync")
  /\ \/ Sync({"git", "local"}) /\ Proceed(p, MarkerNoJournal(vis), "journal")
     \/ SyncFails(p, {"git", "local"})
  /\ UNCHANGED others

\* publish_durable_journal_v5 up to the move of the journal.
MoveJournal(p) ==
  LET tx   == vis.bundle.tx
      dirs == {"local"} \cup SourceDirs(tx)
      F(s) == [s EXCEPT !.journal = A("journal", tx)]
  IN /\ Holds(p, "journal")
     /\ \/ ~ Authorized(vis) /\ Refuse(p, Unauthorized(vis))
        \/ /\ Authorized(vis) /\ MarkerNoJournal(vis)
           /\ Change(dirs, F, {"local"})
           /\ Goto(p, "journalSync")
           /\ UNCHANGED faults
        \/ SyncFails(p, dirs)
     /\ UNCHANGED others

\* Mutant: the journal is not synchronized before the worktree is written.
SyncJournalSkipped(p) ==
  /\ Holds(p, "journalSync")
  /\ Proceed(p, JournalReady(vis), "worktree")
  /\ UNCHANGED <<files, faults>>
  /\ UNCHANGED others

\* The marker's directory is synchronized again, after the journal's.
SyncJournal(p) ==
  /\ Holds(p, "journalSync")
  /\ \/ Sync({"local", "git"}) /\ Proceed(p, JournalReady(vis), "worktree")
     \/ SyncFails(p, {"local", "git"})
  /\ UNCHANGED others

-------------------------------------------------------------------------------
(* From the journal on the transaction only goes forward.                  *)

AfterWorktree(tx) == IF Split(tx.conflict.kind) THEN "source" ELSE "publish"

\* Mutant: the destination is written whatever it holds.
OverwriteWorktree(p) ==
  LET tx == vis.bundle.tx
      F(s) == [s EXCEPT !.dst = tx.result]
  IN /\ Holds(p, "worktree")
     /\ Change({}, F, {"dst"})
     /\ Goto(p, "worktreeSync")
     /\ UNCHANGED faults
     /\ UNCHANGED others

\* advance_in_place_worktree_v5, advance_detected_rename_worktree_v5 and the
\* first half of advance_split_rename_worktree: guard.write with IfMatch, unless
\* an earlier run has already written the result.
WriteWorktree(p) ==
  LET tx     == vis.bundle.tx
      source == SourceDirs(tx)
      Reject == IF Split(tx.conflict.kind) THEN "RecoveryConflict"
                                           ELSE "WorktreeChanged"
      Vacant == tx.conflict.kind = "detected" => vis.src = Absent
      F(s)   == [s EXCEPT !.dst = tx.result]
  IN /\ Holds(p, "worktree")
     /\ \/ ~ Unmoved(vis) /\ Refuse(p, "IndexChanged")
        \/ /\ WorktreeOriginal(vis, tx)
           /\ Change(source, F, {"dst"})
           /\ Goto(p, "worktreeSync")
           /\ UNCHANGED faults
        \/ /\ vis.dst = tx.result /\ Vacant
           /\ Sync({"dst"} \cup source)
           /\ Goto(p, AfterWorktree(tx))
        \/ /\ ~ WorktreeOriginal(vis, tx)
           /\ ~ (vis.dst = tx.result /\ Vacant)
           /\ Refuse(p, Reject)
        \/ SyncFails(p, {"dst"} \cup source)
     /\ UNCHANGED others

\* guard.write synchronizes both parents of its rename.
SyncWorktree(p) ==
  /\ Holds(p, "worktreeSync")
  /\ \/ Sync({"local", "dst"}) /\ Goto(p, AfterWorktree(vis.bundle.tx))
     \/ SyncFails(p, {"local", "dst"})
  /\ UNCHANGED others

\* The second half of advance_split_rename_worktree: guard.delete with IfMatch.
RemoveSource(p) ==
  LET tx == vis.bundle.tx
      F(s) == [s EXCEPT !.src = Absent]
  IN /\ Holds(p, "source")
     /\ \/ /\ vis.src # Absent /\ vis.src = tx.src
           /\ Change({}, F, {"src"})
           /\ Goto(p, "sourceSync")
           /\ UNCHANGED faults
        \/ /\ vis.src = Absent
           /\ Sync({"src"})
           /\ Goto(p, "publish")
        \/ /\ vis.src \notin {Absent, tx.src}
           /\ Refuse(p, "RecoveryConflict")
        \/ SyncFails(p, {"src"})
     /\ UNCHANGED others

SyncSource(p) ==
  /\ Holds(p, "sourceSync")
  /\ \/ Sync({"src"}) /\ Goto(p, "publish")
     \/ SyncFails(p, {"src"})
  /\ UNCHANGED others

\* publish_staging_over_marker_with_journal_v5, behind the verification that
\* the worktree is final and durable.
PublishStaging(p) ==
  LET tx   == vis.bundle.tx
      F(s) == [s EXCEPT !.publish = NoTx, !.lock = A("candidate", tx)]
  IN /\ Holds(p, "publish")
     /\ \/ ~ WorktreeFinal(vis, tx) /\ Refuse(p, "WorktreeChanged")
        \/ /\ WorktreeFinal(vis, tx) /\ ~ JournalReady(vis)
           /\ Refuse(p, "RecoveryConflict")
        \/ /\ WorktreeFinal(vis, tx) /\ JournalReady(vis)
           /\ Change(WorktreeDirs(tx), F, {"local", "git"})
           /\ Goto(p, "publishSync")
           /\ UNCHANGED faults
        \/ SyncFails(p, WorktreeDirs(tx))
     /\ UNCHANGED others

SyncPublish(p) ==
  /\ Holds(p, "publishSync")
  /\ \/ Sync({"local", "git"}) /\ Proceed(p, CandidateInLock(vis), "install")
     \/ SyncFails(p, {"local", "git"})
  /\ UNCHANGED others

\* Mutant: the candidate is copied over the index, and the lock stays.
InstallCopy(p) ==
  LET F(s) == [s EXCEPT !.index = FinalIndex(vis.bundle.tx)]
  IN /\ Holds(p, "install")
     /\ Change({}, F, {"git"})
     /\ Goto(p, "installSync")
     /\ UNCHANGED faults
     /\ UNCHANGED others

\* publish_candidate_lock_over_live_index_with_journal_v5.
InstallIndex(p) ==
  LET tx   == vis.bundle.tx
      F(s) == [s EXCEPT !.index = FinalIndex(tx), !.lock = None]
  IN /\ Holds(p, "install")
     /\ \/ ~ WorktreeFinal(vis, tx) /\ Refuse(p, "WorktreeChanged")
        \/ /\ WorktreeFinal(vis, tx) /\ ~ CandidateInLock(vis)
           /\ Refuse(p, "RecoveryConflict")
        \/ /\ WorktreeFinal(vis, tx) /\ CandidateInLock(vis)
           /\ Change(WorktreeDirs(tx), F, {"git"})
           /\ Goto(p, "installSync")
           /\ UNCHANGED faults
        \/ SyncFails(p, WorktreeDirs(tx))
     /\ UNCHANGED others

\* The lock is free again: Git may already have made a later index.
SyncInstall(p) ==
  /\ Holds(p, "installSync")
  /\ \/ ExactFinal(vis) /\ Sync({"git"}) /\ Goto(p, "verify")
     \/ ~ ExactFinal(vis) /\ Sync({"git"}) /\ Return(p, "RecoveryConflict")
     \/ SyncFails(p, {"git"})
  /\ UNCHANGED others

\* verify_payload_completed_v5, which synchronizes what it has seen.
Verify(p) ==
  LET dirs == WorktreeDirs(vis.bundle.tx) \cup {"git"}
  IN /\ Holds(p, "verify")
     /\ \/ ~ Completed(vis) /\ Refuse(p, "RecoveryConflict")
        \/ /\ Completed(vis) /\ ~ WorktreeFinal(vis, vis.bundle.tx)
           /\ Refuse(p, "WorktreeChanged")
        \/ /\ Completed(vis) /\ WorktreeFinal(vis, vis.bundle.tx)
           /\ Sync(dirs)
           /\ Goto(p, "cleanup")
        \/ SyncFails(p, dirs)
     /\ UNCHANGED others

\* What the edges that still have a journal verify.
Confirmed(s, tx) == ResultStaged(s, tx) /\ WorktreeFinal(s, tx)

\* advance_v5_cleanup_one: the state is made durable, the result verified while
\* there is a journal, and one edge of the chain is taken.
CleanupEdge(p) ==
  LET tx   == vis.journal.tx
      dirs == {"local"} \cup (IF vis.journal.kind = "journal"
                              THEN WorktreeDirs(tx) \cup {"git"} ELSE {})
      After(i) == LET F(s) == [s EXCEPT !.bundle = Place(Chain[i + 1][1], tx),
                                        !.journal = Place(Chain[i + 1][2], tx)]
                  IN Change(dirs, F, {"local"})
  IN /\ Holds(p, "cleanup") /\ ~ Clean(vis)
     /\ \/ \E i \in 1 .. 6 :
             /\ Retiring(vis, i)
             /\ Chain[i][2] = "journal" => Confirmed(vis, tx)
             /\ After(i)
             /\ Goto(p, "cleanupSync")
             /\ UNCHANGED faults
        \/ /\ \A i \in 1 .. 6 :
                Retiring(vis, i) =>
                  Chain[i][2] = "journal" /\ ~ Confirmed(vis, tx)
           /\ Refuse(p, "RecoveryConflict")
        \/ SyncFails(p, dirs)
     /\ UNCHANGED others

\* Mutant: an edge is not synchronized once it is taken.
SyncCleanupSkipped(p) ==
  /\ Holds(p, "cleanupSync")
  /\ Goto(p, "cleanup")
  /\ UNCHANGED <<files, faults>>
  /\ UNCHANGED others

\* The end of advance_v5_cleanup_one.
SyncCleanup(p) ==
  /\ Holds(p, "cleanupSync")
  /\ \/ Sync({"local"}) /\ Goto(p, "cleanup")
     \/ SyncFails(p, {"local"})
  /\ UNCHANGED others

\* The end of recover_pending, or of commit_payload_v5.
Done(p) ==
  /\ Holds(p, "cleanup") /\ Clean(vis)
  /\ IF plan[p] = NoTx THEN Recovered(p) ELSE Return(p, "Merged")
  /\ UNCHANGED <<files, plan, counts>>

-------------------------------------------------------------------------------
(* Everybody else.                                                         *)

Quiet == UNCHANGED <<holder, pc, plan>> /\ reply' = "none"

\* A Git command creates .git/index.lock, unless there is one.
GitLock ==
  LET F(s) == [s EXCEPT !.lock = [kind |-> "foreign", tx |-> NoTx]]
  IN /\ vis.lock = None /\ gits < MaxGits
     /\ Change({}, F, {"git"})
     /\ Quiet /\ UNCHANGED counts

\* It renames its lock onto the index: other entries changed, and the merged
\* document perhaps as well (git add, or another git merge that stops at it).
GitUpdate ==
  LET add   == [kind |-> "merged", dst |-> vis.dst, src |-> Absent]
      again == [kind |-> "inPlace", dst |-> vis.dst, src |-> Absent]
  IN /\ vis.lock.kind = "foreign" /\ gits < MaxGits
     /\ gits' = gits + 1
     /\ \E target \in {vis.index.target, add, again} :
          LET F(s) == [s EXCEPT !.index = [target |-> target, rest |-> gits + 1],
                                !.lock = None]
          IN Change({}, F, {"git"})
     /\ Quiet /\ UNCHANGED <<born, runs, edits, faults, kills, losses>>

\* It gives up, or the user removes the lock of one that was killed.
GitUnlock ==
  LET F(s) == [s EXCEPT !.lock = None]
  IN /\ vis.lock.kind = "foreign"
     /\ Change({}, F, {"git"})
     /\ Quiet /\ UNCHANGED counts

\* An editor saves a document through the vault, under the same guard.
Edit(d) ==
  LET F(s) == IF d = "dst" THEN [s EXCEPT !.dst = born + 1]
                           ELSE [s EXCEPT !.src = born + 1]
  IN /\ holder = NoProc /\ edits < MaxEdits
     /\ edits' = edits + 1 /\ born' = born + 1
     /\ Change({}, F, {d})
     /\ Quiet /\ UNCHANGED <<runs, gits, faults, kills, losses>>

\* The process is killed; the advisory lock goes with it.
Kill(p) ==
  /\ pc[p] # "idle" /\ kills < MaxKills
  /\ kills' = kills + 1
  /\ Return(p, "none")
  /\ UNCHANGED <<files, plan, born, runs, gits, edits, faults, losses>>

PowerLoss ==
  /\ losses < MaxLosses /\ losses' = losses + 1
  /\ vis' \in disk /\ disk' = {vis'}
  /\ pc' = [p \in Procs |-> "idle"]
  /\ holder' = NoProc /\ reply' = "none"
  /\ UNCHANGED <<plan, born, runs, gits, edits, faults, kills>>

-------------------------------------------------------------------------------
Unlocked(p) == Start(p) \/ AcquireRecover(p) \/ Plan(p) \/ Commit(p)

Prejournal(p) ==
  \/ Inspect(p) \/ MoveBundle(p) \/ SyncBundle(p) \/ MoveStaging(p)
  \/ SyncStaging(p) \/ AuditMarker(p) \/ MoveMarker(p) \/ SyncMarker(p)
  \/ MoveJournal(p) \/ SyncJournal(p)

Forward(p) ==
  \/ WriteWorktree(p) \/ SyncWorktree(p) \/ RemoveSource(p) \/ SyncSource(p)
  \/ PublishStaging(p) \/ SyncPublish(p) \/ InstallIndex(p) \/ SyncInstall(p)
  \/ Verify(p) \/ CleanupEdge(p) \/ SyncCleanup(p) \/ Done(p)

Step(p) == Unlocked(p) \/ Prejournal(p) \/ Forward(p)

Others == GitLock \/ GitUpdate \/ GitUnlock \/ Edit("dst") \/ Edit("src")

Next ==
  \/ \E p \in Procs : Step(p) \/ Kill(p)
  \/ Others
  \/ PowerLoss

Spec == Init /\ [][Next]_vars

(* Properties.                                                             *)

\* The transaction that the files belong to.
TxOf(s) == IF s.bundle.tx # NoTx THEN s.bundle.tx ELSE s.journal.tx

\* Nobody but the transaction has changed what it is about: the index is the
\* one it started from or the one it makes, nobody else holds the index lock,
\* and each document is the one it read or the one it leaves.
Undisturbed(s) ==
  LET tx == TxOf(s)
  IN tx # NoTx =>
       /\ s.index \in {tx.old, FinalIndex(tx)} /\ tx.old.target = tx.conflict
       /\ s.lock.kind # "foreign"
       /\ s.dst \in {tx.conflict.dst, tx.result}
       /\ SourceIs(s, tx.conflict, {tx.src, Absent})

\* recover_pending finds a state that it can go on from, and the files are what
\* the steps from that state require of them.
Recoverable(s) ==
  \/ Clean(s)
  \/ /\ StableOnly(s) \/ PublishReady(s) \/ MarkerNoJournal(s)
     /\ WorktreeOriginal(s, s.bundle.tx)
  \/ /\ JournalReady(s)
     /\ WorktreeOriginal(s, s.bundle.tx) \/ s.dst = s.bundle.tx.result
  \/ (CandidateInLock(s) \/ Completed(s)) /\ WorktreeFinal(s, s.bundle.tx)
  \/ \E i \in 2 .. 6 :
       /\ Retiring(s, i)
       /\ Chain[i][2] = "journal" => Confirmed(s, s.journal.tx)

\* Whenever a run is killed, the files it leaves are a state that the next run
\* can finish, unless an editor or a Git command has interfered.
RecoverableAfterKill == Undisturbed(vis) => Recoverable(vis)

\* The same for everything that a power loss may leave: no order in which the
\* directories reach the disk leaves a half-finished merge that recovery does
\* not recognize.
RecoverableAfterPowerLoss == \A s \in disk : Undisturbed(s) => Recoverable(s)

\* .git/index.lock is never left locked by a marker or a candidate without the
\* bundle that recovery needs to release it, not even by a power loss.
LockIsOwned ==
  \A s \in disk : s.lock.kind \in {"marker", "candidate"} =>
                    s.bundle = A("stable", s.lock.tx)

\* Both: what a power loss leaves is recognized, and the index lock has an owner.
LossLeavesMerge == RecoverableAfterPowerLoss /\ LockIsOwned

\* A merge that is reported as done survives a power loss: its conflict is out
\* of the index and its result in the worktree, whatever Git has done to the
\* index since, and nothing is left to recover.
MergeAcknowledged ==
  [][\A p \in Procs :
       pc[p] # "idle" /\ pc'[p] = "idle" /\ reply' = "Merged" =>
         \A s \in disk' : /\ Clean(s)
                          /\ s.index.target # plan[p].conflict
                          /\ s.dst = plan[p].result]_vars

\* A step of a merge, as opposed to one of an editor, a Git command or a loss.
OwnStep == gits' = gits /\ edits' = edits /\ losses' = losses

\* The index that a merge installs was made from exactly the index that it
\* replaces: no entry that a Git command wrote in between is lost.
GitChangesKept ==
  [][OwnStep /\ vis'.index # vis.index =>
       vis.index = vis.lock.tx.old /\ vis'.index = FinalIndex(vis.lock.tx)]_vars

\* A document that a merge replaces or removes from the worktree is a stage of
\* the conflict, still in the index; a version that an editor saved since is
\* never overwritten.  The source goes only after the result has come.
EditsKept ==
  [][OwnStep =>
       /\ vis'.dst # vis.dst => vis.index.target.kind # "merged"
                                /\ vis.index.target.dst = vis.dst
       /\ vis'.src # vis.src => vis.index.target.src = vis.src
                                /\ vis.dst = vis.bundle.tx.result]_vars

\* A run that finds a transaction which nobody has interfered with never
\* refuses to finish it.
RefusesOnlyDisturbed ==
  [][Undisturbed(vis) /\ reply' \notin {"none", reply} =>
       \/ reply' \in {"Merged", "Recovered", "NoConflict",
                      "DurabilityNotConfirmed"}
       \/ \E p \in Procs : pc[p] \in {"commit", "bundle"} /\ pc'[p] = "idle"]_vars

===============================================================================
