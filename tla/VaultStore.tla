------------------------------ MODULE VaultStore ------------------------------
(***************************************************************************)
(* The ciphertext store of one vault: crates/inex-core/src/atomic.rs.      *)
(*                                                                         *)
(* Several processes (daemons, CLIs, the Git driver) share one vault       *)
(* directory.  Each mutation takes the advisory lock on                    *)
(* .vault-local/mutation.lock, removes abandoned staging files, finishes   *)
(* or rolls back an interrupted rename, and only then writes, deletes or   *)
(* renames one envelope.  An operation is modelled one file-system call at *)
(* a time, because a process may be killed, a call may fail and power may  *)
(* be lost between any two of them.                                        *)
(*                                                                         *)
(* A directory entry has a VISIBLE value and a set of values it may have   *)
(* ON DISK after a power loss: changing the entry adds a value to the set, *)
(* a directory fsync leaves only the visible one.  An envelope is its etag *)
(* (its SHA-256); every envelope is encrypted under a fresh nonce, so the  *)
(* etag written by operation k is k.                                       *)
(***************************************************************************)
EXTENDS Naturals

CONSTANTS
  Procs,      \* processes; also the name of the staging file each one makes
  Docs,       \* logical paths of documents
  Dirs,       \* the directories that hold them
  Parent,     \* Parent[d]: the directory of document d
  Local,      \* the directory .vault-local
  Journal,    \* the entry .vault-local/pending-rebind
  NoProc,     \* nobody holds the lock
  Absent,     \* no directory entry
  Seed,       \* documents that exist, durably, in the initial state
  MaxOps,     \* bound: operations started, hence etags
  MaxFaults,  \* bound: file-system calls that fail
  MaxKills,   \* bound: killed processes
  MaxLosses   \* bound: power losses

Etags == 1 .. (MaxOps + 1)

\* RebindJournal: the record that install_rebind_journal makes durable.
JournalRecords ==
  {j \in [src : Docs, dst : Docs, srcEtag : Etags, dstEtag : Etags] :
     j.src # j.dst}

ASSUME NameAssumption ==
  /\ Parent \in [Docs -> Dirs] /\ Local \notin Dirs
  /\ Procs \cap Docs = {} /\ Journal \notin Procs \cup Docs
  /\ NoProc \notin Procs
  /\ Absent \notin Etags /\ Absent \notin JournalRecords
  /\ Seed \subseteq Docs /\ Docs # {}

ASSUME BoundAssumption ==
  MaxOps \in Nat /\ MaxFaults \in Nat /\ MaxKills \in Nat /\ MaxLosses \in Nat

Entries == Docs \cup Procs \cup {Journal}
DirOf(e) == IF e \in Docs THEN Parent[e] ELSE Local

\* The three mutations of VaultMutationGuard, and recover_pending_rebind.
\* "expect" is the WriteCondition on "path": IfMatch(etag), or IfNoneMatch
\* when Absent.
Requests ==
  [kind   : {"write", "delete", "rebind", "recover"},
   path   : Docs,
   dst    : Docs,
   expect : Etags \cup {Absent},
   new    : Etags]

\* recover_pending_rebind has no argument; its fields are arbitrary.
RecoverRequest ==
  LET d == CHOOSE d \in Docs : TRUE
  IN [kind |-> "recover", path |-> d, dst |-> d, expect |-> Absent, new |-> 1]

\* The requests an entry point accepts: only a write may be IfNoneMatch, and
\* rebind's destination always is.  A caller knows the etags made so far.
NewRequests(known, fresh) ==
  LET Request(k, d1, d2, e) ==
        [kind |-> k, path |-> d1, dst |-> d2, expect |-> e, new |-> fresh]
  IN {RecoverRequest}
     \cup {Request("write", d, d, e) : d \in Docs, e \in known \cup {Absent}}
     \cup {Request("delete", d, d, e) : d \in Docs, e \in known}
     \cup {Request("rebind", m[1], m[2], e) :
             m \in {t \in Docs \X Docs : t[1] # t[2]}, e \in known}

\* Where the lock holder stands: the next file-system call it makes.
RecoverySteps == {"clean", "inspect"}
CommitSteps   == {"commitLocal", "commitDst", "retireSrc", "commitSrc",
                  "finish", "finishSync"}
HolderSteps   == RecoverySteps \cup CommitSteps \cup
                 {"ready", "check", "journal", "journalSync", "move", "abort",
                  "writeLocal", "writeTarget", "reconcile", "remove",
                  "removeSync"}
Steps         == {"idle", "lock"} \cup HolderSteps

Results == {"none", "Synced", "NotSynced", "Recovered", "Conflict", "Io",
            "Indeterminate", "RebindPending", "RecoveryConflict"}

VARIABLES
  vis,        \* vis[e]: what the directory entry e shows now
  disk,       \* disk[e]: what it may show after a power loss
  lock,       \* holder of .vault-local/mutation.lock
  pc,         \* pc[p]: the step of process p
  op,         \* op[p]: its request
  reply,      \* what the last step returned to its caller, if it returned
  whose,      \* the rename that the holder's commit steps finish: its own, or
              \* one that it found interrupted
  localSync,  \* the holder's write: status of the fsync of .vault-local
  opCount, faults, kills, losses

files  == <<vis, disk>>
holder == <<whose, localSync>>
counts == <<opCount, faults, kills, losses>>
vars   == <<vis, disk, lock, pc, op, reply, whose, localSync, opCount, faults,
            kills, losses>>

Values(e) == {Absent} \cup (IF e = Journal THEN JournalRecords ELSE Etags)

FilesOK ==
  /\ vis = [e \in Entries |-> vis[e]] /\ disk = [e \in Entries |-> disk[e]]
  /\ \A e \in Entries : vis[e] \in Values(e) /\ disk[e] \subseteq Values(e)

\* Every variable has its type: directory entries hold envelopes and the
\* journal a journal record, now and on disk, and the process states and
\* bounds are in range.
TypeOK ==
  /\ FilesOK
  /\ lock \in Procs \cup {NoProc}
  /\ pc \in [Procs -> Steps]
  /\ op \in [Procs -> Requests]
  /\ reply \in Results
  /\ whose \in {"own", "found"} /\ localSync \in {"Synced", "NotSynced"}
  /\ opCount \in 0 .. MaxOps /\ faults \in 0 .. MaxFaults
  /\ kills \in 0 .. MaxKills /\ losses \in 0 .. MaxLosses

Init ==
  /\ vis = [e \in Entries |-> IF e \in Seed THEN 1 ELSE Absent]
  /\ disk = [e \in Entries |-> {vis[e]}]
  /\ lock = NoProc
  /\ pc = [p \in Procs |-> "idle"]
  /\ op = [p \in Procs |-> RecoverRequest]
  /\ reply = "none"
  /\ whose = "own" /\ localSync = "NotSynced"
  /\ opCount = 0 /\ faults = 0 /\ kills = 0 /\ losses = 0

-------------------------------------------------------------------------------
(* File-system calls.                                                      *)

\* fs::rename of p's staging file to e, or fs::remove_file.
Put(e, v) ==
  /\ vis' = [vis EXCEPT ![e] = v]
  /\ disk' = [disk EXCEPT ![e] = @ \cup {v}]

Rename(p, e) ==
  /\ vis' = [vis EXCEPT ![e] = vis[p], ![p] = Absent]
  /\ disk' = [disk EXCEPT ![e] = @ \cup {vis[p]}, ![p] = @ \cup {Absent}]

\* sync_namespace_parent: a directory fsync.
Sync(dir) ==
  /\ vis' = vis
  /\ disk' = [e \in Entries |-> IF DirOf(e) = dir THEN {vis[e]} ELSE disk[e]]

\* One file-system call fails.
Fault == faults < MaxFaults /\ faults' = faults + 1

Goto(p, step) ==
  /\ pc' = [pc EXCEPT ![p] = step]
  /\ reply' = "none"
  /\ UNCHANGED <<lock, op>>

\* Mutant: the lock is not released on the error path.
ReturnKeepsLock(p, result) ==
  /\ pc' = [pc EXCEPT ![p] = "idle"]
  /\ op' = [op EXCEPT ![p] = RecoverRequest]
  /\ reply' = result
  /\ lock' = IF result = "Io" THEN lock ELSE NoProc

\* The operation returns and its guard is dropped, which unlocks the file.
Return(p, result) ==
  /\ pc' = [pc EXCEPT ![p] = "idle"]
  /\ op' = [op EXCEPT ![p] = RecoverRequest]
  /\ reply' = result
  /\ lock' = NoProc

\* An error return: an armed StagingFile is removed when it is dropped.
Fail(p, result) == Put(p, Absent) /\ Return(p, result)

At(p, step) == pc[p] = step /\ lock = p

-------------------------------------------------------------------------------
(* VaultMutationGuard::acquire.                                            *)

Begin(p, r) ==
  /\ pc[p] = "idle" /\ opCount < MaxOps
  /\ r \in NewRequests(1 .. (opCount + 1), opCount + 2)
  /\ opCount' = opCount + 1
  /\ pc' = [pc EXCEPT ![p] = "lock"]
  /\ op' = [op EXCEPT ![p] = r]
  /\ reply' = "none"
  /\ UNCHANGED <<files, lock, holder, faults, kills, losses>>

Acquire(p) ==
  /\ pc[p] = "lock" /\ lock = NoProc
  /\ lock' = p
  /\ pc' = [pc EXCEPT ![p] = "clean"]
  /\ whose' = "own" /\ localSync' = "NotSynced"
  /\ reply' = "none"
  /\ UNCHANGED <<files, op, counts>>

\* recover_ciphertext_staging_locked removes one candidate at a time.
RemoveStaging(p) ==
  /\ At(p, "clean")
  /\ \E q \in Procs :
       /\ vis[q] # Absent
       /\ \/ Put(q, Absent) /\ Goto(p, "clean") /\ UNCHANGED faults
          \/ Fault /\ Return(p, "Io") /\ UNCHANGED files
  /\ UNCHANGED <<holder, opCount, kills, losses>>

StagingClean(p) ==
  /\ At(p, "clean")
  /\ \A q \in Procs : vis[q] = Absent
  /\ Goto(p, "inspect")
  /\ UNCHANGED <<files, holder, counts>>

\* The states of (source, destination) that recover_pending_rebind_locked
\* resolves: not committed, committed, and committed with the source retired.
Uncommitted(j) == vis[j.src] = j.srcEtag /\ vis[j.dst] = Absent
Committed(j)   == vis[j.src] = j.srcEtag /\ vis[j.dst] = j.dstEtag
Retired(j)     == vis[j.src] = Absent /\ vis[j.dst] = j.dstEtag

\* recover_pending_rebind_locked up to its match on the two entries.
InspectJournal(p) ==
  /\ At(p, "inspect")
  /\ LET j == vis[Journal] IN
     \/ /\ j = Absent
        /\ Goto(p, "ready")
        /\ UNCHANGED <<files, holder, faults>>
     \/ /\ j # Absent
        /\ Uncommitted(j)
        /\ whose' = "found"
        /\ Goto(p, "finish")
        /\ UNCHANGED <<files, localSync, faults>>
     \/ /\ j # Absent
        /\ Committed(j) \/ Retired(j)
        /\ whose' = "found"
        /\ Goto(p, "commitLocal")
        /\ UNCHANGED <<files, localSync, faults>>
     \/ /\ j # Absent
        /\ ~ (Uncommitted(j) \/ Committed(j) \/ Retired(j))
        /\ Return(p, "RecoveryConflict")
        /\ UNCHANGED <<files, holder, faults>>
     \/ /\ Fault
        /\ Return(p, "Io")
        /\ UNCHANGED <<files, holder>>
  /\ UNCHANGED <<opCount, kills, losses>>

-------------------------------------------------------------------------------
(* The operation proper.                                                   *)

\* stage_and_verify for a write or a rename; delete stages nothing, and
\* recover_pending_rebind only acquires the guard.
Prepare(p) ==
  /\ At(p, "ready")
  /\ \/ /\ op[p].kind = "recover"
        /\ Return(p, "Recovered")
        /\ UNCHANGED <<files, faults>>
     \/ /\ op[p].kind = "delete"
        /\ Goto(p, "check")
        /\ UNCHANGED <<files, faults>>
     \/ /\ op[p].kind \in {"write", "rebind"}
        /\ Put(p, op[p].new)
        /\ Goto(p, "check")
        /\ UNCHANGED faults
     \/ /\ op[p].kind \in {"write", "rebind"}
        /\ Fault /\ Fail(p, "Io")
  /\ UNCHANGED <<holder, opCount, kills, losses>>

\* Mutant: rebind does not check that its destination is free.
ConditionIgnoresDestination(r) == vis[r.path] = r.expect

\* Mutant: IfNoneMatch is taken for an unconditional write.
ConditionIgnoresNoneMatch(r) ==
  /\ r.expect \in {vis[r.path], Absent}
  /\ r.kind = "rebind" => vis[r.dst] = Absent

\* enforce_condition on what inspect_current_target reads under the lock.
ConditionHolds(r) ==
  /\ vis[r.path] = r.expect
  /\ r.kind = "rebind" => vis[r.dst] = Absent

AfterCheck(kind) ==
  CASE kind = "write"  -> "move"
    [] kind = "delete" -> "remove"
    [] kind = "rebind" -> "journal"

CheckCondition(p) ==
  /\ At(p, "check")
  /\ \/ /\ ConditionHolds(op[p])
        /\ Goto(p, AfterCheck(op[p].kind))
        /\ UNCHANGED <<files, faults>>
     \/ ~ ConditionHolds(op[p]) /\ Fail(p, "Conflict") /\ UNCHANGED faults
     \/ Fault /\ Fail(p, "Io")
  /\ UNCHANGED <<holder, opCount, kills, losses>>

\* guard.delete: unlink, then a best-effort fsync of the parent only.
RemoveTarget(p) ==
  /\ At(p, "remove")
  /\ \/ Put(op[p].path, Absent) /\ Goto(p, "removeSync") /\ UNCHANGED faults
     \/ Fault /\ Return(p, "Io") /\ UNCHANGED files
  /\ UNCHANGED <<holder, opCount, kills, losses>>

RemoveSync(p) ==
  /\ At(p, "removeSync")
  /\ \/ Sync(Parent[op[p].path]) /\ Return(p, "Synced") /\ UNCHANGED faults
     \/ Fault /\ Return(p, "NotSynced") /\ UNCHANGED files
  /\ UNCHANGED <<holder, opCount, kills, losses>>

\* namespace_move of the staged envelope onto its target.
Target(r) == IF r.kind = "rebind" THEN r.dst ELSE r.path

MoveEnvelope(p) ==
  /\ At(p, "move")
  /\ Rename(p, Target(op[p]))
  /\ Goto(p, IF op[p].kind = "rebind" THEN "commitLocal" ELSE "writeLocal")
  /\ UNCHANGED <<holder, counts>>

\* Mutant: a failed move is reported as an I/O error without reading the
\* target again.
MoveFailsUnread(p) ==
  /\ At(p, "move")
  /\ Fault
  /\ Rename(p, Target(op[p])) \/ Put(p, Absent)
  /\ Return(p, "Io")
  /\ UNCHANGED <<holder, opCount, kills, losses>>

\* The move reports an error although it may have taken place; the code reads
\* the target again to find out (reconcile_failed_namespace_commit, and the
\* error arm of rebind_locked), and that read may fail as well.
MoveFails(p) ==
  /\ At(p, "move")
  /\ \/ /\ Fault                                           \* it did happen
        /\ Rename(p, Target(op[p]))
        /\ IF op[p].kind = "rebind"
           THEN Return(p, "RebindPending")
           ELSE Goto(p, "reconcile")
     \/ /\ Fault                                           \* it did not
        /\ IF op[p].kind = "rebind"
           THEN Goto(p, "abort") /\ UNCHANGED files
           ELSE Fail(p, "Io")
     \/ /\ faults + 2 <= MaxFaults /\ faults' = faults + 2  \* unknown
        /\ Rename(p, Target(op[p])) \/ Put(p, Absent)
        /\ Return(p, IF op[p].kind = "rebind" THEN "RecoveryConflict"
                                              ELSE "Indeterminate")
  /\ UNCHANGED <<holder, opCount, kills, losses>>

\* guard.write: both parents are synchronized, whatever the first answers.
WriteLocal(p) ==
  /\ At(p, "writeLocal")
  /\ \/ Sync(Local) /\ localSync' = "Synced" /\ UNCHANGED faults
     \/ Fault /\ localSync' = "NotSynced" /\ UNCHANGED files
  /\ Goto(p, "writeTarget")
  /\ UNCHANGED <<whose, opCount, kills, losses>>

\* Mutant: the status of the second fsync is ignored.
WriteTargetUnsynced(p) ==
  /\ At(p, "writeTarget")
  /\ \/ Sync(Parent[op[p].path]) /\ UNCHANGED faults
     \/ Fault /\ UNCHANGED files
  /\ Return(p, localSync)
  /\ UNCHANGED <<holder, opCount, kills, losses>>

WriteTarget(p) ==
  /\ At(p, "writeTarget")
  /\ \/ /\ Sync(Parent[op[p].path])
        /\ Return(p, localSync)
        /\ UNCHANGED faults
     \/ Fault /\ Return(p, "NotSynced") /\ UNCHANGED files
  /\ UNCHANGED <<holder, opCount, kills, losses>>

\* After a move that failed but took place only .vault-local is synchronized.
Reconcile(p) ==
  /\ At(p, "reconcile")
  /\ \/ Sync(Local) /\ UNCHANGED faults
     \/ Fault /\ UNCHANGED files
  /\ Return(p, "NotSynced")
  /\ UNCHANGED <<holder, opCount, kills, losses>>

-------------------------------------------------------------------------------
(* rebind_locked and the recovery of an interrupted one.                   *)

JournalOf(r) == [src |-> r.path, dst |-> r.dst,
                 srcEtag |-> r.expect, dstEtag |-> r.new]

\* install_rebind_journal: an atomic no-replace move, then an fsync.
InstallJournal(p) ==
  /\ At(p, "journal")
  /\ \/ /\ Put(Journal, JournalOf(op[p]))
        /\ Goto(p, "journalSync")
        /\ UNCHANGED faults
     \/ /\ Fault
        /\ Fail(p, "Io")
     \/ /\ Fault                                           \* moved after all
        /\ vis' = [vis EXCEPT ![Journal] = JournalOf(op[p]), ![p] = Absent]
        /\ disk' = [disk EXCEPT ![Journal] = @ \cup {JournalOf(op[p])},
                                ![p] = @ \cup {Absent}]
        /\ Return(p, "Io")
  /\ UNCHANGED <<holder, opCount, kills, losses>>

\* Mutant: the journal is not synchronized before the destination is moved.
SyncJournalSkipped(p) ==
  /\ At(p, "journalSync")
  /\ Goto(p, "move")
  /\ UNCHANGED <<files, holder, counts>>

SyncJournal(p) ==
  /\ At(p, "journalSync")
  /\ \/ Sync(Local) /\ Goto(p, "move") /\ UNCHANGED faults
     \/ Fault /\ Fail(p, "Io")
  /\ UNCHANGED <<holder, opCount, kills, losses>>

\* remove_rebind_journal_best_effort: no fsync, and a failure is ignored.
AbortRebind(p) ==
  /\ At(p, "abort")
  /\ \/ /\ vis' = [vis EXCEPT ![Journal] = Absent, ![p] = Absent]
        /\ disk' = [disk EXCEPT ![Journal] = @ \cup {Absent},
                                ![p] = @ \cup {Absent}]
        /\ UNCHANGED faults
     \/ Fault /\ Put(p, Absent)
  /\ Return(p, "Io")
  /\ UNCHANGED <<holder, opCount, kills, losses>>

\* sync_rebind_commit_parents: the destination must be durable ...
CommitLocal(p) ==
  /\ At(p, "commitLocal")
  /\ \/ Sync(Local) /\ Goto(p, "commitDst") /\ UNCHANGED faults
     \/ Fault /\ Return(p, "RebindPending") /\ UNCHANGED files
  /\ UNCHANGED <<holder, opCount, kills, losses>>

\* Mutant: the destination's parent is not synchronized.
CommitDstSkipped(p) ==
  /\ At(p, "commitDst")
  /\ Goto(p, IF Retired(vis[Journal]) THEN "commitSrc" ELSE "retireSrc")
  /\ UNCHANGED <<files, holder, counts>>

CommitDst(p) ==
  /\ At(p, "commitDst")
  /\ \/ /\ Sync(Parent[vis[Journal].dst])
        /\ Goto(p, IF Retired(vis[Journal]) THEN "commitSrc" ELSE "retireSrc")
        /\ UNCHANGED faults
     \/ Fault /\ Return(p, "RebindPending") /\ UNCHANGED files
  /\ UNCHANGED <<holder, opCount, kills, losses>>

\* ... before the source is removed, and that before the journal is.
RetireSource(p) ==
  /\ At(p, "retireSrc")
  /\ \/ Put(vis[Journal].src, Absent) /\ Goto(p, "commitSrc") /\ UNCHANGED faults
     \/ Fault /\ Return(p, "RebindPending") /\ UNCHANGED files
  /\ UNCHANGED <<holder, opCount, kills, losses>>

CommitSrc(p) ==
  /\ At(p, "commitSrc")
  /\ \/ Sync(Parent[vis[Journal].src]) /\ Goto(p, "finish") /\ UNCHANGED faults
     \/ Fault /\ Return(p, "RebindPending") /\ UNCHANGED files
  /\ UNCHANGED <<holder, opCount, kills, losses>>

\* finish_rebind_journal.
FinishJournal(p) ==
  /\ At(p, "finish")
  /\ \/ Put(Journal, Absent) /\ Goto(p, "finishSync") /\ UNCHANGED faults
     \/ Fault /\ Return(p, "Io") /\ UNCHANGED files
  /\ UNCHANGED <<holder, opCount, kills, losses>>

FinishSync(p) ==
  /\ At(p, "finishSync")
  /\ \/ /\ Sync(Local)
        /\ IF whose = "found" THEN Goto(p, "ready") ELSE Return(p, "Synced")
        /\ whose' = "own"
        /\ UNCHANGED faults
     \/ Fault /\ Return(p, "Io") /\ UNCHANGED <<files, whose>>
  /\ UNCHANGED <<localSync, opCount, kills, losses>>

-------------------------------------------------------------------------------
(* The environment.                                                        *)

\* The kernel drops the lock of a killed process; nothing else is undone.
Kill(p) ==
  /\ pc[p] # "idle" /\ kills < MaxKills
  /\ kills' = kills + 1
  /\ pc' = [pc EXCEPT ![p] = "idle"]
  /\ op' = [op EXCEPT ![p] = RecoverRequest]
  /\ reply' = "none"
  /\ lock' = IF lock = p THEN NoProc ELSE lock
  /\ UNCHANGED <<files, holder, opCount, faults, losses>>

\* What the directories may show after a power loss.
Envelopes == Docs \cup Procs

Outcomes ==
  {[e \in Entries |-> IF e = Journal THEN o[2] ELSE o[1][e]] :
     o \in {f \in [Envelopes -> UNION {disk[e] : e \in Envelopes}] :
              \A e \in Envelopes : f[e] \in disk[e]} \X disk[Journal]}

PowerLoss ==
  /\ losses < MaxLosses
  /\ losses' = losses + 1
  /\ vis' \in Outcomes
  /\ disk' = [e \in Entries |-> {vis'[e]}]
  /\ lock' = NoProc
  /\ pc' = [p \in Procs |-> "idle"]
  /\ op' = [p \in Procs |-> RecoverRequest]
  /\ reply' = "none"
  /\ UNCHANGED <<holder, opCount, faults, kills>>

HolderStep(p) ==
  \/ RemoveStaging(p) \/ StagingClean(p) \/ InspectJournal(p)
  \/ Prepare(p) \/ CheckCondition(p)
  \/ RemoveTarget(p) \/ RemoveSync(p)
  \/ MoveEnvelope(p) \/ MoveFails(p)
  \/ WriteLocal(p) \/ WriteTarget(p) \/ Reconcile(p)
  \/ InstallJournal(p) \/ SyncJournal(p) \/ AbortRebind(p)
  \/ CommitLocal(p) \/ CommitDst(p) \/ RetireSource(p) \/ CommitSrc(p)
  \/ FinishJournal(p) \/ FinishSync(p)

Run(p) == Acquire(p) \/ HolderStep(p)

Next ==
  \/ \E p \in Procs :
       \/ Run(p)
       \/ Kill(p)
       \/ \E r \in NewRequests(1 .. (opCount + 1), opCount + 2) : Begin(p, r)
  \/ PowerLoss

Spec == Init /\ [][Next]_vars

\* A running process is scheduled, and flock wakes a waiter when it is free.
Fairness == \A p \in Procs : WF_vars(Run(p))
FairSpec == Spec /\ Fairness

-------------------------------------------------------------------------------
(* Properties.                                                             *)

\* The pending rename can be completed or rolled back.
Repairable ==
  LET j == vis[Journal] IN
    j # Absent => Uncommitted(j) \/ Committed(j) \/ Retired(j)

\* As long as power is not lost, recovery never finds the source and destination
\* of a pending rename in a state it must leave "for explicit user inspection"
\* (the last arm of the match in recover_pending_rebind_locked, after which
\* every mutation of the vault fails).
JournalRecoverable == losses = 0 => Repairable

\* The comment on atomic_rebind_ciphertext: "A crash or I/O failure after
\* destination commit leaves a journal that the next mutation (or
\* recover_pending_rebind) deterministically finishes."
CommittedRenameFinishes ==
  LET j == vis[Journal] IN
    j # Absent /\ vis[j.dst] = j.dstEtag => Committed(j) \/ Retired(j)

\* A mutation starts from a settled vault: once acquire has returned the guard,
\* no staging file of another process and no pending rename remain until this
\* holder creates its own.
SettledBeforeMutation ==
  \A p \in Procs :
    lock = p /\ pc[p] \in {"ready", "check", "journal", "remove", "removeSync",
                           "writeLocal", "writeTarget", "reconcile"}
      => /\ vis[Journal] = Absent
         /\ \A q \in Procs \ {p} : vis[q] = Absent

\* The two-phase rename never removes the source before the destination
\* envelope would survive a power loss: "The function never removes the source
\* unless the exact destination bytes have been committed".
SourceOutlivedByDestination ==
  [][\A p \in Procs : RetireSource(p) =>
       LET j == vis[Journal] IN
         disk'[j.src] # disk[j.src] => disk[j.dst] = {j.dstEtag}]_vars

\* Everything a step of a running process does to a document is what some
\* request, conditional on exactly the replaced etag, asked for: no update of
\* another process that landed between read and commit is overwritten.
Requested(r, d) ==
  \/ r.kind = "write"  /\ d = r.path /\ vis[d] = r.expect /\ vis'[d] = r.new
  \/ r.kind = "delete" /\ d = r.path /\ vis[d] = r.expect /\ vis'[d] = Absent
  \/ r.kind = "rebind" /\ d = r.dst  /\ vis[d] = Absent   /\ vis'[d] = r.new
                       /\ vis[r.path] = r.expect

Renamed(j, d) ==
  j # Absent /\ d = j.src /\ Committed(j) /\ vis'[d] = Absent

NoLostUpdate ==
  [][losses' = losses =>
       \A d \in Docs : vis'[d] # vis[d] =>
         \E p \in Procs : lock = p /\ (Requested(op[p], d) \/ Renamed(vis[Journal], d))]_vars

\* ParentSyncStatus::Synced is a promise: when an operation reports it, no
\* power loss can undo the operation any more.
AcknowledgedIsDurable ==
  [][reply' = "Synced" =>
       LET r == op[lock] IN
         /\ r.kind = "write"  => disk'[r.path] = {r.new}
         /\ r.kind = "delete" => disk'[r.path] = {Absent}
         /\ r.kind = "rebind" => /\ disk'[r.path] = {Absent}
                                 /\ disk'[r.dst] = {r.new}
                                 /\ disk'[Journal] = {Absent}]_vars

\* A request that is answered with a conflict, or a write answered with an I/O
\* error, left nothing behind: its envelope is at no path, now or after a power
\* loss ("Pre-commit errors preserve the previous target").
RefusedLeavesNoTrace ==
  [][reply' = "Conflict" \/ (reply' = "Io" /\ op[lock].kind = "write") =>
       \A d \in Docs : vis'[d] # op[lock].new /\ op[lock].new \notin disk'[d]]_vars

\* Every operation that starts returns or dies: the lock is never left held,
\* and recovery does not loop.
OperationTerminates ==
  \A p \in Procs : pc[p] # "idle" ~> pc[p] = "idle"

-------------------------------------------------------------------------------
(* VaultStore implements AtomicVault.                                      *)

\* What a reader of directory f finds once recovery has run: a committed
\* rename whose source is still there counts as done.
Logical(f) ==
  LET j == f[Journal] IN
    [d \in Docs |->
       IF j # Absent /\ d = j.src /\ f[d] = j.srcEtag /\ f[j.dst] = j.dstEtag
       THEN Absent ELSE f[d]]

Abstract == INSTANCE AtomicVault
              WITH docs <- Logical(vis), worlds <- {Logical(f) : f \in Outcomes}

\* Under kills, failed calls and power losses at any point, the store behaves
\* like a vault whose writes, deletes and renames are atomic, also in what a
\* power loss may undo.
ImplementsAtomicVault == Abstract!Spec
===============================================================================
