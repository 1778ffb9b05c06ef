--------------------------- MODULE VaultStoreProofs ---------------------------
(***************************************************************************)
(* Proofs about VaultStore, for any processes, documents and directories   *)
(* and any number of operations, failed calls, kills and power losses.     *)
(***************************************************************************)
EXTENDS VaultStore, TLAPS

(* The inductive invariant.  It says, for each step of the lock holder,    *)
(* what its earlier steps have established.                                *)

\* Whoever is past acquiring the lock is its one holder.
LockInv == \A p \in Procs : pc[p] \in HolderSteps <=> lock = p

\* The arguments that rebind and delete accept, and which request is at which
\* step.
RequestAt(p) ==
  /\ op[p].kind \in {"delete", "rebind"} => op[p].expect \in Etags
  /\ op[p].kind = "rebind" => op[p].dst # op[p].path
  /\ pc[p] = "check" => op[p].kind # "recover"
  /\ pc[p] \in {"remove", "removeSync"} => op[p].kind = "delete"
  /\ pc[p] \in {"writeLocal", "writeTarget", "reconcile"} => op[p].kind = "write"
  /\ pc[p] \in {"journal", "journalSync", "abort"} => op[p].kind = "rebind"
  /\ pc[p] = "move" => op[p].kind \in {"write", "rebind"}

\* Staging files: none of another process after recovery, and the holder's own
\* is the envelope it was asked to write.
StagingAt(p) ==
  /\ pc[p] \in HolderSteps \ {"clean"} =>
       \A q \in Procs \ {p} : vis[q] = Absent
  /\ pc[p] \in {"check", "journal", "journalSync", "move"}
       /\ op[p].kind # "delete" => vis[p] = op[p].new

\* The steps of the operation, before it commits.
OperationAt(p) ==
  /\ pc[p] \in {"ready", "check", "journal", "remove", "removeSync",
                "writeLocal", "writeTarget", "reconcile", "finishSync"}
       => vis[Journal] = Absent
  /\ pc[p] = "move" /\ op[p].kind = "write" => vis[Journal] = Absent
  /\ pc[p] \in {"journal", "journalSync", "move", "abort", "remove"}
       => ConditionHolds(op[p])
  /\ pc[p] \in {"journalSync", "abort"} => vis[Journal] = JournalOf(op[p])
  /\ pc[p] = "move" /\ op[p].kind = "rebind" => vis[Journal] = JournalOf(op[p])
  /\ pc[p] \in {"writeLocal", "writeTarget"} => vis[op[p].path] = op[p].new
  /\ pc[p] = "removeSync" => vis[op[p].path] = Absent

\* The steps that commit a rename, the holder's own or a recovered one.
CommitAt(p) ==
  LET j == vis[Journal] IN
  /\ pc[p] \in CommitSteps \ {"finishSync"} => j # Absent
  /\ pc[p] \in {"commitLocal", "commitDst"} => Committed(j) \/ Retired(j)
  /\ pc[p] = "retireSrc" => Committed(j) /\ disk[j.dst] = {j.dstEtag}
  /\ pc[p] = "commitSrc" => Retired(j) /\ disk[j.dst] = {j.dstEtag}
  /\ pc[p] = "finish" =>
       Uncommitted(j) \/ (/\ Retired(j)
                          /\ disk[j.dst] = {j.dstEtag}
                          /\ disk[j.src] = {Absent})
  /\ pc[p] \in CommitSteps \ {"finishSync"} /\ whose = "own" =>
       /\ op[p].kind = "rebind" /\ j = JournalOf(op[p])
       /\ pc[p] = "finish" => Retired(j)
  /\ pc[p] = "finishSync" /\ whose = "own" =>
       /\ op[p].kind = "rebind"
       /\ disk[op[p].path] = {Absent} /\ disk[op[p].dst] = {op[p].new}
  /\ pc[p] \in HolderSteps \ CommitSteps => whose = "own"

HolderAt(p) == RequestAt(p) /\ StagingAt(p) /\ OperationAt(p) /\ CommitAt(p)

IInv == TypeOK /\ LockInv /\ \A p \in Procs : HolderAt(p)

-------------------------------------------------------------------------------
(* What the file-system calls do to the files.                             *)

\* Writing or removing one entry changes no other entry and keeps the types.
LEMMA PutFiles ==
  ASSUME FilesOK, NEW e \in Entries, NEW v \in Values(e), Put(e, v)
  PROVE  /\ FilesOK' /\ vis'[e] = v
         /\ \A x \in Entries \ {e} : vis'[x] = vis[x] /\ disk'[x] = disk[x]
BY DEF FilesOK, Put

\* A directory fsync keeps what is visible and makes it certain on disk.
LEMMA SyncFiles ==
  ASSUME FilesOK, NEW dir, Sync(dir)
  PROVE  /\ FilesOK' /\ vis' = vis
         /\ \A e \in Entries : disk'[e] \in {{vis[e]}, disk[e]}
         /\ \A e \in Entries : DirOf(e) = dir => disk'[e] = {vis[e]}
BY DEF FilesOK, Sync

\* Moving a staging file onto a document changes these two entries only.
LEMMA RenameFiles ==
  ASSUME FilesOK, NEW p \in Procs, NEW d \in Docs, Rename(p, d)
  PROVE  /\ FilesOK' /\ vis'[d] = vis[p] /\ vis'[p] = Absent
         /\ \A x \in Entries \ {d, p} : vis'[x] = vis[x] /\ disk'[x] = disk[x]
BY NameAssumption DEF FilesOK, Rename, Entries, Values

\* The request that an idle process is left with is a request.
LEMMA RecoverRequestType ==
  RecoverRequest \in Requests /\ RecoverRequest.kind = "recover"
BY NameAssumption, BoundAssumption DEF RecoverRequest, Requests, Etags

-------------------------------------------------------------------------------
(* What the control operators do to the invariant.                         *)

\* An operation that returns leaves nothing for the invariant to say, whatever
\* it did to the files: nobody is at a holder's step.
LEMMA ReturnControl ==
  ASSUME IInv, NEW p \in Procs, lock = p, NEW r \in Results, Return(p, r)
  PROVE  /\ lock' \in Procs \cup {NoProc} /\ pc' \in [Procs -> Steps]
         /\ op' \in [Procs -> Requests] /\ reply' \in Results
         /\ LockInv' /\ \A q \in Procs : HolderAt(q)'
<1>1. \A q \in Procs : pc'[q] \in {"idle", "lock"}
  BY DEF IInv, TypeOK, LockInv, Return, Steps
<1>2. \A q \in Procs : pc'[q] \notin HolderSteps
  BY <1>1 DEF HolderSteps, RecoverySteps, CommitSteps
<1>3. LockInv'
  BY <1>2, NameAssumption DEF Return, LockInv
<1>4. \A q \in Procs : RequestAt(q)'
  BY <1>1, RecoverRequestType DEF IInv, TypeOK, HolderAt, RequestAt, Return
<1>5. \A q \in Procs : StagingAt(q)' /\ OperationAt(q)' /\ CommitAt(q)'
  BY <1>1, <1>2 DEF StagingAt, OperationAt, CommitAt, CommitSteps
<1>6. /\ lock' \in Procs \cup {NoProc} /\ pc' \in [Procs -> Steps]
      /\ op' \in [Procs -> Requests] /\ reply' \in Results
  BY RecoverRequestType DEF IInv, TypeOK, Return, Steps
<1> QED BY <1>3, <1>4, <1>5, <1>6 DEF HolderAt

\* A holder that goes on need only establish the invariant for itself.
LEMMA GotoControl ==
  ASSUME IInv, NEW p \in Procs, lock = p, NEW s \in HolderSteps, Goto(p, s)
  PROVE  /\ lock' \in Procs \cup {NoProc} /\ pc' \in [Procs -> Steps]
         /\ op' \in [Procs -> Requests] /\ reply' \in Results
         /\ pc'[p] = s /\ op'[p] = op[p]
         /\ LockInv' /\ \A q \in Procs \ {p} : HolderAt(q)'
<1>1. pc'[p] = s /\ \A q \in Procs \ {p} : pc'[q] \in {"idle", "lock"}
  BY DEF IInv, TypeOK, LockInv, Goto, Steps
<1>2. \A q \in Procs \ {p} : pc'[q] \notin HolderSteps
  BY <1>1 DEF HolderSteps, RecoverySteps, CommitSteps
<1>3. LockInv'
  BY <1>1, <1>2 DEF Goto, LockInv
<1>4. \A q \in Procs \ {p} : RequestAt(q)'
  BY <1>1 DEF IInv, HolderAt, RequestAt, Goto
<1>5. \A q \in Procs \ {p} : StagingAt(q)' /\ OperationAt(q)' /\ CommitAt(q)'
  BY <1>1, <1>2 DEF StagingAt, OperationAt, CommitAt, CommitSteps
<1>6. /\ lock' \in Procs \cup {NoProc} /\ pc' \in [Procs -> Steps]
      /\ op' \in [Procs -> Requests] /\ reply' \in Results
  BY DEF IInv, TypeOK, Goto, Steps, Results
<1> QED BY <1>1, <1>3, <1>4, <1>5, <1>6 DEF HolderAt, Goto

RestOK ==
  /\ whose \in {"own", "found"} /\ localSync \in {"Synced", "NotSynced"}
  /\ opCount \in 0 .. MaxOps /\ faults \in 0 .. MaxFaults
  /\ kills \in 0 .. MaxKills /\ losses \in 0 .. MaxLosses

\* The two ways a holder's step can end.
LEMMA ReturnInv ==
  ASSUME IInv, NEW p \in Procs, lock = p, NEW r \in Results, Return(p, r),
         FilesOK', RestOK'
  PROVE  IInv'
BY ReturnControl DEF IInv, TypeOK, RestOK

LEMMA GotoInv ==
  ASSUME IInv, NEW p \in Procs, lock = p, NEW s \in HolderSteps, Goto(p, s),
         FilesOK', RestOK', HolderAt(p)'
  PROVE  IInv'
BY GotoControl DEF IInv, TypeOK, RestOK

\* An error return removes the holder's staging file and nothing else.
LEMMA FailInv ==
  ASSUME IInv, NEW p \in Procs, lock = p, NEW r \in Results, Fail(p, r), RestOK'
  PROVE  IInv'
<1>1. FilesOK'
  BY PutFiles DEF IInv, TypeOK, Fail, Entries, Values
<1> QED BY <1>1, ReturnInv DEF Fail

LEMMA RestKept ==
  ASSUME IInv, UNCHANGED <<opCount, kills, losses>>, faults' = faults \/ Fault
  PROVE  /\ opCount' \in 0 .. MaxOps /\ faults' \in 0 .. MaxFaults
         /\ kills' \in 0 .. MaxKills /\ losses' \in 0 .. MaxLosses
BY BoundAssumption DEF IInv, TypeOK, Fault

-------------------------------------------------------------------------------
(* Every step of the lock holder preserves the invariant.                  *)

LEMMA AcquireSteps ==
  ASSUME IInv, NEW p \in Procs,
         RemoveStaging(p) \/ StagingClean(p) \/ InspectJournal(p)
  PROVE  IInv'
<1> USE DEF At, HolderSteps, RecoverySteps, CommitSteps, Results
<1>1. CASE RemoveStaging(p)
  <2>1. PICK q \in Procs :
          \/ Put(q, Absent) /\ Goto(p, "clean") /\ UNCHANGED faults
          \/ Fault /\ Return(p, "Io") /\ UNCHANGED files
    BY <1>1 DEF RemoveStaging
  <2>2. RestOK' /\ lock = p
    BY <1>1, <2>1, RestKept DEF RemoveStaging, RestOK, IInv, TypeOK, holder
  <2>3. CASE Put(q, Absent) /\ Goto(p, "clean")
    <3>1. FilesOK' /\ \A d \in Docs \cup {Journal} : vis'[d] = vis[d] /\ disk'[d] = disk[d]
      BY <2>3, PutFiles, NameAssumption DEF IInv, TypeOK, Entries, Values
    <3>2. HolderAt(p)'
      <4>1. pc[p] = "clean" /\ pc'[p] = "clean" /\ op'[p] = op[p] /\ HolderAt(p)
        BY <1>1, <2>3, GotoControl DEF RemoveStaging, IInv
      <4>2. RequestAt(p)' /\ StagingAt(p)' /\ OperationAt(p)'
        BY <4>1 DEF HolderAt, RequestAt, StagingAt, OperationAt
      <4>3. CommitAt(p)'
        BY <1>1, <4>1 DEF HolderAt, CommitAt, RemoveStaging, holder
      <4> QED BY <4>2, <4>3 DEF HolderAt
    <3> QED BY <2>2, <2>3, <3>1, <3>2, GotoInv
  <2>4. CASE Return(p, "Io") /\ UNCHANGED files
    <3>1. FilesOK' BY <2>4 DEF IInv, TypeOK, FilesOK, files
    <3> QED BY <2>2, <2>4, <3>1, ReturnInv
  <2> QED BY <2>1, <2>3, <2>4
<1>2. CASE StagingClean(p)
  <2>1. RestOK' /\ FilesOK'
    BY <1>2 DEF StagingClean, RestOK, IInv, TypeOK, holder, counts, files, FilesOK
  <2>2. HolderAt(p)'
    <3>1. /\ pc[p] = "clean" /\ pc'[p] = "inspect" /\ op'[p] = op[p]
          /\ HolderAt(p) /\ vis' = vis /\ disk' = disk /\ whose' = whose
      BY <1>2, GotoControl DEF StagingClean, IInv, files, holder
    <3>2. \A q \in Procs : vis[q] = Absent
      BY <1>2 DEF StagingClean
    <3>3. RequestAt(p)' /\ StagingAt(p)' /\ OperationAt(p)'
      BY <3>1, <3>2 DEF HolderAt, RequestAt, StagingAt, OperationAt
    <3>4. CommitAt(p)'
      BY <3>1 DEF HolderAt, CommitAt
    <3> QED BY <3>3, <3>4 DEF HolderAt
  <2> QED BY <1>2, <2>1, <2>2, GotoInv DEF StagingClean
<1>3. CASE InspectJournal(p)
  <2>1. FilesOK' /\ RestOK' /\ lock = p /\ vis' = vis /\ disk' = disk
    BY <1>3, RestKept
    DEF InspectJournal, RestOK, IInv, TypeOK, FilesOK, files, holder
  <2>2. CASE \E r \in Results : Return(p, r)
    BY <2>1, <2>2, ReturnInv
  <2>3. CASE Goto(p, "ready") /\ vis[Journal] = Absent /\ UNCHANGED holder
    <3>1. HolderAt(p)'
      <4>1. /\ pc[p] = "inspect" /\ pc'[p] = "ready" /\ op'[p] = op[p]
            /\ HolderAt(p) /\ whose' = whose
        BY <1>3, <2>1, <2>3, GotoControl DEF InspectJournal, IInv, holder
      <4>2. RequestAt(p)' /\ StagingAt(p)' /\ OperationAt(p)'
        BY <2>1, <2>3, <4>1 DEF HolderAt, RequestAt, StagingAt, OperationAt
      <4>3. CommitAt(p)'
        BY <2>1, <2>3, <4>1 DEF HolderAt, CommitAt
      <4> QED BY <4>2, <4>3 DEF HolderAt
    <3> QED BY <2>1, <2>3, <3>1, GotoInv
  <2>4. CASE /\ Goto(p, "finish") /\ vis[Journal] # Absent
             /\ Uncommitted(vis[Journal]) /\ whose' = "found"
    <3>1. HolderAt(p)'
      <4>1. /\ pc[p] = "inspect" /\ pc'[p] = "finish" /\ op'[p] = op[p]
            /\ HolderAt(p)
        BY <1>3, <2>1, <2>4, GotoControl DEF InspectJournal, IInv
      <4>2. RequestAt(p)' /\ StagingAt(p)' /\ OperationAt(p)'
        BY <2>1, <2>4, <4>1 DEF HolderAt, RequestAt, StagingAt, OperationAt
      <4>3. CommitAt(p)'
        BY <2>1, <2>4, <4>1 DEF HolderAt, CommitAt, Uncommitted
      <4> QED BY <4>2, <4>3 DEF HolderAt
    <3> QED BY <2>1, <2>4, <3>1, GotoInv
  <2>5. CASE /\ Goto(p, "commitLocal") /\ vis[Journal] # Absent
             /\ Committed(vis[Journal]) \/ Retired(vis[Journal])
             /\ whose' = "found"
    <3>1. pc'[p] = "commitLocal" /\ op'[p] = op[p] /\ pc[p] = "inspect"
      BY <1>3, <2>1, <2>5, GotoControl DEF InspectJournal
    <3>2. RequestAt(p)' /\ StagingAt(p)' /\ OperationAt(p)'
      BY <2>1, <3>1 DEF HolderAt, RequestAt, StagingAt, OperationAt, IInv
    <3>3. CommitAt(p)'
      BY <2>1, <2>5, <3>1 DEF CommitAt, Committed, Retired
    <3> QED BY <2>1, <2>5, <3>2, <3>3, GotoInv DEF HolderAt
  <2> QED BY <1>3, <2>2, <2>3, <2>4, <2>5 DEF InspectJournal
<1> QED BY <1>1, <1>2, <1>3

\* The types that the request and the pending journal of a holder have.
LEMMA RequestType ==
  ASSUME IInv, NEW p \in Procs
  PROVE  /\ op[p].path \in Docs /\ op[p].dst \in Docs /\ op[p].new \in Etags
         /\ op[p].kind \in {"write", "delete", "rebind", "recover"}
         /\ Target(op[p]) \in Docs
         /\ op[p].kind = "rebind" => JournalOf(op[p]) \in JournalRecords
<1>1. op[p] \in Requests
  BY DEF IInv, TypeOK
<1>2. RequestAt(p)
  BY DEF IInv, HolderAt
<1> QED BY <1>1, <1>2 DEF Requests, RequestAt, Target, JournalOf, JournalRecords

LEMMA JournalType ==
  ASSUME IInv, vis[Journal] # Absent
  PROVE  /\ vis[Journal].src \in Docs /\ vis[Journal].dst \in Docs
         /\ vis[Journal].src # vis[Journal].dst
         /\ vis[Journal].srcEtag \in Etags /\ vis[Journal].dstEtag \in Etags
<1>1. vis[Journal] \in JournalRecords
  BY DEF IInv, TypeOK, FilesOK, Entries, Values
<1> QED BY <1>1 DEF JournalRecords

LEMMA OperationSteps ==
  ASSUME IInv, NEW p \in Procs,
         \/ Prepare(p) \/ CheckCondition(p) \/ RemoveTarget(p) \/ RemoveSync(p)
  PROVE  IInv'
<1> USE DEF At, HolderSteps, RecoverySteps, CommitSteps, Results
<1>t. /\ op[p].path \in Docs /\ op[p].dst \in Docs /\ op[p].new \in Etags
      /\ op[p].kind \in {"write", "delete", "rebind", "recover"}
  BY RequestType
<1>h. HolderAt(p)
  BY DEF IInv
<1>1. CASE Prepare(p)
  <2>1. RestOK' /\ lock = p /\ pc[p] = "ready" /\ whose' = whose
    BY <1>1, RestKept DEF Prepare, RestOK, IInv, TypeOK, holder
  <2>2. CASE Return(p, "Recovered") /\ UNCHANGED files
    <3>1. FilesOK' BY <2>2 DEF IInv, TypeOK, FilesOK, files
    <3> QED BY <2>1, <2>2, <3>1, ReturnInv
  <2>3. CASE op[p].kind = "delete" /\ Goto(p, "check") /\ UNCHANGED files
    <3>1. FilesOK' BY <2>3 DEF IInv, TypeOK, FilesOK, files
    <3>2. pc'[p] = "check" /\ op'[p] = op[p]
      BY <2>1, <2>3, GotoControl
    <3>3. HolderAt(p)'
      BY <1>h, <2>1, <2>3, <3>2 DEF HolderAt, RequestAt, StagingAt, OperationAt,
         CommitAt, files
    <3> QED BY <2>1, <2>3, <3>1, <3>3, GotoInv
  <2>4. CASE /\ op[p].kind \in {"write", "rebind"}
             /\ Put(p, op[p].new) /\ Goto(p, "check")
    <3>1. /\ FilesOK' /\ vis'[p] = op[p].new /\ vis'[Journal] = vis[Journal]
          /\ \A q \in Procs \ {p} : vis'[q] = vis[q]
      BY <1>t, <2>4, PutFiles, NameAssumption DEF IInv, TypeOK, Entries, Values
    <3>2. pc'[p] = "check" /\ op'[p] = op[p]
      BY <2>1, <2>4, GotoControl
    <3>3. HolderAt(p)'
      BY <1>h, <2>1, <2>4, <3>1, <3>2 DEF HolderAt, RequestAt, StagingAt,
         OperationAt, CommitAt
    <3> QED BY <2>1, <2>4, <3>1, <3>3, GotoInv
  <2>5. CASE Fail(p, "Io")
    BY <2>1, <2>5, FailInv
  <2> QED BY <1>1, <2>2, <2>3, <2>4, <2>5 DEF Prepare
<1>2. CASE CheckCondition(p)
  <2>1. RestOK' /\ lock = p /\ pc[p] = "check" /\ whose' = whose
    BY <1>2, RestKept DEF CheckCondition, RestOK, IInv, TypeOK, holder
  <2>2. CASE \E r \in Results : Fail(p, r)
    BY <2>1, <2>2, FailInv
  <2>3. CASE /\ ConditionHolds(op[p]) /\ UNCHANGED files
             /\ Goto(p, AfterCheck(op[p].kind))
    <3>1. FilesOK' /\ vis' = vis
      BY <2>3 DEF IInv, TypeOK, FilesOK, files
    <3>2. /\ op[p].kind \in {"write", "delete", "rebind"}
          /\ AfterCheck(op[p].kind) \in {"move", "remove", "journal"}
          /\ AfterCheck(op[p].kind) = "move" => op[p].kind = "write"
          /\ AfterCheck(op[p].kind) = "remove" => op[p].kind = "delete"
          /\ AfterCheck(op[p].kind) = "journal" => op[p].kind = "rebind"
      BY <1>t, <1>h, <2>1 DEF HolderAt, RequestAt, AfterCheck
    <3>3. pc'[p] = AfterCheck(op[p].kind) /\ op'[p] = op[p]
      BY <2>1, <2>3, <3>2, GotoControl
    <3>4. HolderAt(p)'
      BY <1>h, <2>1, <2>3, <3>1, <3>2, <3>3 DEF HolderAt, RequestAt, StagingAt,
         OperationAt, CommitAt, ConditionHolds
    <3> QED BY <2>1, <2>3, <3>1, <3>2, <3>4, GotoInv
  <2> QED BY <1>2, <2>2, <2>3 DEF CheckCondition
<1>3. CASE RemoveTarget(p)
  <2>1. RestOK' /\ lock = p /\ pc[p] = "remove" /\ whose' = whose
    BY <1>3, RestKept DEF RemoveTarget, RestOK, IInv, TypeOK, holder
  <2>2. CASE Return(p, "Io") /\ UNCHANGED files
    <3>1. FilesOK' BY <2>2 DEF IInv, TypeOK, FilesOK, files
    <3> QED BY <2>1, <2>2, <3>1, ReturnInv
  <2>3. CASE Put(op[p].path, Absent) /\ Goto(p, "removeSync")
    <3>1. /\ FilesOK' /\ vis'[op[p].path] = Absent /\ vis'[Journal] = vis[Journal]
          /\ \A q \in Procs : vis'[q] = vis[q]
      BY <1>t, <2>3, PutFiles, NameAssumption DEF IInv, TypeOK, Entries, Values
    <3>2. pc'[p] = "removeSync" /\ op'[p] = op[p]
      BY <2>1, <2>3, GotoControl
    <3>3. HolderAt(p)'
      BY <1>h, <2>1, <3>1, <3>2 DEF HolderAt, RequestAt, StagingAt, OperationAt,
         CommitAt
    <3> QED BY <2>1, <2>3, <3>1, <3>3, GotoInv
  <2> QED BY <1>3, <2>2, <2>3 DEF RemoveTarget
<1>4. CASE RemoveSync(p)
  <2>1. RestOK' /\ lock = p
    BY <1>4, RestKept DEF RemoveSync, RestOK, IInv, TypeOK, holder
  <2>2. FilesOK'
    BY <1>4, SyncFiles DEF RemoveSync, IInv, TypeOK, FilesOK, files
  <2> QED BY <1>4, <2>1, <2>2, ReturnInv DEF RemoveSync
<1> QED BY <1>1, <1>2, <1>3, <1>4

LEMMA MoveSteps ==
  ASSUME IInv, NEW p \in Procs,
         \/ MoveEnvelope(p) \/ MoveFails(p)
         \/ WriteLocal(p) \/ WriteTarget(p) \/ Reconcile(p)
  PROVE  IInv'
<1> USE DEF At, HolderSteps, RecoverySteps, CommitSteps, Results
<1>t. /\ op[p].path \in Docs /\ op[p].dst \in Docs /\ Target(op[p]) \in Docs
      /\ op[p].kind \in {"write", "delete", "rebind", "recover"}
  BY RequestType
<1>h. HolderAt(p)
  BY DEF IInv
<1>n. FilesOK /\ Docs \subseteq Entries
  BY DEF IInv, TypeOK, Entries
<1>1. CASE MoveEnvelope(p)
  <2>1. RestOK' /\ lock = p /\ pc[p] = "move" /\ whose' = whose
    BY <1>1 DEF MoveEnvelope, RestOK, IInv, TypeOK, holder, counts
  <2>2. /\ FilesOK' /\ vis'[Target(op[p])] = op[p].new /\ vis'[Journal] = vis[Journal]
        /\ \A x \in Docs \ {Target(op[p])} : vis'[x] = vis[x]
        /\ \A q \in Procs \ {p} : vis'[q] = vis[q]
    <3>1. vis[p] = op[p].new
      BY <1>h, <2>1 DEF HolderAt, StagingAt, RequestAt
    <3>2. Rename(p, Target(op[p]))
      BY <1>1 DEF MoveEnvelope
    <3> QED BY <1>t, <1>n, <3>1, <3>2, RenameFiles, NameAssumption DEF Entries
  <2>3. CASE op[p].kind = "write"
    <3>1. Goto(p, "writeLocal") /\ Target(op[p]) = op[p].path
      BY <1>1, <2>3 DEF MoveEnvelope, Target
    <3>2. pc'[p] = "writeLocal" /\ op'[p] = op[p]
      BY <2>1, <3>1, GotoControl
    <3>3. HolderAt(p)'
      BY <1>h, <2>1, <2>2, <2>3, <3>1, <3>2 DEF HolderAt, RequestAt, StagingAt,
         OperationAt, CommitAt
    <3> QED BY <2>1, <2>2, <3>1, <3>3, GotoInv
  <2>4. CASE op[p].kind = "rebind"
    <3>1. Goto(p, "commitLocal") /\ Target(op[p]) = op[p].dst
      BY <1>1, <2>4 DEF MoveEnvelope, Target
    <3>2. pc'[p] = "commitLocal" /\ op'[p] = op[p]
      BY <2>1, <3>1, GotoControl
    <3>3. /\ vis'[Journal] = JournalOf(op[p]) /\ vis'[op[p].dst] = op[p].new
          /\ vis'[op[p].path] = op[p].expect
      BY <1>h, <1>t, <2>1, <2>2, <2>4, <3>1
      DEF HolderAt, OperationAt, RequestAt, ConditionHolds
    <3>4. JournalOf(op[p]) # Absent
      BY RequestType, <2>4, NameAssumption
    <3>5. RequestAt(p)' /\ StagingAt(p)' /\ OperationAt(p)'
      BY <1>h, <2>1, <2>2, <3>2 DEF HolderAt, RequestAt, StagingAt, OperationAt
    <3>6. CommitAt(p)'
      BY <2>4, <3>2, <3>3, <3>4 DEF CommitAt, Committed, JournalOf
    <3> QED BY <2>1, <2>2, <3>1, <3>5, <3>6, GotoInv DEF HolderAt
  <2> QED BY <1>h, <2>1, <2>3, <2>4 DEF HolderAt, RequestAt
<1>2. CASE MoveFails(p)
  <2>1. RestOK' /\ lock = p /\ pc[p] = "move" /\ whose' = whose
    BY <1>2, RestKept, BoundAssumption
    DEF MoveFails, RestOK, IInv, TypeOK, holder, Fault
  <2>2. op[p].kind \in {"write", "rebind"}
    BY <1>h, <2>1 DEF HolderAt, RequestAt
  <2>3. CASE /\ Rename(p, Target(op[p])) \/ Put(p, Absent)
             /\ \E r \in Results : Return(p, r)
    <3>1. FilesOK'
      BY <1>t, <1>n, <2>3, RenameFiles, PutFiles DEF Entries, Values
    <3> QED BY <2>1, <2>3, <3>1, ReturnInv
  <2>4. CASE /\ Rename(p, Target(op[p]))
             /\ op[p].kind = "write" /\ Goto(p, "reconcile")
    <3>1. pc'[p] = "reconcile" /\ op'[p] = op[p]
      BY <2>1, <2>4, GotoControl
    <3>2. /\ FilesOK' /\ vis'[Journal] = vis[Journal]
          /\ \A q \in Procs \ {p} : vis'[q] = vis[q]
      BY <1>t, <1>n, <2>4, RenameFiles, NameAssumption DEF Entries
    <3>3. HolderAt(p)'
      BY <1>h, <2>1, <2>4, <3>1, <3>2 DEF HolderAt, RequestAt, StagingAt,
         OperationAt, CommitAt
    <3> QED BY <2>1, <2>4, <3>2, <3>3, GotoInv
  <2>5. CASE op[p].kind = "rebind" /\ Goto(p, "abort") /\ UNCHANGED files
    <3>1. pc'[p] = "abort" /\ op'[p] = op[p]
      BY <2>1, <2>5, GotoControl
    <3>2. FilesOK' /\ vis' = vis
      BY <1>n, <2>5 DEF FilesOK, files
    <3>3. HolderAt(p)'
      BY <1>h, <2>1, <2>5, <3>1, <3>2 DEF HolderAt, RequestAt, StagingAt,
         OperationAt, CommitAt, ConditionHolds
    <3> QED BY <2>1, <2>5, <3>2, <3>3, GotoInv
  <2>6. CASE Fail(p, "Io")
    BY <2>1, <2>6, FailInv
  <2> QED BY <1>2, <2>2, <2>3, <2>4, <2>5, <2>6 DEF MoveFails
<1>3. CASE WriteLocal(p)
  <2>1. /\ RestOK' /\ lock = p /\ pc[p] = "writeLocal" /\ whose' = whose
        /\ Goto(p, "writeTarget")
    BY <1>3, RestKept DEF WriteLocal, RestOK, IInv, TypeOK
  <2>2. FilesOK' /\ vis' = vis
    BY <1>3, <1>n, SyncFiles DEF WriteLocal, FilesOK, files
  <2>3. pc'[p] = "writeTarget" /\ op'[p] = op[p]
    BY <2>1, GotoControl
  <2>4. HolderAt(p)'
    BY <1>h, <2>1, <2>2, <2>3 DEF HolderAt, RequestAt, StagingAt, OperationAt,
       CommitAt
  <2> QED BY <2>1, <2>2, <2>4, GotoInv
<1>4. CASE WriteTarget(p) \/ Reconcile(p)
  <2>1. RestOK' /\ lock = p
    BY <1>4, RestKept DEF WriteTarget, Reconcile, RestOK, IInv, TypeOK, holder
  <2>2. FilesOK'
    BY <1>4, <1>n, SyncFiles DEF WriteTarget, Reconcile, FilesOK, files
  <2>3. \E r \in Results : Return(p, r)
    BY <1>4 DEF WriteTarget, Reconcile, IInv, TypeOK
  <2> QED BY <2>1, <2>2, <2>3, ReturnInv
<1> QED BY <1>1, <1>2, <1>3, <1>4

LEMMA JournalSteps ==
  ASSUME IInv, NEW p \in Procs,
         InstallJournal(p) \/ SyncJournal(p) \/ AbortRebind(p)
  PROVE  IInv'
<1> USE DEF At, HolderSteps, RecoverySteps, CommitSteps, Results
<1>h. HolderAt(p)
  BY DEF IInv
<1>n. /\ FilesOK /\ p \in Entries /\ Journal \in Entries /\ p # Journal
      /\ Absent \in Values(p) /\ Absent \in Values(Journal)
  BY NameAssumption DEF IInv, TypeOK, Entries, Values
<1>1. CASE InstallJournal(p)
  <2>1. RestOK' /\ lock = p /\ pc[p] = "journal" /\ whose' = whose
    BY <1>1, RestKept DEF InstallJournal, RestOK, IInv, TypeOK, holder
  <2>2. op[p].kind = "rebind" /\ JournalOf(op[p]) \in Values(Journal)
    BY <1>h, <2>1, RequestType DEF HolderAt, RequestAt, Values
  <2>3. CASE Put(Journal, JournalOf(op[p])) /\ Goto(p, "journalSync")
    <3>1. /\ FilesOK' /\ vis'[Journal] = JournalOf(op[p])
          /\ \A x \in Docs \cup Procs : vis'[x] = vis[x]
      BY <1>n, <2>2, <2>3, PutFiles, NameAssumption DEF Entries
    <3>2. pc'[p] = "journalSync" /\ op'[p] = op[p]
      BY <2>1, <2>3, GotoControl
    <3>3. HolderAt(p)'
      BY <1>h, <2>1, <2>2, <3>1, <3>2, RequestType DEF HolderAt, RequestAt, StagingAt,
         OperationAt, CommitAt, ConditionHolds
    <3> QED BY <2>1, <2>3, <3>1, <3>3, GotoInv
  <2>4. CASE Fail(p, "Io")
    BY <2>1, <2>4, FailInv
  <2>5. CASE /\ vis' = [vis EXCEPT ![Journal] = JournalOf(op[p]), ![p] = Absent]
             /\ disk' = [disk EXCEPT ![Journal] = @ \cup {JournalOf(op[p])},
                                     ![p] = @ \cup {Absent}]
             /\ Return(p, "Io")
    <3>1. FilesOK'
      BY <1>n, <2>2, <2>5 DEF FilesOK
    <3> QED BY <2>1, <2>5, <3>1, ReturnInv
  <2> QED BY <1>1, <2>3, <2>4, <2>5 DEF InstallJournal
<1>2. CASE SyncJournal(p)
  <2>1. RestOK' /\ lock = p /\ pc[p] = "journalSync" /\ whose' = whose
    BY <1>2, RestKept DEF SyncJournal, RestOK, IInv, TypeOK, holder
  <2>2. CASE Sync(Local) /\ Goto(p, "move")
    <3>1. FilesOK' /\ vis' = vis
      BY <1>n, <2>2, SyncFiles
    <3>2. pc'[p] = "move" /\ op'[p] = op[p]
      BY <2>1, <2>2, GotoControl
    <3>3. HolderAt(p)'
      BY <1>h, <2>1, <3>1, <3>2 DEF HolderAt, RequestAt, StagingAt, OperationAt,
         CommitAt, ConditionHolds
    <3> QED BY <2>1, <2>2, <3>1, <3>3, GotoInv
  <2>3. CASE Fail(p, "Io")
    BY <2>1, <2>3, FailInv
  <2> QED BY <1>2, <2>2, <2>3 DEF SyncJournal
<1>3. CASE AbortRebind(p)
  <2>1. RestOK' /\ lock = p /\ Return(p, "Io")
    BY <1>3, RestKept DEF AbortRebind, RestOK, IInv, TypeOK, holder
  <2>2. CASE Put(p, Absent)
    BY <1>n, <2>1, <2>2, PutFiles, ReturnInv
  <2>3. CASE /\ vis' = [vis EXCEPT ![Journal] = Absent, ![p] = Absent]
             /\ disk' = [disk EXCEPT ![Journal] = @ \cup {Absent},
                                     ![p] = @ \cup {Absent}]
    <3>1. FilesOK'
      BY <1>n, <2>3 DEF FilesOK
    <3> QED BY <2>1, <3>1, ReturnInv
  <2> QED BY <1>3, <2>2, <2>3 DEF AbortRebind
<1> QED BY <1>1, <1>2, <1>3

LEMMA CommitStepsInv ==
  ASSUME IInv, NEW p \in Procs,
         \/ CommitLocal(p) \/ CommitDst(p) \/ RetireSource(p) \/ CommitSrc(p)
         \/ FinishJournal(p) \/ FinishSync(p)
  PROVE  IInv'
<1> USE DEF At, HolderSteps, RecoverySteps, CommitSteps, Results
<1> DEFINE j == vis[Journal]
<1>h. HolderAt(p)
  BY DEF IInv
<1>n. /\ FilesOK /\ Journal \in Entries /\ Docs \subseteq Entries
      /\ Absent \in Values(Journal)
      /\ \A d \in Docs : DirOf(d) = Parent[d] /\ Parent[d] # Local /\ Absent \in Values(d)
  BY NameAssumption DEF IInv, TypeOK, Entries, Values, DirOf
<1>r. ASSUME NEW r \in Results, Return(p, r), UNCHANGED files, lock = p, RestOK'
      PROVE  IInv'
  <2>1. FilesOK'
    BY <1>n, <1>r DEF FilesOK, files
  <2> QED BY <1>r, <2>1, ReturnInv
<1>j. pc[p] \in CommitSteps \ {"finishSync"} =>
        /\ j # Absent /\ j.src \in Docs /\ j.dst \in Docs /\ j.src # j.dst
  BY <1>h, JournalType DEF HolderAt, CommitAt
<1>1. CASE CommitLocal(p)
  <2>1. RestOK' /\ lock = p /\ pc[p] = "commitLocal" /\ whose' = whose
    BY <1>1, RestKept DEF CommitLocal, RestOK, IInv, TypeOK, holder
  <2>2. CASE Sync(Local) /\ Goto(p, "commitDst")
    <3>1. FilesOK' /\ vis' = vis
      BY <1>n, <2>2, SyncFiles
    <3>2. pc'[p] = "commitDst" /\ op'[p] = op[p]
      BY <2>1, <2>2, GotoControl
    <3>3. HolderAt(p)'
      BY <1>h, <2>1, <3>1, <3>2 DEF HolderAt, RequestAt, StagingAt, OperationAt,
         CommitAt, Committed, Retired
    <3> QED BY <2>1, <2>2, <3>1, <3>3, GotoInv
  <2> QED BY <1>1, <1>r, <2>1, <2>2 DEF CommitLocal
<1>2. CASE CommitDst(p)
  <2>1. RestOK' /\ lock = p /\ pc[p] = "commitDst" /\ whose' = whose
    BY <1>2, RestKept DEF CommitDst, RestOK, IInv, TypeOK, holder
  <2>2. CASE /\ Sync(Parent[j.dst])
             /\ Goto(p, IF Retired(j) THEN "commitSrc" ELSE "retireSrc")
    <3>1. FilesOK' /\ vis' = vis /\ disk'[j.dst] = {j.dstEtag}
      <4>1. vis[j.dst] = j.dstEtag
        BY <1>h, <2>1 DEF HolderAt, CommitAt, Committed, Retired
      <4> QED BY <1>n, <1>j, <2>1, <2>2, <4>1, SyncFiles
    <3>2. /\ pc'[p] \in {"commitSrc", "retireSrc"} /\ op'[p] = op[p]
          /\ pc'[p] = "commitSrc" => Retired(j)
          /\ pc'[p] = "retireSrc" => Committed(j)
      <4> DEFINE next == IF Retired(j) THEN "commitSrc" ELSE "retireSrc"
      <4>1. next \in HolderSteps /\ Goto(p, next)
        BY <2>2
      <4>2. pc'[p] = next /\ op'[p] = op[p]
        <5> HIDE DEF next
        <5> QED BY <2>1, <4>1, GotoControl
      <4>3. Committed(j) \/ Retired(j)
        BY <1>h, <2>1 DEF HolderAt, CommitAt
      <4> QED BY <4>2, <4>3
    <3>3. RequestAt(p)' /\ StagingAt(p)' /\ OperationAt(p)'
      BY <1>h, <2>1, <3>1, <3>2 DEF HolderAt, RequestAt, StagingAt, OperationAt
    <3>4. CommitAt(p)'
      BY <1>h, <2>1, <3>1, <3>2 DEF HolderAt, CommitAt, Committed, Retired
    <3> QED BY <2>1, <2>2, <3>1, <3>3, <3>4, GotoInv DEF HolderAt
  <2> QED BY <1>2, <1>r, <2>1, <2>2 DEF CommitDst
<1>3. CASE RetireSource(p)
  <2>1. RestOK' /\ lock = p /\ pc[p] = "retireSrc" /\ whose' = whose
    BY <1>3, RestKept DEF RetireSource, RestOK, IInv, TypeOK, holder
  <2>2. CASE Put(j.src, Absent) /\ Goto(p, "commitSrc")
    <3>1. /\ FilesOK' /\ vis'[j.src] = Absent
          /\ \A x \in Entries \ {j.src} : vis'[x] = vis[x] /\ disk'[x] = disk[x]
      BY <1>n, <1>j, <2>1, <2>2, PutFiles
    <3>2. /\ vis'[Journal] = j /\ vis'[j.dst] = vis[j.dst] /\ disk'[j.dst] = disk[j.dst]
          /\ \A q \in Procs : vis'[q] = vis[q]
      BY <1>n, <1>j, <2>1, <3>1, NameAssumption DEF Entries
    <3>3. pc'[p] = "commitSrc" /\ op'[p] = op[p]
      BY <2>1, <2>2, GotoControl
    <3>4. RequestAt(p)' /\ StagingAt(p)' /\ OperationAt(p)'
      BY <1>h, <2>1, <3>2, <3>3 DEF HolderAt, RequestAt, StagingAt, OperationAt
    <3>5. CommitAt(p)'
      BY <1>h, <2>1, <3>1, <3>2, <3>3 DEF HolderAt, CommitAt, Committed, Retired
    <3> QED BY <2>1, <2>2, <3>1, <3>4, <3>5, GotoInv DEF HolderAt
  <2> QED BY <1>3, <1>r, <2>1, <2>2 DEF RetireSource
<1>4. CASE CommitSrc(p)
  <2>1. RestOK' /\ lock = p /\ pc[p] = "commitSrc" /\ whose' = whose
    BY <1>4, RestKept DEF CommitSrc, RestOK, IInv, TypeOK, holder
  <2>2. CASE Sync(Parent[j.src]) /\ Goto(p, "finish")
    <3>1. vis[j.dst] = j.dstEtag /\ vis[j.src] = Absent /\ disk[j.dst] = {j.dstEtag}
      BY <1>h, <2>1 DEF HolderAt, CommitAt, Retired
    <3>2. /\ FilesOK' /\ vis' = vis
          /\ disk'[j.dst] = {j.dstEtag} /\ disk'[j.src] = {Absent}
      BY <1>n, <1>j, <2>1, <2>2, <3>1, SyncFiles
    <3>3. pc'[p] = "finish" /\ op'[p] = op[p]
      BY <2>1, <2>2, GotoControl
    <3>4. RequestAt(p)' /\ StagingAt(p)' /\ OperationAt(p)'
      BY <1>h, <2>1, <3>2, <3>3 DEF HolderAt, RequestAt, StagingAt, OperationAt
    <3>5. CommitAt(p)'
      BY <1>h, <2>1, <3>1, <3>2, <3>3 DEF HolderAt, CommitAt, Retired
    <3> QED BY <2>1, <2>2, <3>2, <3>4, <3>5, GotoInv DEF HolderAt
  <2> QED BY <1>4, <1>r, <2>1, <2>2 DEF CommitSrc
<1>5. CASE FinishJournal(p)
  <2>1. RestOK' /\ lock = p /\ pc[p] = "finish" /\ whose' = whose
    BY <1>5, RestKept DEF FinishJournal, RestOK, IInv, TypeOK, holder
  <2>2. CASE Put(Journal, Absent) /\ Goto(p, "finishSync")
    <3>1. /\ FilesOK' /\ vis'[Journal] = Absent
          /\ \A x \in Docs \cup Procs : vis'[x] = vis[x] /\ disk'[x] = disk[x]
      BY <1>n, <2>2, PutFiles, NameAssumption DEF Entries
    <3>2. pc'[p] = "finishSync" /\ op'[p] = op[p]
      BY <2>1, <2>2, GotoControl
    <3>3. RequestAt(p)' /\ StagingAt(p)' /\ OperationAt(p)'
      BY <1>h, <2>1, <3>1, <3>2 DEF HolderAt, RequestAt, StagingAt, OperationAt
    <3>4. whose = "own" => /\ op[p].kind = "rebind"
                           /\ disk[op[p].path] = {Absent}
                           /\ disk[op[p].dst] = {op[p].new}
      <4> SUFFICES ASSUME whose = "own" PROVE
             op[p].kind = "rebind" /\ disk[op[p].path] = {Absent} /\ disk[op[p].dst] = {op[p].new}
        OBVIOUS
      <4>1. op[p].kind = "rebind" /\ j = JournalOf(op[p]) /\ Retired(j)
        BY <1>h, <2>1 DEF HolderAt, CommitAt
      <4>2. ~ Uncommitted(j)
        BY <1>j, <2>1, <4>1, JournalType, NameAssumption DEF Retired, Uncommitted
      <4>3. disk[j.dst] = {j.dstEtag} /\ disk[j.src] = {Absent}
        BY <1>h, <2>1, <4>2 DEF HolderAt, CommitAt
      <4> QED BY <4>1, <4>3 DEF JournalOf
    <3>5. CommitAt(p)'
      BY <2>1, <3>1, <3>2, <3>4, RequestType DEF CommitAt
    <3> QED BY <2>1, <2>2, <3>1, <3>3, <3>5, GotoInv DEF HolderAt
  <2> QED BY <1>5, <1>r, <2>1, <2>2 DEF FinishJournal
<1>6. CASE FinishSync(p)
  <2>1. RestOK' /\ lock = p /\ pc[p] = "finishSync"
    BY <1>6, RestKept DEF FinishSync, RestOK, IInv, TypeOK, holder
  <2>2. CASE Sync(Local) /\ Return(p, "Synced")
    <3>1. FilesOK'
      BY <1>n, <2>2, SyncFiles
    <3> QED BY <2>1, <2>2, <3>1, ReturnInv
  <2>3. CASE Sync(Local) /\ Goto(p, "ready") /\ whose' = "own"
    <3>1. FilesOK' /\ vis' = vis
      BY <1>n, <2>3, SyncFiles
    <3>2. pc'[p] = "ready" /\ op'[p] = op[p]
      BY <2>1, <2>3, GotoControl
    <3>3. HolderAt(p)'
      BY <1>h, <2>1, <2>3, <3>1, <3>2 DEF HolderAt, RequestAt, StagingAt,
         OperationAt, CommitAt
    <3> QED BY <2>1, <2>3, <3>1, <3>3, GotoInv
  <2> QED BY <1>6, <1>r, <2>1, <2>2, <2>3 DEF FinishSync
<1> QED BY <1>1, <1>2, <1>3, <1>4, <1>5, <1>6

-------------------------------------------------------------------------------
(* Requests, the lock and the environment.                                 *)

LEMMA InitIInv == Init => IInv
<1> SUFFICES ASSUME Init PROVE IInv
  OBVIOUS
<1>1. TypeOK
  <2>1. \A e \in Entries : vis[e] \in Values(e)
    BY NameAssumption, BoundAssumption DEF Init, Values, Etags
  <2>2. FilesOK
    BY <2>1 DEF Init, FilesOK
  <2>3. op \in [Procs -> Requests]
    BY RecoverRequestType DEF Init
  <2> QED BY <2>2, <2>3, BoundAssumption DEF Init, TypeOK, Steps, Results
<1>2. \A p \in Procs : pc[p] = "idle" /\ op[p].kind = "recover"
  BY RecoverRequestType DEF Init
<1> QED BY <1>1, <1>2, NameAssumption
  DEF Init, IInv, LockInv, HolderAt, RequestAt, StagingAt, OperationAt, CommitAt,
      HolderSteps, RecoverySteps, CommitSteps

LEMMA BeginInv ==
  ASSUME IInv, NEW p \in Procs,
         NEW r \in NewRequests(1 .. (opCount + 1), opCount + 2), Begin(p, r)
  PROVE  IInv'
<1>1. /\ r \in Requests
      /\ r.kind \in {"delete", "rebind"} => r.expect \in Etags
      /\ r.kind = "rebind" => r.dst # r.path
  <2>1. opCount \in Nat /\ opCount + 2 \in Etags /\ 1 .. (opCount + 1) \subseteq Etags
    BY BoundAssumption DEF Begin, IInv, TypeOK, Etags
  <2> QED BY <2>1, RecoverRequestType DEF NewRequests, Requests
<1>2. TypeOK'
  <2>1. FilesOK'
    BY DEF Begin, IInv, TypeOK, FilesOK, files
  <2>2. op' \in [Procs -> Requests] /\ pc' \in [Procs -> Steps]
    BY <1>1 DEF Begin, IInv, TypeOK, Steps
  <2>3. opCount' \in 0 .. MaxOps
    BY BoundAssumption DEF Begin, IInv, TypeOK
  <2> QED BY <2>1, <2>2, <2>3 DEF Begin, IInv, TypeOK, holder, Results
<1>3. LockInv'
  BY DEF Begin, IInv, TypeOK, LockInv, HolderSteps, RecoverySteps, CommitSteps
<1>4. HolderAt(p)'
  <2>1. pc'[p] = "lock" /\ op'[p] = r
    BY DEF Begin, IInv, TypeOK
  <2> QED BY <1>1, <2>1 DEF HolderAt, RequestAt, StagingAt, OperationAt, CommitAt,
     HolderSteps, RecoverySteps, CommitSteps
<1>5. \A q \in Procs \ {p} : HolderAt(q)'
  <2> SUFFICES ASSUME NEW q \in Procs \ {p} PROVE HolderAt(q)'
    OBVIOUS
  <2>1. /\ pc'[q] = pc[q] /\ op'[q] = op[q] /\ vis' = vis /\ disk' = disk
        /\ whose' = whose /\ HolderAt(q)
    BY DEF Begin, IInv, TypeOK, files, holder
  <2>2. RequestAt(q)' /\ StagingAt(q)'
    BY <2>1 DEF HolderAt, RequestAt, StagingAt
  <2>3. OperationAt(q)'
    BY <2>1 DEF HolderAt, OperationAt, ConditionHolds
  <2>4. CommitAt(q)'
    BY <2>1 DEF HolderAt, CommitAt, Committed, Retired, Uncommitted
  <2> QED BY <2>2, <2>3, <2>4 DEF HolderAt
<1> QED BY <1>2, <1>3, <1>4, <1>5 DEF IInv

LEMMA AcquireInv ==
  ASSUME IInv, NEW p \in Procs, Acquire(p)
  PROVE  IInv'
<1> USE DEF HolderSteps, RecoverySteps, CommitSteps
<1>1. TypeOK'
  BY DEF Acquire, IInv, TypeOK, FilesOK, files, counts, Steps, Results
<1>2. /\ pc'[p] = "clean" /\ op' = op
      /\ \A q \in Procs \ {p} : pc'[q] = pc[q] /\ pc[q] \notin HolderSteps
  BY NameAssumption DEF Acquire, IInv, TypeOK, LockInv
<1>3. LockInv'
  BY <1>2 DEF Acquire, LockInv
<1>4. \A q \in Procs : RequestAt(q)'
  BY <1>2 DEF IInv, HolderAt, RequestAt
<1>5. \A q \in Procs : StagingAt(q)' /\ OperationAt(q)' /\ CommitAt(q)'
  BY <1>2 DEF Acquire, StagingAt, OperationAt, CommitAt
<1> QED BY <1>1, <1>3, <1>4, <1>5 DEF IInv, HolderAt

LEMMA KillInv ==
  ASSUME IInv, NEW p \in Procs, Kill(p)
  PROVE  IInv'
<1>1. TypeOK'
  <2>1. FilesOK'
    BY DEF Kill, IInv, TypeOK, FilesOK, files
  <2>2. op' \in [Procs -> Requests] /\ pc' \in [Procs -> Steps]
    BY RecoverRequestType DEF Kill, IInv, TypeOK, Steps
  <2>3. kills' \in 0 .. MaxKills
    BY BoundAssumption DEF Kill, IInv, TypeOK
  <2> QED BY <2>1, <2>2, <2>3 DEF Kill, IInv, TypeOK, holder, Results
<1>2. pc'[p] = "idle" /\ op'[p].kind = "recover"
  BY RecoverRequestType DEF Kill, IInv, TypeOK
<1>3. LockInv'
  BY <1>2, NameAssumption DEF Kill, IInv, TypeOK, LockInv, HolderSteps, RecoverySteps, CommitSteps
<1>4. HolderAt(p)'
  BY <1>2 DEF HolderAt, RequestAt, StagingAt, OperationAt, CommitAt,
     HolderSteps, RecoverySteps, CommitSteps
<1>5. ASSUME NEW q \in Procs \ {p} PROVE HolderAt(q)'
  <2>1. /\ pc'[q] = pc[q] /\ op'[q] = op[q] /\ vis' = vis /\ disk' = disk
        /\ whose' = whose /\ HolderAt(q)
    BY DEF Kill, IInv, TypeOK, files, holder
  <2>2. RequestAt(q)' /\ StagingAt(q)'
    BY <2>1 DEF HolderAt, RequestAt, StagingAt
  <2>3. OperationAt(q)'
    BY <2>1 DEF HolderAt, OperationAt, ConditionHolds
  <2>4. CommitAt(q)'
    BY <2>1 DEF HolderAt, CommitAt, Committed, Retired, Uncommitted
  <2> QED BY <2>2, <2>3, <2>4 DEF HolderAt
<1> QED BY <1>1, <1>3, <1>4, <1>5 DEF IInv

LEMMA PowerLossInv ==
  ASSUME IInv, PowerLoss
  PROVE  IInv'
<1>1. \A e \in Entries : vis'[e] \in disk[e]
  BY NameAssumption DEF PowerLoss, Outcomes, Envelopes, Entries
<1>2. vis' = [e \in Entries |-> vis'[e]] /\ disk' = [e \in Entries |-> {vis'[e]}]
  BY DEF PowerLoss, Outcomes
<1>3. FilesOK'
  BY <1>1, <1>2 DEF IInv, TypeOK, FilesOK, Values
<1>4. TypeOK'
  BY <1>3, BoundAssumption, RecoverRequestType DEF PowerLoss, IInv, TypeOK, holder, Steps, Results
<1>5. \A p \in Procs : pc'[p] = "idle" /\ op'[p].kind = "recover"
  BY RecoverRequestType DEF PowerLoss
<1> QED BY <1>4, <1>5, NameAssumption
  DEF PowerLoss, IInv, LockInv, HolderAt, RequestAt, StagingAt, OperationAt, CommitAt,
      HolderSteps, RecoverySteps, CommitSteps

LEMMA StutterInv ==
  ASSUME IInv, UNCHANGED vars
  PROVE  IInv'
<1>1. TypeOK' /\ LockInv'
  BY DEF IInv, vars, TypeOK, FilesOK, LockInv
<1>2. ASSUME NEW q \in Procs PROVE HolderAt(q)'
  BY DEF IInv, vars, HolderAt, RequestAt, StagingAt, OperationAt, CommitAt,
     ConditionHolds, Committed, Retired, Uncommitted
<1> QED BY <1>1, <1>2 DEF IInv

LEMMA HolderStepInv ==
  ASSUME IInv, NEW p \in Procs, HolderStep(p)
  PROVE  IInv'
BY AcquireSteps, OperationSteps, MoveSteps, JournalSteps, CommitStepsInv DEF HolderStep

LEMMA NextIInv == IInv /\ [Next]_vars => IInv'
BY HolderStepInv, AcquireInv, BeginInv, KillInv, PowerLossInv, StutterInv DEF Next, Run

\* The inductive invariant holds in every reachable state.
THEOREM InvariantHolds == Spec => []IInv
BY InitIInv, NextIInv, PTL DEF Spec

\* Every variable keeps its type: in particular the journal entry never holds
\* anything but a journal record, also on disk.
THEOREM TypeCorrect == Spec => []TypeOK
<1>1. IInv => TypeOK
  BY DEF IInv
<1> QED BY <1>1, InvariantHolds, PTL

\* Once a guard is acquired, the vault holds neither a foreign staging file nor
\* an interrupted rename.
THEOREM Settled == Spec => []SettledBeforeMutation
<1>1. IInv => SettledBeforeMutation
  BY DEF IInv, HolderAt, StagingAt, OperationAt, SettledBeforeMutation, HolderSteps
<1> QED BY <1>1, InvariantHolds, PTL

\* The source of a rename is removed only when its destination is durable.
THEOREM RenameKeepsContent == Spec => SourceOutlivedByDestination
<1>1. IInv /\ [Next]_vars =>
        [\A p \in Procs : RetireSource(p) =>
           LET j == vis[Journal] IN
             disk'[j.src] # disk[j.src] => disk[j.dst] = {j.dstEtag}]_vars
  BY DEF IInv, HolderAt, CommitAt, RetireSource, At
<1> QED BY <1>1, InvariantHolds, PTL DEF Spec, SourceOutlivedByDestination

-------------------------------------------------------------------------------
(* No lost update.                                                         *)

\* The steps that leave every document as it is.
LEMMA QuietSteps ==
  ASSUME IInv, NEW p \in Procs, NEW d \in Docs,
         \/ Acquire(p) \/ Kill(p)
         \/ \E r \in NewRequests(1 .. (opCount + 1), opCount + 2) : Begin(p, r)
         \/ RemoveStaging(p) \/ StagingClean(p) \/ InspectJournal(p)
         \/ Prepare(p) \/ CheckCondition(p) \/ RemoveSync(p)
         \/ WriteLocal(p) \/ WriteTarget(p) \/ Reconcile(p)
         \/ InstallJournal(p) \/ SyncJournal(p) \/ AbortRebind(p)
         \/ CommitLocal(p) \/ CommitDst(p) \/ CommitSrc(p)
         \/ FinishJournal(p) \/ FinishSync(p)
  PROVE  vis'[d] = vis[d]
<1>1. /\ \A q \in Procs : d # q
      /\ d # Journal /\ d \in Entries
  BY NameAssumption DEF Entries
<1>2. vis = [e \in Entries |-> vis[e]]
  BY DEF IInv, TypeOK, FilesOK
<1>3. \A e, v : Put(e, v) /\ e # d => vis'[d] = vis[d]
  BY <1>1, <1>2 DEF Put
<1>4. \A dir : Sync(dir) => vis'[d] = vis[d]
  BY DEF Sync
<1>5. CASE \/ Acquire(p) \/ Kill(p) \/ StagingClean(p) \/ InspectJournal(p)
           \/ \E r \in NewRequests(1 .. (opCount + 1), opCount + 2) : Begin(p, r)
  BY <1>5 DEF Acquire, Kill, StagingClean, InspectJournal, Begin, files
<1>6. CASE RemoveStaging(p) \/ Prepare(p) \/ CheckCondition(p)
  BY <1>1, <1>3, <1>6 DEF RemoveStaging, Prepare, CheckCondition, Fail, files
<1>7. CASE \/ RemoveSync(p) \/ WriteLocal(p) \/ WriteTarget(p) \/ Reconcile(p)
           \/ CommitLocal(p) \/ CommitDst(p) \/ CommitSrc(p) \/ FinishSync(p)
  BY <1>4, <1>7 DEF RemoveSync, WriteLocal, WriteTarget, Reconcile, CommitLocal,
     CommitDst, CommitSrc, FinishSync, files
<1>8. CASE InstallJournal(p) \/ SyncJournal(p) \/ FinishJournal(p)
  BY <1>1, <1>2, <1>3, <1>4, <1>8 DEF InstallJournal, SyncJournal, FinishJournal, Fail, files
<1>9. CASE AbortRebind(p)
  BY <1>1, <1>2, <1>3, <1>9 DEF AbortRebind
<1> QED BY <1>5, <1>6, <1>7, <1>8, <1>9

\* The four steps that change a document do what a request asked for, with its
\* condition still true.
LEMMA LoudSteps ==
  ASSUME IInv, NEW p \in Procs, NEW d \in Docs, vis'[d] # vis[d],
         RemoveTarget(p) \/ MoveEnvelope(p) \/ MoveFails(p) \/ RetireSource(p)
  PROVE  lock = p /\ (Requested(op[p], d) \/ Renamed(vis[Journal], d))
<1>1. /\ op[p].path \in Docs /\ op[p].dst \in Docs /\ Target(op[p]) \in Docs
      /\ op[p].kind \in {"write", "delete", "rebind", "recover"}
  BY RequestType
<1>2. HolderAt(p) /\ FilesOK /\ d \in Entries /\ d # p /\ d # Journal
  BY NameAssumption DEF IInv, TypeOK, Entries
<1>3. lock = p
  BY DEF RemoveTarget, MoveEnvelope, MoveFails, RetireSource, At
<1>4. \A e \in Entries : \A v : Put(e, v) => d = e /\ vis'[d] = v
  BY <1>2 DEF Put, FilesOK
<1>5. Rename(p, Target(op[p])) => d = Target(op[p]) /\ vis'[d] = vis[p]
  BY <1>1, <1>2, RenameFiles
<1>6. ~ UNCHANGED files
  BY DEF files
<1>7. CASE RemoveTarget(p)
  <2>1. d = op[p].path /\ vis'[d] = Absent
    BY <1>1, <1>4, <1>6, <1>7 DEF RemoveTarget, Entries
  <2>2. op[p].kind = "delete" /\ vis[op[p].path] = op[p].expect
    BY <1>2, <1>7 DEF RemoveTarget, At, HolderAt, RequestAt, OperationAt, ConditionHolds
  <2> QED BY <1>3, <2>1, <2>2 DEF Requested
<1>8. CASE MoveEnvelope(p) \/ MoveFails(p)
  <2>1. d = Target(op[p]) /\ vis'[d] = vis[p]
    <3>1. ~ Put(p, Absent)
      BY <1>2, <1>4 DEF Entries
    <3>2. Rename(p, Target(op[p]))
      BY <1>6, <1>8, <3>1 DEF MoveEnvelope, MoveFails, Fail
    <3> QED BY <1>5, <3>2
  <2>2. pc[p] = "move"
    BY <1>8 DEF MoveEnvelope, MoveFails, At
  <2>3. /\ op[p].kind \in {"write", "rebind"} /\ vis[p] = op[p].new
        /\ ConditionHolds(op[p])
    BY <1>2, <2>2 DEF HolderAt, RequestAt, StagingAt, OperationAt
  <2> QED BY <1>3, <2>1, <2>3 DEF Requested, Target, ConditionHolds
<1>9. CASE RetireSource(p)
  <2>1. pc[p] = "retireSrc" /\ vis[Journal] # Absent /\ Committed(vis[Journal])
    BY <1>2, <1>9 DEF RetireSource, At, HolderAt, CommitAt, CommitSteps
  <2>2. d = vis[Journal].src /\ vis'[d] = Absent
    BY <1>4, <1>6, <1>9, <2>1, JournalType DEF RetireSource, Entries
  <2> QED BY <1>3, <2>1, <2>2 DEF Renamed
<1> QED BY <1>7, <1>8, <1>9

\* A document changes only as a request whose condition still holds asks, or
\* because a committed rename removes its source: no update is lost.
THEOREM UpdatesAreRequested == Spec => NoLostUpdate
<1>1. ASSUME IInv, [Next]_vars, losses' = losses, NEW d \in Docs, vis'[d] # vis[d]
      PROVE  \E p \in Procs :
               lock = p /\ (Requested(op[p], d) \/ Renamed(vis[Journal], d))
  <2>1. ~ UNCHANGED vars
    BY <1>1 DEF vars
  <2>2. ~ PowerLoss
    BY <1>1 DEF PowerLoss, IInv, TypeOK
  <2>3. PICK p \in Procs :
          \/ Run(p) \/ Kill(p)
          \/ \E r \in NewRequests(1 .. (opCount + 1), opCount + 2) : Begin(p, r)
    BY <1>1, <2>1, <2>2 DEF Next
  <2>4. RemoveTarget(p) \/ MoveEnvelope(p) \/ MoveFails(p) \/ RetireSource(p)
    BY <1>1, <2>3, QuietSteps DEF Run, HolderStep
  <2> QED BY <1>1, <2>4, LoudSteps
<1>2. IInv /\ [Next]_vars =>
        [losses' = losses =>
           \A d \in Docs : vis'[d] # vis[d] =>
             \E p \in Procs :
               lock = p /\ (Requested(op[p], d) \/ Renamed(vis[Journal], d))]_vars
  BY <1>1
<1> QED BY <1>2, InvariantHolds, PTL DEF Spec, NoLostUpdate

-------------------------------------------------------------------------------
(* Acknowledged operations are durable.                                    *)

\* Only three steps answer "Synced".
LEMMA SyncedReply ==
  ASSUME IInv, NEW p \in Procs, reply' = "Synced",
         Run(p) \/ Kill(p)
         \/ \E r \in NewRequests(1 .. (opCount + 1), opCount + 2) : Begin(p, r)
  PROVE  \/ RemoveSync(p) /\ Sync(Parent[op[p].path])
         \/ WriteTarget(p) /\ Sync(Parent[op[p].path])
         \/ FinishSync(p) /\ Sync(Local) /\ whose = "own"
<1>1. \A s : ~ Goto(p, s)
  BY DEF Goto
<1>2. \A r : Return(p, r) => r = "Synced"
  BY DEF Return
<1>3. ~ Acquire(p) /\ ~ Kill(p) /\ \A r : ~ Begin(p, r)
  BY DEF Acquire, Kill, Begin
<1>4. ~ RemoveStaging(p) /\ ~ StagingClean(p) /\ ~ InspectJournal(p)
  BY <1>1, <1>2 DEF RemoveStaging, StagingClean, InspectJournal
<1>5. ~ Prepare(p) /\ ~ CheckCondition(p) /\ ~ RemoveTarget(p)
  BY <1>1, <1>2 DEF Prepare, CheckCondition, RemoveTarget, Fail
<1>6. ~ MoveEnvelope(p) /\ ~ MoveFails(p) /\ ~ WriteLocal(p) /\ ~ Reconcile(p)
  BY <1>1, <1>2 DEF MoveEnvelope, MoveFails, WriteLocal, Reconcile, Fail
<1>7. ~ InstallJournal(p) /\ ~ SyncJournal(p) /\ ~ AbortRebind(p)
  BY <1>1, <1>2 DEF InstallJournal, SyncJournal, AbortRebind, Fail
<1>8. ~ CommitLocal(p) /\ ~ CommitDst(p) /\ ~ RetireSource(p) /\ ~ CommitSrc(p)
      /\ ~ FinishJournal(p)
  BY <1>1, <1>2 DEF CommitLocal, CommitDst, RetireSource, CommitSrc, FinishJournal
<1>9. RemoveSync(p) \/ WriteTarget(p) \/ FinishSync(p)
  BY <1>3, <1>4, <1>5, <1>6, <1>7, <1>8 DEF Run, HolderStep
<1>10. RemoveSync(p) => Sync(Parent[op[p].path])
  BY <1>2 DEF RemoveSync
<1>11. WriteTarget(p) => Sync(Parent[op[p].path])
  BY <1>2 DEF WriteTarget
<1>12. FinishSync(p) => Sync(Local) /\ whose = "own"
  BY <1>1, <1>2 DEF FinishSync, IInv, TypeOK
<1> QED BY <1>9, <1>10, <1>11, <1>12

\* ParentSyncStatus::Synced is never reported for something that a power loss
\* could still undo.
THEOREM SyncedMeansDurable == Spec => AcknowledgedIsDurable
<1>1. ASSUME IInv, [Next]_vars, reply' = "Synced", ~ UNCHANGED vars
      PROVE  LET r == op[lock] IN
               /\ r.kind = "write"  => disk'[r.path] = {r.new}
               /\ r.kind = "delete" => disk'[r.path] = {Absent}
               /\ r.kind = "rebind" => /\ disk'[r.path] = {Absent}
                                       /\ disk'[r.dst] = {r.new}
                                       /\ disk'[Journal] = {Absent}
  <2>1. ~ PowerLoss
    BY <1>1 DEF PowerLoss
  <2>2. PICK p \in Procs :
          \/ RemoveSync(p) /\ Sync(Parent[op[p].path])
          \/ WriteTarget(p) /\ Sync(Parent[op[p].path])
          \/ FinishSync(p) /\ Sync(Local) /\ whose = "own"
    BY <1>1, <2>1, SyncedReply DEF Next
  <2>3. lock = p /\ HolderAt(p) /\ FilesOK /\ Journal \in Entries
    BY <1>1, <2>2 DEF RemoveSync, WriteTarget, FinishSync, At, IInv, TypeOK, Entries
  <2>4. op[p].path \in Docs /\ op[p].dst \in Docs
    BY <1>1, RequestType
  <2>5. /\ \A d \in Docs : d \in Entries /\ DirOf(d) = Parent[d] /\ Parent[d] # Local
        /\ DirOf(Journal) = Local
    BY NameAssumption DEF Entries, DirOf
  <2>6. CASE RemoveSync(p) /\ Sync(Parent[op[p].path])
    <3>1. op[p].kind = "delete" /\ vis[op[p].path] = Absent
      BY <2>3, <2>6 DEF RemoveSync, At, HolderAt, RequestAt, OperationAt
    <3> QED BY <2>3, <2>4, <2>5, <2>6, <3>1, SyncFiles
  <2>7. CASE WriteTarget(p) /\ Sync(Parent[op[p].path])
    <3>1. op[p].kind = "write" /\ vis[op[p].path] = op[p].new
      BY <2>3, <2>7 DEF WriteTarget, At, HolderAt, RequestAt, OperationAt
    <3> QED BY <2>3, <2>4, <2>5, <2>7, <3>1, SyncFiles
  <2>8. CASE FinishSync(p) /\ Sync(Local) /\ whose = "own"
    <3>1. /\ op[p].kind = "rebind" /\ vis[Journal] = Absent
          /\ disk[op[p].path] = {Absent} /\ disk[op[p].dst] = {op[p].new}
      BY <2>3, <2>8 DEF FinishSync, At, HolderAt, CommitAt, OperationAt
    <3> QED BY <2>3, <2>4, <2>5, <2>8, <3>1 DEF Sync
  <2> QED BY <2>2, <2>6, <2>7, <2>8
<1>2. IInv /\ [Next]_vars =>
        [reply' = "Synced" =>
           LET r == op[lock] IN
             /\ r.kind = "write"  => disk'[r.path] = {r.new}
             /\ r.kind = "delete" => disk'[r.path] = {Absent}
             /\ r.kind = "rebind" => /\ disk'[r.path] = {Absent}
                                     /\ disk'[r.dst] = {r.new}
                                     /\ disk'[Journal] = {Absent}]_vars
  BY <1>1
<1> QED BY <1>2, InvariantHolds, PTL DEF Spec, AcknowledgedIsDurable

-------------------------------------------------------------------------------
(* Without power loss, recovery never gets stuck.                          *)

\* A step that touches neither the journal nor the documents it names.
LEMMA RecoverableKept ==
  ASSUME IInv, Repairable, vis'[Journal] = vis[Journal],
         \A d \in Docs : vis'[d] = vis[d]
  PROVE  Repairable'
BY JournalType DEF Repairable, Uncommitted, Committed, Retired

LEMMA RecoverableStep ==
  ASSUME IInv, Repairable, [Next]_vars, losses' = losses
  PROVE  Repairable'
<1>n. FilesOK /\ Journal \in Entries /\ Docs \subseteq Entries /\ Procs \subseteq Entries
  BY DEF IInv, TypeOK, Entries
<1>1. CASE UNCHANGED vars
  BY <1>1, RecoverableKept DEF vars
<1>2. ASSUME NEW p \in Procs,
             \/ Run(p) \/ Kill(p)
             \/ \E r \in NewRequests(1 .. (opCount + 1), opCount + 2) : Begin(p, r)
      PROVE  Repairable'
  <2>h. HolderAt(p)
    BY DEF IInv
  <2>t. /\ op[p].path \in Docs /\ op[p].dst \in Docs /\ Target(op[p]) \in Docs
        /\ op[p].kind = "rebind" => JournalOf(op[p]) \in JournalRecords
    BY RequestType
  <2>1. CASE vis'[Journal] = Absent
    BY <2>1 DEF Repairable
  <2>2. CASE RemoveTarget(p)
    <3>1. vis[Journal] = Absent
      BY <2>h, <2>2 DEF RemoveTarget, At, HolderAt, OperationAt
    <3>2. vis'[Journal] = vis[Journal]
      BY <1>n, <2>2, <2>t, NameAssumption DEF RemoveTarget, Put, FilesOK, files
    <3> QED BY <2>1, <3>1, <3>2
  <2>3. CASE MoveEnvelope(p) \/ MoveFails(p)
    <3>1. pc[p] = "move"
      BY <2>3 DEF MoveEnvelope, MoveFails, At
    <3>2. CASE op[p].kind = "write"
      <4>1. vis[Journal] = Absent
        BY <2>h, <3>1, <3>2 DEF HolderAt, OperationAt
      <4>2. vis'[Journal] = vis[Journal]
        BY <1>n, <2>3, <2>t, NameAssumption
        DEF MoveEnvelope, MoveFails, Rename, Put, Fail, FilesOK, files
      <4> QED BY <2>1, <4>1, <4>2
    <3>3. CASE op[p].kind = "rebind"
      <4>1. /\ vis[Journal] = JournalOf(op[p]) /\ ConditionHolds(op[p])
            /\ vis[p] = op[p].new /\ op[p].dst # op[p].path
        BY <2>h, <3>1, <3>3 DEF HolderAt, OperationAt, StagingAt, RequestAt
      <4>2. CASE Rename(p, op[p].dst)
        <5>1. /\ vis'[Journal] = JournalOf(op[p]) /\ vis'[op[p].dst] = op[p].new
              /\ vis'[op[p].path] = op[p].expect
          BY <1>n, <2>t, <3>3, <4>1, <4>2, RenameFiles, NameAssumption
          DEF ConditionHolds, Entries
        <5> QED BY <5>1 DEF Repairable, Committed, JournalOf
      <4>3. CASE \A x \in Entries \ {p} : vis'[x] = vis[x]
        BY <1>n, <4>3, RecoverableKept, NameAssumption
      <4>4. Rename(p, op[p].dst) \/ Put(p, Absent) \/ UNCHANGED files
        BY <2>3, <3>3 DEF MoveEnvelope, MoveFails, Target, Fail
      <4>5. Put(p, Absent) \/ UNCHANGED files => \A x \in Entries \ {p} : vis'[x] = vis[x]
        BY <1>n DEF Put, files, FilesOK
      <4> QED BY <4>2, <4>3, <4>4, <4>5
    <3> QED BY <2>h, <3>1, <3>2, <3>3 DEF HolderAt, RequestAt
  <2>4. CASE RetireSource(p)
    <3>1. vis[Journal] # Absent /\ Committed(vis[Journal])
      BY <2>h, <2>4 DEF RetireSource, At, HolderAt, CommitAt, CommitSteps
    <3>2. CASE UNCHANGED files
      BY <3>2, RecoverableKept DEF files
    <3>3. CASE Put(vis[Journal].src, Absent)
      <4>1. /\ vis'[Journal] = vis[Journal] /\ vis'[vis[Journal].src] = Absent
            /\ vis'[vis[Journal].dst] = vis[vis[Journal].dst]
        BY <1>n, <3>1, <3>3, JournalType, NameAssumption DEF Put, FilesOK
      <4> QED BY <3>1, <4>1 DEF Repairable, Committed, Retired
    <3> QED BY <2>4, <3>2, <3>3 DEF RetireSource
  <2>5. CASE InstallJournal(p)
    <3>1. op[p].kind = "rebind" /\ ConditionHolds(op[p]) /\ vis[Journal] = Absent
      BY <2>h, <2>5 DEF InstallJournal, At, HolderAt, RequestAt, OperationAt
    <3>2. vis'[Journal] \in {Absent, JournalOf(op[p])}
      BY <1>n, <2>5, <3>1, NameAssumption DEF InstallJournal, Fail, Put, FilesOK
    <3>3. \A d \in Docs : vis'[d] = vis[d]
      BY <2>5, QuietSteps
    <3> QED BY <2>1, <2>t, <3>1, <3>2, <3>3
      DEF Repairable, Uncommitted, JournalOf, ConditionHolds
  <2>6. CASE AbortRebind(p) \/ FinishJournal(p)
    <3>1. vis'[Journal] \in {Absent, vis[Journal]}
      BY <1>n, <2>6, NameAssumption DEF AbortRebind, FinishJournal, Put, FilesOK, files
    <3>2. \A d \in Docs : vis'[d] = vis[d]
      BY <2>6, QuietSteps
    <3> QED BY <2>1, <3>1, <3>2, RecoverableKept
  <2>7. CASE \/ Acquire(p) \/ Kill(p)
             \/ \E r \in NewRequests(1 .. (opCount + 1), opCount + 2) : Begin(p, r)
             \/ RemoveStaging(p) \/ StagingClean(p) \/ InspectJournal(p)
             \/ Prepare(p) \/ CheckCondition(p) \/ RemoveSync(p)
             \/ WriteLocal(p) \/ WriteTarget(p) \/ Reconcile(p) \/ SyncJournal(p)
             \/ CommitLocal(p) \/ CommitDst(p) \/ CommitSrc(p) \/ FinishSync(p)
    <3>1. \A d \in Docs : vis'[d] = vis[d]
      BY <2>7, QuietSteps
    <3>2. \A q \in Procs : \A v : Put(q, v) => vis'[Journal] = vis[Journal]
      BY <1>n, NameAssumption DEF Put, FilesOK
    <3>3. \A dir : Sync(dir) => vis'[Journal] = vis[Journal]
      BY DEF Sync
    <3>4. vis'[Journal] = vis[Journal]
      <4>1. CASE \/ Acquire(p) \/ Kill(p) \/ StagingClean(p) \/ InspectJournal(p)
                 \/ \E r \in NewRequests(1 .. (opCount + 1), opCount + 2) : Begin(p, r)
        BY <4>1 DEF Acquire, Kill, StagingClean, InspectJournal, Begin, files
      <4>2. CASE RemoveStaging(p) \/ Prepare(p) \/ CheckCondition(p) \/ SyncJournal(p)
        BY <3>2, <3>3, <4>2 DEF RemoveStaging, Prepare, CheckCondition, SyncJournal,
           Fail, files
      <4>3. CASE \/ RemoveSync(p) \/ WriteLocal(p) \/ WriteTarget(p) \/ Reconcile(p)
                 \/ CommitLocal(p) \/ CommitDst(p) \/ CommitSrc(p) \/ FinishSync(p)
        BY <3>3, <4>3 DEF RemoveSync, WriteLocal, WriteTarget, Reconcile, CommitLocal,
           CommitDst, CommitSrc, FinishSync, files
      <4> QED BY <2>7, <4>1, <4>2, <4>3
    <3> QED BY <3>1, <3>4, RecoverableKept
  <2> QED BY <1>2, <2>2, <2>3, <2>4, <2>5, <2>6, <2>7 DEF Run, HolderStep
<1>3. ~ PowerLoss
  BY DEF PowerLoss, IInv, TypeOK
<1> QED BY <1>1, <1>2, <1>3 DEF Next

\* The count of power losses never goes down.
LEMMA LossesGrow ==
  ASSUME IInv, IInv', [Next]_vars, losses' = 0
  PROVE  losses' = losses
<1>1. CASE PowerLoss
  BY <1>1 DEF PowerLoss, IInv, TypeOK
<1>2. CASE UNCHANGED vars
  BY <1>2 DEF vars
<1>3. ASSUME NEW p \in Procs, Kill(p) \/ Acquire(p)
      PROVE  losses' = losses
  BY <1>3 DEF Kill, Acquire, counts
<1>5. ASSUME NEW p \in Procs, NEW r, Begin(p, r)
      PROVE  losses' = losses
  BY <1>5, Zenon DEF Begin
<1>4. ASSUME NEW p \in Procs, HolderStep(p)
      PROVE  losses' = losses
  <2>1. CASE RemoveStaging(p) \/ StagingClean(p) \/ InspectJournal(p)
    BY <2>1 DEF RemoveStaging, StagingClean, InspectJournal, counts
  <2>2. CASE Prepare(p) \/ CheckCondition(p) \/ RemoveTarget(p) \/ RemoveSync(p)
    BY <2>2 DEF Prepare, CheckCondition, RemoveTarget, RemoveSync, counts
  <2>3. CASE \/ MoveEnvelope(p) \/ MoveFails(p) \/ WriteLocal(p) \/ WriteTarget(p)
             \/ Reconcile(p)
    BY <2>3 DEF MoveEnvelope, MoveFails, WriteLocal, WriteTarget, Reconcile, counts
  <2>4. CASE InstallJournal(p) \/ SyncJournal(p) \/ AbortRebind(p)
    BY <2>4 DEF InstallJournal, SyncJournal, AbortRebind, counts
  <2>5. CASE CommitLocal(p) \/ CommitDst(p) \/ RetireSource(p) \/ CommitSrc(p)
    BY <2>5 DEF CommitLocal, CommitDst, RetireSource, CommitSrc, counts
  <2>6. CASE FinishJournal(p) \/ FinishSync(p)
    BY <2>6 DEF FinishJournal, FinishSync, counts
  <2> QED BY <1>4, <2>1, <2>2, <2>3, <2>4, <2>5, <2>6 DEF HolderStep
<1> QED BY <1>1, <1>2, <1>3, <1>4, <1>5 DEF Next, Run

\* As long as power is not lost, an interrupted rename can be completed or
\* rolled back, however many processes die and calls fail: killing a process
\* at any instruction never locks the vault against mutation.
THEOREM KillsNeverWedge == Spec => []JournalRecoverable
<1>1. Init => JournalRecoverable
  BY NameAssumption DEF Init, JournalRecoverable, Repairable, Entries
<1>2. IInv /\ IInv' /\ JournalRecoverable /\ [Next]_vars => JournalRecoverable'
  BY LossesGrow, RecoverableStep DEF JournalRecoverable
<1> QED BY <1>1, <1>2, InvariantHolds, PTL DEF Spec

-------------------------------------------------------------------------------
(* VaultStore implements AtomicVault.                                      *)
(*                                                                         *)
(* A second inductive invariant, about what is on disk.  Two facts carry   *)
(* the refinement.  A rename that is on disk but not visible can never     *)
(* again be taken for a committed one, because its two etags are never     *)
(* made again; and a rename is only committed once its journal is certain. *)

Made == 1 .. (opCount + 1)

\* A power loss on the disk D cannot leave this rename committed with its source
\* in place.
Inert(D, j) ==
  j # Absent => ~ (j.srcEtag \in D[j.src] /\ j.dstEtag \in D[j.dst])

Journals == disk[Journal] \ {Absent}

\* Whatever is on disk was made by an operation that has begun.
EtagsMade ==
  /\ \A d \in Docs : disk[d] \ {Absent} \subseteq Made
  /\ \A j \in Journals : j.srcEtag \in Made /\ j.dstEtag \in Made
  /\ \A p \in Procs : op[p].expect \in Made \cup {Absent} /\ op[p].new \in Made

\* Two running operations make different envelopes.
NewDiffers ==
  \A p, q \in Procs :
    (/\ p # q /\ pc[p] # "idle" /\ pc[q] # "idle"
     /\ op[p].kind # "recover" /\ op[q].kind # "recover")
      => op[p].new # op[q].new

\* The operations that have not moved their envelope, and the steps of a rename
\* that has its journal in place by then.
BeforeMove == {"lock", "clean", "inspect", "ready", "check", "journal",
               "journalSync", "move", "abort"}
Journaled  == {"journalSync", "move", "abort"}

Unmoved(p) ==
  /\ op[p].kind # "recover"
  /\ pc[p] \in BeforeMove \/ (pc[p] \in CommitSteps /\ whose = "found")

\* Before the move an envelope is at no path, and no journal but that of its
\* own operation names it.
NewUnused(p) ==
  Unmoved(p) =>
    /\ \A d \in Docs : op[p].new \notin disk[d]
    /\ \A j \in Journals :
         /\ j.srcEtag # op[p].new
         /\ j.dstEtag = op[p].new => /\ op[p].kind = "rebind" /\ pc[p] \in Journaled
                                     /\ j = JournalOf(op[p])

\* What the visible journal says about the disk.
JournalOnDisk ==
  LET j == vis[Journal] IN
  /\ \A i \in Journals \ {j} : Inert(disk, i)
  /\ j # Absent /\ Uncommitted(j) => Inert(disk, j)
  /\ j # Absent /\ (Committed(j) \/ Retired(j)) => disk[Journal] = {j}
  /\ \A p \in Procs : pc[p] = "move" /\ op[p].kind = "rebind" => disk[Journal] = {j}

VisibleOnDisk == \A e \in Entries : vis[e] \in disk[e]

DiskInv ==
  /\ VisibleOnDisk /\ EtagsMade /\ NewDiffers /\ JournalOnDisk
  /\ \A p \in Procs : NewUnused(p)

\* The worlds of a power loss: any choice of an on-disk value for each entry.
LEMMA OutcomeIs ==
  /\ \A f : f \in Outcomes <=>
       f = [e \in Entries |-> f[e]] /\ \A e \in Entries : f[e] \in disk[e]
  /\ \A f : f \in Outcomes' <=>
       f = [e \in Entries |-> f[e]] /\ \A e \in Entries : f[e] \in disk'[e]
<1> DEFINE Of(D) ==
  {[e \in Entries |-> IF e = Journal THEN o[2] ELSE o[1][e]] :
     o \in {f \in [Envelopes -> UNION {D[e] : e \in Envelopes}] :
              \A e \in Envelopes : f[e] \in D[e]} \X D[Journal]}
<1>1. ASSUME NEW D, NEW f
      PROVE  f \in Of(D) <=>
               f = [e \in Entries |-> f[e]] /\ \A e \in Entries : f[e] \in D[e]
  <2>1. ASSUME f \in Of(D)
        PROVE  f = [e \in Entries |-> f[e]] /\ \A e \in Entries : f[e] \in D[e]
    BY <2>1, NameAssumption DEF Envelopes, Entries
  <2>2. ASSUME f = [e \in Entries |-> f[e]], \A e \in Entries : f[e] \in D[e]
        PROVE  f \in Of(D)
    <3> DEFINE g == [e \in Envelopes |-> f[e]]
               o == <<g, f[Journal]>>
    <3>1. /\ g \in [Envelopes -> UNION {D[e] : e \in Envelopes}]
          /\ \A e \in Envelopes : g[e] \in D[e]
      BY <2>2 DEF Envelopes, Entries
    <3>2. o \in {h \in [Envelopes -> UNION {D[e] : e \in Envelopes}] :
                   \A e \in Envelopes : h[e] \in D[e]} \X D[Journal]
      BY <2>2, <3>1 DEF Entries
    <3>3. o[1] = g /\ o[2] = f[Journal]
      OBVIOUS
    <3>4. f = [e \in Entries |-> IF e = Journal THEN o[2] ELSE o[1][e]]
      <4>1. \A e \in Entries : f[e] = IF e = Journal THEN o[2] ELSE o[1][e]
        BY <3>3 DEF Envelopes, Entries
      <4> HIDE DEF o
      <4> QED BY <4>1, <2>2
    <3> HIDE DEF o
    <3> QED BY <3>2, <3>4
  <2> QED BY <2>1, <2>2
<1>2. Outcomes = Of(disk) /\ Outcomes' = Of(disk')
  BY DEF Outcomes
<1> HIDE DEF Of
<1> QED BY <1>1, <1>2

\* A journal entry is a record or is not there, in every world.
LEMMA OutcomeTypes ==
  ASSUME FilesOK
  PROVE  \A f \in Outcomes :
           /\ f[Journal] \in {Absent} \cup JournalRecords
           /\ \A d \in Docs : f[d] \in {Absent} \cup Etags
BY OutcomeIs, NameAssumption DEF FilesOK, Entries, Values

\* Recovery looks at the documents and at the journal, and at nothing else.
LEMMA LogicalDepends ==
  ASSUME NEW f, NEW g, f[Journal] = g[Journal], \A d \in Docs : f[d] = g[d],
         f[Journal] \in {Absent} \cup JournalRecords
  PROVE  Logical(f) = Logical(g)
BY DEF Logical, JournalRecords

\* An inert journal changes nothing.
LEMMA LogicalInert ==
  ASSUME NEW D, NEW f, \A d \in Docs : f[d] \in D[d], Inert(D, f[Journal]),
         f[Journal] \in {Absent} \cup JournalRecords
  PROVE  Logical(f) = [d \in Docs |-> f[d]]
BY DEF Logical, Inert, JournalRecords

\* What must be shown of a step that recovery cannot see.
LEMMA SettleIf ==
  ASSUME VisibleOnDisk', FilesOK', Logical(vis') = Logical(vis),
         \A f \in Outcomes' : \E g \in Outcomes : Logical(f) = Logical(g)
  PROVE  Abstract!Settle
<1>1. vis' \in Outcomes'
  BY OutcomeIs DEF VisibleOnDisk, FilesOK
<1> QED BY <1>1 DEF Abstract!Settle

\* A step that leaves documents and journal alone, or only synchronizes them.
LEMMA QuietSettles ==
  ASSUME FilesOK, FilesOK', VisibleOnDisk, VisibleOnDisk',
         \A e \in Docs \cup {Journal} : vis'[e] = vis[e] /\ disk'[e] \subseteq disk[e]
  PROVE  Abstract!Settle
<1>1. Logical(vis') = Logical(vis)
  <2>1. vis'[Journal] \in {Absent} \cup JournalRecords
    BY DEF FilesOK, Entries, Values
  <2> QED BY <2>1, LogicalDepends
<1>2. ASSUME NEW f \in Outcomes'
      PROVE  \E g \in Outcomes : Logical(f) = Logical(g)
  <2> DEFINE g == [e \in Entries |-> IF e \in Procs THEN vis[e] ELSE f[e]]
  <2>1. \A e \in Docs \cup {Journal} : g[e] = f[e]
    BY NameAssumption DEF Entries
  <2>2. g \in Outcomes
    <3>1. \A e \in Entries : g[e] \in disk[e]
      BY OutcomeIs, <1>2 DEF VisibleOnDisk, Entries
    <3> QED BY <3>1, OutcomeIs
  <2>3. g[Journal] \in {Absent} \cup JournalRecords
    BY <2>2, OutcomeTypes
  <2> HIDE DEF g
  <2> QED BY <2>1, <2>2, <2>3, LogicalDepends
<1> QED BY <1>1, <1>2, SettleIf

\* The journal appears, or goes, while its rename cannot be taken for a
\* committed one.
LEMMA JournalSettles ==
  ASSUME FilesOK, FilesOK', VisibleOnDisk, VisibleOnDisk',
         \A d \in Docs : vis'[d] = vis[d] /\ disk'[d] = disk[d],
         disk'[Journal] = disk[Journal] \cup {vis'[Journal]},
         Inert(disk, vis[Journal]), Inert(disk, vis'[Journal])
  PROVE  Abstract!Settle
<1>t. /\ vis[Journal] \in {Absent} \cup JournalRecords
      /\ vis'[Journal] \in {Absent} \cup JournalRecords
      /\ \A d \in Docs : vis[d] \in disk[d]
  BY DEF FilesOK, Entries, Values, VisibleOnDisk
<1>1. Logical(vis') = Logical(vis)
  <2>1. Logical(vis) = [d \in Docs |-> vis[d]]
    BY <1>t, LogicalInert
  <2>2. Logical(vis') = [d \in Docs |-> vis'[d]]
    BY <1>t, LogicalInert
  <2> QED BY <2>1, <2>2
<1>2. ASSUME NEW f \in Outcomes'
      PROVE  \E g \in Outcomes : Logical(f) = Logical(g)
  <2> DEFINE g == [e \in Entries |->
                     IF e \in Procs \/ (e = Journal /\ f[e] = vis'[e])
                     THEN vis[e] ELSE f[e]]
  <2>1. /\ \A d \in Docs : g[d] = f[d] /\ f[d] \in disk[d]
        /\ g[Journal] = IF f[Journal] = vis'[Journal] THEN vis[Journal] ELSE f[Journal]
    BY NameAssumption, OutcomeIs, <1>2 DEF Entries
  <2>2. g \in Outcomes
    <3>1. \A e \in Entries : g[e] \in disk[e]
      BY OutcomeIs, <1>2 DEF VisibleOnDisk, Entries
    <3> QED BY <3>1, OutcomeIs
  <2>3. g[Journal] \in {Absent} \cup JournalRecords
    BY <2>2, OutcomeTypes
  <2> HIDE DEF g
  <2>4. CASE f[Journal] = vis'[Journal]
    <3>1. Logical(f) = [d \in Docs |-> f[d]]
      BY <1>t, <2>1, <2>4, LogicalInert
    <3>2. Logical(g) = [d \in Docs |-> g[d]]
      BY <1>t, <2>1, <2>4, LogicalInert
    <3> QED BY <2>1, <2>2, <3>1, <3>2
  <2>5. CASE f[Journal] # vis'[Journal]
    BY <2>1, <2>2, <2>3, <2>5, LogicalDepends
  <2> QED BY <2>4, <2>5
<1> QED BY <1>1, <1>2, SettleIf

\* Recovery already counts the source of a committed rename as gone.
LEMMA RetireSettles ==
  ASSUME FilesOK, FilesOK', VisibleOnDisk, VisibleOnDisk',
         NEW j \in JournalRecords, vis[Journal] = j, Committed(j),
         disk[Journal] = {j}, disk[j.dst] = {j.dstEtag},
         vis'[j.src] = Absent, disk'[j.src] = disk[j.src] \cup {Absent},
         \A e \in (Docs \cup {Journal}) \ {j.src} :
           vis'[e] = vis[e] /\ disk'[e] = disk[e]
  PROVE  Abstract!Settle
<1>j. /\ j.src \in Docs /\ j.dst \in Docs /\ j.src # j.dst /\ j # Absent
      /\ j.srcEtag # Absent /\ Journal \notin Docs
      /\ vis[j.src] = j.srcEtag /\ vis[j.dst] = j.dstEtag
  BY NameAssumption DEF JournalRecords, Committed
<1>1. Logical(vis') = Logical(vis)
  <2>1. /\ vis'[Journal] = j /\ vis'[j.dst] = j.dstEtag /\ vis'[j.src] = Absent
        /\ \A d \in Docs \ {j.src} : vis'[d] = vis[d]
    BY <1>j
  <2>2. \A d \in Docs : Logical(vis')[d] = Logical(vis)[d]
    BY <1>j, <2>1 DEF Logical
  <2> QED BY <2>2 DEF Logical
<1>2. ASSUME NEW f \in Outcomes'
      PROVE  \E g \in Outcomes : Logical(f) = Logical(g)
  <2> DEFINE g == [e \in Entries |->
                     IF e \in Procs \/ (e = j.src /\ f[e] = Absent)
                     THEN vis[e] ELSE f[e]]
  <2>0. /\ \A e \in Entries : f[e] \in disk'[e]
        /\ Docs \subseteq Entries /\ Journal \in Entries /\ Procs \cap Docs = {}
        /\ Journal \notin Procs
    BY <1>2, OutcomeIs, NameAssumption DEF Entries
  <2>1. /\ f[Journal] = j /\ f[j.dst] = j.dstEtag
        /\ g[Journal] = j /\ g[j.dst] = j.dstEtag
        /\ g[j.src] = IF f[j.src] = Absent THEN j.srcEtag ELSE f[j.src]
        /\ \A d \in Docs \ {j.src} : g[d] = f[d]
    BY <1>j, <2>0
  <2>2. g \in Outcomes
    <3>1. \A e \in Entries : g[e] \in disk[e]
      BY <1>j, <2>0 DEF VisibleOnDisk, Entries
    <3> QED BY <3>1, OutcomeIs
  <2> HIDE DEF g
  <2>3. \A d \in Docs : Logical(f)[d] = Logical(g)[d]
    BY <1>j, <2>1 DEF Logical
  <2>4. Logical(f) = Logical(g)
    BY <2>3 DEF Logical
  <2> QED BY <2>2, <2>4
<1> QED BY <1>1, <1>2, SettleIf

\* A write or a delete of document d changes d in the vault and in any world.
LEMMA ChangeStep ==
  ASSUME FilesOK, FilesOK', VisibleOnDisk, VisibleOnDisk',
         NEW d \in Docs, NEW v \in Etags \cup {Absent}, v # vis[d],
         \A j \in disk[Journal] : Inert(disk, j) /\ Inert(disk', j),
         vis'[d] = v, disk'[d] = disk[d] \cup {v},
         \A e \in (Docs \cup {Journal}) \ {d} :
           vis'[e] = vis[e] /\ disk'[e] = disk[e]
  PROVE  Abstract!Change(d, v)
<1>n. /\ Docs \subseteq Entries /\ Journal \in Entries /\ Procs \cap Docs = {}
      /\ Journal \notin Procs \cup Docs
  BY NameAssumption DEF Entries
<1>1. \A f \in Outcomes : Logical(f) = [x \in Docs |-> f[x]]
  BY <1>n, OutcomeIs, OutcomeTypes, LogicalInert
<1>2. ASSUME NEW f \in Outcomes' PROVE Logical(f) = [x \in Docs |-> f[x]]
  <2>1. f[Journal] \in disk[Journal] /\ \A x \in Docs : f[x] \in disk'[x]
    BY <1>n, <1>2, OutcomeIs
  <2>2. f[Journal] \in {Absent} \cup JournalRecords
    BY <1>n, <2>1 DEF FilesOK, Values, Entries
  <2> QED BY <2>1, <2>2, LogicalInert
<1>3. vis \in Outcomes /\ vis' \in Outcomes'
  BY OutcomeIs DEF VisibleOnDisk, FilesOK
<1>4. Logical(vis') = [Logical(vis) EXCEPT ![d] = v] /\ v # Logical(vis)[d]
  BY <1>n, <1>1, <1>2, <1>3
<1> DEFINE Step(w) == [w EXCEPT ![d] = v]
<1>5. ASSUME NEW f \in Outcomes'
      PROVE  \E g \in Outcomes : Logical(f) \in {Logical(g), Step(Logical(g))}
  <2> DEFINE g == [e \in Entries |-> IF e \in Procs \/ (e = d /\ f[e] = v)
                                     THEN vis[e] ELSE f[e]]
  <2>1. g \in Outcomes
    <3>1. \A e \in Entries : g[e] \in disk[e]
      BY <1>n, <1>5, OutcomeIs DEF VisibleOnDisk, Entries
    <3> QED BY <3>1, OutcomeIs
  <2>2. g[d] = IF f[d] = v THEN vis[d] ELSE f[d]
    BY <1>n
  <2>3. \A x \in Docs \ {d} : g[x] = f[x]
    BY <1>n
  <2> HIDE DEF g
  <2>4. Logical(g) = [x \in Docs |-> g[x]] /\ Logical(f) = [x \in Docs |-> f[x]]
    BY <1>1, <1>2, <1>5, <2>1
  <2>5. CASE f[d] = v
    <3>1. Logical(f) = Step(Logical(g))
      BY <2>3, <2>4, <2>5
    <3> QED BY <2>1, <3>1
  <2>6. CASE f[d] # v
    <3>1. Logical(f) = Logical(g)
      BY <2>2, <2>3, <2>4, <2>6
    <3> QED BY <2>1, <3>1
  <2> QED BY <2>5, <2>6
<1>6. ASSUME NEW g \in Outcomes, NEW u \in {g[d], v}
      PROVE  \E f \in Outcomes' : Logical(f) = [Logical(g) EXCEPT ![d] = u]
  <2> DEFINE f == [e \in Entries |-> IF e \in Procs THEN vis'[e]
                                     ELSE IF e = d THEN u ELSE g[e]]
  <2>1. f \in Outcomes'
    <3>1. \A e \in Entries : f[e] \in disk'[e]
      BY <1>n, <1>6, OutcomeIs DEF VisibleOnDisk, Entries
    <3> QED BY <3>1, OutcomeIs
  <2>2. f[d] = u /\ \A x \in Docs \ {d} : f[x] = g[x]
    BY <1>n
  <2> HIDE DEF f
  <2>3. Logical(g) = [x \in Docs |-> g[x]] /\ Logical(f) = [x \in Docs |-> f[x]]
    BY <1>1, <1>2, <1>6, <2>1
  <2>4. Logical(f) = [Logical(g) EXCEPT ![d] = u]
    BY <2>2, <2>3
  <2> QED BY <2>1, <2>4
<1>7. ASSUME NEW g \in Outcomes
      PROVE  /\ \E f \in Outcomes' : Logical(f) = Logical(g)
             /\ \E f \in Outcomes' : Logical(f) = Step(Logical(g))
  <2>1. Logical(g) = [Logical(g) EXCEPT ![d] = g[d]]
    BY <1>1
  <2> QED BY <1>6, <2>1
<1>8. {Logical(f) : f \in Outcomes'}
        = {Logical(f) : f \in Outcomes}
          \cup {Step(w) : w \in {Logical(f) : f \in Outcomes}}
  BY <1>5, <1>7
<1> QED BY <1>4, <1>8 DEF Abstract!Change

\* The move of a rename commits it: from now on recovery completes it.
LEMMA RenameStep ==
  ASSUME FilesOK, FilesOK', VisibleOnDisk, VisibleOnDisk',
         NEW j \in JournalRecords, vis[Journal] = j, disk[Journal] = {j},
         Uncommitted(j), \A x \in Docs : j.dstEtag \notin disk[x],
         vis'[j.dst] = j.dstEtag, disk'[j.dst] = disk[j.dst] \cup {j.dstEtag},
         \A e \in (Docs \cup {Journal}) \ {j.dst} :
           vis'[e] = vis[e] /\ disk'[e] = disk[e]
  PROVE  Abstract!Rename(j.src, j.dst, j.dstEtag)
<1>n. /\ Docs \subseteq Entries /\ Journal \in Entries /\ Procs \cap Docs = {}
      /\ Journal \notin Procs \cup Docs
  BY NameAssumption DEF Entries
<1>j. /\ j.src \in Docs /\ j.dst \in Docs /\ j.src # j.dst /\ j # Absent
      /\ j.srcEtag # Absent /\ j.dstEtag # Absent
      /\ vis[j.src] = j.srcEtag /\ vis[j.dst] = Absent
  BY NameAssumption DEF JournalRecords, Uncommitted
<1> DEFINE Moved(w) == [w EXCEPT ![j.src] = IF w[j.src] = j.srcEtag THEN Absent
                                            ELSE w[j.src],
                                 ![j.dst] = j.dstEtag]
<1>1. ASSUME NEW f \in Outcomes
      PROVE  /\ Logical(f) = [x \in Docs |-> f[x]]
             /\ f[Journal] = j /\ f[j.dst] # j.dstEtag
  <2>1. f[Journal] = j /\ \A x \in Docs : f[x] \in disk[x]
    BY <1>n, <1>1, OutcomeIs
  <2> QED BY <1>j, <2>1, LogicalInert DEF Inert
<1>2. ASSUME NEW f \in Outcomes'
      PROVE  /\ \A x \in Docs \ {j.src} : Logical(f)[x] = f[x]
             /\ Logical(f)[j.src] = IF f[j.src] = j.srcEtag /\ f[j.dst] = j.dstEtag
                                    THEN Absent ELSE f[j.src]
             /\ f[Journal] = j /\ Logical(f) = [x \in Docs |-> Logical(f)[x]]
  <2>1. f[Journal] = j
    BY <1>n, <1>2, <1>j, OutcomeIs
  <2> QED BY <1>j, <2>1 DEF Logical
<1>3. vis \in Outcomes /\ vis' \in Outcomes'
  BY OutcomeIs DEF VisibleOnDisk, FilesOK
<1>m. ASSUME NEW f \in Outcomes', NEW g \in Outcomes, f[j.dst] = j.dstEtag,
             \A x \in Docs \ {j.dst} : f[x] = g[x]
      PROVE  Logical(f) = Moved(Logical(g))
  <2>1. Logical(g) = [x \in Docs |-> g[x]]
    BY <1>1, <1>m
  <2>2. \A x \in Docs : Logical(f)[x] = Moved(Logical(g))[x]
    BY <1>j, <1>2, <1>m, <2>1
  <2>3. Moved(Logical(g)) = [x \in Docs |-> Moved(Logical(g))[x]]
    BY <2>1
  <2> HIDE DEF Moved
  <2> QED BY <1>2, <1>m, <2>2, <2>3
<1>4. /\ Logical(vis') = Moved(Logical(vis))
      /\ Logical(vis)[j.src] = j.srcEtag /\ Logical(vis)[j.dst] = Absent
  BY <1>j, <1>1, <1>3, <1>m, <1>n
<1>5. ASSUME NEW f \in Outcomes'
      PROVE  \E g \in Outcomes : Logical(f) \in {Logical(g), Moved(Logical(g))}
  <2> DEFINE g == [e \in Entries |->
                     IF e \in Procs \/ (e = j.dst /\ f[e] = j.dstEtag)
                     THEN vis[e] ELSE f[e]]
  <2>1. g \in Outcomes
    <3>1. \A e \in Entries : g[e] \in disk[e]
      BY <1>n, <1>j, <1>5, OutcomeIs DEF VisibleOnDisk, Entries
    <3> QED BY <3>1, OutcomeIs
  <2>2. /\ g[j.dst] = IF f[j.dst] = j.dstEtag THEN vis[j.dst] ELSE f[j.dst]
        /\ \A x \in Docs \ {j.dst} : g[x] = f[x]
    BY <1>n, <1>j
  <2> HIDE DEF g, Moved
  <2>3. CASE f[j.dst] = j.dstEtag
    BY <1>5, <1>m, <2>1, <2>2, <2>3
  <2>4. CASE f[j.dst] # j.dstEtag
    <3>1. Logical(g) = [x \in Docs |-> g[x]] /\ \A x \in Docs : g[x] = f[x]
      BY <1>1, <2>1, <2>2, <2>4
    <3>2. \A x \in Docs : Logical(f)[x] = f[x]
      BY <1>2, <1>5, <2>4
    <3>3. Logical(f) = Logical(g)
      BY <1>2, <1>5, <3>1, <3>2
    <3> QED BY <2>1, <3>3
  <2> QED BY <2>3, <2>4
<1>6. ASSUME NEW g \in Outcomes
      PROVE  /\ \E f \in Outcomes' : Logical(f) = Logical(g)
             /\ \E f \in Outcomes' : Logical(f) = Moved(Logical(g))
  <2> DEFINE f(u) == [e \in Entries |-> IF e \in Procs THEN vis'[e]
                                        ELSE IF e = j.dst THEN u ELSE g[e]]
  <2>1. ASSUME NEW u \in {g[j.dst], j.dstEtag}
        PROVE  /\ f(u) \in Outcomes' /\ f(u)[j.dst] = u
               /\ \A x \in Docs \ {j.dst} : f(u)[x] = g[x]
    <3>1. \A e \in Entries : f(u)[e] \in disk'[e]
      BY <1>n, <1>j, <1>6, <2>1, OutcomeIs DEF VisibleOnDisk, Entries
    <3>2. f(u) \in Outcomes'
      BY <3>1, OutcomeIs
    <3> QED BY <1>n, <1>j, <3>2
  <2> HIDE DEF f, Moved
  <2>2. Logical(f(j.dstEtag)) = Moved(Logical(g))
    BY <1>6, <1>m, <2>1
  <2>3. Logical(f(g[j.dst])) = Logical(g)
    <3>1. Logical(g) = [x \in Docs |-> g[x]] /\ g[j.dst] # j.dstEtag
      BY <1>1, <1>6
    <3>2. \A x \in Docs : Logical(f(g[j.dst]))[x] = g[x]
      BY <1>2, <1>j, <2>1, <3>1
    <3> QED BY <1>2, <2>1, <3>1, <3>2
  <2> QED BY <2>1, <2>2, <2>3
<1>8. {Logical(f) : f \in Outcomes'}
        = {Logical(f) : f \in Outcomes}
          \cup {Moved(w) : w \in {Logical(f) : f \in Outcomes}}
  <2> HIDE DEF Moved
  <2> QED BY <1>5, <1>6
<1> QED BY <1>4, <1>8, <1>j DEF Abstract!Rename, Abstract!Moved

\* A power loss picks one of the worlds.
LEMMA LossStep ==
  ASSUME PowerLoss
  PROVE  Abstract!PowerLoss
<1>1. vis' \in Outcomes
  BY DEF PowerLoss
<1>2. vis' = [e \in Entries |-> vis'[e]] /\ \A e \in Entries : disk'[e] = {vis'[e]}
  BY <1>1, OutcomeIs DEF PowerLoss
<1>3. \A f \in Outcomes' : f = vis'
  <2>1. ASSUME NEW f \in Outcomes' PROVE f = vis'
    <3>1. f = [e \in Entries |-> f[e]] /\ \A e \in Entries : f[e] = vis'[e]
      BY <1>2, <2>1, OutcomeIs
    <3> QED BY <1>2, <3>1
  <2> QED BY <2>1
<1>4. vis' \in Outcomes'
  BY <1>2, OutcomeIs
<1> QED BY <1>1, <1>3, <1>4 DEF Abstract!PowerLoss

\* The initial vault has one world.
LEMMA InitSimulates == Init => Abstract!Init
<1> SUFFICES ASSUME Init PROVE Abstract!Init
  OBVIOUS
<1>n. Docs \subseteq Entries /\ Journal \in Entries /\ Journal \notin Docs
  BY NameAssumption DEF Entries
<1>1. /\ vis = [e \in Entries |-> vis[e]] /\ \A e \in Entries : disk[e] = {vis[e]}
      /\ vis[Journal] = Absent /\ \A d \in Docs : vis[d] \in {1, Absent}
  BY <1>n, NameAssumption DEF Init
<1>2. vis \in Outcomes /\ \A f \in Outcomes : f = vis
  <2>1. ASSUME NEW f \in Outcomes PROVE f = vis
    <3>1. f = [e \in Entries |-> f[e]] /\ \A e \in Entries : f[e] = vis[e]
      BY <1>1, <2>1, OutcomeIs
    <3> QED BY <1>1, <3>1
  <2> QED BY <1>1, <2>1, OutcomeIs
<1>3. Logical(vis) \in [Docs -> Etags \cup {Absent}]
  <2>1. Logical(vis) = [d \in Docs |-> vis[d]]
    BY <1>1 DEF Logical
  <2>2. 1 \in Etags
    BY BoundAssumption DEF Etags
  <2> QED BY <1>1, <2>1, <2>2
<1> QED BY <1>2, <1>3 DEF Abstract!Init, Abstract!Contents

-------------------------------------------------------------------------------
(* The invariant about the disk is inductive.                              *)

\* What every step but Begin does to the requests: none changes, and one that
\* has not moved its envelope had not done so before.
Continues ==
  /\ opCount' = opCount
  /\ \A q \in Procs : op'[q] = op[q] \/ op'[q] = RecoverRequest
  /\ \A q \in Procs : pc'[q] # "idle" => pc[q] # "idle"
  /\ \A q \in Procs :
       Unmoved(q)' => /\ Unmoved(q) /\ op'[q] = op[q]
                      /\ pc[q] \in Journaled => pc'[q] \in Journaled

\* ... so the etags that running operations will make stay different.
LEMMA ContinuesRequests ==
  ASSUME IInv, DiskInv, Continues
  PROVE  /\ NewDiffers' /\ Made' = Made
         /\ \A p \in Procs : op'[p].expect \in Made \cup {Absent} /\ op'[p].new \in Made
<1>1. /\ RecoverRequest.kind = "recover" /\ RecoverRequest.new = 1
      /\ RecoverRequest.expect = Absent
  BY DEF RecoverRequest
<1>2. Made' = Made /\ 1 \in Made
  BY DEF Continues, Made, IInv, TypeOK
<1>3. NewDiffers'
  BY <1>1 DEF DiskInv, NewDiffers, Continues
<1> QED BY <1>1, <1>2, <1>3 DEF Continues, DiskInv, EtagsMade

\* A step of the holder that returns, or goes on, continues the requests.
LEMMA ReturnContinues ==
  ASSUME IInv, NEW p \in Procs, lock = p, NEW r, Return(p, r), opCount' = opCount
  PROVE  Continues
<1>1. /\ op' = [op EXCEPT ![p] = RecoverRequest] /\ pc' = [pc EXCEPT ![p] = "idle"]
      /\ pc \in [Procs -> Steps] /\ op \in [Procs -> Requests]
  BY DEF Return, IInv, TypeOK
<1>2. \A q \in Procs \ {p} : pc[q] \in {"idle", "lock"}
  BY DEF IInv, TypeOK, LockInv, Steps
<1>3. ASSUME NEW q \in Procs, Unmoved(q)'
      PROVE  Unmoved(q) /\ op'[q] = op[q] /\ pc[q] = "lock"
  BY <1>1, <1>2, <1>3, RecoverRequestType
  DEF Unmoved, BeforeMove, CommitSteps
<1> QED BY <1>1, <1>3 DEF Continues, Journaled

LEMMA GotoContinues ==
  ASSUME IInv, NEW p \in Procs, lock = p, pc[p] \in HolderSteps, NEW s, Goto(p, s),
         opCount' = opCount,
         s \in BeforeMove \/ (s \in CommitSteps /\ whose' = "found") =>
           /\ pc[p] \in BeforeMove \/ (pc[p] \in CommitSteps /\ whose = "found")
           /\ pc[p] \in Journaled => s \in Journaled
  PROVE  Continues
<1>1. /\ op' = op /\ pc' = [pc EXCEPT ![p] = s]
      /\ pc \in [Procs -> Steps] /\ op \in [Procs -> Requests]
  BY DEF Goto, IInv, TypeOK
<1>2. \A q \in Procs \ {p} : pc[q] \in {"idle", "lock"}
  BY DEF IInv, TypeOK, LockInv, Steps
<1>3. ASSUME NEW q \in Procs \ {p}, Unmoved(q)'
      PROVE  Unmoved(q) /\ pc[q] = "lock"
  BY <1>1, <1>2, <1>3 DEF Unmoved, BeforeMove, CommitSteps
<1>4. Unmoved(p)' => Unmoved(p) /\ (pc[p] \in Journaled => pc'[p] \in Journaled)
  BY <1>1 DEF Unmoved
<1>5. pc[p] # "idle"
  BY DEF HolderSteps, RecoverySteps, CommitSteps
<1> QED BY <1>1, <1>3, <1>4, <1>5 DEF Continues, Journaled

\* Each way to touch the files leaves the visible value among those on disk.
LEMMA VisibleKept ==
  ASSUME FilesOK, VisibleOnDisk
  PROVE  /\ UNCHANGED files => VisibleOnDisk'
         /\ \A e \in Entries : \A v : Put(e, v) => VisibleOnDisk'
         /\ \A p \in Procs, d \in Docs : Rename(p, d) => VisibleOnDisk'
         /\ \A dir : Sync(dir) => VisibleOnDisk'
<1>1. UNCHANGED files => VisibleOnDisk'
  BY DEF files, VisibleOnDisk
<1>2. \A e \in Entries : \A v : Put(e, v) => VisibleOnDisk'
  BY DEF FilesOK, Put, VisibleOnDisk
<1>3. \A p \in Procs, d \in Docs : Rename(p, d) => VisibleOnDisk'
  BY DEF FilesOK, Rename, VisibleOnDisk
<1>4. \A dir : Sync(dir) => VisibleOnDisk'
  BY DEF FilesOK, Sync, VisibleOnDisk
<1> QED BY <1>1, <1>2, <1>3, <1>4

\* A step that leaves documents and journal alone, or only synchronizes them.
LEMMA QuietDisk ==
  ASSUME IInv, DiskInv, Continues, FilesOK', VisibleOnDisk',
         \A e \in Docs \cup {Journal} : vis'[e] = vis[e] /\ disk'[e] \subseteq disk[e],
         \A q \in Procs : pc'[q] = "move" /\ op'[q].kind = "rebind" =>
                            disk'[Journal] = {vis[Journal]}
  PROVE  DiskInv'
<1>n. Docs \subseteq Entries /\ Journal \in Entries
  BY DEF Entries
<1>1. Journals' \subseteq Journals /\ vis'[Journal] = vis[Journal]
  BY DEF Journals
<1>2. EtagsMade'
  BY <1>1, ContinuesRequests DEF DiskInv, EtagsMade
<1>3. ASSUME NEW j \in JournalRecords, Inert(disk, j) PROVE Inert(disk', j)
  BY <1>3 DEF Inert, JournalRecords
<1>4. ASSUME vis[Journal] # Absent
      PROVE  /\ vis[Journal] \in JournalRecords
             /\ Uncommitted(vis[Journal])' <=> Uncommitted(vis[Journal])
             /\ Committed(vis[Journal])' <=> Committed(vis[Journal])
             /\ Retired(vis[Journal])' <=> Retired(vis[Journal])
  <2>1. vis[Journal] \in JournalRecords
    BY <1>4, <1>n DEF IInv, TypeOK, FilesOK, Values
  <2> QED BY <1>1, <2>1 DEF Uncommitted, Committed, Retired, JournalRecords
<1>5. JournalOnDisk'
  <2>1. \A i \in Journals : i \in JournalRecords
    BY <1>n DEF Journals, IInv, TypeOK, FilesOK, Values
  <2>2. \A i \in Journals' \ {vis'[Journal]} : Inert(disk', i)
    BY <1>1, <1>3, <2>1 DEF DiskInv, JournalOnDisk
  <2>3. vis'[Journal] # Absent /\ Uncommitted(vis[Journal])' => Inert(disk', vis'[Journal])
    BY <1>1, <1>3, <1>4 DEF DiskInv, JournalOnDisk
  <2>4. vis'[Journal] # Absent /\ (Committed(vis[Journal])' \/ Retired(vis[Journal])')
          => disk'[Journal] = {vis'[Journal]}
    <3>1. disk'[Journal] \subseteq disk[Journal] /\ vis'[Journal] \in disk'[Journal]
      BY <1>n DEF VisibleOnDisk
    <3> QED BY <1>1, <1>4, <3>1 DEF DiskInv, JournalOnDisk
  <2> QED BY <1>1, <2>2, <2>3, <2>4 DEF JournalOnDisk
<1>6. ASSUME NEW q \in Procs PROVE NewUnused(q)'
  BY <1>1, <1>6 DEF DiskInv, NewUnused, Continues, JournalOf
<1> QED BY <1>2, <1>5, <1>6, ContinuesRequests DEF DiskInv

\* A journal that cannot be taken for a committed rename goes.
LEMMA JournalGoes ==
  ASSUME IInv, DiskInv, Continues, FilesOK', VisibleOnDisk',
         \A d \in Docs : vis'[d] = vis[d] /\ disk'[d] = disk[d],
         vis'[Journal] = Absent, disk'[Journal] = disk[Journal] \cup {Absent},
         Inert(disk, vis[Journal]), \A q \in Procs : pc'[q] # "move"
  PROVE  DiskInv'
<1>1. Journals' = Journals
  BY DEF Journals
<1>2. EtagsMade'
  BY <1>1, ContinuesRequests DEF DiskInv, EtagsMade
<1>3. JournalOnDisk'
  <2>1. ASSUME NEW i \in Journals PROVE Inert(disk', i)
    <3>1. i \in JournalRecords
      BY DEF Journals, IInv, TypeOK, FilesOK, Values, Entries
    <3>2. Inert(disk, i)
      BY DEF DiskInv, JournalOnDisk
    <3> QED BY <3>1, <3>2 DEF Inert, JournalRecords
  <2> QED BY <1>1, <2>1 DEF JournalOnDisk
<1>4. ASSUME NEW q \in Procs PROVE NewUnused(q)'
  BY <1>1, <1>4 DEF DiskInv, NewUnused, Continues, JournalOf
<1> QED BY <1>2, <1>3, <1>4, ContinuesRequests DEF DiskInv

\* A document goes: one whose deletion was asked for, or the source of the
\* pending rename.
LEMMA DocumentGoes ==
  ASSUME IInv, DiskInv, Continues, FilesOK', VisibleOnDisk', NEW d \in Docs,
         vis'[d] = Absent, disk'[d] = disk[d] \cup {Absent},
         \A e \in (Docs \cup {Journal}) \ {d} :
           vis'[e] = vis[e] /\ disk'[e] = disk[e],
         vis[Journal] # Absent =>
           d = vis[Journal].src /\ disk[Journal] = {vis[Journal]},
         \A q \in Procs : pc'[q] # "move"
  PROVE  DiskInv'
<1>1. Journals' = Journals /\ vis'[Journal] = vis[Journal] /\ disk'[Journal] = disk[Journal]
  BY NameAssumption DEF Journals
<1>2. EtagsMade'
  BY <1>1, ContinuesRequests DEF DiskInv, EtagsMade
<1>3. ASSUME NEW i \in Journals
      PROVE  i \in JournalRecords /\ (Inert(disk, i) => Inert(disk', i))
  <2>1. i \in JournalRecords
    BY DEF Journals, IInv, TypeOK, FilesOK, Values, Entries
  <2> QED BY <2>1, NameAssumption DEF Inert, JournalRecords
<1>4. JournalOnDisk'
  <2>1. vis[Journal] # Absent => ~ Uncommitted(vis[Journal])'
    <3>1. vis[Journal] # Absent => vis[Journal].srcEtag # Absent
      BY JournalType, NameAssumption
    <3> QED BY <1>1, <3>1 DEF Uncommitted
  <2>2. \A i \in Journals' \ {vis'[Journal]} : Inert(disk', i)
    BY <1>1, <1>3 DEF DiskInv, JournalOnDisk
  <2> QED BY <1>1, <2>1, <2>2 DEF JournalOnDisk
<1>5. ASSUME NEW q \in Procs PROVE NewUnused(q)'
  <2>1. SUFFICES ASSUME Unmoved(q)' PROVE NewUnused(q)'
    BY DEF NewUnused
  <2>2. /\ Unmoved(q) /\ op'[q] = op[q]
        /\ pc[q] \in Journaled => pc'[q] \in Journaled
        /\ op[q].new # Absent
    BY <2>1, RequestType, NameAssumption DEF Continues
  <2>3. \A x \in Docs : op[q].new \notin disk'[x]
    BY <2>2 DEF DiskInv, NewUnused
  <2> QED BY <1>1, <2>2, <2>3 DEF DiskInv, NewUnused, JournalOf
<1> QED BY <1>2, <1>4, <1>5, ContinuesRequests DEF DiskInv

\* What is known of the rename that is about to install its journal, or has
\* just done so, and has not moved its envelope.
LEMMA OwnJournal ==
  ASSUME IInv, DiskInv, NEW p \in Procs, op[p].kind = "rebind",
         pc[p] \in {"journal", "journalSync", "move", "abort"}
  PROVE  LET j == JournalOf(op[p]) IN
         /\ j \in JournalRecords /\ j # Absent
         /\ Uncommitted(j) /\ ~ Committed(j) /\ ~ Retired(j) /\ Inert(disk, j)
         /\ \A x \in Docs : j.dstEtag \notin disk[x]
         /\ j.srcEtag \in disk[j.src] /\ j.srcEtag # j.dstEtag
         /\ pc[p] = "journal" => vis[Journal] = Absent
         /\ pc[p] # "journal" => vis[Journal] = j
<1> DEFINE j == JournalOf(op[p])
<1>1. HolderAt(p) /\ NewUnused(p)
  BY DEF IInv, DiskInv
<1>2. /\ j \in JournalRecords /\ j.src = op[p].path /\ j.dst = op[p].dst
      /\ j.srcEtag = op[p].expect /\ j.dstEtag = op[p].new
      /\ j.src \in Docs /\ j.dst \in Docs /\ j # Absent
      /\ j.dstEtag # Absent /\ j.srcEtag # Absent
  BY RequestType, NameAssumption DEF JournalOf, JournalRecords
<1>3. ConditionHolds(op[p])
  BY <1>1 DEF HolderAt, OperationAt
<1>4. Uncommitted(j) /\ ~ Committed(j) /\ ~ Retired(j)
  BY <1>2, <1>3 DEF ConditionHolds, Uncommitted, Committed, Retired
<1>5. \A x \in Docs : j.dstEtag \notin disk[x]
  BY <1>1, <1>2 DEF NewUnused, Unmoved, BeforeMove
<1>6. j.srcEtag \in disk[j.src] /\ j.srcEtag # j.dstEtag /\ Inert(disk, j)
  BY <1>2, <1>4, <1>5 DEF Uncommitted, DiskInv, VisibleOnDisk, Entries, Inert
<1>7. /\ pc[p] = "journal" => vis[Journal] = Absent
      /\ pc[p] # "journal" => vis[Journal] = j
  BY <1>1 DEF HolderAt, OperationAt
<1> HIDE DEF j
<1> QED BY <1>2, <1>4, <1>5, <1>6, <1>7 DEF j

\* The journal of a rename appears before anything has the new envelope.
LEMMA JournalAppears ==
  ASSUME IInv, DiskInv, Continues, FilesOK', VisibleOnDisk',
         NEW p \in Procs, pc[p] = "journal", op[p].kind = "rebind",
         \A d \in Docs : vis'[d] = vis[d] /\ disk'[d] = disk[d],
         vis'[Journal] = JournalOf(op[p]),
         disk'[Journal] = disk[Journal] \cup {JournalOf(op[p])},
         Unmoved(p)' => pc'[p] = "journalSync",
         \A q \in Procs : pc'[q] # "move"
  PROVE  DiskInv'
<1>p. PICK j \in JournalRecords : j = JournalOf(op[p])
  BY RequestType
<1>j. /\ j # Absent /\ j.srcEtag # Absent
      /\ Uncommitted(j) /\ ~ Committed(j) /\ ~ Retired(j) /\ Inert(disk, j)
      /\ j.srcEtag \in disk[j.src] /\ j.srcEtag # j.dstEtag /\ j.dstEtag = op[p].new
      /\ j.srcEtag = op[p].expect /\ vis[Journal] = Absent /\ j.src \in Docs
      /\ j.dst \in Docs
  BY <1>p, OwnJournal, NameAssumption DEF JournalOf, JournalRecords
<1>1. Journals' = Journals \cup {j} /\ vis'[Journal] = j
  BY <1>p, <1>j DEF Journals
<1>2. EtagsMade'
  BY <1>1, <1>j, NameAssumption, ContinuesRequests DEF DiskInv, EtagsMade
<1>3. ASSUME NEW i \in Journals' PROVE Inert(disk', i)
  <2>1. i \in JournalRecords /\ Inert(disk, i)
    BY <1>1, <1>j DEF Journals, IInv, TypeOK, FilesOK, Values, Entries, DiskInv,
       JournalOnDisk
  <2> QED BY <2>1 DEF Inert, JournalRecords
<1>4. JournalOnDisk'
  <2>1. ~ Committed(j)' /\ ~ Retired(j)'
    BY <1>j DEF Uncommitted, Committed, Retired
  <2> QED BY <1>1, <1>3, <1>j, <2>1 DEF JournalOnDisk, Journals
<1>5. ASSUME NEW q \in Procs PROVE NewUnused(q)'
  <2>1. SUFFICES ASSUME Unmoved(q)' PROVE NewUnused(q)'
    BY DEF NewUnused
  <2>2. /\ Unmoved(q) /\ op'[q] = op[q]
        /\ pc[q] \in Journaled => pc'[q] \in Journaled
        /\ NewUnused(q)
    BY <2>1 DEF Continues, DiskInv
  <2>3. q # p => op[q].new # op[p].new
    BY <2>2 DEF DiskInv, NewDiffers, Unmoved, BeforeMove, CommitSteps
  <2>4. q = p => pc'[q] \in Journaled /\ JournalOf(op'[q]) = j
    BY <1>p, <2>1, <2>2 DEF Journaled, JournalOf
  <2>5. j.srcEtag # op[q].new
    BY <1>j, <2>2 DEF NewUnused
  <2>6. /\ \A d \in Docs : op'[q].new \notin disk'[d]
        /\ \A i \in Journals' :
             /\ i.srcEtag # op'[q].new
             /\ i.dstEtag = op'[q].new =>
                  /\ op'[q].kind = "rebind" /\ pc'[q] \in Journaled
                  /\ i = JournalOf(op'[q])
    BY <1>1, <1>j, <2>2, <2>3, <2>4, <2>5 DEF NewUnused, JournalOf
  <2> QED BY <2>6 DEF NewUnused
<1> QED BY <1>2, <1>4, <1>5, ContinuesRequests DEF DiskInv

\* The staged envelope takes its place.
LEMMA EnvelopeMoves ==
  ASSUME IInv, DiskInv, Continues, FilesOK', VisibleOnDisk',
         NEW p \in Procs, pc[p] = "move", Rename(p, Target(op[p])),
         ~ Unmoved(p)', \A q \in Procs : pc'[q] # "move"
  PROVE  DiskInv'
<1> DEFINE d == Target(op[p])
           v == op[p].new
<1>h. HolderAt(p) /\ NewUnused(p) /\ op[p].kind \in {"write", "rebind"}
  BY DEF IInv, DiskInv, HolderAt, RequestAt
<1>v. /\ vis[p] = v /\ d \in Docs /\ v \in Etags /\ v # Absent
      /\ Unmoved(p) /\ \A x \in Docs : v \notin disk[x]
  BY <1>h, RequestType, NameAssumption
  DEF HolderAt, StagingAt, NewUnused, Unmoved, BeforeMove
<1>f. /\ vis'[d] = v /\ disk'[d] = disk[d] \cup {v}
      /\ \A e \in (Docs \cup {Journal}) \ {d} : vis'[e] = vis[e] /\ disk'[e] = disk[e]
  <2>1. /\ d \in Entries /\ p \in Entries /\ d # p
        /\ vis = [e \in Entries |-> vis[e]] /\ disk = [e \in Entries |-> disk[e]]
    BY <1>v, NameAssumption DEF IInv, TypeOK, FilesOK, Entries
  <2>2. \A e \in Docs \cup {Journal} : e \in Entries /\ e # p
    BY NameAssumption DEF Entries
  <2> QED BY <1>v, <2>1, <2>2 DEF Rename
<1>1. Journals' = Journals /\ vis'[Journal] = vis[Journal] /\ disk'[Journal] = disk[Journal]
  BY <1>v, <1>f, NameAssumption DEF Journals
<1>2. EtagsMade'
  BY <1>1, <1>f, ContinuesRequests DEF DiskInv, EtagsMade
<1>4. JournalOnDisk'
  <2>1. CASE op[p].kind = "write"
    <3>1. vis[Journal] = Absent
      BY <1>h, <2>1 DEF HolderAt, OperationAt
    <3>2. ASSUME NEW i \in Journals PROVE Inert(disk', i)
      <4>1. Inert(disk, i) /\ i \in JournalRecords
        BY <3>1 DEF DiskInv, JournalOnDisk, Journals, IInv, TypeOK, FilesOK, Values, Entries
      <4>2. i.srcEtag # v /\ i.dstEtag # v
        BY <1>v, <1>h, <2>1 DEF NewUnused
      <4> QED BY <1>f, <4>1, <4>2 DEF Inert, JournalRecords
    <3> QED BY <1>1, <3>1, <3>2 DEF JournalOnDisk
  <2>2. CASE op[p].kind = "rebind"
    <3>p. PICK j \in JournalRecords : j = JournalOf(op[p])
      BY <2>2, RequestType
    <3>1. /\ vis[Journal] = j /\ j # Absent /\ Uncommitted(j) /\ j.dst = d
          /\ disk[Journal] = {j} /\ j.dstEtag = v
      BY <2>2, <3>p, OwnJournal DEF DiskInv, JournalOnDisk, JournalOf, Target
    <3>2. ~ Uncommitted(j)'
      BY <1>f, <1>v, <3>1 DEF Uncommitted
    <3> QED BY <1>1, <3>1, <3>2 DEF JournalOnDisk, Journals
  <2> QED BY <1>h, <2>1, <2>2
<1>5. ASSUME NEW q \in Procs PROVE NewUnused(q)'
  <2>1. SUFFICES ASSUME Unmoved(q)' PROVE NewUnused(q)'
    BY DEF NewUnused
  <2>2. /\ Unmoved(q) /\ op'[q] = op[q]
        /\ pc[q] \in Journaled => pc'[q] \in Journaled
        /\ NewUnused(q) /\ q # p
    BY <2>1 DEF Continues, DiskInv
  <2>3. op[q].new # v
    BY <2>2, <1>v DEF DiskInv, NewDiffers, Unmoved, BeforeMove, CommitSteps
  <2>4. \A x \in Docs : op[q].new \notin disk'[x]
    BY <1>f, <2>2, <2>3 DEF NewUnused
  <2> QED BY <1>1, <2>2, <2>4 DEF NewUnused, JournalOf
<1> QED BY <1>2, <1>4, <1>5, ContinuesRequests DEF DiskInv

-------------------------------------------------------------------------------
(* Every step keeps the invariant and is a step of AtomicVault.            *)

\* After a step of the holder nobody stands before a move but the holder.
LEMMA NobodyMoves ==
  ASSUME IInv', NEW p \in Procs, NEW s, NEW r,
         (Goto(p, s) /\ lock = p /\ s # "move") \/ Return(p, r)
  PROVE  \A q \in Procs : pc'[q] # "move"
<1>1. ASSUME NEW q \in Procs, pc'[q] = "move" PROVE lock' = q
  BY <1>1 DEF IInv, LockInv, HolderSteps
<1>2. Return(p, r) => lock' = NoProc
  BY DEF Return
<1>3. Goto(p, s) => lock' = lock /\ (pc'[p] = "move" => s = "move" \/ p \notin DOMAIN pc)
  BY DEF Goto
<1> QED BY <1>1, <1>2, <1>3, NameAssumption DEF Goto, IInv, TypeOK

\* The steps that leave documents and journal alone, or only synchronize them.
LEMMA QuietStep ==
  ASSUME IInv, IInv', DiskInv, Continues,
         \/ UNCHANGED files
         \/ \E q \in Procs, v \in Etags \cup {Absent} : Put(q, v)
         \/ \E dir : Sync(dir),
         \A q \in Procs : pc'[q] = "move" /\ op'[q].kind = "rebind" =>
                            disk'[Journal] = {vis[Journal]}
  PROVE  DiskInv' /\ Abstract!Next
<1>1. FilesOK /\ FilesOK' /\ VisibleOnDisk
  BY DEF IInv, TypeOK, DiskInv
<1>2. VisibleOnDisk'
  BY <1>1, VisibleKept DEF Entries
<1>3. ASSUME NEW e \in Docs \cup {Journal}
      PROVE  vis'[e] = vis[e] /\ disk'[e] \subseteq disk[e]
  <2>1. e \in Entries /\ e \notin Procs /\ vis[e] \in disk[e]
    BY <1>1, NameAssumption DEF Entries, VisibleOnDisk
  <2>2. CASE UNCHANGED files
    BY <2>2 DEF files
  <2>3. CASE \E q \in Procs, v \in Etags \cup {Absent} : Put(q, v)
    BY <1>1, <2>1, <2>3 DEF Put, FilesOK
  <2>4. CASE \E dir : Sync(dir)
    BY <2>1, <2>4 DEF Sync
  <2> QED BY <2>2, <2>3, <2>4
<1>4. DiskInv'
  BY <1>1, <1>2, <1>3, QuietDisk
<1>5. Abstract!Settle
  BY <1>1, <1>2, <1>3, QuietSettles
<1> QED BY <1>4, <1>5 DEF Abstract!Next

\* Acquiring the guard: staging files and the inspection of the journal.
LEMMA AcquireQuiet ==
  ASSUME IInv, IInv', DiskInv, NEW p \in Procs,
         RemoveStaging(p) \/ StagingClean(p) \/ InspectJournal(p)
  PROVE  DiskInv' /\ Abstract!Next
<1>0. pc[p] \in {"clean", "inspect"} /\ lock = p /\ opCount' = opCount
  BY DEF RemoveStaging, StagingClean, InspectJournal, At, counts
<1>1. \/ \E s \in {"clean", "inspect", "ready", "finish", "commitLocal"} : Goto(p, s)
      \/ \E r : Return(p, r)
  BY DEF RemoveStaging, StagingClean, InspectJournal
<1>2. Continues
  BY <1>0, <1>1, ReturnContinues, GotoContinues
  DEF HolderSteps, RecoverySteps, CommitSteps, BeforeMove, Journaled
<1>3. UNCHANGED files \/ \E q \in Procs, v \in Etags \cup {Absent} : Put(q, v)
  BY DEF RemoveStaging, StagingClean, InspectJournal, files
<1>4. \A q \in Procs : pc'[q] # "move"
  BY <1>0, <1>1, NobodyMoves
<1> QED BY <1>2, <1>3, <1>4, QuietStep

\* The steps of an operation before and after it changes a document.
LEMMA OperationQuiet ==
  ASSUME IInv, IInv', DiskInv, NEW p \in Procs,
         \/ Prepare(p) \/ CheckCondition(p) \/ RemoveSync(p)
         \/ WriteLocal(p) \/ WriteTarget(p) \/ Reconcile(p)
  PROVE  DiskInv' /\ Abstract!Next
<1>0. /\ pc[p] \in {"ready", "check", "removeSync", "writeLocal", "writeTarget",
                    "reconcile"}
      /\ lock = p /\ opCount' = opCount
  BY DEF Prepare, CheckCondition, RemoveSync, WriteLocal, WriteTarget, Reconcile, At
<1>k. op[p].kind \in {"write", "delete", "rebind", "recover"} /\ op[p].new \in Etags
  BY RequestType
<1>1. \/ \E s \in {"check", "journal", "remove"} :
           Goto(p, s) /\ pc[p] \in {"ready", "check"}
      \/ Goto(p, "move") /\ pc[p] = "check" /\ op[p].kind = "write"
      \/ Goto(p, "writeTarget")
      \/ \E r : Return(p, r)
  <2>1. CASE CheckCondition(p)
    <3>1. op[p].kind # "recover"
      BY <2>1 DEF CheckCondition, At, IInv, HolderAt, RequestAt
    <3> QED BY <1>k, <2>1, <3>1 DEF CheckCondition, AfterCheck, Fail, At
  <2>2. CASE Prepare(p)
    BY <2>2 DEF Prepare, Fail, At
  <2>3. CASE RemoveSync(p) \/ WriteLocal(p) \/ WriteTarget(p) \/ Reconcile(p)
    BY <2>3 DEF RemoveSync, WriteLocal, WriteTarget, Reconcile
  <2> QED BY <2>1, <2>2, <2>3
<1>2. Continues
  BY <1>0, <1>1, ReturnContinues, GotoContinues
  DEF HolderSteps, RecoverySteps, CommitSteps, BeforeMove, Journaled
<1>3. \/ UNCHANGED files
      \/ \E q \in Procs, v \in Etags \cup {Absent} : Put(q, v)
      \/ \E dir : Sync(dir)
  BY <1>k DEF Prepare, CheckCondition, RemoveSync, WriteLocal, WriteTarget, Reconcile,
     Fail, files
<1>4. ASSUME NEW q \in Procs, pc'[q] = "move" PROVE op'[q].kind # "rebind"
  <2>1. CASE Goto(p, "move") /\ op[p].kind = "write"
    <3>1. op' = op /\ lock' = p
      BY <1>0, <2>1 DEF Goto
    <3>2. q = p
      BY <1>4, <3>1 DEF IInv, LockInv, HolderSteps
    <3> QED BY <2>1, <3>1, <3>2
  <2>2. CASE ~ (Goto(p, "move") /\ op[p].kind = "write")
    BY <1>0, <1>1, <1>4, <2>2, NobodyMoves
  <2> QED BY <2>1, <2>2
<1> QED BY <1>2, <1>3, <1>4, QuietStep

\* The steps that synchronize directories around a rename.
LEMMA SyncQuiet ==
  ASSUME IInv, IInv', DiskInv, NEW p \in Procs,
         \/ SyncJournal(p) \/ CommitLocal(p) \/ CommitDst(p) \/ CommitSrc(p)
         \/ FinishSync(p)
  PROVE  DiskInv' /\ Abstract!Next
<1>0. /\ pc[p] \in {"journalSync", "commitLocal", "commitDst", "commitSrc", "finishSync"}
      /\ lock = p /\ opCount' = opCount
  BY DEF SyncJournal, CommitLocal, CommitDst, CommitSrc, FinishSync, At
<1>1. \/ \E s \in {"commitDst", "commitSrc", "retireSrc", "finish"} :
           Goto(p, s) /\ pc[p] \in CommitSteps /\ whose' = whose
      \/ Goto(p, "ready") /\ pc[p] \in CommitSteps /\ whose = "found"
      \/ Goto(p, "move") /\ pc[p] = "journalSync" /\ Sync(Local)
      \/ \E r : Return(p, r)
  BY DEF SyncJournal, CommitLocal, CommitDst, CommitSrc, FinishSync, Fail, At, holder,
     CommitSteps
<1>2. Continues
  BY <1>0, <1>1, ReturnContinues, GotoContinues
  DEF HolderSteps, RecoverySteps, CommitSteps, BeforeMove, Journaled
<1>3. \/ UNCHANGED files
      \/ \E q \in Procs, v \in Etags \cup {Absent} : Put(q, v)
      \/ \E dir : Sync(dir)
  BY DEF SyncJournal, CommitLocal, CommitDst, CommitSrc, FinishSync, Fail, files
<1>4. ASSUME NEW q \in Procs, pc'[q] = "move" PROVE disk'[Journal] = {vis[Journal]}
  <2>1. Sync(Local)
    BY <1>0, <1>1, <1>4, NobodyMoves
  <2> QED BY <2>1, NameAssumption DEF Sync, DirOf, Entries
<1> QED BY <1>2, <1>3, <1>4, QuietStep

\* The journal appears before the move and goes after the rename is settled.
LEMMA JournalStep ==
  ASSUME IInv, IInv', DiskInv, NEW p \in Procs,
         InstallJournal(p) \/ AbortRebind(p) \/ FinishJournal(p)
  PROVE  DiskInv' /\ Abstract!Next
<1>0. /\ pc[p] \in {"journal", "abort", "finish"} /\ lock = p /\ opCount' = opCount
      /\ p \in Entries /\ Journal \in Entries /\ Journal # p
      /\ \A d \in Docs : d \in Entries /\ d # p /\ d # Journal
      /\ FilesOK /\ FilesOK' /\ VisibleOnDisk
  BY NameAssumption
  DEF InstallJournal, AbortRebind, FinishJournal, At, IInv, TypeOK, DiskInv, Entries
<1>1. \/ Goto(p, "journalSync") /\ pc[p] = "journal"
      \/ Goto(p, "finishSync") /\ pc[p] = "finish" /\ whose' = whose
      \/ \E r : Return(p, r)
  BY DEF InstallJournal, AbortRebind, FinishJournal, Fail, At, holder
<1>2. Continues
  BY <1>0, <1>1, ReturnContinues, GotoContinues
  DEF HolderSteps, RecoverySteps, CommitSteps, BeforeMove, Journaled
<1>3. \A q \in Procs : pc'[q] # "move"
  BY <1>0, <1>1, NobodyMoves
<1>q. CASE UNCHANGED files \/ \E q \in Procs, v \in Etags \cup {Absent} : Put(q, v)
  BY <1>2, <1>3, <1>q, QuietStep
<1>4. ASSUME NEW v, vis'[Journal] = v, disk'[Journal] = disk[Journal] \cup {v},
             \A e \in Entries \ {p, Journal} : vis'[e] = vis[e] /\ disk'[e] = disk[e],
             vis'[p] \in disk'[p]
      PROVE  /\ VisibleOnDisk'
             /\ \A d \in Docs : vis'[d] = vis[d] /\ disk'[d] = disk[d]
  BY <1>0, <1>4 DEF VisibleOnDisk
<1>5. CASE InstallJournal(p)
  <2>k. op[p].kind = "rebind" /\ pc[p] = "journal"
    BY <1>5 DEF InstallJournal, At, IInv, HolderAt, RequestAt
  <2>j. /\ Inert(disk, JournalOf(op[p])) /\ vis[Journal] = Absent
    BY <2>k, OwnJournal
  <2>1. CASE \/ Put(Journal, JournalOf(op[p])) /\ Goto(p, "journalSync")
             \/ /\ vis' = [vis EXCEPT ![Journal] = JournalOf(op[p]), ![p] = Absent]
                /\ disk' = [disk EXCEPT ![Journal] = @ \cup {JournalOf(op[p])},
                                        ![p] = @ \cup {Absent}]
                /\ Return(p, "Io")
    <3>1. /\ vis'[Journal] = JournalOf(op[p])
          /\ disk'[Journal] = disk[Journal] \cup {JournalOf(op[p])}
          /\ \A e \in Entries \ {p, Journal} : vis'[e] = vis[e] /\ disk'[e] = disk[e]
          /\ vis'[p] \in disk'[p]
      BY <1>0, <2>1 DEF Put, FilesOK, VisibleOnDisk
    <3>2. Unmoved(p)' => pc'[p] = "journalSync"
      <4>1. Goto(p, "journalSync") => pc'[p] = "journalSync"
        BY DEF Goto, IInv, TypeOK
      <4>2. Return(p, "Io") => ~ Unmoved(p)'
        BY RecoverRequestType DEF Return, Unmoved, IInv, TypeOK
      <4> QED BY <2>1, <4>1, <4>2
    <3>3. DiskInv'
      BY <1>0, <1>2, <1>3, <1>4, <2>k, <3>1, <3>2, JournalAppears
    <3>4. Abstract!Settle
      BY <1>0, <1>4, <2>j, <3>1, JournalSettles DEF Inert
    <3> QED BY <3>3, <3>4 DEF Abstract!Next
  <2> QED BY <1>5, <1>q, <2>1 DEF InstallJournal, Fail
<1>6. CASE AbortRebind(p) \/ FinishJournal(p)
  <2>i. Inert(disk, vis[Journal])
    <3>1. CASE AbortRebind(p)
      <4>1. op[p].kind = "rebind" /\ pc[p] = "abort"
        BY <3>1 DEF AbortRebind, At, IInv, HolderAt, RequestAt
      <4> QED BY <4>1, OwnJournal
    <3>2. CASE FinishJournal(p)
      <4> DEFINE j == vis[Journal]
      <4>1. \/ Uncommitted(j)
            \/ disk[j.src] = {Absent}
        BY <3>2 DEF FinishJournal, At, IInv, HolderAt, CommitAt
      <4>2. j # Absent /\ j.srcEtag # Absent
        BY <3>2, JournalType, NameAssumption
        DEF FinishJournal, At, IInv, HolderAt, CommitAt, CommitSteps
      <4> QED BY <4>1, <4>2 DEF DiskInv, JournalOnDisk, Inert
    <3> QED BY <1>6, <3>1, <3>2
  <2>1. CASE \/ /\ vis' = [vis EXCEPT ![Journal] = Absent, ![p] = Absent]
                /\ disk' = [disk EXCEPT ![Journal] = @ \cup {Absent},
                                        ![p] = @ \cup {Absent}]
             \/ Put(Journal, Absent)
    <3>1. /\ vis'[Journal] = Absent
          /\ disk'[Journal] = disk[Journal] \cup {Absent}
          /\ \A e \in Entries \ {p, Journal} : vis'[e] = vis[e] /\ disk'[e] = disk[e]
          /\ vis'[p] \in disk'[p]
      BY <1>0, <2>1 DEF Put, FilesOK, VisibleOnDisk
    <3>3. DiskInv'
      BY <1>0, <1>2, <1>3, <1>4, <2>i, <3>1, JournalGoes
    <3>4. Abstract!Settle
      BY <1>0, <1>4, <2>i, <3>1, JournalSettles DEF Inert
    <3> QED BY <3>3, <3>4 DEF Abstract!Next
  <2> QED BY <1>6, <1>q, <2>1 DEF AbortRebind, FinishJournal
<1> QED BY <1>5, <1>6

\* A delete changes its document; the end of a rename changes nothing.
LEMMA RemoveStep ==
  ASSUME IInv, IInv', DiskInv, NEW p \in Procs, RemoveTarget(p) \/ RetireSource(p)
  PROVE  DiskInv' /\ Abstract!Next
<1>0. /\ pc[p] \in {"remove", "retireSrc"} /\ lock = p /\ opCount' = opCount
      /\ FilesOK /\ FilesOK' /\ VisibleOnDisk /\ Docs \subseteq Entries
      /\ Journal \in Entries \ Docs
  BY NameAssumption
  DEF RemoveTarget, RetireSource, At, IInv, TypeOK, DiskInv, Entries
<1>1. \/ Goto(p, "removeSync")
      \/ Goto(p, "commitSrc") /\ pc[p] = "retireSrc" /\ whose' = whose
      \/ \E r : Return(p, r)
  BY DEF RemoveTarget, RetireSource, At, holder
<1>2. Continues
  BY <1>0, <1>1, ReturnContinues, GotoContinues
  DEF HolderSteps, RecoverySteps, CommitSteps, BeforeMove, Journaled
<1>3. \A q \in Procs : pc'[q] # "move"
  BY <1>0, <1>1, NobodyMoves
<1>q. CASE UNCHANGED files
  BY <1>2, <1>3, <1>q, QuietStep
<1>4. ASSUME NEW d \in Docs, Put(d, Absent)
      PROVE  /\ VisibleOnDisk' /\ vis'[d] = Absent /\ disk'[d] = disk[d] \cup {Absent}
             /\ \A e \in (Docs \cup {Journal}) \ {d} :
                  vis'[e] = vis[e] /\ disk'[e] = disk[e]
  BY <1>0, <1>4, VisibleKept DEF Put, FilesOK
<1>5. CASE RemoveTarget(p)
  <2> DEFINE d == op[p].path
  <2>1. /\ d \in Docs /\ op[p].kind = "delete" /\ vis[d] = op[p].expect
        /\ op[p].expect \in Etags /\ vis[Journal] = Absent
    BY <1>5, RequestType
    DEF RemoveTarget, At, IInv, HolderAt, RequestAt, OperationAt, ConditionHolds
  <2>2. CASE Put(d, Absent)
    <3>1. DiskInv'
      BY <1>0, <1>2, <1>3, <1>4, <2>1, <2>2, DocumentGoes
    <3>2. /\ vis'[d] = Absent /\ disk'[d] = disk[d] \cup {Absent}
          /\ \A e \in (Docs \cup {Journal}) \ {d} : vis'[e] = vis[e] /\ disk'[e] = disk[e]
      BY <1>4, <2>1, <2>2
    <3>3. ASSUME NEW j \in disk[Journal]
          PROVE  Inert(disk, j) /\ Inert(disk', j)
      <4>1. j \in {Absent} \cup JournalRecords /\ Inert(disk, j)
        BY <1>0, <2>1 DEF FilesOK, Values, DiskInv, JournalOnDisk, Journals, Inert
      <4>2. \A x \in Docs : disk'[x] \subseteq disk[x] \cup {Absent}
        BY <3>2
      <4> QED BY <4>1, <4>2, NameAssumption DEF Inert, JournalRecords
    <3>4. Abstract!Change(d, Absent)
      <4>1. Absent # vis[d] /\ VisibleOnDisk'
        BY <1>4, <2>1, <2>2, NameAssumption
      <4> HIDE DEF d
      <4> QED BY <1>0, <2>1, <3>2, <3>3, <4>1, ChangeStep
    <3> QED BY <2>1, <3>1, <3>4 DEF Abstract!Next
  <2> QED BY <1>5, <1>q, <2>2 DEF RemoveTarget
<1>6. CASE RetireSource(p)
  <2> DEFINE j == vis[Journal]
  <2>1. /\ j \in JournalRecords /\ j # Absent /\ Committed(j)
        /\ disk[j.dst] = {j.dstEtag} /\ disk[Journal] = {j} /\ j.src \in Docs
    <3>1. j # Absent /\ Committed(j) /\ disk[j.dst] = {j.dstEtag}
      BY <1>6 DEF RetireSource, At, IInv, HolderAt, CommitAt, CommitSteps
    <3>2. j \in JournalRecords
      BY <1>0, <3>1 DEF FilesOK, Values
    <3> QED BY <3>1, <3>2, JournalType DEF DiskInv, JournalOnDisk
  <2>2. CASE Put(j.src, Absent)
    <3>1. DiskInv'
      BY <1>0, <1>2, <1>3, <1>4, <2>1, <2>2, DocumentGoes
    <3>2. Abstract!Settle
      BY <1>0, <1>4, <2>1, <2>2, RetireSettles
    <3> QED BY <3>1, <3>2 DEF Abstract!Next
  <2> QED BY <1>6, <1>q, <2>2 DEF RetireSource
<1> QED BY <1>5, <1>6

\* The move is where a write, or a rename, takes place.
LEMMA MoveStep ==
  ASSUME IInv, IInv', DiskInv, NEW p \in Procs, MoveEnvelope(p) \/ MoveFails(p)
  PROVE  DiskInv' /\ Abstract!Next
<1>0. /\ pc[p] = "move" /\ lock = p /\ opCount' = opCount /\ whose' = whose
      /\ FilesOK /\ FilesOK' /\ VisibleOnDisk /\ Docs \subseteq Entries
      /\ Journal \in Entries \ (Docs \cup Procs)
  BY NameAssumption
  DEF MoveEnvelope, MoveFails, At, IInv, TypeOK, DiskInv, Entries, holder, counts
<1>h. /\ op[p].kind \in {"write", "rebind"} /\ vis[p] = op[p].new
      /\ ConditionHolds(op[p]) /\ whose = "own"
      /\ op[p].kind = "write" => vis[Journal] = Absent
  BY <1>0 DEF IInv, HolderAt, RequestAt, StagingAt, OperationAt, CommitAt, HolderSteps,
     CommitSteps
<1>d. Target(op[p]) \in Docs /\ op[p].new \in Etags
  BY RequestType
<1>1. \/ \E s \in {"commitLocal", "writeLocal", "reconcile", "abort"} : Goto(p, s)
      \/ \E r : Return(p, r)
  BY DEF MoveEnvelope, MoveFails, Fail
<1>2. Continues
  BY <1>0, <1>h, <1>1, ReturnContinues, GotoContinues
  DEF HolderSteps, RecoverySteps, CommitSteps, BeforeMove, Journaled
<1>3. \A q \in Procs : pc'[q] # "move"
  BY <1>0, <1>1, NobodyMoves
<1>q. CASE UNCHANGED files \/ Put(p, Absent)
  BY <1>2, <1>3, <1>q, QuietStep
<1>r. CASE Rename(p, Target(op[p])) /\ ~ (UNCHANGED files \/ Put(p, Absent))
  <2> DEFINE d == Target(op[p])
             v == op[p].new
  <2>1. /\ vis'[d] = v /\ disk'[d] = disk[d] \cup {v} /\ VisibleOnDisk'
        /\ \A e \in (Docs \cup {Journal}) \ {d} : vis'[e] = vis[e] /\ disk'[e] = disk[e]
    <3>1. VisibleOnDisk'
      BY <1>0, <1>d, <1>r, VisibleKept
    <3>2. \A e \in Docs \cup {Journal} : e \in Entries /\ e # p
      BY <1>0, NameAssumption
    <3> QED BY <1>0, <1>d, <1>h, <1>r, <3>1, <3>2 DEF Rename, FilesOK
  <2>2. ~ Unmoved(p)'
    <3>1. \/ \E s \in {"commitLocal", "writeLocal", "reconcile"} : Goto(p, s)
          \/ \E r : Return(p, r)
      BY <1>r DEF MoveEnvelope, MoveFails, Fail
    <3>2. ASSUME NEW s \in {"commitLocal", "writeLocal", "reconcile"}, Goto(p, s)
          PROVE  ~ Unmoved(p)'
      <4>1. pc'[p] = s /\ whose' = "own"
        BY <1>0, <1>h, <3>2 DEF Goto, IInv, TypeOK
      <4> QED BY <3>2, <4>1 DEF Unmoved, BeforeMove, CommitSteps
    <3>3. ASSUME NEW r, Return(p, r) PROVE ~ Unmoved(p)'
      BY <3>3, RecoverRequestType DEF Return, Unmoved, IInv, TypeOK
    <3> QED BY <3>1, <3>2, <3>3
  <2>3. DiskInv'
    BY <1>0, <1>2, <1>3, <1>r, <2>1, <2>2, EnvelopeMoves
  <2>4. NewUnused(p) /\ Unmoved(p) /\ \A x \in Docs : v \notin disk[x]
    BY <1>0, <1>h DEF DiskInv, NewUnused, Unmoved, BeforeMove
  <2>5. CASE op[p].kind = "write"
    <3>1. ASSUME NEW j \in disk[Journal]
          PROVE  Inert(disk, j) /\ Inert(disk', j)
      <4>1. j \in {Absent} \cup JournalRecords /\ Inert(disk, j)
        BY <1>0, <1>h, <2>5 DEF FilesOK, Values, DiskInv, JournalOnDisk, Journals, Inert
      <4>2. j # Absent => j.srcEtag # v /\ j.dstEtag # v
        BY <2>4, <2>5 DEF NewUnused, Journals
      <4>3. \A x \in Docs : disk'[x] \subseteq disk[x] \cup {v}
        BY <2>1
      <4> QED BY <4>1, <4>2, <4>3 DEF Inert, JournalRecords
    <3>2. v # vis[d]
      BY <1>0, <1>d, <2>4 DEF VisibleOnDisk
    <3>3. Abstract!Change(d, v)
      <4> HIDE DEF d, v
      <4>1. d \in Docs /\ v \in Etags \cup {Absent}
        BY <1>d DEF d, v
      <4> QED BY <1>0, <2>1, <3>1, <3>2, <4>1, ChangeStep
    <3> QED BY <1>d, <2>3, <3>3 DEF Abstract!Next
  <2>6. CASE op[p].kind = "rebind"
    <3>p. PICK j \in JournalRecords : j = JournalOf(op[p])
      BY <2>6, RequestType
    <3>1. /\ vis[Journal] = j /\ disk[Journal] = {j} /\ Uncommitted(j)
          /\ \A x \in Docs : j.dstEtag \notin disk[x]
          /\ j.dst = d /\ j.dstEtag = v
      BY <1>0, <2>6, <3>p, OwnJournal DEF DiskInv, JournalOnDisk, JournalOf, Target
    <3>2. Abstract!Rename(j.src, j.dst, j.dstEtag)
      BY <1>0, <2>1, <3>1, RenameStep
    <3>3. j.src \in Docs /\ j.dst \in Docs \ {j.src} /\ j.dstEtag \in Etags
      BY DEF JournalRecords
    <3> QED BY <2>3, <3>2, <3>3 DEF Abstract!Next
  <2> QED BY <1>h, <2>5, <2>6
<1> QED BY <1>q, <1>r DEF MoveEnvelope, MoveFails, Fail

\* A new request names etags that have been made, and will make another one.
LEMMA BeginStep ==
  ASSUME IInv, IInv', DiskInv, NEW p \in Procs,
         NEW r \in NewRequests(1 .. (opCount + 1), opCount + 2), Begin(p, r)
  PROVE  DiskInv' /\ Abstract!Next
<1>0. /\ opCount' = opCount + 1 /\ opCount \in Nat
      /\ op' = [op EXCEPT ![p] = r] /\ pc' = [pc EXCEPT ![p] = "lock"]
      /\ vis' = vis /\ disk' = disk /\ whose' = whose /\ pc[p] = "idle"
      /\ pc \in [Procs -> Steps] /\ op \in [Procs -> Requests]
      /\ FilesOK /\ FilesOK' /\ VisibleOnDisk
  BY DEF Begin, files, holder, IInv, TypeOK, DiskInv
<1>r. /\ r.expect \in Made \cup {Absent}
      /\ r.new = opCount + 2 \/ (r.kind = "recover" /\ r.new = 1)
  BY DEF NewRequests, RecoverRequest, Made
<1>m. /\ Made \subseteq Made' /\ r.new \in Made' /\ 1 \in Made
      /\ opCount + 2 \notin Made
  BY <1>0, <1>r DEF Made
<1>1. VisibleOnDisk' /\ Journals' = Journals
  BY <1>0 DEF VisibleOnDisk, Journals
<1>2. EtagsMade'
  <2>1. \A q \in Procs : op'[q] = IF q = p THEN r ELSE op[q]
    BY <1>0
  <2> QED BY <1>0, <1>1, <1>r, <1>m, <2>1 DEF DiskInv, EtagsMade
<1>3. NewDiffers'
  <2>1. \A q \in Procs \ {p} : op'[q] = op[q] /\ pc'[q] = pc[q] /\ op[q].new \in Made
    BY <1>0 DEF DiskInv, EtagsMade
  <2>2. op'[p] = r
    BY <1>0
  <2> QED BY <1>r, <1>m, <2>1, <2>2 DEF DiskInv, NewDiffers
<1>4. JournalOnDisk'
  <2>1. \A q \in Procs : pc'[q] = "move" => pc[q] = "move" /\ op'[q] = op[q]
    BY <1>0
  <2>2. \A j : /\ Uncommitted(j)' <=> Uncommitted(j)
               /\ Committed(j)' <=> Committed(j)
               /\ Retired(j)' <=> Retired(j)
    BY <1>0 DEF Uncommitted, Committed, Retired
  <2> QED BY <1>0, <1>1, <2>1, <2>2 DEF DiskInv, JournalOnDisk
<1>5. ASSUME NEW q \in Procs PROVE NewUnused(q)'
  <2>1. CASE q = p
    <3>1. op'[p] = r /\ (Unmoved(p)' => r.new = opCount + 2)
      BY <1>0, <1>r DEF Unmoved
    <3>2. \A d \in Docs : opCount + 2 \in disk[d] => opCount + 2 = Absent
      BY <1>m DEF DiskInv, EtagsMade
    <3>3. \A j \in Journals : j.srcEtag # opCount + 2 /\ j.dstEtag # opCount + 2
      BY <1>m DEF DiskInv, EtagsMade
    <3>4. Unmoved(p)' => opCount + 2 # Absent
      <4>1. opCount + 2 \in Etags
        BY BoundAssumption DEF Begin, Etags, IInv, TypeOK
      <4> QED BY <4>1, NameAssumption
    <3> QED BY <1>0, <1>1, <2>1, <3>1, <3>2, <3>3, <3>4 DEF NewUnused
  <2>2. CASE q # p
    <3>1. op'[q] = op[q] /\ pc'[q] = pc[q]
      BY <1>0, <2>2
    <3>2. Unmoved(q)' <=> Unmoved(q)
      BY <1>0, <3>1 DEF Unmoved
    <3> QED BY <1>0, <1>1, <3>1, <3>2 DEF DiskInv, NewUnused, JournalOf
  <2> QED BY <2>1, <2>2
<1>6. Abstract!Settle
  BY <1>0, <1>1, QuietSettles
<1> QED BY <1>1, <1>2, <1>3, <1>4, <1>5, <1>6 DEF DiskInv, Abstract!Next

\* Taking the lock and dying touch no file.
LEMMA AcquireStep ==
  ASSUME IInv, IInv', DiskInv, NEW p \in Procs, Acquire(p) \/ Kill(p)
  PROVE  DiskInv' /\ Abstract!Next
<1>1. UNCHANGED files /\ opCount' = opCount
  BY DEF Acquire, Kill, counts
<1>2. CASE Acquire(p)
  <2>1. /\ op' = op /\ pc' = [pc EXCEPT ![p] = "clean"] /\ pc[p] = "lock"
        /\ pc \in [Procs -> Steps] /\ lock \notin Procs
    BY <1>2, NameAssumption DEF Acquire, IInv, TypeOK
  <2>2. \A q \in Procs : pc[q] \in {"idle", "lock"}
    BY <2>1 DEF IInv, LockInv, Steps
  <2>3. Continues
    BY <1>1, <2>1, <2>2 DEF Continues, Unmoved, BeforeMove, CommitSteps, Journaled
  <2>4. \A q \in Procs : pc'[q] # "move"
    BY <2>1, <2>2
  <2> QED BY <1>1, <2>3, <2>4, QuietStep
<1>3. CASE Kill(p)
  <2>1. /\ op' = [op EXCEPT ![p] = RecoverRequest] /\ pc' = [pc EXCEPT ![p] = "idle"]
        /\ whose' = whose /\ pc \in [Procs -> Steps] /\ op \in [Procs -> Requests]
    BY <1>3 DEF Kill, holder, IInv, TypeOK
  <2>2. \A q \in Procs \ {p} : op'[q] = op[q] /\ pc'[q] = pc[q]
    BY <2>1
  <2>3. op'[p] = RecoverRequest /\ pc'[p] = "idle"
    BY <2>1
  <2>4. Continues
    BY <1>1, <2>1, <2>2, <2>3, RecoverRequestType DEF Continues, Unmoved, Journaled
  <2>5. \A q \in Procs : pc'[q] = "move" /\ op'[q].kind = "rebind" =>
                           disk'[Journal] = {vis[Journal]}
    BY <1>1, <2>2, <2>3 DEF files, DiskInv, JournalOnDisk
  <2> QED BY <1>1, <2>4, <2>5, QuietStep
<1> QED BY <1>2, <1>3

\* After a power loss the disk is what is visible, and nothing runs.
LEMMA LossDisk ==
  ASSUME IInv, IInv', DiskInv, PowerLoss
  PROVE  DiskInv'
<1>0. /\ \A e \in Entries : vis'[e] \in disk[e] /\ disk'[e] = {vis'[e]}
      /\ Docs \subseteq Entries /\ Journal \in Entries /\ opCount' = opCount
      /\ \A q \in Procs : pc'[q] = "idle" /\ op'[q] = RecoverRequest
  BY OutcomeIs DEF PowerLoss, Entries
<1>1. Made' = Made /\ 1 \in Made
  BY <1>0 DEF Made, IInv, TypeOK
<1>2. Journals' \subseteq Journals /\ Journals' \subseteq {vis'[Journal]}
  BY <1>0 DEF Journals
<1>3. EtagsMade'
  <2>1. RecoverRequest.new = 1 /\ RecoverRequest.expect = Absent
    BY DEF RecoverRequest
  <2> QED BY <1>0, <1>1, <1>2, <2>1 DEF EtagsMade, DiskInv
<1>4. JournalOnDisk'
  <2>1. ASSUME vis'[Journal] # Absent, Uncommitted(vis[Journal])'
        PROVE  Inert(disk', vis'[Journal])
    <3>1. vis'[Journal] \in JournalRecords
      BY <1>0, <2>1 DEF IInv, TypeOK, FilesOK, Values
    <3>2. disk'[vis'[Journal].dst] = {Absent} /\ vis'[Journal].dstEtag # Absent
      BY <1>0, <2>1, <3>1, NameAssumption DEF Uncommitted, JournalRecords
    <3> QED BY <3>2 DEF Inert
  <2> QED BY <1>0, <1>2, <2>1 DEF JournalOnDisk
<1>5. \A q \in Procs : NewUnused(q)' /\ ~ Unmoved(q)'
  BY <1>0, RecoverRequestType DEF NewUnused, Unmoved
<1> QED BY <1>0, <1>3, <1>4, <1>5 DEF DiskInv, VisibleOnDisk, NewDiffers

\* Everything is durable at first.
LEMMA InitDisk ==
  ASSUME Init
  PROVE  DiskInv
<1>0. /\ \A e \in Entries : vis[e] \in {1, Absent} /\ disk[e] = {vis[e]}
      /\ vis[Journal] = Absent /\ Docs \subseteq Entries /\ Journal \in Entries
      /\ \A q \in Procs : pc[q] = "idle" /\ op[q] = RecoverRequest
      /\ opCount = 0
  BY NameAssumption DEF Init, Entries
<1>1. 1 \in Made /\ Journals = {}
  BY <1>0 DEF Made, Journals
<1>2. EtagsMade
  <2>1. RecoverRequest.new = 1 /\ RecoverRequest.expect = Absent
    BY DEF RecoverRequest
  <2> QED BY <1>0, <1>1, <2>1 DEF EtagsMade
<1> QED BY <1>0, <1>1, <1>2, RecoverRequestType
    DEF DiskInv, VisibleOnDisk, NewDiffers, JournalOnDisk, NewUnused, Unmoved

\* Nothing is lost by a step that changes nothing.
LEMMA StutterDisk ==
  ASSUME DiskInv, UNCHANGED vars
  PROVE  DiskInv'
BY DEF DiskInv, vars, VisibleOnDisk, EtagsMade, NewDiffers, JournalOnDisk, NewUnused,
   Unmoved, Journals, Made, Uncommitted, Committed, Retired, JournalOf, Inert

\* One step: the invariant is kept, and AtomicVault takes a step.
LEMMA NextStep ==
  ASSUME IInv, IInv', DiskInv, Next
  PROVE  DiskInv' /\ Abstract!Next
<1>1. ASSUME NEW p \in Procs, HolderStep(p) PROVE DiskInv' /\ Abstract!Next
  BY <1>1, AcquireQuiet, OperationQuiet, SyncQuiet, JournalStep, RemoveStep, MoveStep
  DEF HolderStep
<1>2. PowerLoss => DiskInv' /\ Abstract!Next
  BY LossDisk, LossStep DEF Abstract!Next
<1> QED BY <1>1, <1>2, AcquireStep, BeginStep DEF Next, Run

\* What is on disk, in every reachable state: among others, that an etag is
\* never made twice, and that a rename is committed only once its journal
\* survives any power loss.
THEOREM DiskHolds == Spec => []DiskInv
<1>1. Init => DiskInv
  BY InitDisk
<1>2. IInv /\ IInv' /\ DiskInv /\ [Next]_vars => DiskInv'
  BY NextStep, StutterDisk
<1> QED BY <1>1, <1>2, InvariantHolds, PTL DEF Spec

\* The store of any number of processes, under any number of kills, failed
\* calls and power losses, is a vault whose writes, deletes and renames are
\* atomic, in what its readers find and in what a power loss may leave.
THEOREM Implements == Spec => ImplementsAtomicVault
<1>1. Init => Abstract!Init
  BY InitSimulates
<1>2. IInv /\ IInv' /\ DiskInv /\ [Next]_vars
        => [Abstract!Next]_<<Logical(vis), {Logical(f) : f \in Outcomes}>>
  <2>1. UNCHANGED vars => UNCHANGED <<Logical(vis), {Logical(f) : f \in Outcomes}>>
    BY DEF vars, Outcomes
  <2> QED BY <2>1, NextStep
<1> QED BY <1>1, <1>2, InvariantHolds, DiskHolds, PTL
    DEF Spec, ImplementsAtomicVault, Abstract!Spec

-------------------------------------------------------------------------------
(* A refused operation leaves no trace.                                    *)

\* The holder answers that it refuses, or failed to write, only before the move,
\* and with that step it changes no document.
LEMMA RefusalStep ==
  ASSUME IInv, NEW p \in Procs, HolderStep(p),
         reply' = "Conflict" \/ (reply' = "Io" /\ op[p].kind = "write")
  PROVE  /\ lock = p /\ Unmoved(p)
         /\ \A d \in Docs : vis'[d] = vis[d] /\ disk'[d] = disk[d]
<1>h. HolderAt(p) /\ FilesOK
  BY DEF IInv, TypeOK
<1>k. op[p].kind \in {"write", "delete", "rebind", "recover"}
  BY RequestType
<1>1. \A s : ~ Goto(p, s)
  BY DEF Goto
<1>2. \A r : Return(p, r) => r = "Conflict" \/ (r = "Io" /\ op[p].kind = "write")
  BY DEF Return
<1>f. /\ UNCHANGED files => \A d \in Docs : vis'[d] = vis[d] /\ disk'[d] = disk[d]
      /\ Put(p, Absent) => \A d \in Docs : vis'[d] = vis[d] /\ disk'[d] = disk[d]
  BY <1>h, NameAssumption DEF files, Put, FilesOK, Entries
<1>3. CASE RemoveStaging(p) \/ StagingClean(p) \/ InspectJournal(p)
  <2>1. /\ pc[p] \in {"clean", "inspect"} /\ lock = p /\ UNCHANGED files
        /\ op[p].kind = "write"
    BY <1>1, <1>2, <1>3 DEF RemoveStaging, StagingClean, InspectJournal, At
  <2> QED BY <1>f, <2>1 DEF Unmoved, BeforeMove
<1>4. CASE Prepare(p) \/ CheckCondition(p)
  <2>1. /\ pc[p] \in {"ready", "check"} /\ lock = p /\ Put(p, Absent)
    BY <1>1, <1>2, <1>4 DEF Prepare, CheckCondition, At, Fail
  <2>2. op[p].kind # "recover"
    BY <1>1, <1>2, <1>4, <1>h DEF Prepare, CheckCondition, At, HolderAt, RequestAt
  <2> QED BY <1>f, <2>1, <2>2 DEF Unmoved, BeforeMove
<1>5. CASE MoveEnvelope(p) \/ MoveFails(p)
  <2>1. /\ pc[p] = "move" /\ lock = p /\ Put(p, Absent) /\ op[p].kind # "rebind"
    BY <1>1, <1>2, <1>5 DEF MoveEnvelope, MoveFails, At, Fail
  <2>2. op[p].kind # "recover"
    BY <1>h, <2>1 DEF HolderAt, RequestAt
  <2> QED BY <1>f, <2>1, <2>2 DEF Unmoved, BeforeMove
<1>6. CASE FinishJournal(p) \/ FinishSync(p)
  <2>1. /\ pc[p] \in {"finish", "finishSync"} /\ lock = p /\ UNCHANGED files
        /\ op[p].kind = "write"
    BY <1>1, <1>2, <1>6 DEF FinishJournal, FinishSync, At
  <2>2. whose = "found"
    BY <1>h, <2>1 DEF HolderAt, CommitAt, CommitSteps, IInv, TypeOK
  <2> QED BY <1>f, <2>1, <2>2 DEF Unmoved, CommitSteps
<1>7. ~ (RemoveTarget(p) \/ RemoveSync(p) \/ WriteTarget(p) \/ Reconcile(p) \/ WriteLocal(p))
  BY <1>1, <1>2, <1>h
  DEF RemoveTarget, RemoveSync, WriteTarget, Reconcile, WriteLocal, At, HolderAt,
      RequestAt, IInv, TypeOK
<1>8. ~ (InstallJournal(p) \/ SyncJournal(p) \/ AbortRebind(p))
  BY <1>1, <1>2, <1>h
  DEF InstallJournal, SyncJournal, AbortRebind, At, Fail, HolderAt, RequestAt
<1>9. ~ (CommitLocal(p) \/ CommitDst(p) \/ RetireSource(p) \/ CommitSrc(p))
  BY <1>1, <1>2 DEF CommitLocal, CommitDst, RetireSource, CommitSrc
<1> QED BY <1>3, <1>4, <1>5, <1>6, <1>7, <1>8, <1>9 DEF HolderStep

\* A request answered with a conflict, or a write answered with an I/O error,
\* has its envelope at no path, and no power loss can bring it there.
THEOREM RefusalsLeaveNoTrace == Spec => RefusedLeavesNoTrace
<1>1. ASSUME IInv, DiskInv, Next,
             reply' = "Conflict" \/ (reply' = "Io" /\ op[lock].kind = "write"),
             NEW d \in Docs
      PROVE  vis'[d] # op[lock].new /\ op[lock].new \notin disk'[d]
  <2>1. ASSUME NEW p \in Procs, HolderStep(p)
        PROVE  vis'[d] # op[lock].new /\ op[lock].new \notin disk'[d]
    <3>1. lock = p
      BY <2>1
      DEF HolderStep, At, RemoveStaging, StagingClean, InspectJournal, Prepare,
          CheckCondition, RemoveTarget, RemoveSync, MoveEnvelope, MoveFails, WriteLocal,
          WriteTarget, Reconcile, InstallJournal, SyncJournal, AbortRebind, CommitLocal,
          CommitDst, RetireSource, CommitSrc, FinishJournal, FinishSync
    <3>2. Unmoved(p) /\ vis'[d] = vis[d] /\ disk'[d] = disk[d]
      BY <1>1, <2>1, <3>1, RefusalStep
    <3>3. vis[d] \in disk[d] /\ op[p].new \notin disk[d]
      BY <1>1, <3>2 DEF DiskInv, VisibleOnDisk, NewUnused, Entries
    <3> QED BY <3>1, <3>2, <3>3
  <2>2. ASSUME NEW p \in Procs PROVE ~ Acquire(p) /\ ~ Kill(p)
    BY <1>1 DEF Acquire, Kill
  <2>3. ASSUME NEW p \in Procs, NEW r PROVE ~ Begin(p, r)
    BY <1>1, Zenon DEF Begin
  <2>4. ~ PowerLoss
    BY <1>1 DEF PowerLoss
  <2> QED BY <1>1, <2>1, <2>2, <2>3, <2>4 DEF Next, Run
<1>2. IInv /\ DiskInv /\ [Next]_vars =>
        [reply' = "Conflict" \/ (reply' = "Io" /\ op[lock].kind = "write") =>
           \A d \in Docs : vis'[d] # op[lock].new /\ op[lock].new \notin disk'[d]]_vars
  BY <1>1
<1> QED BY <1>2, InvariantHolds, DiskHolds, PTL DEF Spec, RefusedLeavesNoTrace
=============================================================================
