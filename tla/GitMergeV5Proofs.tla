--------------------------- MODULE GitMergeV5Proofs ---------------------------
(***************************************************************************)
(* Proofs about the merge transaction, for any number of processes, runs,  *)
(* edits, index updates of Git, faults, kills and power losses.            *)
(***************************************************************************)
EXTENDS GitMergeV5, FiniteSetTheorems, TLAPS

-----------------------------------------------------------------------------
(* Types.                                                                  *)

Foreign == [kind |-> "foreign", tx |-> NoTx]
Files ==
  [bundle  : Owned({"stable", "full", "manifest", "empty"}),
   publish : Transactions \cup {NoTx},
   journal : Owned({"journal", "receipt"}),
   lock    : Owned({"marker", "candidate"}) \cup {Foreign},
   index   : Indexes, dst : Versions, src : Versions \cup {Absent}]
Plans == [conflict : Targets, result : Versions]

\* A process that has started and may still make a version.
Pending == {p \in Procs : pc[p] # "idle" /\ plan[p] = NoTx}

Typed ==
  /\ disk \subseteq Files /\ vis \in disk
  /\ holder \in Procs \cup {NoProc} /\ pc \in [Procs -> Steps]
  /\ \A p \in Procs : pc[p] \notin Unguarded <=> holder = p
  /\ plan \in [Procs -> Plans \cup {NoTx}] /\ reply \in Replies
  /\ born \in Nat /\ born >= 2
  /\ IsFiniteSet(Pending) /\ born + Cardinality(Pending) <= 2 + runs + edits
  /\ runs \in 0 .. MaxRuns /\ gits \in 0 .. MaxGits /\ edits \in 0 .. MaxEdits
  /\ faults \in 0 .. MaxFaults /\ kills \in 0 .. MaxKills /\ losses \in 0 .. MaxLosses

-----------------------------------------------------------------------------
(* What every possible disk satisfies.                                     *)

SameLocal(t, s) == t.bundle = s.bundle /\ t.publish = s.publish /\ t.journal = s.journal
SameGit(t, s)   == t.lock = s.lock /\ t.index = s.index
SameTree(t, s)  == t.dst = s.dst /\ t.src = s.src

\* Only a rename that Git did not detect has a stage at the source, and it is
\* the version that Git left there.
Sourced(target) == target.src = IF Split(target.kind) THEN 2 ELSE Absent

\* A conflict was planned: its result is a version that came after it.
PlanOK(conflict, result) ==
  /\ conflict.kind # "merged" /\ Sourced(conflict)
  /\ conflict.dst < result /\ result <= born

FitSources(conflict) ==
  {conflict.src} \cup (IF conflict.kind = "splitOurs" THEN {Absent} ELSE {})

TxOK(tx) ==
  /\ PlanOK(tx.conflict, tx.result)
  /\ tx.conflict.kind # "inPlace" => tx.src \in FitSources(tx.conflict)
  /\ tx.src <= born /\ tx.old.rest <= gits

\* A bundle and a journal were made from a plan, a journal of the very conflict
\* that the index had; a marker or a candidate has its bundle.
OwnedOK(s) ==
  /\ s.bundle.kind # "none" => TxOK(s.bundle.tx)
  /\ s.journal.kind # "none" =>
       TxOK(s.journal.tx) /\ s.journal.tx.old.target = s.journal.tx.conflict
  /\ s.lock.kind \in {"marker", "candidate"} => s.bundle = A("stable", s.lock.tx)

\* Versions and updates were counted.
CountedOK(s) ==
  /\ s.dst <= born /\ s.src <= born /\ s.index.target.dst <= born
  /\ s.index.rest <= gits /\ Sourced(s.index.target)

DiskInv ==
  /\ \A s \in disk : OwnedOK(s) /\ CountedOK(s)
  /\ vis.src = 2 => \A s \in disk : s.src = 2

-----------------------------------------------------------------------------
(* What a process knows.                                                   *)

\* The result of p is in no file yet.
Unused(p, s) ==
  /\ s.dst # plan[p].result /\ s.index.target.dst # plan[p].result
  /\ s.bundle.kind # "none" => s.bundle.tx.result # plan[p].result
  /\ s.journal.kind # "none" => s.journal.tx.result # plan[p].result

Planned == {p \in Procs : pc[p] \in {"commit", "bundle"}}

PlanInv ==
  /\ \A p \in Procs : pc[p] \in {"recover", "inspect", "plan"} => plan[p] = NoTx
  /\ \A p \in Planned :
       /\ plan[p] # NoTx /\ PlanOK(plan[p].conflict, plan[p].result)
       /\ \A s \in disk : Unused(p, s)
       /\ \A q \in Planned : q # p => plan[q].result # plan[p].result
       /\ pc[p] = "bundle" /\ plan[p].conflict.kind # "inPlace" =>
            vis.src \in FitSources(plan[p].conflict)

\* Where the holder of the guard is.
Here == IF holder \in Procs THEN pc[holder] ELSE "idle"

BundleSteps == {"bundleSync", "staging"}
StagedSteps == {"stagingSync", "marker", "markerMove"}
WrittenSteps == {"worktreeSync", "source", "sourceSync", "publish"}
ReadySteps == {"journalSync", "worktree"} \cup WrittenSteps
CleanupSteps == {"cleanup", "cleanupSync"}

Calmly(s) == s.lock.kind \in {"none", "foreign"}

Before(published) ==
  /\ vis.bundle.kind = "stable" /\ vis.journal = None
  /\ vis.publish = IF published THEN vis.bundle.tx ELSE NoTx

After ==
  /\ vis.bundle.kind = "stable" /\ vis.publish = NoTx
  /\ vis.journal = A("journal", vis.bundle.tx) /\ Calmly(vis)

LocalKnown == \A s \in disk : SameLocal(s, vis)

\* What the holder of the guard knows of the files at a step.
Knows(step) ==
  /\ step \in BundleSteps => Before(FALSE) /\ Calmly(vis)
  /\ step \in StagedSteps => Before(TRUE) /\ Calmly(vis)
  /\ step \in {"markerMove", "markerSync"} => LocalKnown
  /\ step = "markerSync" => Before(TRUE) /\ vis.lock = A("marker", vis.bundle.tx)
  /\ step = "journal" => MarkerNoJournal(vis)
  /\ step \in ReadySteps => JournalReady(vis)
  /\ step \in WrittenSteps => vis.dst = vis.bundle.tx.result
  /\ step \in {"source", "sourceSync"} => Split(vis.bundle.tx.conflict.kind)
  /\ step = "sourceSync" => vis.src = Absent
  /\ step = "publish" /\ Split(vis.bundle.tx.conflict.kind) => vis.src = Absent
  /\ step \in {"publishSync", "install"} => CandidateInLock(vis)
  /\ step \in {"installSync", "verify"} => After
  /\ step \in CleanupSteps => After \/ InCleanup(vis) \/ Clean(vis)

HolderInv == Knows(Here)

\* A merge that is about to be reported as done is the one that was planned.
Owns(mine, step) ==
  /\ PlanOK(mine.conflict, mine.result)
  /\ step \notin {"bundle"} \cup CleanupSteps =>
       vis.bundle.tx.conflict = mine.conflict /\ vis.bundle.tx.result = mine.result
  /\ step \in CleanupSteps =>
       \A s \in disk : s.dst = mine.result /\ s.index.target.dst = mine.result
  /\ step = "cleanup" /\ Clean(vis) => LocalKnown

OwnInv ==
  holder \in Procs /\ plan[holder] # NoTx => Owns(plan[holder], Here)

-----------------------------------------------------------------------------
(* What recovery relies on.                                                *)

\* Nothing fails and nobody is killed, or the power is never lost: which of the
\* possible files recovery may find.
Calm == MaxFaults = 0 /\ MaxKills = 0
Seen == IF Calm THEN disk ELSE IF MaxLosses = 0 THEN {vis} ELSE {}

\* The source that the transaction is about is there.
SourceLeft(s, tx) ==
  tx.conflict.kind # "inPlace" /\ tx.src # Absent => s.src # Absent

SourceGone(s, tx) ==
  tx.conflict.kind = "inPlace" \/ s.src = Absent \/ s.src # tx.src

BeforeShape(s) ==
  LET tx == s.bundle.tx
  IN /\ s.bundle.kind = "stable" /\ s.journal = None /\ s.publish \in {NoTx, tx}
     /\ Calmly(s) \/ (s.publish = tx /\ s.lock = A("marker", tx))
     /\ s.index = tx.old \/ s.index.rest # tx.old.rest
     /\ s.dst # tx.result /\ SourceLeft(s, tx)

ReadyShape(s) ==
  LET tx == s.bundle.tx
  IN JournalReady(s) /\ (s.dst = tx.conflict.dst => SourceLeft(s, tx))

CandidateShape(s) ==
  LET tx == s.bundle.tx
  IN CandidateInLock(s) /\ s.dst # tx.conflict.dst /\ SourceGone(s, tx)

InstalledShape(s) ==
  LET tx == s.bundle.tx
  IN /\ s.bundle.kind \in {"stable", "full"} /\ s.publish = NoTx
     /\ s.journal = A("journal", tx) /\ Calmly(s)
     /\ ResultStaged(s, tx) \/ s.index.rest # tx.old.rest
     /\ s.dst # tx.conflict.dst /\ SourceGone(s, tx)

ReceiptShape(s) == \E i \in 3 .. 7 : Retiring(s, i) /\ Calmly(s)

Shape(s) ==
  \/ BeforeShape(s) \/ ReadyShape(s) \/ CandidateShape(s)
  \/ InstalledShape(s) \/ ReceiptShape(s)

\* Steps after a change of .vault-local, or of the index lock, that wait for
\* their fsync.
LocalMoves == {"bundleSync", "stagingSync", "journalSync", "publishSync", "cleanupSync"}
LockMoves  == {"markerSync", "publishSync"}

SeenInv ==
  /\ \A s \in Seen : Shape(s)
  /\ Here \notin LocalMoves => \A s \in Seen : SameLocal(s, vis)
  /\ ~Calmly(vis) /\ Here \notin LockMoves => \A s \in Seen : SameGit(s, vis)
  /\ Here \in {"source", "sourceSync"} => \A s \in Seen : s.dst = vis.dst
  /\ Here # "installSync" =>
       \A s \in Seen : s.index.rest = vis.index.rest => s.index = vis.index

IInv == Typed /\ DiskInv /\ PlanInv /\ HolderInv /\ OwnInv /\ SeenInv
-----------------------------------------------------------------------------
(* Values and files.                                                       *)

LEMMA Bounds ==
  /\ MaxRuns \in Nat /\ MaxGits \in Nat /\ MaxEdits \in Nat
  /\ MaxFaults \in Nat /\ MaxKills \in Nat /\ MaxLosses \in Nat
BY BoundAssumption

LEMMA NoTxIs == NoTx \notin Transactions /\ NoTx \notin Plans
BY TransactionAssumption DEF Plans

LEMMA TxIs ==
  ASSUME NEW tx \in Transactions
  PROVE  /\ tx.conflict \in Targets /\ tx.src \in Versions \cup {Absent}
         /\ tx.old \in Indexes /\ tx.result \in Versions
         /\ tx.old.target \in Targets /\ tx.old.rest \in 0 .. MaxGits
         /\ tx.src \in Nat /\ tx.result \in Nat /\ tx.old.rest \in Nat
<1>1. /\ tx.conflict \in Targets /\ tx.src \in Versions \cup {Absent}
      /\ tx.old \in Indexes /\ tx.result \in Versions
  BY DEF Transactions
<1>2. Versions \subseteq Nat /\ Absent \in Nat /\ 0 .. MaxGits \subseteq Nat
  BY Bounds DEF Versions, Absent
<1>3. tx.old.target \in Targets /\ tx.old.rest \in 0 .. MaxGits
  BY <1>1 DEF Indexes
<1> QED BY <1>1, <1>2, <1>3

LEMMA TargetIs ==
  ASSUME NEW target \in Targets
  PROVE  /\ target.kind \in AllKinds \cup {"merged"} /\ target.dst \in Versions
         /\ target.src \in Versions \cup {Absent}
         /\ target.dst \in Nat /\ target.src \in Nat
<1>1. Versions \subseteq Nat /\ Absent \in Nat
  BY Bounds DEF Versions, Absent
<1> QED BY <1>1 DEF Targets

LEMMA FinalIs ==
  ASSUME NEW tx \in Transactions
  PROVE  /\ FinalIndex(tx) \in Indexes /\ FinalIndex(tx).target.kind = "merged"
         /\ FinalIndex(tx).target.dst = tx.result /\ FinalIndex(tx).target.src = Absent
         /\ FinalIndex(tx).rest = tx.old.rest
<1>1. [kind |-> "merged", dst |-> tx.result, src |-> Absent] \in Targets
  BY TxIs DEF Targets
<1> QED BY <1>1, TxIs DEF FinalIndex, Indexes

\* A record of a bundle, a journal or a lock.
LEMMA OwnedIs ==
  ASSUME NEW kinds, NEW o \in Owned(kinds)
  PROVE  /\ o.kind = "none" \/ o.kind \in kinds
         /\ "none" \notin kinds => (o.kind = "none" <=> o = None)
         /\ o.kind # "none" => o.tx \in Transactions /\ o = A(o.kind, o.tx)
<1>1. CASE o \in [kind : {"none"}, tx : {NoTx}]
  BY <1>1 DEF None
<1>2. CASE o \in [kind : kinds, tx : Transactions]
  <2>1. o.kind \in kinds /\ o.tx \in Transactions /\ o = [kind |-> o.kind, tx |-> o.tx]
    BY <1>2
  <2> QED BY <2>1 DEF A, None
<1> QED BY <1>1, <1>2 DEF Owned

LEMMA PlacedIs ==
  /\ None.kind = "none" /\ None.tx = NoTx
  /\ \A k, tx : A(k, tx).kind = k /\ A(k, tx).tx = tx
  /\ \A k, j, tx, ux : A(k, tx) = A(j, ux) => k = j /\ tx = ux
  /\ \A kinds : None \in Owned(kinds)
  /\ \A kinds, k, tx : k \in kinds /\ tx \in Transactions => A(k, tx) \in Owned(kinds)
<1>1. None.kind = "none" /\ None.tx = NoTx
  BY DEF None
<1>2. \A k, tx : A(k, tx).kind = k /\ A(k, tx).tx = tx
  BY DEF A
<1>3. \A kinds : None \in Owned(kinds)
  BY DEF None, Owned
<1>4. \A kinds, k, tx : k \in kinds /\ tx \in Transactions => A(k, tx) \in Owned(kinds)
  BY DEF A, Owned
<1> QED BY <1>1, <1>2, <1>3, <1>4

BundleKinds  == {"stable", "full", "manifest", "empty"}
JournalKinds == {"journal", "receipt"}
LockKinds    == {"marker", "candidate"}

LEMMA FileIs ==
  ASSUME NEW s \in Files
  PROVE  /\ s.bundle \in Owned(BundleKinds) /\ s.publish \in Transactions \cup {NoTx}
         /\ s.journal \in Owned(JournalKinds)
         /\ s.lock \in Owned(LockKinds) \/ s.lock = Foreign
         /\ s.index \in Indexes /\ s.dst \in Versions /\ s.src \in Versions \cup {Absent}
         /\ s.dst \in Nat /\ s.src \in Nat /\ s.index.target \in Targets
         /\ s.index.rest \in 0 .. MaxGits /\ s.index.rest \in Nat
<1>1. /\ s.bundle \in Owned(BundleKinds) /\ s.publish \in Transactions \cup {NoTx}
      /\ s.journal \in Owned(JournalKinds)
      /\ s.lock \in Owned(LockKinds) \/ s.lock = Foreign
      /\ s.index \in Indexes /\ s.dst \in Versions /\ s.src \in Versions \cup {Absent}
  BY DEF Files, BundleKinds, JournalKinds, LockKinds
<1>2. Versions \subseteq Nat /\ Absent \in Nat /\ 0 .. MaxGits \subseteq Nat
  BY Bounds DEF Versions, Absent
<1>3. s.index.target \in Targets /\ s.index.rest \in 0 .. MaxGits
  BY <1>1 DEF Indexes
<1> QED BY <1>1, <1>2, <1>3

\* The parts of a set of files, and what they own.
LEMMA PartsAre ==
  ASSUME NEW s \in Files
  PROVE  /\ s.bundle.kind = "none" \/ s.bundle.kind \in BundleKinds
         /\ s.bundle.kind = "none" => s.bundle = None
         /\ s.bundle.kind # "none" =>
              s.bundle.tx \in Transactions /\ s.bundle = A(s.bundle.kind, s.bundle.tx)
         /\ s.journal.kind = "none" \/ s.journal.kind \in JournalKinds
         /\ s.journal.kind = "none" => s.journal = None
         /\ s.journal.kind # "none" =>
              s.journal.tx \in Transactions /\ s.journal = A(s.journal.kind, s.journal.tx)
         /\ s.lock.kind = "none" \/ s.lock.kind = "foreign" \/ s.lock.kind \in LockKinds
         /\ s.lock.kind = "none" => s.lock = None
         /\ s.lock.kind = "foreign" => s.lock = Foreign
         /\ s.lock.kind \in LockKinds =>
              s.lock.tx \in Transactions /\ s.lock = A(s.lock.kind, s.lock.tx)
<1>1. "none" \notin BundleKinds /\ "none" \notin JournalKinds /\ "none" \notin LockKinds
      /\ "foreign" \notin LockKinds
  BY DEF BundleKinds, JournalKinds, LockKinds
<1>2. s.bundle \in Owned(BundleKinds) /\ s.journal \in Owned(JournalKinds)
      /\ (s.lock \in Owned(LockKinds) \/ s.lock = Foreign)
  BY FileIs
<1>3. Foreign.kind = "foreign"
  BY DEF Foreign
<1>4. /\ s.bundle.kind = "none" \/ s.bundle.kind \in BundleKinds
      /\ s.bundle.kind = "none" => s.bundle = None
      /\ s.bundle.kind # "none" =>
           s.bundle.tx \in Transactions /\ s.bundle = A(s.bundle.kind, s.bundle.tx)
  BY <1>1, <1>2, OwnedIs
<1>5. /\ s.journal.kind = "none" \/ s.journal.kind \in JournalKinds
      /\ s.journal.kind = "none" => s.journal = None
      /\ s.journal.kind # "none" =>
           s.journal.tx \in Transactions /\ s.journal = A(s.journal.kind, s.journal.tx)
  BY <1>1, <1>2, OwnedIs
<1>6. /\ s.lock.kind = "none" \/ s.lock.kind = "foreign" \/ s.lock.kind \in LockKinds
      /\ s.lock.kind = "none" => s.lock = None
      /\ s.lock.kind = "foreign" => s.lock = Foreign
      /\ s.lock.kind \in LockKinds =>
           s.lock.tx \in Transactions /\ s.lock = A(s.lock.kind, s.lock.tx)
  <2>1. CASE s.lock = Foreign
    BY <1>1, <1>3, <2>1 DEF LockKinds
  <2>2. CASE s.lock \in Owned(LockKinds)
    <3>1. /\ s.lock.kind = "none" \/ s.lock.kind \in LockKinds
          /\ s.lock.kind = "none" => s.lock = None
          /\ s.lock.kind # "none" =>
               s.lock.tx \in Transactions /\ s.lock = A(s.lock.kind, s.lock.tx)
      BY <1>1, <2>2, OwnedIs
    <3> QED BY <1>1, <3>1
  <2> QED BY <1>2, <2>1, <2>2
<1> QED BY <1>4, <1>5, <1>6

\* The directories of a state.
LEMMA EntriesAre ==
  \A s, t :
    /\ Entries(s, "local") = Entries(t, "local") <=> SameLocal(s, t)
    /\ Entries(s, "git") = Entries(t, "git") <=> SameGit(s, t)
    /\ Entries(s, "dst") = Entries(t, "dst") <=> s.dst = t.dst
    /\ Entries(s, "src") = Entries(t, "src") <=> s.src = t.src
BY DEF Entries, SameLocal, SameGit

\* What a synchronized directory has in all that the power may leave.
LEMMA SyncedIs ==
  ASSUME NEW set, NEW dirs
  PROVE  /\ Synced(set, dirs) \subseteq set
         /\ vis \in set => vis \in Synced(set, dirs)
         /\ \A s \in Synced(set, dirs) :
              /\ "local" \in dirs => SameLocal(s, vis)
              /\ "git" \in dirs => SameGit(s, vis)
              /\ "dst" \in dirs => s.dst = vis.dst
              /\ "src" \in dirs => s.src = vis.src
BY EntriesAre DEF Synced

\* The chain of the cleanup, link by link.
LEMMA RetiringIs ==
  ASSUME NEW s \in Files
  PROVE  /\ Retiring(s, 1) <=> /\ s.publish = NoTx /\ s.journal.kind = "journal"
                               /\ s.bundle = A("stable", s.journal.tx) /\ s.lock = None
         /\ Retiring(s, 2) <=> /\ s.publish = NoTx /\ s.journal.kind = "journal"
                               /\ s.bundle = A("full", s.journal.tx) /\ s.lock = None
         /\ Retiring(s, 3) <=> /\ s.publish = NoTx /\ s.journal.kind = "receipt"
                               /\ s.bundle = A("full", s.journal.tx)
         /\ Retiring(s, 4) <=> /\ s.publish = NoTx /\ s.journal.kind = "receipt"
                               /\ s.bundle = A("manifest", s.journal.tx)
         /\ Retiring(s, 5) <=> /\ s.publish = NoTx /\ s.journal.kind = "receipt"
                               /\ s.bundle = A("empty", s.journal.tx)
         /\ Retiring(s, 6) <=> /\ s.publish = NoTx /\ s.journal.kind = "receipt"
                               /\ s.bundle = None
         /\ Clean(s) <=> /\ s.publish = NoTx /\ s.journal.kind = "none" /\ s.bundle = None
<1>1. /\ Chain[1] = <<"stable", "journal">> /\ Chain[2] = <<"full", "journal">>
      /\ Chain[3] = <<"full", "receipt">> /\ Chain[4] = <<"manifest", "receipt">>
      /\ Chain[5] = <<"empty", "receipt">> /\ Chain[6] = <<"none", "receipt">>
      /\ Chain[7] = <<"none", "none">>
  BY DEF Chain
<1>2. \A i \in 1 .. 7 :
        Retiring(s, i) <=>
          /\ s.publish = NoTx /\ s.journal.kind = Chain[i][2]
          /\ s.bundle = Place(Chain[i][1], s.journal.tx)
          /\ s.journal.kind = "journal" => s.lock = None
  BY DEF Retiring
<1>3. Place("none", s.journal.tx) = None
      /\ \A k \in BundleKinds : Place(k, s.journal.tx) = A(k, s.journal.tx)
  BY DEF Place, BundleKinds
<1>4. Retiring(s, 1) <=> /\ s.publish = NoTx /\ s.journal.kind = "journal"
                         /\ s.bundle = A("stable", s.journal.tx) /\ s.lock = None
  BY <1>1, <1>2, <1>3 DEF BundleKinds
<1>5. Retiring(s, 2) <=> /\ s.publish = NoTx /\ s.journal.kind = "journal"
                         /\ s.bundle = A("full", s.journal.tx) /\ s.lock = None
  BY <1>1, <1>2, <1>3 DEF BundleKinds
<1>6. Retiring(s, 3) <=> /\ s.publish = NoTx /\ s.journal.kind = "receipt"
                         /\ s.bundle = A("full", s.journal.tx)
  BY <1>1, <1>2, <1>3 DEF BundleKinds
<1>7. Retiring(s, 4) <=> /\ s.publish = NoTx /\ s.journal.kind = "receipt"
                         /\ s.bundle = A("manifest", s.journal.tx)
  BY <1>1, <1>2, <1>3 DEF BundleKinds
<1>8. Retiring(s, 5) <=> /\ s.publish = NoTx /\ s.journal.kind = "receipt"
                         /\ s.bundle = A("empty", s.journal.tx)
  BY <1>1, <1>2, <1>3 DEF BundleKinds
<1>9. Retiring(s, 6) <=> /\ s.publish = NoTx /\ s.journal.kind = "receipt"
                         /\ s.bundle = None
  BY <1>1, <1>2, <1>3
<1>10. Clean(s) <=> /\ s.publish = NoTx /\ s.journal.kind = "none" /\ s.bundle = None
  BY <1>1, <1>2, <1>3 DEF Clean
<1> QED BY <1>4, <1>5, <1>6, <1>7, <1>8, <1>9, <1>10
-----------------------------------------------------------------------------
(* Positions.                                                              *)

LEMMA StepsAre ==
  /\ Unguarded \subseteq Steps /\ "idle" \in Unguarded
  /\ LocalMoves \cap Unguarded = {} /\ LockMoves \cap Unguarded = {}
  /\ "idle" \notin LocalMoves /\ "idle" \notin LockMoves
BY DEF Unguarded, Steps, LocalMoves, LockMoves

LEMMA NobodyIs == NoProc \notin Procs
BY NameAssumption

\* The guard's holder is the only process in a step that needs the guard.
LEMMA HolderIs ==
  ASSUME Typed, NEW p \in Procs
  PROVE  /\ pc[p] \notin Unguarded <=> holder = p
         /\ holder = p => Here = pc[p] /\ \A q \in Procs : q # p => pc[q] \in Unguarded
         /\ pc[p] \in Steps
BY DEF Typed, Here

LEMMA HereIs ==
  ASSUME Typed
  PROVE  /\ holder \in Procs \/ holder = NoProc
         /\ holder = NoProc => Here = "idle"
         /\ holder \in Procs => Here = pc[holder] /\ Here \notin Unguarded
         /\ Here \in Steps
<1>1. "idle" \in Steps
  BY DEF Steps
<1> QED BY <1>1, NobodyIs DEF Typed, Here

LEMMA GotoIs ==
  ASSUME Typed, NEW p \in Procs, holder = p, NEW step \in Steps, step \notin Unguarded,
         Goto(p, step), plan' = plan
  PROVE  /\ holder' \in Procs \cup {NoProc} /\ pc' \in [Procs -> Steps]
         /\ \A q \in Procs : pc'[q] \notin Unguarded <=> holder' = q
         /\ reply' \in Replies
         /\ holder' = p /\ Here = pc[p] /\ Here' = step /\ pc'[p] = step
         /\ \A q \in Procs : q # p => pc'[q] = pc[q] /\ pc[q] \in Unguarded
         /\ Pending' \subseteq Pending
<1>1. holder' = p /\ pc' = [pc EXCEPT ![p] = step] /\ reply' = "none"
  BY DEF Goto
<1>2. pc \in [Procs -> Steps] /\ \A q \in Procs : pc[q] \notin Unguarded <=> holder = q
  BY DEF Typed
<1>3. pc' \in [Procs -> Steps] /\ pc'[p] = step /\ \A q \in Procs : q # p => pc'[q] = pc[q]
  BY <1>1, <1>2
<1>4. Here = pc[p] /\ Here' = step
  BY <1>1, <1>3 DEF Here
<1>5. pc[p] # "idle"
  BY <1>2, StepsAre
<1>6. Pending' \subseteq Pending
  BY <1>3, <1>5 DEF Pending
<1> QED BY <1>1, <1>2, <1>3, <1>4, <1>6 DEF Replies

LEMMA ReturnIs ==
  ASSUME Typed, NEW p \in Procs, NEW r \in Replies, Return(p, r), plan' = plan
  PROVE  /\ holder' \in Procs \cup {NoProc} /\ pc' \in [Procs -> Steps]
         /\ \A q \in Procs : pc'[q] \notin Unguarded <=> holder' = q
         /\ reply' \in Replies
         /\ holder = p => holder' = NoProc /\ Here' = "idle"
         /\ holder # p => holder' = holder /\ Here' = Here
         /\ pc'[p] = "idle" /\ \A q \in Procs : q # p => pc'[q] = pc[q]
         /\ Pending' \subseteq Pending
<1>1. /\ pc' = [pc EXCEPT ![p] = "idle"] /\ reply' = r
      /\ holder' = IF holder = p THEN NoProc ELSE holder
  BY DEF Return
<1>2. /\ pc \in [Procs -> Steps] /\ \A q \in Procs : pc[q] \notin Unguarded <=> holder = q
      /\ holder \in Procs \cup {NoProc}
  BY DEF Typed
<1>3. pc' \in [Procs -> Steps] /\ pc'[p] = "idle" /\ \A q \in Procs : q # p => pc'[q] = pc[q]
  BY <1>1, <1>2, StepsAre
<1>4. holder = p => holder' = NoProc /\ Here' = "idle"
  BY <1>1, NobodyIs DEF Here
<1>5. holder # p => holder' = holder /\ Here' = Here
  BY <1>1, <1>3 DEF Here
<1>6. \A q \in Procs : pc'[q] \notin Unguarded <=> holder' = q
  BY <1>1, <1>2, <1>3, StepsAre, NobodyIs
<1>7. Pending' \subseteq Pending
  BY <1>3 DEF Pending
<1> QED BY <1>1, <1>2, <1>3, <1>4, <1>5, <1>6, <1>7

LEMMA PendingShrinks ==
  ASSUME Typed, Pending' \subseteq Pending, UNCHANGED <<born, runs, edits>>
  PROVE  IsFiniteSet(Pending') /\ born' + Cardinality(Pending') <= 2 + runs' + edits'
<1>1. IsFiniteSet(Pending) /\ born + Cardinality(Pending) <= 2 + runs + edits
  BY DEF Typed
<1>2. /\ IsFiniteSet(Pending') /\ Cardinality(Pending') <= Cardinality(Pending)
      /\ Cardinality(Pending) \in Nat /\ Cardinality(Pending') \in Nat
  BY <1>1, FS_Subset, FS_CardinalityType
<1>3. born \in Nat /\ runs \in Nat /\ edits \in Nat
  BY Bounds DEF Typed
<1> QED BY <1>1, <1>2, <1>3

\* What a step that returns or goes on leaves typed.
LEMMA TypedKept ==
  ASSUME Typed, disk' \subseteq Files, vis' \in disk',
         holder' \in Procs \cup {NoProc}, pc' \in [Procs -> Steps], reply' \in Replies,
         \A q \in Procs : pc'[q] \notin Unguarded <=> holder' = q,
         Pending' \subseteq Pending, UNCHANGED <<plan, born, runs, gits, edits>>,
         faults' \in 0 .. MaxFaults, kills' \in 0 .. MaxKills, losses' \in 0 .. MaxLosses
  PROVE  Typed'
<1>1. IsFiniteSet(Pending') /\ born' + Cardinality(Pending') <= 2 + runs' + edits'
  BY PendingShrinks
<1> QED BY <1>1 DEF Typed

-----------------------------------------------------------------------------
(* Steps that leave the visible files as they are.                         *)

LEMMA SeenIs ==
  ASSUME Typed
  PROVE  /\ Seen \subseteq disk /\ Seen \subseteq Files /\ vis \in Files
         /\ Calm => Seen = disk
         /\ ~Calm => Seen \subseteq {vis}
BY DEF Typed, Seen

LEMMA SeenShrinks ==
  ASSUME Typed, vis' = vis, disk' \subseteq disk
  PROVE  Seen' \subseteq Seen /\ (~Calm => \A s \in Seen' : s = vis)
         /\ \A s \in Seen' : s \in disk' \/ ~Calm
BY DEF Seen, Calm

LEMMA DiskShrinks ==
  ASSUME DiskInv, vis' = vis, disk' \subseteq disk, UNCHANGED <<born, gits>>
  PROVE  DiskInv'
<1>1. \A s : OwnedOK(s) => OwnedOK(s)'
  BY DEF OwnedOK, TxOK, PlanOK
<1>2. \A s : CountedOK(s) => CountedOK(s)'
  BY DEF CountedOK
<1> QED BY <1>1, <1>2 DEF DiskInv

LEMMA KnowsShrinks ==
  ASSUME NEW step, Knows(step), vis' = vis, disk' \subseteq disk
  PROVE  Knows(step)'
<1>1. LocalKnown => LocalKnown'
  BY DEF LocalKnown, SameLocal
<1>2. Before(FALSE)' = Before(FALSE) /\ Before(TRUE)' = Before(TRUE) /\ After' = After
  BY DEF Before, After, Calmly
<1>3. /\ MarkerNoJournal(vis)' <=> MarkerNoJournal(vis)
      /\ JournalReady(vis)' <=> JournalReady(vis)
      /\ CandidateInLock(vis)' <=> CandidateInLock(vis)
  BY DEF MarkerNoJournal, JournalReady, CandidateInLock, Bound, Unmoved
<1>4. Clean(vis)' <=> Clean(vis)
  BY DEF Clean, Retiring
<1>5. InCleanup(vis)' <=> InCleanup(vis)
  BY DEF InCleanup
<1>6. Calmly(vis)' <=> Calmly(vis)
  BY DEF Calmly
<1>7. Split(vis.bundle.tx.conflict.kind)' <=> Split(vis.bundle.tx.conflict.kind)
  BY DEF Split
<1>8. /\ BundleSteps' = BundleSteps /\ StagedSteps' = StagedSteps
      /\ ReadySteps' = ReadySteps /\ WrittenSteps' = WrittenSteps
      /\ CleanupSteps' = CleanupSteps
  BY DEF BundleSteps, StagedSteps, ReadySteps, WrittenSteps, CleanupSteps
<1>9. (step \in BundleSteps => Before(FALSE) /\ Calmly(vis))'
  BY <1>2, <1>6, <1>8 DEF Knows
<1>10. (step \in StagedSteps => Before(TRUE) /\ Calmly(vis))'
  BY <1>2, <1>6, <1>8 DEF Knows
<1>11. (step \in {"markerMove", "markerSync"} => LocalKnown)'
  BY <1>1 DEF Knows
<1>12. (step = "markerSync" => Before(TRUE) /\ vis.lock = A("marker", vis.bundle.tx))'
  BY <1>2 DEF Knows, A
<1>13. (step = "journal" => MarkerNoJournal(vis))'
  BY <1>3 DEF Knows
<1>14. (step \in ReadySteps => JournalReady(vis))'
  BY <1>3, <1>8 DEF Knows
<1>15. (/\ step \in WrittenSteps => vis.dst = vis.bundle.tx.result
        /\ step \in {"source", "sourceSync"} => Split(vis.bundle.tx.conflict.kind)
        /\ step = "sourceSync" => vis.src = Absent
        /\ step = "publish" /\ Split(vis.bundle.tx.conflict.kind) => vis.src = Absent)'
  BY <1>7, <1>8 DEF Knows
<1>16. (/\ step \in {"publishSync", "install"} => CandidateInLock(vis)
        /\ step \in {"installSync", "verify"} => After
        /\ step \in CleanupSteps => After \/ InCleanup(vis) \/ Clean(vis))'
  BY <1>2, <1>3, <1>4, <1>5, <1>8 DEF Knows
<1> QED BY <1>9, <1>10, <1>11, <1>12, <1>13, <1>14, <1>15, <1>16 DEF Knows

LEMMA OwnsShrinks ==
  ASSUME NEW mine, NEW step, Owns(mine, step), vis' = vis, disk' \subseteq disk, born' = born
  PROVE  Owns(mine, step)'
<1>1. LocalKnown => LocalKnown'
  BY DEF LocalKnown, SameLocal
<1>2. Clean(vis)' = Clean(vis)
  BY DEF Clean, Retiring
<1>3. PlanOK(mine.conflict, mine.result)' = PlanOK(mine.conflict, mine.result)
  BY DEF PlanOK
<1> QED BY <1>1, <1>2, <1>3 DEF Owns

LEMMA SeenInvShrinks ==
  ASSUME Typed, SeenInv, vis' = vis, disk' \subseteq disk,
         Here' \notin LocalMoves =>
           Here \notin LocalMoves \/ \A s \in Seen' : SameLocal(s, vis),
         Here' \notin LockMoves =>
           Here \notin LockMoves \/ \A s \in Seen' : SameGit(s, vis),
         Here' \in {"source", "sourceSync"} =>
           Here \in {"source", "sourceSync"} \/ \A s \in Seen' : s.dst = vis.dst,
         Here' # "installSync" =>
           Here # "installSync" \/ \A s \in Seen' : s.index = vis.index
  PROVE  SeenInv'
<1>1. Seen' \subseteq Seen
  BY SeenShrinks
<1>2. \A s \in Seen' : Shape(s)'
  <2>1. \A s : Shape(s)' = Shape(s)
    BY DEF Shape, BeforeShape, ReadyShape, CandidateShape, InstalledShape, ReceiptShape,
       Calmly, SourceLeft, SourceGone, JournalReady, CandidateInLock, Bound, Unmoved,
       ResultStaged, Retiring
  <2> QED BY <1>1, <2>1 DEF SeenInv
<1>3. Here' \notin LocalMoves => \A s \in Seen' : SameLocal(s, vis')
  BY <1>1 DEF SeenInv
<1>4. ~Calmly(vis') /\ Here' \notin LockMoves => \A s \in Seen' : SameGit(s, vis')
  BY <1>1 DEF SeenInv
<1>5. Here' \in {"source", "sourceSync"} => \A s \in Seen' : s.dst = vis'.dst
  BY <1>1 DEF SeenInv
<1>6. Here' # "installSync" =>
        \A s \in Seen' : s.index.rest = vis'.index.rest => s.index = vis'.index
  BY <1>1 DEF SeenInv
<1>7. /\ LocalMoves' = LocalMoves /\ LockMoves' = LockMoves
      /\ \A s : /\ SameLocal(s, vis)' <=> SameLocal(s, vis')
               /\ SameGit(s, vis)' <=> SameGit(s, vis')
      /\ Calmly(vis)' <=> Calmly(vis')
  BY DEF SameLocal, SameGit, Calmly, LocalMoves, LockMoves
<1> QED BY <1>2, <1>3, <1>4, <1>5, <1>6, <1>7 DEF SeenInv
-----------------------------------------------------------------------------
(* Steps that return, or that synchronize and go on.                       *)

PlanSteps == {"recover", "inspect", "plan", "commit", "bundle"}

LEMMA PlanKept ==
  ASSUME PlanInv, pc' \in [Procs -> Steps], born' = born, disk' \subseteq disk,
         vis'.src = vis.src,
         \A q \in Procs :
           \/ plan'[q] = plan[q] /\ (pc'[q] = pc[q] \/ pc'[q] \notin PlanSteps)
           \/ plan'[q] = NoTx /\ pc'[q] \in {"recover", "inspect", "plan"}
  PROVE  PlanInv'
<1>1. Planned' \subseteq Planned
  BY DEF Planned, PlanSteps
<1>2. \A q \in Planned' : pc'[q] = pc[q] /\ plan'[q] = plan[q]
  BY DEF Planned, PlanSteps
<1>3. ASSUME NEW p \in Planned'
      PROVE  /\ plan'[p] # NoTx /\ PlanOK(plan[p].conflict, plan[p].result)'
             /\ \A s \in disk' : Unused(p, s)'
             /\ \A q \in Planned' : q # p => plan'[q].result # plan'[p].result
             /\ pc'[p] = "bundle" /\ plan'[p].conflict.kind # "inPlace" =>
                  vis'.src \in FitSources(plan'[p].conflict)
  <2>1. p \in Planned /\ p \in Procs /\ pc'[p] = pc[p] /\ plan'[p] = plan[p]
    BY <1>1, <1>2 DEF Planned
  <2>2. PlanOK(plan[p].conflict, plan[p].result)'
    BY <2>1 DEF PlanInv, PlanOK
  <2>3. \A s \in disk' : Unused(p, s)'
    BY <2>1 DEF PlanInv, Unused
  <2> QED BY <1>1, <1>2, <2>1, <2>2, <2>3 DEF PlanInv
<1>4. \A p \in Procs : pc'[p] \in {"recover", "inspect", "plan"} => plan'[p] = NoTx
  BY DEF PlanInv, PlanSteps
<1>5. \A p : FitSources(plan[p].conflict)' = FitSources(plan'[p].conflict)
  BY DEF FitSources
<1> QED BY <1>3, <1>4, <1>5 DEF PlanInv

LEMMA Returns ==
  ASSUME IInv, NEW p \in Procs, NEW r \in Replies, Return(p, r),
         vis' = vis, disk' \subseteq disk, vis \in disk',
         UNCHANGED <<plan, born, runs, gits, edits>>,
         faults' \in 0 .. MaxFaults, kills' \in 0 .. MaxKills, losses' \in 0 .. MaxLosses,
         holder = p =>
           /\ Here \notin LocalMoves \/ \A s \in Seen' : SameLocal(s, vis)
           /\ Here \notin LockMoves \/ \A s \in Seen' : SameGit(s, vis)
           /\ Here # "installSync" \/ \A s \in Seen' : s.index = vis.index
  PROVE  IInv'
<1>1. Typed /\ DiskInv /\ PlanInv /\ HolderInv /\ OwnInv /\ SeenInv
  BY DEF IInv
<1>2. /\ holder' \in Procs \cup {NoProc} /\ pc' \in [Procs -> Steps]
      /\ \A q \in Procs : pc'[q] \notin Unguarded <=> holder' = q
      /\ reply' \in Replies
      /\ holder = p => holder' = NoProc /\ Here' = "idle"
      /\ holder # p => holder' = holder /\ Here' = Here
      /\ pc'[p] = "idle" /\ \A q \in Procs : q # p => pc'[q] = pc[q]
      /\ Pending' \subseteq Pending
  BY <1>1, ReturnIs
<1>3. Typed'
  <2>1. disk' \subseteq Files /\ vis' \in disk'
    BY <1>1 DEF Typed
  <2> QED BY <1>1, <1>2, <2>1, TypedKept
<1>4. DiskInv'
  BY <1>1, DiskShrinks
<1>5. PlanInv'
  BY <1>1, <1>2, PlanKept DEF PlanSteps
<1>6. HolderInv'
  <2>1. CASE holder = p
    <3>1. Knows("idle")'
      BY DEF Knows, BundleSteps, StagedSteps, ReadySteps, WrittenSteps, CleanupSteps
    <3> QED BY <1>2, <2>1, <3>1 DEF HolderInv
  <2>2. CASE holder # p
    <3>1. Knows(Here)'
      <4>1. PICK step \in Steps : step = Here
        BY <1>1, HereIs
      <4>2. Knows(step)'
        BY <1>1, <4>1, KnowsShrinks DEF HolderInv
      <4> QED BY <1>2, <2>2, <4>1, <4>2
    <3> QED BY <3>1 DEF HolderInv
  <2> QED BY <2>1, <2>2
<1>7. OwnInv'
  <2>1. CASE holder = p
    BY <1>2, <2>1, NobodyIs DEF OwnInv
  <2>2. CASE holder # p /\ holder \in Procs /\ plan[holder] # NoTx
    <3>1. PICK step \in Steps, mine \in Plans : step = Here /\ mine = plan[holder]
      BY <1>1, <2>2, HereIs DEF Typed
    <3>2. Owns(mine, step)'
      BY <1>1, <2>2, <3>1, OwnsShrinks DEF OwnInv
    <3>3. Here' = step /\ plan'[holder'] = mine
      BY <1>2, <2>2, <3>1
    <3> QED BY <3>2, <3>3 DEF OwnInv
  <2>3. CASE holder # p /\ ~(holder \in Procs /\ plan[holder] # NoTx)
    BY <1>2, <2>3 DEF OwnInv
  <2> QED BY <2>1, <2>2, <2>3
<1>8. SeenInv'
  <2>1. CASE holder = p
    <3>1. Here' # "source" /\ Here' # "sourceSync"
      BY <1>2, <2>1
    <3> QED BY <1>1, <2>1, <3>1, SeenInvShrinks
  <2>2. CASE holder # p
    BY <1>1, <1>2, <2>2, SeenInvShrinks
  <2> QED BY <2>1, <2>2
<1> QED BY <1>3, <1>4, <1>5, <1>6, <1>7, <1>8 DEF IInv
LEMMA Goes ==
  ASSUME IInv, NEW p \in Procs, holder = p, NEW step \in Steps,
         step \notin Unguarded, step \notin PlanSteps, Goto(p, step),
         vis' = vis, disk' \subseteq disk, vis \in disk',
         UNCHANGED <<plan, born, runs, gits, edits, faults, kills, losses>>,
         Knows(step)', plan[p] # NoTx => Owns(plan[p], step)',
         Here \notin LocalMoves \/ \A s \in disk' : SameLocal(s, vis),
         Here \notin LockMoves \/ \A s \in disk' : SameGit(s, vis),
         Here # "installSync" \/ \A s \in disk' : SameGit(s, vis),
         step \notin {"source", "sourceSync"} \/ \A s \in disk' : s.dst = vis.dst
  PROVE  IInv'
<1>1. Typed /\ DiskInv /\ PlanInv /\ SeenInv
  BY DEF IInv
<1>2. /\ holder' \in Procs \cup {NoProc} /\ pc' \in [Procs -> Steps]
      /\ \A q \in Procs : pc'[q] \notin Unguarded <=> holder' = q
      /\ reply' \in Replies
      /\ holder' = p /\ Here = pc[p] /\ Here' = step /\ pc'[p] = step
      /\ \A q \in Procs : q # p => pc'[q] = pc[q] /\ pc[q] \in Unguarded
      /\ Pending' \subseteq Pending
  BY <1>1, GotoIs
<1>3. Typed'
  <2>1. disk' \subseteq Files /\ vis' \in disk'
    BY <1>1 DEF Typed
  <2>2. /\ faults' \in 0 .. MaxFaults /\ kills' \in 0 .. MaxKills
        /\ losses' \in 0 .. MaxLosses
    BY <1>1 DEF Typed
  <2> QED BY <1>1, <1>2, <2>1, <2>2, TypedKept
<1>4. DiskInv'
  BY <1>1, DiskShrinks
<1>5. PlanInv'
  BY <1>1, <1>2, PlanKept
<1>6. HolderInv'
  BY <1>2 DEF HolderInv
<1>7. OwnInv'
  <2>1. CASE plan[p] # NoTx
    <3>1. PICK mine \in Plans : mine = plan[p]
      BY <1>1, <2>1 DEF Typed
    <3>2. Owns(mine, step)'
      BY <2>1, <3>1
    <3>3. Here' = step /\ plan'[holder'] = mine
      BY <1>2, <3>1
    <3> QED BY <3>2, <3>3 DEF OwnInv
  <2>2. CASE plan[p] = NoTx
    BY <1>2, <2>2 DEF OwnInv
  <2> QED BY <2>1, <2>2
<1>8. SeenInv'
  <2>1. \A s \in Seen' : s \in disk' \/ s = vis
    BY <1>1, SeenShrinks
  <2>2. \A s \in disk' : s \in Files
    BY <1>1 DEF Typed
  <2>3. Here \notin LocalMoves \/ \A s \in Seen' : SameLocal(s, vis)
    BY <2>1 DEF SameLocal
  <2>4. /\ Here \notin LockMoves \/ \A s \in Seen' : SameGit(s, vis)
        /\ Here # "installSync" \/ \A s \in Seen' : s.index = vis.index
    BY <2>1 DEF SameGit
  <2>5. step \notin {"source", "sourceSync"} \/ \A s \in Seen' : s.dst = vis.dst
    BY <2>1
  <2> QED BY <1>1, <1>2, <2>3, <2>4, <2>5, SeenInvShrinks
<1> QED BY <1>3, <1>4, <1>5, <1>6, <1>7, <1>8 DEF IInv

\* A step that refuses and changes no file.
LEMMA Refuses ==
  ASSUME IInv, NEW p \in Procs, NEW r \in Replies, Return(p, r),
         UNCHANGED <<vis, disk, plan, born, runs, gits, edits, faults, kills, losses>>,
         holder = p =>
           Here \notin LocalMoves /\ Here \notin LockMoves /\ Here # "installSync"
  PROVE  IInv'
<1>1. vis \in disk /\ faults' \in 0 .. MaxFaults /\ kills' \in 0 .. MaxKills
      /\ losses' \in 0 .. MaxLosses
  BY DEF IInv, Typed
<1> QED BY <1>1, Returns

\* A step that synchronizes and then finds that it cannot go on.
LEMMA SyncReturns ==
  ASSUME IInv, NEW p \in Procs, holder = p, NEW r \in Replies, Return(p, r), NEW dirs, Sync(dirs),
         UNCHANGED <<plan, born, runs, gits, edits, kills, losses>>,
         Here \in LocalMoves => "local" \in dirs, Here \in LockMoves => "git" \in dirs,
         Here = "installSync" => "git" \in dirs
  PROVE  IInv'
<1>1. /\ Typed /\ vis \in disk /\ faults \in 0 .. MaxFaults /\ kills' \in 0 .. MaxKills
      /\ losses' \in 0 .. MaxLosses
  BY DEF IInv, Typed
<1>2. vis' = vis /\ disk' = Synced(disk, dirs) /\ faults' = faults
  BY DEF Sync
<1>3. /\ disk' \subseteq disk /\ vis \in disk'
      /\ \A s \in disk' : /\ "local" \in dirs => SameLocal(s, vis)
                          /\ "git" \in dirs => SameGit(s, vis)
  BY <1>1, <1>2, SyncedIs
<1>4. \A s \in Seen' : s \in disk' \/ s = vis
  BY <1>1, <1>2, <1>3, SeenShrinks
<1>5. Here \notin LocalMoves \/ \A s \in Seen' : SameLocal(s, vis)
  BY <1>3, <1>4 DEF SameLocal
<1>6. /\ Here \notin LockMoves \/ \A s \in Seen' : SameGit(s, vis)
      /\ Here # "installSync" \/ \A s \in Seen' : s.index = vis.index
  BY <1>3, <1>4 DEF SameGit
<1> QED BY <1>1, <1>2, <1>3, <1>5, <1>6, Returns

\* An fsync that fails.
LEMMA SyncFailsStep ==
  ASSUME IInv, NEW p \in Procs, NEW dirs, SyncFails(p, dirs), UNCHANGED others
  PROVE  IInv'
<1>1. Typed /\ vis \in disk /\ faults \in 0 .. MaxFaults
  BY DEF IInv, Typed
<1>2. PICK done : disk' = Synced(disk, done)
  BY DEF SyncFails
<1>3. /\ vis' = vis /\ faults < MaxFaults /\ faults' = faults + 1
      /\ Return(p, "DurabilityNotConfirmed") /\ "DurabilityNotConfirmed" \in Replies
      /\ UNCHANGED <<plan, born, runs, gits, edits, kills, losses>>
  BY DEF SyncFails, others, Replies
<1>4. disk' \subseteq disk /\ vis \in disk'
  BY <1>1, <1>2, SyncedIs
<1>5. faults' \in 0 .. MaxFaults /\ ~Calm
  BY <1>1, <1>3, Bounds DEF Calm
<1>6. \A s \in Seen' : s = vis
  BY <1>1, <1>3, <1>4, <1>5, SeenShrinks
<1>7. kills' \in 0 .. MaxKills /\ losses' \in 0 .. MaxLosses
  BY <1>3 DEF IInv, Typed
<1> QED BY <1>3, <1>4, <1>5, <1>6, <1>7, Returns DEF SameLocal, SameGit

LEMMA KillStep == \A p \in Procs : IInv /\ Kill(p) => IInv'
<1> SUFFICES ASSUME NEW p \in Procs, IInv, Kill(p) PROVE IInv'
  OBVIOUS
<1>1. Typed /\ vis \in disk /\ kills \in 0 .. MaxKills
  BY DEF IInv, Typed
<1>2. /\ vis' = vis /\ disk' = disk /\ kills < MaxKills /\ kills' = kills + 1
      /\ Return(p, "none") /\ "none" \in Replies
      /\ UNCHANGED <<plan, born, runs, gits, edits, faults, losses>>
  BY DEF Kill, files, Replies
<1>3. kills' \in 0 .. MaxKills /\ ~Calm
  BY <1>1, <1>2, Bounds DEF Calm
<1>4. \A s \in Seen' : s = vis
  BY <1>1, <1>2, <1>3, SeenShrinks
<1>5. faults' \in 0 .. MaxFaults /\ losses' \in 0 .. MaxLosses
  BY <1>2 DEF IInv, Typed
<1> QED BY <1>1, <1>2, <1>3, <1>4, <1>5, Returns DEF SameLocal, SameGit

\* What Knows says, step by step.
KnowsList ==
  /\ Knows("idle") /\ Knows("inspect") /\ Knows("bundle")
  /\ \A step \in BundleSteps : Knows(step) <=> (Before(FALSE) /\ Calmly(vis))
  /\ \A step \in {"stagingSync", "marker"} : Knows(step) <=> (Before(TRUE) /\ Calmly(vis))
  /\ Knows("markerMove") <=> (Before(TRUE) /\ Calmly(vis) /\ LocalKnown)
  /\ Knows("markerSync") <=>
       (Before(TRUE) /\ LocalKnown /\ vis.lock = A("marker", vis.bundle.tx))
  /\ Knows("journal") <=> MarkerNoJournal(vis)
  /\ \A step \in {"journalSync", "worktree"} : Knows(step) <=> JournalReady(vis)
  /\ Knows("worktreeSync") <=> (JournalReady(vis) /\ vis.dst = vis.bundle.tx.result)
  /\ Knows("source") <=> (/\ JournalReady(vis) /\ vis.dst = vis.bundle.tx.result
                          /\ Split(vis.bundle.tx.conflict.kind))
  /\ Knows("sourceSync") <=> (/\ JournalReady(vis) /\ vis.dst = vis.bundle.tx.result
                              /\ Split(vis.bundle.tx.conflict.kind) /\ vis.src = Absent)
  /\ Knows("publish") <=>
       (/\ JournalReady(vis) /\ vis.dst = vis.bundle.tx.result
        /\ Split(vis.bundle.tx.conflict.kind) => vis.src = Absent)
  /\ \A step \in {"publishSync", "install"} : Knows(step) <=> CandidateInLock(vis)
  /\ \A step \in {"installSync", "verify"} : Knows(step) <=> After
  /\ \A step \in CleanupSteps : Knows(step) <=> (After \/ InCleanup(vis) \/ Clean(vis))

LEMMA KnowsIs == KnowsList
BY DEF KnowsList, Knows, BundleSteps, StagedSteps, ReadySteps, WrittenSteps, CleanupSteps

LEMMA KnowsNext == KnowsList'
BY KnowsIs, PTL

\* Steps of a transaction that has a bundle.
MiddleSteps ==
  BundleSteps \cup StagedSteps \cup {"markerSync", "journal"} \cup ReadySteps
    \cup {"publishSync", "install", "installSync", "verify"}

LEMMA MiddleIs ==
  /\ MiddleSteps \subseteq Steps /\ MiddleSteps \cap Unguarded = {}
  /\ MiddleSteps \cap PlanSteps = {} /\ MiddleSteps \cap CleanupSteps = {}
  /\ "bundle" \notin MiddleSteps
BY DEF MiddleSteps, BundleSteps, StagedSteps, ReadySteps, WrittenSteps, Steps, Unguarded,
   PlanSteps, CleanupSteps

LEMMA OwnsMoves ==
  ASSUME NEW mine, NEW from \in MiddleSteps, NEW to \in MiddleSteps, Owns(mine, from),
         vis'.bundle = vis.bundle, born' = born
  PROVE  Owns(mine, to)'
<1>1. PlanOK(mine.conflict, mine.result)'
  BY DEF Owns, PlanOK
<1>2. from \notin {"bundle"} \cup CleanupSteps /\ to \notin {"bundle"} \cup CleanupSteps
      /\ "cleanup" \in CleanupSteps
  BY MiddleIs DEF CleanupSteps
<1>3. vis'.bundle.tx.conflict = mine.conflict /\ vis'.bundle.tx.result = mine.result
  BY <1>2 DEF Owns
<1>4. CleanupSteps' = CleanupSteps
  BY DEF CleanupSteps
<1> QED BY <1>1, <1>2, <1>3, <1>4 DEF Owns

LEMMA HereOwns ==
  ASSUME IInv, NEW p \in Procs, holder = p
  PROVE  Here = pc[p] /\ Knows(pc[p]) /\ (plan[p] # NoTx => Owns(plan[p], pc[p]))
<1>1. Here = pc[p]
  BY HolderIs DEF IInv
<1> QED BY <1>1 DEF IInv, HolderInv, OwnInv

\* A step that synchronizes directories and goes on with the same bundle.
LEMMA SyncGoes ==
  ASSUME IInv, NEW p \in Procs, holder = p, pc[p] \in MiddleSteps,
         NEW step \in MiddleSteps, Goto(p, step), NEW dirs, Sync(dirs),
         UNCHANGED <<plan, born, runs, gits, edits, kills, losses>>,
         Knows(step)',
         pc[p] \in LocalMoves => "local" \in dirs, pc[p] \in LockMoves => "git" \in dirs,
         pc[p] = "installSync" => "git" \in dirs,
         step \in {"source", "sourceSync"} => "dst" \in dirs
  PROVE  IInv'
<1>1. Typed /\ vis \in disk /\ Here = pc[p]
  BY HereOwns DEF IInv, Typed
<1>2. vis' = vis /\ disk' = Synced(disk, dirs) /\ faults' = faults
  BY DEF Sync
<1>3. /\ disk' \subseteq disk /\ vis \in disk'
      /\ \A s \in disk' : /\ "local" \in dirs => SameLocal(s, vis)
                          /\ "git" \in dirs => SameGit(s, vis)
                          /\ "dst" \in dirs => s.dst = vis.dst
  BY <1>1, <1>2, SyncedIs
<1>4. step \in Steps /\ step \notin Unguarded /\ step \notin PlanSteps
  BY MiddleIs
<1>5. plan[p] # NoTx => Owns(plan[p], step)'
  <2> SUFFICES ASSUME plan[p] # NoTx PROVE Owns(plan[p], step)'
    OBVIOUS
  <2>1. PICK mine \in Plans, from \in MiddleSteps : mine = plan[p] /\ from = pc[p]
    BY <1>1 DEF Typed
  <2>2. Owns(mine, from)
    BY <2>1, HereOwns
  <2>3. Owns(mine, step)'
    BY <1>2, <2>2, OwnsMoves
  <2>4. plan'[p] = mine
    BY <2>1
  <2> QED BY <2>1, <2>3, <2>4
<1>6. /\ Here \notin LocalMoves \/ \A s \in disk' : SameLocal(s, vis)
      /\ Here \notin LockMoves \/ \A s \in disk' : SameGit(s, vis)
      /\ Here # "installSync" \/ \A s \in disk' : SameGit(s, vis)
      /\ step \notin {"source", "sourceSync"} \/ \A s \in disk' : s.dst = vis.dst
  BY <1>1, <1>3
<1> QED BY <1>2, <1>3, <1>4, <1>5, <1>6, Goes

LEMMA SyncProceeds ==
  ASSUME IInv, NEW p \in Procs, holder = p, pc[p] \in MiddleSteps,
         NEW step \in MiddleSteps, NEW dirs, Sync(dirs),
         (Goto(p, step) /\ Knows(step)) \/ \E r \in Replies : Return(p, r),
         UNCHANGED <<plan, born, runs, gits, edits, kills, losses>>,
         pc[p] \in LocalMoves => "local" \in dirs, pc[p] \in LockMoves => "git" \in dirs,
         pc[p] = "installSync" => "git" \in dirs,
         step \in {"source", "sourceSync"} => "dst" \in dirs
  PROVE  IInv'
<1>1. Here = pc[p] /\ vis \in disk
  BY HereOwns DEF IInv, Typed
<1>2. vis' = vis /\ disk' \subseteq disk
  BY SyncedIs DEF Sync
<1>3. CASE Goto(p, step) /\ Knows(step)
  <2>1. Knows(step)'
    BY <1>2, <1>3, KnowsShrinks
  <2> QED BY <1>3, <2>1, SyncGoes
<1>4. CASE \E r \in Replies : Return(p, r)
  <2>1. PICK r \in Replies : Return(p, r)
    BY <1>4
  <2> QED BY <1>1, <2>1, SyncReturns
<1> QED BY <1>3, <1>4

\* The steps of a transaction that only synchronize, one after the other.
LEMMA MoveStepsAre ==
  /\ {"bundleSync", "staging", "stagingSync", "marker", "markerMove", "markerSync",
      "journal", "journalSync", "worktree", "worktreeSync", "source", "sourceSync",
      "publish", "publishSync", "install", "installSync", "verify"} \subseteq MiddleSteps
  /\ LocalMoves = {"bundleSync", "stagingSync", "journalSync", "publishSync", "cleanupSync"}
  /\ LockMoves = {"markerSync", "publishSync"}
  /\ "RecoveryConflict" \in Replies /\ "IndexChanged" \in Replies
  /\ "WorktreeChanged" \in Replies
BY DEF MiddleSteps, BundleSteps, StagedSteps, ReadySteps, WrittenSteps, LocalMoves,
   LockMoves, Replies

LEMMA SyncBundleStep == \A p \in Procs : IInv /\ SyncBundle(p) => IInv'
<1> SUFFICES ASSUME NEW p \in Procs, IInv, SyncBundle(p) PROVE IInv'
  OBVIOUS
<1>1. holder = p /\ pc[p] = "bundleSync" /\ Knows("bundleSync") /\ UNCHANGED others
  BY HereOwns DEF SyncBundle, Holds
<1>2. CASE Sync({"local"}) /\ Proceed(p, StableOnly(vis), "staging")
  <2>1. Knows("staging")
    BY <1>1, KnowsIs DEF KnowsList, BundleSteps
  <2>2. (Goto(p, "staging") /\ Knows("staging")) \/ \E r \in Replies : Return(p, r)
    BY <1>2, <2>1, MoveStepsAre DEF Proceed
  <2> QED BY <1>1, <1>2, <2>2, SyncProceeds, MoveStepsAre DEF others
<1>3. CASE SyncFails(p, {"local"})
  BY <1>1, <1>3, SyncFailsStep
<1> QED BY <1>2, <1>3 DEF SyncBundle

LEMMA SyncStagingStep == \A p \in Procs : IInv /\ SyncStaging(p) => IInv'
<1> SUFFICES ASSUME NEW p \in Procs, IInv, SyncStaging(p) PROVE IInv'
  OBVIOUS
<1>1. holder = p /\ pc[p] = "stagingSync" /\ Knows("stagingSync") /\ UNCHANGED others
  BY HereOwns DEF SyncStaging, Holds
<1>2. CASE Sync({"local"}) /\ Proceed(p, PublishReady(vis), "marker")
  <2>1. Knows("marker")
    BY <1>1, KnowsIs DEF KnowsList
  <2>2. (Goto(p, "marker") /\ Knows("marker")) \/ \E r \in Replies : Return(p, r)
    BY <1>2, <2>1, MoveStepsAre DEF Proceed
  <2> QED BY <1>1, <1>2, <2>2, SyncProceeds, MoveStepsAre DEF others
<1>3. CASE SyncFails(p, {"local"})
  BY <1>1, <1>3, SyncFailsStep
<1> QED BY <1>2, <1>3 DEF SyncStaging

LEMMA SyncMarkerStep == \A p \in Procs : IInv /\ SyncMarker(p) => IInv'
<1> SUFFICES ASSUME NEW p \in Procs, IInv, SyncMarker(p) PROVE IInv'
  OBVIOUS
<1>1. holder = p /\ pc[p] = "markerSync" /\ UNCHANGED others
  BY HereOwns DEF SyncMarker, Holds
<1>2. CASE Sync({"git", "local"}) /\ Proceed(p, MarkerNoJournal(vis), "journal")
  <2>1. Knows("journal") <=> MarkerNoJournal(vis)
    BY KnowsIs DEF KnowsList
  <2>2. (Goto(p, "journal") /\ Knows("journal")) \/ \E r \in Replies : Return(p, r)
    BY <1>2, <2>1, MoveStepsAre DEF Proceed
  <2> QED BY <1>1, <1>2, <2>2, SyncProceeds, MoveStepsAre DEF others
<1>3. CASE SyncFails(p, {"git", "local"})
  BY <1>1, <1>3, SyncFailsStep
<1> QED BY <1>2, <1>3 DEF SyncMarker

LEMMA SyncJournalStep == \A p \in Procs : IInv /\ SyncJournal(p) => IInv'
<1> SUFFICES ASSUME NEW p \in Procs, IInv, SyncJournal(p) PROVE IInv'
  OBVIOUS
<1>1. holder = p /\ pc[p] = "journalSync" /\ UNCHANGED others
  BY HereOwns DEF SyncJournal, Holds
<1>2. CASE Sync({"local", "git"}) /\ Proceed(p, JournalReady(vis), "worktree")
  <2>1. Knows("worktree") <=> JournalReady(vis)
    BY KnowsIs DEF KnowsList
  <2>2. (Goto(p, "worktree") /\ Knows("worktree")) \/ \E r \in Replies : Return(p, r)
    BY <1>2, <2>1, MoveStepsAre DEF Proceed
  <2> QED BY <1>1, <1>2, <2>2, SyncProceeds, MoveStepsAre DEF others
<1>3. CASE SyncFails(p, {"local", "git"})
  BY <1>1, <1>3, SyncFailsStep
<1> QED BY <1>2, <1>3 DEF SyncJournal

LEMMA SyncPublishStep == \A p \in Procs : IInv /\ SyncPublish(p) => IInv'
<1> SUFFICES ASSUME NEW p \in Procs, IInv, SyncPublish(p) PROVE IInv'
  OBVIOUS
<1>1. holder = p /\ pc[p] = "publishSync" /\ UNCHANGED others
  BY HereOwns DEF SyncPublish, Holds
<1>2. CASE Sync({"local", "git"}) /\ Proceed(p, CandidateInLock(vis), "install")
  <2>1. Knows("install") <=> CandidateInLock(vis)
    BY KnowsIs DEF KnowsList
  <2>2. (Goto(p, "install") /\ Knows("install")) \/ \E r \in Replies : Return(p, r)
    BY <1>2, <2>1, MoveStepsAre DEF Proceed
  <2> QED BY <1>1, <1>2, <2>2, SyncProceeds, MoveStepsAre DEF others
<1>3. CASE SyncFails(p, {"local", "git"})
  BY <1>1, <1>3, SyncFailsStep
<1> QED BY <1>2, <1>3 DEF SyncPublish

LEMMA SyncInstallStep == \A p \in Procs : IInv /\ SyncInstall(p) => IInv'
<1> SUFFICES ASSUME NEW p \in Procs, IInv, SyncInstall(p) PROVE IInv'
  OBVIOUS
<1>1. holder = p /\ pc[p] = "installSync" /\ Knows("installSync") /\ UNCHANGED others
  BY HereOwns DEF SyncInstall, Holds
<1>2. CASE Sync({"git"}) /\ (Goto(p, "verify") \/ Return(p, "RecoveryConflict"))
  <2>1. Knows("verify")
    BY <1>1, KnowsIs DEF KnowsList
  <2>2. (Goto(p, "verify") /\ Knows("verify")) \/ \E r \in Replies : Return(p, r)
    BY <1>2, <2>1, MoveStepsAre
  <2> QED BY <1>1, <1>2, <2>2, SyncProceeds, MoveStepsAre DEF others
<1>3. CASE SyncFails(p, {"git"})
  BY <1>1, <1>3, SyncFailsStep
<1> QED BY <1>2, <1>3 DEF SyncInstall

\* With the result in the worktree, a split rename goes on with its source.
LEMMA AfterWorktreeIs ==
  ASSUME JournalReady(vis), vis.dst = vis.bundle.tx.result
  PROVE  LET step == AfterWorktree(vis.bundle.tx)
         IN step \in {"source", "publish"} /\ Knows(step)
<1>1. CASE Split(vis.bundle.tx.conflict.kind)
  <2>1. Knows("source")
    BY <1>1, KnowsIs DEF KnowsList
  <2> QED BY <1>1, <2>1 DEF AfterWorktree
<1>2. CASE ~Split(vis.bundle.tx.conflict.kind)
  <2>1. Knows("publish")
    BY <1>2, KnowsIs DEF KnowsList
  <2> QED BY <1>2, <2>1 DEF AfterWorktree
<1> QED BY <1>1, <1>2

LEMMA SyncWorktreeStep == \A p \in Procs : IInv /\ SyncWorktree(p) => IInv'
<1> SUFFICES ASSUME NEW p \in Procs, IInv, SyncWorktree(p) PROVE IInv'
  OBVIOUS
<1>1. holder = p /\ pc[p] = "worktreeSync" /\ Knows("worktreeSync") /\ UNCHANGED others
  BY HereOwns DEF SyncWorktree, Holds
<1>2. CASE Sync({"local", "dst"}) /\ Goto(p, AfterWorktree(vis.bundle.tx))
  <2>1. JournalReady(vis) /\ vis.dst = vis.bundle.tx.result
    BY <1>1, KnowsIs DEF KnowsList
  <2>2. PICK step : step \in {"source", "publish"} /\ step = AfterWorktree(vis.bundle.tx)
                    /\ Knows(step)
    BY <2>1, AfterWorktreeIs
  <2>3. Goto(p, step) /\ step \in MiddleSteps
    BY <1>2, <2>2, MoveStepsAre
  <2> QED BY <1>1, <1>2, <2>2, <2>3, SyncProceeds, MoveStepsAre DEF others
<1>3. CASE SyncFails(p, {"local", "dst"})
  BY <1>1, <1>3, SyncFailsStep
<1> QED BY <1>2, <1>3 DEF SyncWorktree

LEMMA SyncSourceStep == \A p \in Procs : IInv /\ SyncSource(p) => IInv'
<1> SUFFICES ASSUME NEW p \in Procs, IInv, SyncSource(p) PROVE IInv'
  OBVIOUS
<1>1. holder = p /\ pc[p] = "sourceSync" /\ Knows("sourceSync") /\ UNCHANGED others
  BY HereOwns DEF SyncSource, Holds
<1>2. CASE Sync({"src"}) /\ Goto(p, "publish")
  <2>1. Knows("publish")
    BY <1>1, KnowsIs DEF KnowsList
  <2> QED BY <1>1, <1>2, <2>1, SyncProceeds, MoveStepsAre DEF others
<1>3. CASE SyncFails(p, {"src"})
  BY <1>1, <1>3, SyncFailsStep
<1> QED BY <1>2, <1>3 DEF SyncSource

\* The audit leaves every possible disk with the bundle and its staged index.
LEMMA AuditMarkerStep == \A p \in Procs : IInv /\ AuditMarker(p) => IInv'
<1> SUFFICES ASSUME NEW p \in Procs, IInv, AuditMarker(p) PROVE IInv'
  OBVIOUS
<1> DEFINE dirs == {"local"} \cup SourceDirs(vis.bundle.tx)
<1>1. /\ holder = p /\ pc[p] = "marker" /\ Knows("marker") /\ UNCHANGED others
      /\ Here = "marker"
  BY HereOwns DEF AuditMarker, Holds
<1>2. CASE \E r \in Replies : Refuse(p, r)
  <2>1. PICK r \in Replies : Refuse(p, r)
    BY <1>2
  <2> QED BY <1>1, <2>1, Refuses, MoveStepsAre DEF Refuse, files, others
<1>3. CASE Sync(dirs) /\ Goto(p, "markerMove")
  <2>1. vis' = vis /\ \A s \in disk' : SameLocal(s, vis)
    BY <1>3, SyncedIs DEF Sync
  <2>2. LocalKnown'
    BY <2>1 DEF LocalKnown, SameLocal
  <2>3. Before(TRUE) /\ Calmly(vis)
    BY <1>1, KnowsIs DEF KnowsList
  <2>4. (Before(TRUE) /\ Calmly(vis))'
    BY <2>1, <2>3 DEF Before, Calmly
  <2>5. Knows("markerMove")'
    BY <2>2, <2>4, KnowsNext DEF KnowsList
  <2> QED BY <1>1, <1>3, <2>5, SyncGoes, MoveStepsAre DEF others
<1>4. CASE SyncFails(p, dirs)
  BY <1>1, <1>4, SyncFailsStep
<1>5. Unauthorized(vis) \in Replies
  BY MoveStepsAre DEF Unauthorized
<1> QED BY <1>2, <1>3, <1>4, <1>5, MoveStepsAre DEF AuditMarker

\* What has been verified is what every possible disk has.
LEMMA VerifyStep == \A p \in Procs : IInv /\ Verify(p) => IInv'
<1> SUFFICES ASSUME NEW p \in Procs, IInv, Verify(p) PROVE IInv'
  OBVIOUS
<1> DEFINE dirs == WorktreeDirs(vis.bundle.tx) \cup {"git"}
<1>1. /\ holder = p /\ pc[p] = "verify" /\ Knows("verify") /\ UNCHANGED others
      /\ Here = "verify" /\ Typed /\ vis \in disk /\ vis \in Files
      /\ plan[p] # NoTx => Owns(plan[p], "verify")
  BY HereOwns DEF Verify, Holds, IInv, Typed
<1>2. CASE \E r \in Replies : Refuse(p, r)
  <2>1. PICK r \in Replies : Refuse(p, r)
    BY <1>2
  <2> QED BY <1>1, <2>1, Refuses, MoveStepsAre DEF Refuse, files, others
<1>3. CASE /\ Completed(vis) /\ WorktreeFinal(vis, vis.bundle.tx)
           /\ Sync(dirs) /\ Goto(p, "cleanup")
  <2>1. vis' = vis /\ disk' = Synced(disk, dirs) /\ faults' = faults
    BY <1>3 DEF Sync
  <2>2. "dst" \in dirs /\ "git" \in dirs
    BY DEF WorktreeDirs
  <2>3. disk' \subseteq disk /\ vis \in disk'
        /\ \A s \in disk' : s.dst = vis.dst /\ SameGit(s, vis)
    BY <1>1, <2>1, <2>2, SyncedIs
  <2>4. After
    BY <1>1, KnowsIs DEF KnowsList
  <2>5. After'
    BY <2>1, <2>4 DEF After, Calmly
  <2>6. Knows("cleanup")'
    BY <2>5, KnowsNext DEF KnowsList, CleanupSteps
  <2>7. vis.dst = vis.bundle.tx.result /\ vis.index.target.dst = vis.bundle.tx.result
    BY <1>3 DEF WorktreeFinal, Completed, ResultStaged, FinalIndex
  <2>8. ~Clean(vis)
    BY <1>1, <2>4, RetiringIs, PlacedIs DEF After
  <2>9. plan[p] # NoTx => Owns(plan[p], "cleanup")'
    <3> SUFFICES ASSUME plan[p] # NoTx PROVE Owns(plan[p], "cleanup")'
      OBVIOUS
    <3>1. PICK mine \in Plans : mine = plan[p] /\ mine = plan'[p]
      BY <1>1 DEF Typed, others
    <3>2. Owns(mine, "verify") /\ born' = born
      BY <1>1, <3>1 DEF others
    <3>3. PlanOK(mine.conflict, mine.result)' /\ vis.bundle.tx.result = mine.result
      BY <3>2 DEF Owns, PlanOK, CleanupSteps
    <3>4. \A s \in disk' : s.dst = mine.result /\ s.index.target.dst = mine.result
      BY <2>3, <2>7, <3>3 DEF SameGit
    <3>5. ~Clean(vis)'
      BY <2>1, <2>8 DEF Clean, Retiring
    <3>6. Owns(mine, "cleanup")'
      BY <3>3, <3>4, <3>5 DEF Owns, CleanupSteps
    <3> QED BY <3>1, <3>6
  <2>10. /\ "cleanup" \in Steps /\ "cleanup" \notin Unguarded /\ "cleanup" \notin PlanSteps
         /\ UNCHANGED <<plan, born, runs, gits, edits, faults, kills, losses>>
    BY <1>1, <2>1 DEF Steps, Unguarded, PlanSteps, others
  <2> QED BY <1>1, <1>3, <2>1, <2>3, <2>6, <2>9, <2>10, Goes, MoveStepsAre
<1>4. CASE SyncFails(p, dirs)
  BY <1>1, <1>4, SyncFailsStep
<1> QED BY <1>2, <1>3, <1>4, MoveStepsAre DEF Verify

LEMMA SyncCleanupStep == \A p \in Procs : IInv /\ SyncCleanup(p) => IInv'
<1> SUFFICES ASSUME NEW p \in Procs, IInv, SyncCleanup(p) PROVE IInv'
  OBVIOUS
<1>1. /\ holder = p /\ pc[p] = "cleanupSync" /\ Knows("cleanupSync") /\ UNCHANGED others
      /\ Here = "cleanupSync" /\ Typed /\ vis \in disk
      /\ plan[p] # NoTx => Owns(plan[p], "cleanupSync")
  BY HereOwns DEF SyncCleanup, Holds, IInv, Typed
<1>2. CASE Sync({"local"}) /\ Goto(p, "cleanup")
  <2>1. vis' = vis /\ disk' = Synced(disk, {"local"}) /\ faults' = faults
    BY <1>2 DEF Sync
  <2>2. disk' \subseteq disk /\ vis \in disk' /\ \A s \in disk' : SameLocal(s, vis)
    BY <1>1, <2>1, SyncedIs
  <2>3. LocalKnown'
    BY <2>1, <2>2 DEF LocalKnown, SameLocal
  <2>4. Knows("cleanup")
    BY <1>1, KnowsIs DEF KnowsList, CleanupSteps
  <2>5. Knows("cleanup")'
    BY <2>1, <2>2, <2>4, KnowsShrinks
  <2>6. plan[p] # NoTx => Owns(plan[p], "cleanup")'
    <3> SUFFICES ASSUME plan[p] # NoTx PROVE Owns(plan[p], "cleanup")'
      OBVIOUS
    <3>1. PICK mine \in Plans : mine = plan[p] /\ mine = plan'[p]
      BY <1>1 DEF Typed, others
    <3>2. Owns(mine, "cleanupSync") /\ born' = born
      BY <1>1, <3>1 DEF others
    <3>3. PlanOK(mine.conflict, mine.result)'
      BY <3>2 DEF Owns, PlanOK
    <3>4. \A s \in disk' : s.dst = mine.result /\ s.index.target.dst = mine.result
      BY <2>2, <3>2 DEF Owns, CleanupSteps
    <3>5. Owns(mine, "cleanup")'
      BY <2>3, <3>3, <3>4 DEF Owns, CleanupSteps
    <3> QED BY <3>1, <3>5
  <2>7. /\ "cleanup" \in Steps /\ "cleanup" \notin Unguarded /\ "cleanup" \notin PlanSteps
        /\ UNCHANGED <<plan, born, runs, gits, edits, faults, kills, losses>>
        /\ "cleanupSync" \notin LockMoves
    BY <1>1, <2>1 DEF Steps, Unguarded, PlanSteps, others, LockMoves
  <2> QED BY <1>1, <1>2, <2>1, <2>2, <2>5, <2>6, <2>7, Goes
<1>3. CASE SyncFails(p, {"local"})
  BY <1>1, <1>3, SyncFailsStep
<1> QED BY <1>2, <1>3 DEF SyncCleanup

-----------------------------------------------------------------------------
(* Steps that change no file.                                              *)

\* What was true of a version or of an update stays true.
LEMMA Grows ==
  ASSUME Typed, born' \in Nat, born <= born', gits' \in Nat, gits <= gits'
  PROVE  /\ \A conflict \in Targets, result \in Versions :
              PlanOK(conflict, result) => PlanOK(conflict, result)'
         /\ \A tx \in Transactions : TxOK(tx) => TxOK(tx)'
         /\ \A s \in Files : OwnedOK(s) => OwnedOK(s)'
         /\ \A s \in Files : CountedOK(s) => CountedOK(s)'
<1>1. born \in Nat /\ gits \in Nat
  BY Bounds DEF Typed
<1>2. \A conflict \in Targets, result \in Versions :
        PlanOK(conflict, result) => PlanOK(conflict, result)'
  <2> SUFFICES ASSUME NEW conflict \in Targets, NEW result \in Versions,
                      PlanOK(conflict, result)
               PROVE  PlanOK(conflict, result)'
    OBVIOUS
  <2>1. result \in Nat
    BY Bounds DEF Versions
  <2>2. result <= born'
    BY <1>1, <2>1 DEF PlanOK
  <2> QED BY <2>2 DEF PlanOK, Sourced, Split, Absent
<1>3. \A tx \in Transactions : TxOK(tx) => TxOK(tx)'
  <2> SUFFICES ASSUME NEW tx \in Transactions, TxOK(tx) PROVE TxOK(tx)'
    OBVIOUS
  <2>1. tx.conflict \in Targets /\ tx.result \in Versions /\ tx.src \in Nat
        /\ tx.old.rest \in Nat
    BY TxIs
  <2>2. PICK conflict \in Targets, result \in Versions :
          conflict = tx.conflict /\ result = tx.result
    BY <2>1
  <2>3. PlanOK(tx.conflict, tx.result)'
    BY <1>2, <2>2 DEF TxOK
  <2>4. tx.src <= born' /\ tx.old.rest <= gits'
    BY <1>1, <2>1 DEF TxOK
  <2> QED BY <2>3, <2>4 DEF TxOK, FitSources
<1>4. \A s \in Files : OwnedOK(s) => OwnedOK(s)'
  <2> SUFFICES ASSUME NEW s \in Files, OwnedOK(s) PROVE OwnedOK(s)'
    OBVIOUS
  <2>1. s.bundle.kind # "none" => TxOK(s.bundle.tx)'
    BY <1>3, PartsAre DEF OwnedOK
  <2>2. s.journal.kind # "none" => TxOK(s.journal.tx)'
    BY <1>3, PartsAre DEF OwnedOK
  <2> QED BY <2>1, <2>2 DEF OwnedOK, A
<1>5. \A s \in Files : CountedOK(s) => CountedOK(s)'
  <2> SUFFICES ASSUME NEW s \in Files, CountedOK(s) PROVE CountedOK(s)'
    OBVIOUS
  <2>1. s.dst \in Nat /\ s.src \in Nat /\ s.index.rest \in Nat /\ s.index.target.dst \in Nat
    BY FileIs, TargetIs
  <2>2. /\ s.dst <= born' /\ s.src <= born' /\ s.index.target.dst <= born'
        /\ s.index.rest <= gits'
    BY <1>1, <2>1 DEF CountedOK
  <2> QED BY <2>2 DEF CountedOK, Sourced, Split, Absent
<1> QED BY <1>2, <1>3, <1>4, <1>5

\* A step that moves a process and leaves the visible files as they are.
LEMMA Stands ==
  ASSUME IInv, Typed', PlanInv', vis' = vis, disk' \subseteq disk, born <= born', gits' = gits,
         \/ /\ Here' = Here /\ holder' = holder
            /\ holder \in Procs => plan'[holder] = plan[holder]
         \/ /\ Here = "idle" \/ Here = "inspect" \/ Here = "cleanup"
            /\ Here' \in {"idle", "inspect", "bundle"}
            /\ holder' \in Procs =>
                 plan'[holder'] = NoTx
                   \/ (Here' = "bundle" /\ \E mine \in Plans :
                         plan'[holder'] = mine /\ PlanOK(mine.conflict, mine.result))
  PROVE  IInv'
<1>1. Typed /\ DiskInv /\ PlanInv /\ HolderInv /\ OwnInv /\ SeenInv
  BY DEF IInv
<1>2. born \in Nat /\ born' \in Nat /\ gits \in Nat /\ gits' \in Nat
  BY <1>1, Bounds DEF Typed
<1>3. DiskInv'
  <2>1. \A s \in disk' : s \in disk /\ s \in Files
    BY <1>1 DEF Typed
  <2>2. \A s \in disk' : OwnedOK(s)' /\ CountedOK(s)'
    BY <1>1, <1>2, <2>1, Grows DEF DiskInv
  <2> QED BY <1>1, <2>1, <2>2 DEF DiskInv
<1>4. HolderInv'
  <2>1. CASE Here' = Here
    <3>1. PICK step \in Steps : step = Here
      BY <1>1, HereIs
    <3>2. Knows(step)'
      BY <1>1, <3>1, KnowsShrinks DEF HolderInv
    <3> QED BY <2>1, <3>1, <3>2 DEF HolderInv
  <2>2. CASE Here' \in {"idle", "inspect", "bundle"}
    BY <2>2, KnowsNext DEF HolderInv, KnowsList
  <2> QED BY <2>1, <2>2
<1>5. OwnInv'
  <2>1. CASE Here' = Here /\ holder' = holder /\ holder \in Procs
             /\ plan'[holder] = plan[holder] /\ plan[holder] # NoTx
    <3>1. PICK step \in Steps, mine \in Plans : step = Here /\ mine = plan[holder]
      BY <1>1, <2>1, HereIs DEF Typed
    <3>2. Owns(mine, step)
      BY <1>1, <2>1, <3>1 DEF OwnInv
    <3>3. Owns(mine, step)'
      <4>1. PlanOK(mine.conflict, mine.result)'
        BY <1>1, <1>2, <3>2, Grows DEF Owns, Plans
      <4>2. LocalKnown => LocalKnown'
        BY DEF LocalKnown, SameLocal
      <4>3. Clean(vis)' = Clean(vis) /\ CleanupSteps' = CleanupSteps
        BY DEF Clean, Retiring, CleanupSteps
      <4> QED BY <3>2, <4>1, <4>2, <4>3 DEF Owns
    <3> QED BY <2>1, <3>1, <3>3 DEF OwnInv
  <2>2. CASE holder' \in Procs => plan'[holder'] = NoTx
    BY <2>2 DEF OwnInv
  <2>3. CASE Here' = "bundle" /\ \E mine \in Plans :
               plan'[holder'] = mine /\ PlanOK(mine.conflict, mine.result)
    <3>1. PICK mine \in Plans : plan'[holder'] = mine /\ PlanOK(mine.conflict, mine.result)
      BY <2>3
    <3>2. PlanOK(mine.conflict, mine.result)'
      BY <1>1, <1>2, <3>1, Grows DEF Plans
    <3>3. Owns(mine, "bundle")'
      BY <3>2 DEF Owns, CleanupSteps
    <3> QED BY <2>3, <3>1, <3>3 DEF OwnInv
  <2> QED BY <2>1, <2>2, <2>3
<1>6. SeenInv'
  <2>1. CASE Here' = Here
    BY <1>1, <2>1, SeenInvShrinks
  <2>2. CASE (Here = "idle" \/ Here = "inspect" \/ Here = "cleanup")
             /\ Here' \in {"idle", "inspect", "bundle"}
    <3>1. Here \notin LocalMoves /\ Here \notin LockMoves /\ Here # "installSync"
          /\ Here' \notin {"source", "sourceSync"}
      BY <2>2 DEF LocalMoves, LockMoves
    <3> QED BY <1>1, <3>1, SeenInvShrinks
  <2> QED BY <2>1, <2>2
<1> QED BY <1>3, <1>4, <1>5, <1>6 DEF IInv

LEMMA StartStep == \A p \in Procs : IInv /\ Start(p) => IInv'
<1> SUFFICES ASSUME NEW p \in Procs, IInv, Start(p) PROVE IInv'
  OBVIOUS
<1>1. Typed /\ PlanInv
  BY DEF IInv
<1>2. /\ pc[p] = "idle" /\ runs < MaxRuns /\ runs' = runs + 1
      /\ plan' = [plan EXCEPT ![p] = NoTx] /\ pc' = [pc EXCEPT ![p] = "recover"]
      /\ reply' = "none" /\ holder' = holder
      /\ UNCHANGED <<vis, disk, born, gits, edits, faults, kills, losses>>
  BY DEF Start, Goto, files
<1>3. /\ pc \in [Procs -> Steps] /\ plan \in [Procs -> Plans \cup {NoTx}]
      /\ \A q \in Procs : pc[q] \notin Unguarded <=> holder = q
      /\ IsFiniteSet(Pending) /\ born + Cardinality(Pending) <= 2 + runs + edits
      /\ born \in Nat /\ runs \in Nat /\ edits \in Nat
  BY <1>1, Bounds DEF Typed
<1>4. "recover" \in Steps /\ "recover" \in Unguarded /\ "idle" \in Unguarded
  BY DEF Steps, Unguarded
<1>5. /\ pc' \in [Procs -> Steps] /\ plan' \in [Procs -> Plans \cup {NoTx}]
      /\ pc'[p] = "recover" /\ plan'[p] = NoTx
      /\ \A q \in Procs : q # p => pc'[q] = pc[q] /\ plan'[q] = plan[q]
  BY <1>2, <1>3, <1>4
<1>6. holder # p
  BY <1>2, <1>3, <1>4
<1>7. \A q \in Procs : pc'[q] \notin Unguarded <=> holder' = q
  BY <1>2, <1>3, <1>4, <1>5, <1>6
<1>8. IsFiniteSet(Pending') /\ born' + Cardinality(Pending') <= 2 + runs' + edits'
  <2>1. p \notin Pending /\ Pending' = Pending \cup {p}
    BY <1>2, <1>5 DEF Pending
  <2>2. IsFiniteSet(Pending') /\ Cardinality(Pending') = Cardinality(Pending) + 1
    BY <1>3, <2>1, FS_AddElement
  <2>3. Cardinality(Pending) \in Nat
    BY <1>3, FS_CardinalityType
  <2> QED BY <1>2, <1>3, <2>2, <2>3
<1>9. Typed'
  <2>1. runs' \in 0 .. MaxRuns
    BY <1>1, <1>2, Bounds DEF Typed
  <2>2. reply' \in Replies
    BY <1>2 DEF Replies
  <2> QED BY <1>1, <1>2, <1>5, <1>7, <1>8, <2>1, <2>2 DEF Typed
<1>10. PlanInv'
  BY <1>1, <1>2, <1>5, PlanKept
<1>11. Here' = Here
  BY <1>1, <1>2, <1>5, <1>6 DEF Here
<1>12. holder \in Procs => plan'[holder] = plan[holder]
  BY <1>5, <1>6
<1> QED BY <1>2, <1>3, <1>9, <1>10, <1>11, <1>12, Stands

LEMMA AcquireRecoverStep == \A p \in Procs : IInv /\ AcquireRecover(p) => IInv'
<1> SUFFICES ASSUME NEW p \in Procs, IInv, AcquireRecover(p) PROVE IInv'
  OBVIOUS
<1>1. Typed /\ PlanInv
  BY DEF IInv
<1>2. /\ pc[p] = "recover" /\ holder = NoProc /\ holder' = p
      /\ pc' = [pc EXCEPT ![p] = "inspect"] /\ reply' = "none"
      /\ UNCHANGED <<vis, disk, plan, born, runs, gits, edits, faults, kills, losses>>
  BY DEF AcquireRecover, files, counts
<1>3. /\ pc \in [Procs -> Steps]
      /\ \A q \in Procs : pc[q] \notin Unguarded <=> holder = q
  BY <1>1 DEF Typed
<1>4. "inspect" \in Steps /\ "inspect" \notin Unguarded
  BY DEF Steps, Unguarded
<1>5. /\ pc' \in [Procs -> Steps] /\ pc'[p] = "inspect"
      /\ \A q \in Procs : q # p => pc'[q] = pc[q]
  BY <1>2, <1>3, <1>4
<1>6. \A q \in Procs : pc'[q] \notin Unguarded <=> holder' = q
  BY <1>2, <1>3, <1>4, <1>5, NobodyIs
<1>7. Pending' \subseteq Pending
  BY <1>2, <1>5 DEF Pending
<1>8. Typed'
  <2>1. reply' \in Replies
    BY <1>2 DEF Replies
  <2>2. /\ disk' \subseteq Files /\ vis' \in disk'
        /\ faults' \in 0 .. MaxFaults /\ kills' \in 0 .. MaxKills /\ losses' \in 0 .. MaxLosses
    BY <1>1, <1>2 DEF Typed
  <2> QED BY <1>1, <1>2, <1>5, <1>6, <1>7, <2>1, <2>2, TypedKept
<1>9. plan[p] = NoTx
  BY <1>1, <1>2 DEF PlanInv
<1>10. PlanInv'
  BY <1>1, <1>2, <1>5, <1>9, PlanKept
<1>11. Here = "idle" /\ Here' = "inspect"
  BY <1>2, <1>5, NobodyIs DEF Here
<1>12. born <= born'
  BY <1>1, <1>2 DEF Typed
<1> QED BY <1>2, <1>8, <1>9, <1>10, <1>11, <1>12, Stands

\* Recovery that finds nothing, or nothing more, to do.
LEMMA RecoveredStep ==
  ASSUME IInv, NEW p \in Procs, holder = p, Here = "inspect" \/ Here = "cleanup",
         plan[p] = NoTx, Recovered(p),
         UNCHANGED <<vis, disk, plan, born, runs, gits, edits, faults, kills, losses>>
  PROVE  IInv'
<1>1. Typed /\ PlanInv
  BY DEF IInv
<1>2. CASE Return(p, "Recovered")
  <2>1. "Recovered" \in Replies /\ Here \notin LocalMoves /\ Here \notin LockMoves
        /\ Here # "installSync"
    BY DEF Replies, LocalMoves, LockMoves
  <2> QED BY <1>2, <2>1, Refuses
<1>3. CASE pc' = [pc EXCEPT ![p] = "plan"] /\ holder' = NoProc /\ reply' = "none"
  <2>1. /\ pc \in [Procs -> Steps]
        /\ \A q \in Procs : pc[q] \notin Unguarded <=> holder = q
    BY <1>1 DEF Typed
  <2>2. "plan" \in Steps /\ "plan" \in Unguarded /\ "idle" \in Unguarded
    BY DEF Steps, Unguarded
  <2>3. /\ pc' \in [Procs -> Steps] /\ pc'[p] = "plan"
        /\ \A q \in Procs : q # p => pc'[q] = pc[q]
    BY <1>3, <2>1, <2>2
  <2>4. \A q \in Procs : pc'[q] \notin Unguarded <=> holder' = q
    BY <1>3, <2>1, <2>2, <2>3, NobodyIs
  <2>5. Pending' \subseteq Pending
    BY <2>1, <2>2, <2>3 DEF Pending
  <2>6. Typed'
    <3>1. reply' \in Replies
      BY <1>3 DEF Replies
    <3>2. /\ disk' \subseteq Files /\ vis' \in disk' /\ faults' \in 0 .. MaxFaults
          /\ kills' \in 0 .. MaxKills /\ losses' \in 0 .. MaxLosses
      BY <1>1 DEF Typed
    <3> QED BY <1>1, <1>3, <2>3, <2>4, <2>5, <3>1, <3>2, TypedKept
  <2>7. PlanInv'
    BY <1>1, <2>3, PlanKept
  <2>8. Here' = "idle" /\ holder' \notin Procs
    BY <1>3, NobodyIs DEF Here
  <2>9. born <= born'
    BY <1>1 DEF Typed
  <2> QED BY <2>6, <2>7, <2>8, <2>9, Stands
<1> QED BY <1>2, <1>3 DEF Recovered

LEMMA DoneStep == \A p \in Procs : IInv /\ Done(p) => IInv'
<1> SUFFICES ASSUME NEW p \in Procs, IInv, Done(p) PROVE IInv'
  OBVIOUS
<1>1. /\ holder = p /\ pc[p] = "cleanup" /\ Here = "cleanup"
      /\ UNCHANGED <<vis, disk, plan, born, runs, gits, edits, faults, kills, losses>>
  BY HereOwns DEF Done, Holds, files, counts
<1>2. CASE plan[p] = NoTx
  BY <1>1, <1>2, RecoveredStep DEF Done
<1>3. CASE plan[p] # NoTx
  <2>1. Return(p, "Merged") /\ "Merged" \in Replies
    BY <1>3 DEF Done, Replies
  <2>2. Here \notin LocalMoves /\ Here \notin LockMoves /\ Here # "installSync"
    BY <1>1 DEF LocalMoves, LockMoves
  <2> QED BY <1>1, <2>1, <2>2, Refuses
<1> QED BY <1>2, <1>3

\* Where recovery goes on, its knowledge comes from what it has found.
LEMMA ResumesKnows ==
  ASSUME Typed, NEW step \in Steps, Resumes(vis, step)
  PROVE  /\ step \in MiddleSteps \cup CleanupSteps /\ Knows(step)
         /\ step \notin {"source", "sourceSync"}
<1>1. vis \in Files
  BY DEF Typed
<1>2. None.kind = "none" /\ \A k, tx : A(k, tx).kind = k /\ A(k, tx).tx = tx
  BY PlacedIs
<1>3. CASE step = "staging" /\ StableOnly(vis)
  <2>1. Before(FALSE) /\ Calmly(vis)
    BY <1>2, <1>3 DEF StableOnly, Bound, Before, Calmly
  <2> QED BY <1>3, <2>1, KnowsIs, MoveStepsAre DEF KnowsList, BundleSteps
<1>4. CASE step = "marker" /\ PublishReady(vis)
  <2>1. Before(TRUE) /\ Calmly(vis)
    BY <1>2, <1>4 DEF PublishReady, Bound, Before, Calmly
  <2> QED BY <1>4, <2>1, KnowsIs, MoveStepsAre DEF KnowsList
<1>5. CASE step = "journal" /\ MarkerNoJournal(vis)
  BY <1>5, KnowsIs, MoveStepsAre DEF KnowsList
<1>6. CASE step = "worktree" /\ JournalReady(vis)
  BY <1>6, KnowsIs, MoveStepsAre DEF KnowsList
<1>7. CASE step = "install" /\ CandidateInLock(vis)
  BY <1>7, KnowsIs, MoveStepsAre DEF KnowsList
<1>8. CASE step = "verify" /\ Completed(vis)
  <2>1. After
    BY <1>2, <1>8 DEF Completed, Bound, After, Calmly
  <2> QED BY <1>8, <2>1, KnowsIs, MoveStepsAre DEF KnowsList
<1>9. CASE step = "cleanup" /\ InCleanup(vis)
  BY <1>9, KnowsIs DEF KnowsList, CleanupSteps
<1> QED BY <1>3, <1>4, <1>5, <1>6, <1>7, <1>8, <1>9 DEF Resumes

LEMMA InspectStep == \A p \in Procs : IInv /\ Inspect(p) => IInv'
<1> SUFFICES ASSUME NEW p \in Procs, IInv, Inspect(p) PROVE IInv'
  OBVIOUS
<1>1. Typed /\ PlanInv /\ vis \in disk
  BY DEF IInv, Typed
<1>2. /\ holder = p /\ pc[p] = "inspect" /\ Here = "inspect" /\ plan[p] = NoTx
      /\ UNCHANGED <<vis, disk, plan, born, runs, gits, edits, faults, kills, losses>>
  BY <1>1, HereOwns DEF Inspect, Holds, files, counts, PlanInv
<1>3. Here \notin LocalMoves /\ Here \notin LockMoves /\ Here # "installSync"
  BY <1>2 DEF LocalMoves, LockMoves
<1>4. CASE \E step \in Steps : Resumes(vis, step) /\ Goto(p, step)
  <2>1. PICK step \in Steps : Resumes(vis, step) /\ Goto(p, step)
    BY <1>4
  <2>2. /\ step \in MiddleSteps \cup CleanupSteps /\ Knows(step)
        /\ step \notin {"source", "sourceSync"}
    BY <1>1, <2>1, ResumesKnows
  <2>3. Knows(step)'
    BY <1>2, <2>2, KnowsShrinks
  <2>4. step \notin Unguarded /\ step \notin PlanSteps
    BY <2>2, MiddleIs DEF CleanupSteps, Unguarded, PlanSteps
  <2> QED BY <1>1, <1>2, <1>3, <2>1, <2>2, <2>3, <2>4, Goes
<1>5. CASE Recovered(p)
  BY <1>2, <1>5, RecoveredStep
<1>6. CASE \E r \in Replies : Return(p, r)
  <2>1. PICK r \in Replies : Return(p, r)
    BY <1>6
  <2> QED BY <1>2, <1>3, <2>1, Refuses
<1>7. (IF LiveIndexDrift(vis) THEN "IndexChanged" ELSE "RecoveryConflict") \in Replies
  BY MoveStepsAre
<1> QED BY <1>4, <1>5, <1>6, <1>7 DEF Inspect

\* A plan takes a version that no file has and no other plan.
LEMMA PlanStep == \A p \in Procs : IInv /\ Plan(p) => IInv'
<1> SUFFICES ASSUME NEW p \in Procs, IInv, Plan(p) PROVE IInv'
  OBVIOUS
<1> DEFINE target == vis.index.target
<1>1. Typed /\ DiskInv /\ PlanInv /\ vis \in disk /\ vis \in Files
  BY DEF IInv, Typed
<1>2. /\ pc[p] = "plan" /\ UNCHANGED <<vis, disk, runs, gits, edits, faults, kills, losses>>
  BY DEF Plan, files
<1>3. /\ pc \in [Procs -> Steps] /\ plan \in [Procs -> Plans \cup {NoTx}]
      /\ \A q \in Procs : pc[q] \notin Unguarded <=> holder = q
      /\ IsFiniteSet(Pending) /\ born + Cardinality(Pending) <= 2 + runs + edits
      /\ born \in Nat /\ runs \in Nat /\ edits \in Nat /\ born >= 2
      /\ runs <= MaxRuns /\ edits <= MaxEdits
  BY <1>1, Bounds DEF Typed
<1>4. "commit" \in Steps /\ "commit" \in Unguarded /\ "plan" \in Unguarded
  BY DEF Steps, Unguarded
<1>5. holder # p
  BY <1>2, <1>3, <1>4
<1>6. CASE Return(p, "NoConflict") /\ UNCHANGED <<plan, born>>
  <2>1. "NoConflict" \in Replies
    BY DEF Replies
  <2> QED BY <1>2, <1>5, <1>6, <2>1, Refuses
<1>7. CASE /\ target.kind # "merged" /\ born' = born + 1
           /\ plan' = [plan EXCEPT ![p] = [conflict |-> target, result |-> born + 1]]
           /\ Goto(p, "commit")
  <2>1. pc' = [pc EXCEPT ![p] = "commit"] /\ reply' = "none" /\ holder' = holder
    BY <1>7 DEF Goto
  <2>2. /\ pc' \in [Procs -> Steps] /\ pc'[p] = "commit"
        /\ \A q \in Procs : q # p => pc'[q] = pc[q]
    BY <1>3, <1>4, <2>1
  <2>3. \A q \in Procs : pc'[q] \notin Unguarded <=> holder' = q
    BY <1>3, <1>4, <1>5, <2>1, <2>2
  <2>4. p \in Pending
    BY <1>1, <1>2 DEF Pending, PlanInv
  <2>5. /\ Cardinality(Pending) \in Nat /\ Cardinality(Pending) >= 1
        /\ IsFiniteSet(Pending \ {p}) /\ Cardinality(Pending \ {p}) = Cardinality(Pending) - 1
    <3>1. /\ IsFiniteSet(Pending \ {p})
          /\ Cardinality(Pending \ {p}) = Cardinality(Pending) - 1
      BY <1>3, <2>4, FS_RemoveElement
    <3>2. Cardinality(Pending) \in Nat /\ Cardinality(Pending \ {p}) \in Nat
      BY <1>3, <3>1, FS_CardinalityType
    <3> QED BY <3>1, <3>2
  <2>6. born + 1 \in Versions
    BY <1>3, <2>5, Bounds DEF Versions
  <2>7. PICK mine \in Plans : mine = [conflict |-> target, result |-> born + 1]
    BY <1>1, <2>6, FileIs DEF Plans
  <2>8. mine.conflict = target /\ mine.result = born + 1 /\ mine # NoTx
    BY <2>7, NoTxIs
  <2>9. /\ plan' \in [Procs -> Plans \cup {NoTx}] /\ plan'[p] = mine
        /\ \A q \in Procs : q # p => plan'[q] = plan[q]
    BY <1>3, <1>7, <2>7
  <2>10. Pending' = Pending \ {p}
    BY <2>2, <2>8, <2>9 DEF Pending
  <2>11. Typed'
    <3>1. reply' \in Replies
      BY <2>1 DEF Replies
    <3>2. born' \in Nat /\ born' >= 2
      BY <1>3, <1>7
    <3>3. IsFiniteSet(Pending') /\ born' + Cardinality(Pending') <= 2 + runs' + edits'
      BY <1>2, <1>3, <1>7, <2>5, <2>10
    <3> QED BY <1>1, <1>2, <2>1, <2>2, <2>3, <2>9, <3>1, <3>2, <3>3 DEF Typed
  <2>12. born' \in Nat /\ born <= born' /\ gits' \in Nat /\ gits <= gits'
    BY <1>1, <1>2, <1>3, <1>7, Bounds DEF Typed
  <2>13. ASSUME NEW s \in disk PROVE Unused(p, s)'
    <3>1. s \in Files /\ OwnedOK(s) /\ CountedOK(s)
      BY <1>1 DEF Typed, DiskInv
    <3>2. s.dst \in Nat /\ s.index.target.dst \in Nat
      BY <3>1, FileIs, TargetIs
    <3>3. s.dst # born + 1 /\ s.index.target.dst # born + 1
      BY <1>3, <3>1, <3>2 DEF CountedOK
    <3>4. s.bundle.kind # "none" => s.bundle.tx.result # born + 1
      BY <1>3, <3>1, PartsAre, TxIs DEF OwnedOK, TxOK, PlanOK
    <3>5. s.journal.kind # "none" => s.journal.tx.result # born + 1
      BY <1>3, <3>1, PartsAre, TxIs DEF OwnedOK, TxOK, PlanOK
    <3> QED BY <2>8, <2>9, <3>3, <3>4, <3>5 DEF Unused
  <2>14. PlanOK(mine.conflict, mine.result)'
    <3>1. Sourced(target) /\ target.dst <= born /\ target.dst \in Nat
      BY <1>1, FileIs, TargetIs DEF DiskInv, CountedOK
    <3>2. target.dst < born + 1 /\ born + 1 <= born'
      BY <1>3, <1>7, <3>1
    <3>3. Sourced(target)'
      BY <1>2, <3>1 DEF Sourced, Split, Absent
    <3> QED BY <1>2, <1>7, <2>8, <3>2, <3>3 DEF PlanOK, Sourced, Split, Absent
  <2>15. Planned' = Planned \cup {p} /\ p \notin Planned
    BY <1>2, <2>2 DEF Planned
  <2>16. \A q \in Planned : plan[q] \in Plans /\ plan[q].result # born + 1
    <3> SUFFICES ASSUME NEW q \in Planned
                 PROVE  plan[q] \in Plans /\ plan[q].result # born + 1
      OBVIOUS
    <3>1. plan[q] \in Plans /\ plan[q].result \in Versions /\ plan[q].result <= born
      BY <1>1, <1>3 DEF PlanInv, Planned, Plans, PlanOK
    <3>2. Versions \subseteq Nat
      BY Bounds DEF Versions
    <3>3. plan[q].result \in Nat
      BY <3>1, <3>2
    <3> QED BY <1>3, <3>1, <3>3
  <2>17. PlanInv'
    <3>1. \A q \in Procs : pc'[q] \in {"recover", "inspect", "plan"} => plan'[q] = NoTx
      BY <1>1, <2>2, <2>9 DEF PlanInv
    <3>2. ASSUME NEW q \in Planned'
          PROVE  /\ plan'[q] # NoTx /\ PlanOK(plan[q].conflict, plan[q].result)'
                 /\ \A s \in disk' : Unused(q, s)'
                 /\ \A r \in Planned' : r # q => plan'[r].result # plan'[q].result
                 /\ pc'[q] = "bundle" /\ plan'[q].conflict.kind # "inPlace" =>
                      vis'.src \in FitSources(plan'[q].conflict)
      <4>1. CASE q = p
        <5>1. \A r \in Planned' : r # p => plan'[r].result # plan'[p].result
          BY <2>8, <2>9, <2>15, <2>16 DEF Planned
        <5>2. PlanOK(plan[p].conflict, plan[p].result)'
          BY <2>9, <2>14 DEF PlanOK
        <5> QED BY <1>2, <2>2, <2>8, <2>9, <2>13, <4>1, <5>1, <5>2
      <4>2. CASE q # p
        <5>1. q \in Planned /\ q \in Procs /\ pc'[q] = pc[q] /\ plan'[q] = plan[q]
          BY <2>2, <2>9, <2>15, <4>2 DEF Planned
        <5>2. PICK other \in Plans : other = plan[q]
          BY <2>16, <5>1
        <5>3. PlanOK(other.conflict, other.result)'
          BY <1>1, <2>12, <5>1, <5>2, Grows DEF PlanInv, Plans
        <5>4. PlanOK(plan[q].conflict, plan[q].result)'
          BY <5>1, <5>2, <5>3 DEF PlanOK
        <5>5. \A s \in disk' : Unused(q, s)'
          BY <1>1, <1>2, <5>1 DEF PlanInv, Unused
        <5>6. \A r \in Planned' : r # q => plan'[r].result # plan'[q].result
          BY <1>1, <2>8, <2>9, <2>15, <2>16, <5>1 DEF PlanInv, Planned
        <5>7. pc'[q] = "bundle" /\ plan'[q].conflict.kind # "inPlace" =>
                vis'.src \in FitSources(plan'[q].conflict)
          BY <1>1, <1>2, <5>1 DEF PlanInv
        <5> QED BY <1>1, <5>1, <5>4, <5>5, <5>6, <5>7 DEF PlanInv
      <4> QED BY <4>1, <4>2
    <3>3. \A q : FitSources(plan[q].conflict)' = FitSources(plan'[q].conflict)
      BY DEF FitSources
    <3> QED BY <3>1, <3>2, <3>3 DEF PlanInv
  <2>18. Here' = Here /\ (holder \in Procs => plan'[holder] = plan[holder])
    BY <1>5, <2>1, <2>2, <2>9 DEF Here
  <2> QED BY <1>2, <2>1, <2>11, <2>12, <2>17, <2>18, Stands
<1> QED BY <1>6, <1>7 DEF Plan

LEMMA CommitStep == \A p \in Procs : IInv /\ Commit(p) => IInv'
<1> SUFFICES ASSUME NEW p \in Procs, IInv, Commit(p) PROVE IInv'
  OBVIOUS
<1> DEFINE conflict == plan[p].conflict
           dirs == IF conflict.kind = "detected" THEN {"src"} ELSE {}
<1>1. Typed /\ PlanInv /\ vis \in disk
  BY DEF IInv, Typed
<1>2. /\ pc[p] = "commit" /\ holder = NoProc /\ holder # p
      /\ UNCHANGED <<plan, born, runs, gits, edits, kills, losses>>
  BY NobodyIs DEF Commit, others
<1>3. CASE \E r \in Replies : Refuse(p, r)
  <2>1. PICK r \in Replies : Refuse(p, r)
    BY <1>3
  <2> QED BY <1>2, <2>1, Refuses DEF Refuse, files
<1>4. CASE SyncFails(p, dirs)
  BY <1>2, <1>4, SyncFailsStep DEF others
<1>5. CASE /\ WorktreeFits(vis, conflict) /\ Sync(dirs) /\ holder' = p
           /\ pc' = [pc EXCEPT ![p] = "bundle"] /\ reply' = "none"
  <2>1. vis' = vis /\ disk' \subseteq disk /\ vis \in disk' /\ faults' = faults
    BY <1>1, <1>5, SyncedIs DEF Sync
  <2>2. /\ pc \in [Procs -> Steps] /\ plan \in [Procs -> Plans \cup {NoTx}]
        /\ \A q \in Procs : pc[q] \notin Unguarded <=> holder = q
    BY <1>1 DEF Typed
  <2>3. "bundle" \in Steps /\ "bundle" \notin Unguarded
    BY DEF Steps, Unguarded
  <2>4. /\ pc' \in [Procs -> Steps] /\ pc'[p] = "bundle"
        /\ \A q \in Procs : q # p => pc'[q] = pc[q]
    BY <1>5, <2>2, <2>3
  <2>5. \A q \in Procs : pc'[q] \notin Unguarded <=> holder' = q
    BY <1>2, <1>5, <2>2, <2>3, <2>4, NobodyIs
  <2>6. Pending' \subseteq Pending
    BY <1>2, <2>4 DEF Pending
  <2>7. Typed'
    <3>1. reply' \in Replies
      BY <1>5 DEF Replies
    <3>2. /\ disk' \subseteq Files /\ vis' \in disk' /\ faults' \in 0 .. MaxFaults
          /\ kills' \in 0 .. MaxKills /\ losses' \in 0 .. MaxLosses
      BY <1>1, <1>2, <2>1 DEF Typed
    <3> QED BY <1>1, <1>2, <1>5, <2>4, <2>5, <2>6, <3>1, <3>2, TypedKept
  <2>8. p \in Planned /\ Planned' = Planned
    BY <1>2, <2>4 DEF Planned
  <2>9. PICK mine \in Plans :
          plan[p] = mine /\ plan'[p] = mine /\ PlanOK(mine.conflict, mine.result)
    BY <1>1, <1>2, <2>2, <2>8 DEF PlanInv
  <2>10. PlanInv'
    <3>1. \A q \in Procs : pc'[q] \in {"recover", "inspect", "plan"} => plan'[q] = NoTx
      BY <1>1, <1>2, <2>4 DEF PlanInv
    <3>2. ASSUME NEW q \in Planned'
          PROVE  /\ plan'[q] # NoTx /\ PlanOK(plan[q].conflict, plan[q].result)'
                 /\ \A s \in disk' : Unused(q, s)'
                 /\ \A r \in Planned' : r # q => plan'[r].result # plan'[q].result
                 /\ pc'[q] = "bundle" /\ plan'[q].conflict.kind # "inPlace" =>
                      vis'.src \in FitSources(plan'[q].conflict)
      <4>1. PlanOK(plan[q].conflict, plan[q].result)'
        BY <1>1, <1>2, <2>8 DEF PlanInv, PlanOK
      <4>2. \A s \in disk' : Unused(q, s)'
        BY <1>1, <1>2, <2>1, <2>8 DEF PlanInv, Unused
      <4>3. pc'[q] = "bundle" /\ plan'[q].conflict.kind # "inPlace" =>
              vis'.src \in FitSources(plan'[q].conflict)
        <5>1. CASE q = p
          <6>1. conflict.kind = "inPlace" \/ vis.src \in FitSources(conflict)
            BY <1>5 DEF WorktreeFits, SourceIs, FitSources
          <6> QED BY <1>2, <2>1, <5>1, <6>1
        <5>2. CASE q # p
          BY <1>1, <1>2, <2>1, <2>4, <2>8, <5>2 DEF PlanInv, Planned
        <5> QED BY <5>1, <5>2
      <4> QED BY <1>1, <1>2, <2>8, <4>1, <4>2, <4>3 DEF PlanInv
    <3>3. \A q : FitSources(plan[q].conflict)' = FitSources(plan'[q].conflict)
      BY DEF FitSources
    <3> QED BY <3>1, <3>2, <3>3 DEF PlanInv
  <2>11. Here = "idle" /\ Here' = "bundle"
    BY <1>2, <1>5, <2>4, NobodyIs DEF Here
  <2>12. born <= born'
    BY <1>1, <1>2 DEF Typed
  <2>13. /\ Here = "idle" \/ Here = "inspect" \/ Here = "cleanup"
         /\ Here' \in {"idle", "inspect", "bundle"}
         /\ holder' \in Procs =>
              plan'[holder'] = NoTx
                \/ (Here' = "bundle" /\ \E other \in Plans :
                      plan'[holder'] = other /\ PlanOK(other.conflict, other.result))
    BY <1>5, <2>9, <2>11
  <2>14. gits' = gits
    BY <1>2
  <2> QED BY <2>1, <2>7, <2>10, <2>12, <2>13, <2>14, Stands
<1>6. "JournalAlreadyExists" \in Replies
  BY DEF Replies
<1> QED BY <1>3, <1>4, <1>5, <1>6, MoveStepsAre DEF Commit

-----------------------------------------------------------------------------
(* Changes of files.                                                       *)

AllDirs == {"local", "git", "dst", "src"}

Agree(t, s, dirs) ==
  /\ "local" \in dirs => SameLocal(t, s)
  /\ "git" \in dirs => SameGit(t, s)
  /\ "dst" \in dirs => t.dst = s.dst
  /\ "src" \in dirs => t.src = s.src

\* What an fsync of "before" and a change of "dirs" make possible: files from
\* before the change, or with what is now visible in the changed directories.
Mixed(t, s, before, dirs) ==
  /\ Agree(s, vis, before) /\ Agree(s, vis, dirs)
  /\ Agree(t, vis', dirs) /\ Agree(t, s, AllDirs \ dirs)

Moved(before, dirs) ==
  /\ vis' \in disk' /\ disk' \subseteq Files /\ dirs \subseteq AllDirs
  /\ Agree(vis', vis, AllDirs \ dirs)
  /\ \A t \in disk' : \/ t \in disk /\ Agree(t, vis, before)
                      \/ \E s \in disk : Mixed(t, s, before, dirs)

LEMMA ChangeMoves ==
  ASSUME Typed, NEW before, NEW dirs \in SUBSET AllDirs, NEW G, vis' = G[vis],
         disk' = Synced(disk, before)
                   \cup {G[s] : s \in Synced(Synced(disk, before), dirs)},
         \A s \in Files : G[s] \in Files /\ Agree(G[s], s, AllDirs \ dirs),
         \A s \in Files : Agree(s, vis, dirs) => Agree(G[s], G[vis], dirs)
  PROVE  Moved(before, dirs)
<1>1. disk \subseteq Files /\ vis \in disk /\ vis \in Files
  BY DEF Typed
<1> DEFINE reached == Synced(disk, before)
<1>2. reached \subseteq disk /\ vis \in reached /\ \A s \in reached : Agree(s, vis, before)
  BY <1>1, SyncedIs DEF Agree
<1>3. /\ Synced(reached, dirs) \subseteq reached /\ vis \in Synced(reached, dirs)
      /\ \A s \in Synced(reached, dirs) : Agree(s, vis, dirs)
  BY <1>2, SyncedIs DEF Agree
<1>4. vis' \in disk' /\ disk' \subseteq Files
  BY <1>1, <1>2, <1>3
<1>5. Agree(vis', vis, AllDirs \ dirs)
  BY <1>1
<1>6. ASSUME NEW t \in disk'
      PROVE  \/ t \in disk /\ Agree(t, vis, before)
             \/ \E s \in disk : Mixed(t, s, before, dirs)
  <2>1. CASE t \in reached
    BY <1>2, <2>1
  <2>2. CASE t \in {G[s] : s \in Synced(reached, dirs)}
    <3>1. PICK s \in Synced(reached, dirs) : t = G[s]
      BY <2>2
    <3>2. s \in disk /\ s \in Files /\ Agree(s, vis, before) /\ Agree(s, vis, dirs)
      BY <1>1, <1>2, <1>3
    <3>3. Agree(t, vis', dirs) /\ Agree(t, s, AllDirs \ dirs)
      BY <3>1, <3>2
    <3> QED BY <3>2, <3>3 DEF Mixed
  <2> QED BY <2>1, <2>2
<1> QED BY <1>4, <1>5, <1>6 DEF Moved

LEMMA SeenMoves ==
  ASSUME Typed, NEW before, NEW dirs, Moved(before, dirs)
  PROVE  \A t \in Seen' : \/ t \in Seen /\ Agree(t, vis, before)
                          \/ \E s \in Seen : Mixed(t, s, before, dirs)
<1> SUFFICES ASSUME NEW t \in Seen'
             PROVE  \/ t \in Seen /\ Agree(t, vis, before)
                    \/ \E s \in Seen : Mixed(t, s, before, dirs)
  OBVIOUS
<1>1. CASE Calm
  <2>1. Seen = disk /\ Seen' = disk'
    BY <1>1 DEF Seen, Calm
  <2> QED BY <2>1 DEF Moved
<1>2. CASE ~Calm
  <2>1. t = vis' /\ Seen = {vis}
    BY <1>2 DEF Seen, Calm
  <2>2. Mixed(vis', vis, before, dirs)
    BY DEF Mixed, Moved, Agree, SameLocal, SameGit
  <2> QED BY <2>1, <2>2
<1> QED BY <1>1, <1>2

LEMMA MixedIs ==
  ASSUME NEW t, NEW s, NEW before, NEW dirs, Mixed(t, s, before, dirs), Moved(before, dirs)
  PROVE  /\ "local" \in dirs =>
              /\ t.bundle = vis'.bundle /\ t.publish = vis'.publish
              /\ t.journal = vis'.journal
              /\ s.bundle = vis.bundle /\ s.publish = vis.publish /\ s.journal = vis.journal
         /\ "local" \notin dirs =>
              /\ t.bundle = s.bundle /\ t.publish = s.publish /\ t.journal = s.journal
              /\ vis'.bundle = vis.bundle /\ vis'.publish = vis.publish
              /\ vis'.journal = vis.journal
         /\ "git" \in dirs =>
              /\ t.lock = vis'.lock /\ t.index = vis'.index
              /\ s.lock = vis.lock /\ s.index = vis.index
         /\ "git" \notin dirs =>
              /\ t.lock = s.lock /\ t.index = s.index
              /\ vis'.lock = vis.lock /\ vis'.index = vis.index
         /\ "dst" \in dirs => t.dst = vis'.dst /\ s.dst = vis.dst
         /\ "dst" \notin dirs => t.dst = s.dst /\ vis'.dst = vis.dst
         /\ "src" \in dirs => t.src = vis'.src /\ s.src = vis.src
         /\ "src" \notin dirs => t.src = s.src /\ vis'.src = vis.src
<1>1. /\ Agree(s, vis, dirs) /\ Agree(t, vis', dirs) /\ Agree(t, s, AllDirs \ dirs)
      /\ Agree(vis', vis, AllDirs \ dirs)
  BY DEF Mixed, Moved
<1>2. \A d \in AllDirs : d \in dirs \/ d \in AllDirs \ dirs
  OBVIOUS
<1>3. "local" \in AllDirs /\ "git" \in AllDirs /\ "dst" \in AllDirs /\ "src" \in AllDirs
  BY DEF AllDirs
<1> QED BY <1>1, <1>2, <1>3 DEF Agree, SameLocal, SameGit

\* The parts of the invariant about single files follow those of the visible
\* files, where they are not split between two directories.
LEMMA DiskMoves ==
  ASSUME Typed, DiskInv, NEW before, NEW dirs, Moved(before, dirs),
         born' \in Nat, born <= born', gits' \in Nat, gits <= gits',
         OwnedOK(vis)', CountedOK(vis)', "src" \in dirs => vis'.src # 2,
         \A s \in disk :
           Agree(s, vis, before) /\ Agree(s, vis, dirs) =>
             /\ "local" \in dirs /\ "git" \notin dirs =>
                  s.lock.kind \notin {"marker", "candidate"} \/ vis'.bundle = vis.bundle
             /\ "git" \in dirs /\ "local" \notin dirs =>
                  vis'.lock.kind \notin {"marker", "candidate"} \/ s.bundle = vis.bundle
  PROVE  DiskInv'
<1>1. \A s \in disk : s \in Files
  BY DEF Typed
<1>2. \A s \in disk : OwnedOK(s)' /\ CountedOK(s)'
  BY <1>1, Grows DEF DiskInv
<1>3. ASSUME NEW t \in disk', NEW s \in disk, Mixed(t, s, before, dirs)
      PROVE  OwnedOK(t)' /\ CountedOK(t)'
  <2>1. /\ Agree(s, vis, before) /\ Agree(s, vis, dirs)
        /\ Agree(t, vis', dirs) /\ Agree(t, s, AllDirs \ dirs)
        /\ Agree(vis', vis, AllDirs \ dirs)
    BY <1>3 DEF Mixed, Moved
  <2>2. (t.bundle = vis'.bundle /\ t.journal = vis'.journal)
          \/ (t.bundle = s.bundle /\ t.journal = s.journal)
    BY <1>3, MixedIs
  <2>3. /\ (t.index = vis'.index) \/ (t.index = s.index)
        /\ (t.dst = vis'.dst) \/ (t.dst = s.dst)
        /\ (t.src = vis'.src) \/ (t.src = s.src)
    BY <1>3, MixedIs
  <2>4. OwnedOK(s)' /\ CountedOK(s)'
    BY <1>2
  <2>5. CountedOK(t)'
    BY <2>3, <2>4 DEF CountedOK
  <2>6. (/\ t.bundle.kind # "none" => TxOK(t.bundle.tx)
         /\ t.journal.kind # "none" =>
              TxOK(t.journal.tx) /\ t.journal.tx.old.target = t.journal.tx.conflict)'
    BY <2>2, <2>4 DEF OwnedOK
  <2>7. t.lock.kind \in {"marker", "candidate"} => t.bundle = A("stable", t.lock.tx)
    <3>1. CASE "local" \in dirs /\ "git" \in dirs
      <4>1. t.lock = vis'.lock /\ t.bundle = vis'.bundle
        BY <1>3, <3>1, MixedIs
      <4> QED BY <4>1 DEF OwnedOK, A
    <3>2. CASE "local" \notin dirs /\ "git" \notin dirs
      <4>1. t.lock = s.lock /\ t.bundle = s.bundle
        BY <1>3, <3>2, MixedIs
      <4> QED BY <2>4, <4>1 DEF OwnedOK, A
    <3>3. CASE "local" \in dirs /\ "git" \notin dirs
      <4>1. t.lock = s.lock /\ t.bundle = vis'.bundle /\ s.bundle = vis.bundle
        BY <1>3, <3>3, MixedIs
      <4>2. s.lock.kind \notin {"marker", "candidate"} \/ vis'.bundle = vis.bundle
        BY <2>1, <3>3
      <4> QED BY <2>4, <4>1, <4>2 DEF OwnedOK, A
    <3>4. CASE "local" \notin dirs /\ "git" \in dirs
      <4>1. t.lock = vis'.lock /\ t.bundle = s.bundle /\ vis'.bundle = vis.bundle
        BY <1>3, <3>4, MixedIs
      <4>2. vis'.lock.kind \notin {"marker", "candidate"} \/ s.bundle = vis.bundle
        BY <2>1, <3>4
      <4> QED BY <4>1, <4>2 DEF OwnedOK, A
    <3> QED BY <3>1, <3>2, <3>3, <3>4
  <2>8. OwnedOK(t)'
    BY <2>6, <2>7 DEF OwnedOK, A
  <2> QED BY <2>5, <2>8
<1>4. \A t \in disk' : OwnedOK(t)' /\ CountedOK(t)'
  BY <1>2, <1>3 DEF Moved
<1>5. vis'.src = 2 => \A t \in disk' : t.src = 2
  <2> SUFFICES ASSUME vis'.src = 2, NEW t \in disk' PROVE t.src = 2
    OBVIOUS
  <2>1. "src" \notin dirs /\ vis.src = 2
    BY DEF Moved, Agree, AllDirs
  <2>2. \A s \in disk : s.src = 2
    BY <2>1 DEF DiskInv
  <2>3. \A s : Mixed(t, s, before, dirs) => t.src = s.src
    BY <2>1, MixedIs
  <2> QED BY <2>2, <2>3 DEF Moved
<1> QED BY <1>4, <1>5 DEF DiskInv

LEMMA PlanMoves ==
  ASSUME Typed, PlanInv, NEW before, NEW dirs, Moved(before, dirs), plan' = plan,
         pc' \in [Procs -> Steps], born' \in Nat, born <= born', gits' \in Nat, gits <= gits',
         \A q \in Procs : pc'[q] = pc[q] \/ pc'[q] \notin PlanSteps,
         \A q \in Planned : pc'[q] = pc[q] => Unused(q, vis)',
         "src" \in dirs => \A q \in Procs : pc'[q] # "bundle"
  PROVE  PlanInv'
<1>1. Planned' \subseteq Planned /\ \A q \in Planned' : q \in Procs /\ pc'[q] = pc[q]
  BY DEF Planned, PlanSteps
<1>2. ASSUME NEW p \in Planned'
      PROVE  /\ plan'[p] # NoTx /\ PlanOK(plan[p].conflict, plan[p].result)'
             /\ \A s \in disk' : Unused(p, s)'
             /\ \A q \in Planned' : q # p => plan'[q].result # plan'[p].result
             /\ pc'[p] = "bundle" /\ plan'[p].conflict.kind # "inPlace" =>
                  vis'.src \in FitSources(plan'[p].conflict)
  <2>1. p \in Planned /\ p \in Procs /\ pc'[p] = pc[p] /\ plan[p] # NoTx
    BY <1>1 DEF PlanInv
  <2>2. PICK mine \in Plans : mine = plan[p]
    BY <2>1 DEF Typed
  <2>3. PlanOK(mine.conflict, mine.result)'
    BY <2>1, <2>2, Grows DEF PlanInv, Plans
  <2>4. PlanOK(plan[p].conflict, plan[p].result)'
    BY <2>2, <2>3 DEF PlanOK
  <2>5. ASSUME NEW t \in disk' PROVE Unused(p, t)'
    <3>1. Unused(p, vis)' /\ \A s \in disk : Unused(p, s)'
      BY <2>1 DEF PlanInv, Unused
    <3>2. CASE t \in disk
      BY <3>1, <3>2
    <3>3. CASE \E s \in disk : Mixed(t, s, before, dirs)
      <4>1. PICK s \in disk : Mixed(t, s, before, dirs)
        BY <3>3
      <4>2. (t.bundle = vis'.bundle /\ t.journal = vis'.journal)
              \/ (t.bundle = s.bundle /\ t.journal = s.journal)
        BY <4>1, MixedIs
      <4>3. /\ (t.index = vis'.index) \/ (t.index = s.index)
            /\ (t.dst = vis'.dst) \/ (t.dst = s.dst)
        BY <4>1, MixedIs
      <4> QED BY <3>1, <4>2, <4>3 DEF Unused
    <3> QED BY <3>2, <3>3 DEF Moved
  <2>6. pc'[p] = "bundle" /\ plan'[p].conflict.kind # "inPlace" =>
          vis'.src \in FitSources(plan'[p].conflict)
    BY <2>1 DEF PlanInv, Moved, Agree, AllDirs
  <2> QED BY <1>1, <2>1, <2>4, <2>5, <2>6 DEF PlanInv
<1>3. \A p \in Procs : pc'[p] \in {"recover", "inspect", "plan"} => plan'[p] = NoTx
  BY DEF PlanInv, PlanSteps
<1>4. \A p : FitSources(plan[p].conflict)' = FitSources(plan'[p].conflict)
  BY DEF FitSources
<1> QED BY <1>2, <1>3, <1>4 DEF PlanInv

LEMMA SeenInvMoves ==
  ASSUME Typed, SeenInv, NEW before, NEW dirs, Moved(before, dirs),
         \A t \in Seen' : Shape(t)',
         "local" \in dirs => Here' \in LocalMoves,
         "git" \in dirs => Here' \in LockMoves \/ Calmly(vis'),
         Here' \notin LocalMoves => Here \notin LocalMoves,
         Here' \notin LockMoves => Here \notin LockMoves \/ "git" \in dirs,
         Here' \in {"source", "sourceSync"} =>
           Here \in {"source", "sourceSync"} /\ "dst" \notin dirs,
         Here' # "installSync" =>
           /\ Here # "installSync"
           /\ vis'.index = vis.index \/ \A s \in disk : s.index.rest # vis'.index.rest
  PROVE  SeenInv'
<1>1. Seen \subseteq disk
  BY SeenIs
<1>2. \A t \in Seen' : \/ t \in Seen
                       \/ \E s \in Seen : Agree(t, vis', dirs) /\ Agree(t, s, AllDirs \ dirs)
  BY SeenMoves DEF Mixed
<1>3. Agree(vis', vis, AllDirs \ dirs)
  BY DEF Moved
<1>4. ASSUME Here' \notin LocalMoves, NEW t \in Seen' PROVE SameLocal(t, vis')
  <2>1. "local" \notin dirs /\ \A s \in Seen : SameLocal(s, vis)
    BY <1>4 DEF SeenInv
  <2> QED BY <1>2, <1>3, <2>1 DEF Agree, AllDirs, SameLocal
<1>5. ASSUME ~Calmly(vis'), Here' \notin LockMoves, NEW t \in Seen' PROVE SameGit(t, vis')
  <2>1. "git" \notin dirs /\ SameGit(vis', vis)
    BY <1>3, <1>5 DEF Agree, AllDirs
  <2>2. \A s \in Seen : SameGit(s, vis)
    BY <1>5, <2>1 DEF SeenInv, Calmly, SameGit
  <2> QED BY <1>2, <2>1, <2>2 DEF Agree, AllDirs, SameGit
<1>6. ASSUME Here' \in {"source", "sourceSync"}, NEW t \in Seen' PROVE t.dst = vis'.dst
  <2>1. "dst" \notin dirs /\ \A s \in Seen : s.dst = vis.dst
    BY <1>6 DEF SeenInv
  <2> QED BY <1>2, <1>3, <2>1 DEF Agree, AllDirs
<1>7. ASSUME Here' # "installSync", NEW t \in Seen', t.index.rest = vis'.index.rest
      PROVE  t.index = vis'.index
  <2>1. CASE "git" \in dirs /\ Agree(t, vis', dirs)
    BY <2>1 DEF Agree, SameGit
  <2>2. CASE "git" \notin dirs
    <3>1. vis'.index = vis.index
      BY <1>3, <2>2 DEF Agree, AllDirs, SameGit
    <3>2. \E s \in Seen : t.index = s.index
      BY <1>2, <2>2 DEF Agree, AllDirs, SameGit
    <3> QED BY <1>7, <3>1, <3>2 DEF SeenInv
  <2>3. CASE t \in Seen
    BY <1>1, <1>7, <2>3 DEF SeenInv
  <2> QED BY <1>2, <2>1, <2>2, <2>3
<1>8. /\ LocalMoves' = LocalMoves /\ LockMoves' = LockMoves
      /\ \A s : /\ SameLocal(s, vis)' <=> SameLocal(s, vis')
               /\ SameGit(s, vis)' <=> SameGit(s, vis')
      /\ Calmly(vis)' <=> Calmly(vis')
  BY DEF SameLocal, SameGit, Calmly, LocalMoves, LockMoves
<1> QED BY <1>4, <1>5, <1>6, <1>7, <1>8 DEF SeenInv

LEMMA ShapeStays == \A t : Shape(t) => Shape(t)'
BY DEF Shape, BeforeShape, ReadyShape, CandidateShape, InstalledShape, ReceiptShape,
   Calmly, SourceLeft, SourceGone, JournalReady, CandidateInLock, Bound, Unmoved,
   ResultStaged, Retiring

\* Which shape it is, from the bundle, the journal and the lock.
LEMMA BeforeIs ==
  ASSUME NEW s \in Files, Shape(s), s.bundle.kind = "stable", s.journal = None
  PROVE  BeforeShape(s)
<1>1. s.journal.kind = "none" /\ \A k, tx : A(k, tx).kind = k
  BY PlacedIs
<1>2. ~ReadyShape(s) /\ ~CandidateShape(s)
  BY <1>1 DEF ReadyShape, CandidateShape, JournalReady, CandidateInLock, Bound
<1>3. ~InstalledShape(s)
  BY <1>1 DEF InstalledShape
<1>4. ~ReceiptShape(s)
  <2>1. ~Retiring(s, 3) /\ ~Retiring(s, 4) /\ ~Retiring(s, 5) /\ ~Retiring(s, 6)
    BY <1>1, RetiringIs
  <2>2. ~Retiring(s, 7)
    BY RetiringIs, PlacedIs DEF Clean
  <2>3. \A i \in 3 .. 7 : i = 3 \/ i = 4 \/ i = 5 \/ i = 6 \/ i = 7
    OBVIOUS
  <2> QED BY <2>1, <2>2, <2>3 DEF ReceiptShape
<1> QED BY <1>2, <1>3, <1>4 DEF Shape

LEMMA ReadyIs ==
  ASSUME NEW s \in Files, Shape(s), JournalReady(s)
  PROVE  ReadyShape(s)
<1>1. None.kind = "none" /\ \A k, tx : A(k, tx).kind = k
  BY PlacedIs
<1>2. /\ s.bundle.kind = "stable" /\ s.journal.kind = "journal" /\ s.lock.kind = "marker"
  BY <1>1 DEF JournalReady, Bound
<1>3. ~BeforeShape(s) /\ ~CandidateShape(s) /\ ~InstalledShape(s)
  BY <1>1, <1>2 DEF BeforeShape, CandidateShape, CandidateInLock, Bound, InstalledShape, Calmly
<1>4. ~ReceiptShape(s)
  BY <1>2 DEF ReceiptShape, Calmly
<1> QED BY <1>3, <1>4 DEF Shape

LEMMA CandidateIs ==
  ASSUME NEW s \in Files, Shape(s), CandidateInLock(s)
  PROVE  CandidateShape(s)
<1>1. None.kind = "none" /\ \A k, tx : A(k, tx).kind = k
  BY PlacedIs
<1>2. s.bundle.kind = "stable" /\ s.journal.kind = "journal" /\ s.lock.kind = "candidate"
  BY <1>1 DEF CandidateInLock, Bound
<1>3. ~BeforeShape(s) /\ ~ReadyShape(s) /\ ~InstalledShape(s) /\ ~ReceiptShape(s)
  BY <1>1, <1>2
     DEF BeforeShape, ReadyShape, JournalReady, Bound, InstalledShape, ReceiptShape, Calmly
<1> QED BY <1>3 DEF Shape

\* Once the new index is in place.
LEMMA InstalledIs ==
  ASSUME Typed, Shape(vis), After \/ InstalledShape(vis)
  PROVE  InstalledShape(vis)
<1> SUFFICES ASSUME After PROVE InstalledShape(vis)
  OBVIOUS
<1>1. vis \in Files /\ None.kind = "none" /\ \A k, tx : A(k, tx).kind = k
  BY PlacedIs DEF Typed
<1>2. vis.journal.kind = "journal" /\ vis.lock.kind \notin {"marker", "candidate"}
  BY <1>1 DEF After, Calmly
<1>3. ~BeforeShape(vis) /\ ~ReadyShape(vis) /\ ~CandidateShape(vis)
  BY <1>1, <1>2
     DEF BeforeShape, ReadyShape, JournalReady, CandidateShape, CandidateInLock, Bound
<1>4. ~ReceiptShape(vis)
  <2>1. ASSUME NEW i \in 3 .. 7 PROVE ~Retiring(vis, i)
    BY <1>2 DEF Retiring, Chain
  <2> QED BY <2>1 DEF ReceiptShape
<1> QED BY <1>3, <1>4 DEF Shape

\* A change by the holder of the guard, who goes on to the step that waits for
\* its fsync.
LEMMA ChangeGoes ==
  ASSUME IInv, NEW p \in Procs, holder = p, NEW step \in Steps, step \notin Unguarded,
         step \notin PlanSteps, Goto(p, step), NEW before, NEW dirs, Moved(before, dirs),
         UNCHANGED <<plan, born, runs, gits, edits, faults, kills, losses>>,
         pc[p] \notin LocalMoves, pc[p] \notin LockMoves, pc[p] # "installSync",
         OwnedOK(vis)', CountedOK(vis)', "src" \in dirs => vis'.src # 2,
         \A s \in disk :
           Agree(s, vis, before) /\ Agree(s, vis, dirs) =>
             /\ "local" \in dirs /\ "git" \notin dirs =>
                  s.lock.kind \notin {"marker", "candidate"} \/ vis'.bundle = vis.bundle
             /\ "git" \in dirs /\ "local" \notin dirs =>
                  vis'.lock.kind \notin {"marker", "candidate"} \/ s.bundle = vis.bundle,
         \A q \in Planned : q # p => Unused(q, vis)',
         Knows(step)', plan[p] # NoTx => Owns(plan[p], step)',
         \A t \in Seen' : Shape(t),
         "local" \in dirs => step \in LocalMoves,
         "git" \in dirs => step \in LockMoves \/ Calmly(vis'),
         step \in {"source", "sourceSync"} =>
           pc[p] \in {"source", "sourceSync"} /\ "dst" \notin dirs,
         step # "installSync" => vis'.index = vis.index
  PROVE  IInv'
<1>1. Typed /\ DiskInv /\ PlanInv /\ SeenInv
  BY DEF IInv
<1>2. /\ holder' \in Procs \cup {NoProc} /\ pc' \in [Procs -> Steps]
      /\ \A q \in Procs : pc'[q] \notin Unguarded <=> holder' = q
      /\ reply' \in Replies
      /\ holder' = p /\ Here = pc[p] /\ Here' = step /\ pc'[p] = step
      /\ \A q \in Procs : q # p => pc'[q] = pc[q] /\ pc[q] \in Unguarded
      /\ Pending' \subseteq Pending
  BY <1>1, GotoIs
<1>3. Typed'
  <2>1. disk' \subseteq Files /\ vis' \in disk'
    BY DEF Moved
  <2>2. /\ faults' \in 0 .. MaxFaults /\ kills' \in 0 .. MaxKills
        /\ losses' \in 0 .. MaxLosses
    BY <1>1 DEF Typed
  <2> QED BY <1>1, <1>2, <2>1, <2>2, TypedKept
<1>4. born' \in Nat /\ born <= born' /\ gits' \in Nat /\ gits <= gits'
  BY <1>1, Bounds DEF Typed
<1>5. DiskInv'
  BY <1>1, <1>4, DiskMoves
<1>6. PlanInv'
  <2>1. \A q \in Procs : pc'[q] = pc[q] \/ pc'[q] \notin PlanSteps
    BY <1>2
  <2>2. \A q \in Planned : pc'[q] = pc[q] => Unused(q, vis)'
    <3>1. p \in Planned => pc'[p] # pc[p]
      BY <1>2 DEF Planned, PlanSteps
    <3> QED BY <3>1
  <2>3. \A q \in Procs : pc'[q] # "bundle"
    BY <1>2 DEF PlanSteps, Unguarded
  <2> QED BY <1>1, <1>2, <1>4, <2>1, <2>2, <2>3, PlanMoves
<1>7. HolderInv'
  BY <1>2 DEF HolderInv
<1>8. OwnInv'
  <2>1. CASE plan[p] # NoTx
    <3>1. PICK mine \in Plans : mine = plan[p]
      BY <1>1, <2>1 DEF Typed
    <3>2. Owns(mine, step)'
      BY <2>1, <3>1
    <3>3. Here' = step /\ plan'[holder'] = mine
      BY <1>2, <3>1
    <3> QED BY <3>2, <3>3 DEF OwnInv
  <2>2. CASE plan[p] = NoTx
    BY <1>2, <2>2 DEF OwnInv
  <2> QED BY <2>1, <2>2
<1>9. SeenInv'
  <2>1. \A t \in Seen' : Shape(t)'
    BY ShapeStays
  <2> QED BY <1>1, <1>2, <2>1, SeenInvMoves
<1> QED BY <1>3, <1>5, <1>6, <1>7, <1>8, <1>9 DEF IInv

LEMMA ActorIs ==
  ASSUME IInv, NEW p \in Procs, holder = p
  PROVE  /\ Typed /\ DiskInv /\ PlanInv /\ SeenInv
         /\ vis \in disk /\ vis \in Files /\ Here = pc[p] /\ Knows(pc[p])
         /\ plan[p] # NoTx => Owns(plan[p], pc[p])
         /\ \A s \in disk : s \in Files /\ OwnedOK(s) /\ CountedOK(s)
         /\ Seen \subseteq disk /\ \A s \in Seen : Shape(s)
         /\ \A q \in Planned, s \in disk : Unused(q, s)
<1>1. Typed /\ DiskInv /\ PlanInv /\ SeenInv
  BY DEF IInv
<1>2. vis \in disk /\ disk \subseteq Files /\ Seen \subseteq disk
  BY <1>1, SeenIs DEF Typed
<1> QED BY <1>1, <1>2, HereOwns DEF DiskInv, SeenInv, PlanInv

\* What stays true of a transaction when no version and no update is made.
LEMMA Keeps ==
  ASSUME born' = born, gits' = gits
  PROVE  /\ \A tx : TxOK(tx) => TxOK(tx)'
         /\ \A conflict, result : PlanOK(conflict, result) => PlanOK(conflict, result)'
BY DEF TxOK, PlanOK, FitSources, Sourced, Split, Absent

LEMMA MoveStagingStep == \A p \in Procs : IInv /\ MoveStaging(p) => IInv'
<1> SUFFICES ASSUME NEW p \in Procs, IInv, MoveStaging(p) PROVE IInv'
  OBVIOUS
<1> DEFINE tx == vis.bundle.tx
<1>1. /\ holder = p /\ pc[p] = "staging" /\ Here = "staging" /\ UNCHANGED others
      /\ Knows("staging") /\ vis \in disk /\ vis \in Files /\ Typed
      /\ plan[p] # NoTx => Owns(plan[p], "staging")
  BY ActorIs DEF MoveStaging, Holds
<1>2. CASE \E r \in Replies : Refuse(p, r)
  <2>1. PICK r \in Replies : Refuse(p, r)
    BY <1>2
  <2> QED BY <1>1, <2>1, Refuses, MoveStepsAre DEF Refuse, files, others
<1>3. CASE /\ Unmoved(vis) /\ Goto(p, "stagingSync") /\ UNCHANGED faults
           /\ vis' = [vis EXCEPT !.publish = tx]
           /\ disk' = Synced(disk, {"local"})
                        \cup {[s EXCEPT !.publish = tx] :
                                s \in Synced(Synced(disk, {"local"}), {"local"})}
  <2>1. Before(FALSE) /\ Calmly(vis)
    BY <1>1, KnowsIs DEF KnowsList, BundleSteps
  <2>2. vis.bundle.kind = "stable" /\ vis.journal = None /\ tx \in Transactions
        /\ vis.publish = NoTx
    BY <1>1, <2>1, PartsAre DEF Before
  <2>3. PICK G : G = [s \in Files |-> [s EXCEPT !.publish = tx]]
    OBVIOUS
  <2>4. \A s \in Files :
          /\ G[s] \in Files /\ G[s].publish = tx
          /\ G[s].bundle = s.bundle /\ G[s].journal = s.journal /\ G[s].lock = s.lock
          /\ G[s].index = s.index /\ G[s].dst = s.dst /\ G[s].src = s.src
    BY <2>2, <2>3 DEF Files
  <2>5. Moved({"local"}, {"local"})
    <3>1. vis' = G[vis]
      BY <1>1, <1>3, <2>3
    <3>2. disk' = Synced(disk, {"local"})
                    \cup {G[s] : s \in Synced(Synced(disk, {"local"}), {"local"})}
      <4>1. \A s \in Synced(Synced(disk, {"local"}), {"local"}) :
              s \in Files /\ G[s] = [s EXCEPT !.publish = tx]
        BY <1>1, <2>3, SyncedIs DEF Typed
      <4> QED BY <1>3, <4>1
    <3>3. \A s \in Files : G[s] \in Files /\ Agree(G[s], s, AllDirs \ {"local"})
      BY <2>4 DEF Agree, SameGit
    <3>4. \A s \in Files : Agree(s, vis, {"local"}) => Agree(G[s], G[vis], {"local"})
      BY <1>1, <2>4 DEF Agree, SameLocal
    <3>5. {"local"} \in SUBSET AllDirs
      BY DEF AllDirs
    <3> QED BY <1>1, <3>1, <3>2, <3>3, <3>4, <3>5, ChangeMoves
  <2>6. /\ vis'.publish = tx /\ vis'.bundle = vis.bundle /\ vis'.journal = vis.journal
        /\ vis'.lock = vis.lock /\ vis'.index = vis.index
        /\ vis'.dst = vis.dst /\ vis'.src = vis.src
    BY <1>1, <1>3 DEF Files
  <2>7. OwnedOK(vis)' /\ CountedOK(vis)'
    <3>1. OwnedOK(vis) /\ CountedOK(vis) /\ born' = born /\ gits' = gits
      BY <1>1, ActorIs DEF others
    <3> QED BY <2>6, <3>1, Keeps DEF OwnedOK, CountedOK, Sourced, Split, Absent, A
  <2>8. \A q \in Planned : Unused(q, vis)'
    <3>1. \A q \in Planned : Unused(q, vis)
      BY <1>1, ActorIs
    <3> QED BY <1>1, <2>6, <3>1 DEF Unused, others
  <2>9. Knows("stagingSync")'
    <3>1. (Before(TRUE) /\ Calmly(vis))'
      BY <2>1, <2>6 DEF Before, Calmly
    <3> QED BY <3>1, KnowsNext DEF KnowsList
  <2>10. plan[p] # NoTx => Owns(plan[p], "stagingSync")'
    <3> SUFFICES ASSUME plan[p] # NoTx PROVE Owns(plan[p], "stagingSync")'
      OBVIOUS
    <3>1. PICK mine \in Plans : mine = plan[p] /\ mine = plan'[p]
      BY <1>1 DEF Typed, others
    <3>2. Owns(mine, "stagingSync")'
      BY <1>1, <2>6, <3>1, OwnsMoves, MoveStepsAre DEF others
    <3> QED BY <3>1, <3>2
  <2>11. ASSUME NEW t \in Seen' PROVE Shape(t)
    <3>1. CASE t \in Seen
      BY <1>1, <3>1, ActorIs
    <3>2. CASE \E s \in Seen : Mixed(t, s, {"local"}, {"local"})
      <4>1. PICK s \in Seen : Mixed(t, s, {"local"}, {"local"})
        BY <3>2
      <4>2. /\ s \in Files /\ Shape(s)
            /\ s.bundle = vis.bundle /\ s.publish = vis.publish /\ s.journal = vis.journal
            /\ t.bundle = vis.bundle /\ t.publish = tx /\ t.journal = vis.journal
            /\ t.lock = s.lock /\ t.index = s.index /\ t.dst = s.dst /\ t.src = s.src
        BY <1>1, <2>5, <2>6, <4>1, ActorIs, MixedIs
      <4>3. BeforeShape(s)
        BY <2>2, <4>2, BeforeIs
      <4>4. BeforeShape(t)
        BY <2>2, <4>2, <4>3, NoTxIs DEF BeforeShape, Calmly, SourceLeft
      <4> QED BY <4>4 DEF Shape
    <3> QED BY <1>1, <2>5, <3>1, <3>2, SeenMoves
  <2>12. /\ "stagingSync" \in Steps /\ "stagingSync" \notin Unguarded
         /\ "stagingSync" \notin PlanSteps /\ "stagingSync" \in LocalMoves
         /\ "staging" \notin LocalMoves /\ "staging" \notin LockMoves
    BY DEF Steps, Unguarded, PlanSteps, LocalMoves, LockMoves
  <2>13. UNCHANGED <<plan, born, runs, gits, edits, faults, kills, losses>>
    BY <1>1, <1>3 DEF others
  <2> QED BY <1>1, <1>3, <2>5, <2>6, <2>7, <2>8, <2>9, <2>10, <2>11, <2>12, <2>13, ChangeGoes
<1>4. CASE SyncFails(p, {"local"})
  BY <1>1, <1>4, SyncFailsStep
<1> QED BY <1>2, <1>3, <1>4, MoveStepsAre DEF MoveStaging, Change

LEMMA MoveMarkerStep == \A p \in Procs : IInv /\ MoveMarker(p) => IInv'
<1> SUFFICES ASSUME NEW p \in Procs, IInv, MoveMarker(p) PROVE IInv'
  OBVIOUS
<1> DEFINE tx == vis.bundle.tx
<1>1. /\ holder = p /\ pc[p] = "markerMove" /\ Here = "markerMove" /\ UNCHANGED others
      /\ Knows("markerMove") /\ vis \in disk /\ vis \in Files /\ Typed
      /\ plan[p] # NoTx => Owns(plan[p], "markerMove")
  BY ActorIs DEF MoveMarker, Holds
<1>2. CASE Refuse(p, "IndexChanged")
  <2>1. Here \notin LocalMoves /\ Here \notin LockMoves /\ Here # "installSync"
    BY <1>1 DEF LocalMoves, LockMoves
  <2> QED BY <1>1, <1>2, <2>1, Refuses, MoveStepsAre DEF Refuse, files, others
<1>3. CASE /\ vis.lock = None /\ Goto(p, "markerSync") /\ UNCHANGED faults
           /\ vis' = [vis EXCEPT !.lock = A("marker", tx)]
           /\ disk' = Synced(disk, {})
                        \cup {[s EXCEPT !.lock = A("marker", tx)] :
                                s \in Synced(Synced(disk, {}), {"git"})}
  <2>1. Before(TRUE) /\ Calmly(vis) /\ LocalKnown
    BY <1>1, KnowsIs DEF KnowsList
  <2>2. vis.bundle.kind = "stable" /\ vis.journal = None /\ tx \in Transactions
        /\ vis.publish = tx /\ vis.bundle = A("stable", tx)
    BY <1>1, <2>1, PartsAre DEF Before
  <2>3. PICK lock : lock = A("marker", tx)
    OBVIOUS
  <2>4. /\ lock \in Owned(LockKinds) /\ lock.kind = "marker" /\ lock.tx = tx
    BY <2>2, <2>3, PlacedIs DEF LockKinds
  <2>5. PICK G : G = [s \in Files |-> [s EXCEPT !.lock = lock]]
    OBVIOUS
  <2>6. \A s \in Files :
          /\ G[s] \in Files /\ G[s].lock = lock
          /\ G[s].bundle = s.bundle /\ G[s].journal = s.journal /\ G[s].publish = s.publish
          /\ G[s].index = s.index /\ G[s].dst = s.dst /\ G[s].src = s.src
    BY <2>4, <2>5 DEF Files, LockKinds
  <2>7. Moved({}, {"git"})
    <3>1. vis' = G[vis]
      BY <1>1, <1>3, <2>3, <2>5
    <3>2. disk' = Synced(disk, {}) \cup {G[s] : s \in Synced(Synced(disk, {}), {"git"})}
      <4>1. \A s \in Synced(Synced(disk, {}), {"git"}) :
              s \in Files /\ G[s] = [s EXCEPT !.lock = A("marker", tx)]
        BY <1>1, <2>3, <2>5, SyncedIs DEF Typed
      <4> QED BY <1>3, <4>1
    <3>3. \A s \in Files : G[s] \in Files /\ Agree(G[s], s, AllDirs \ {"git"})
      BY <2>6 DEF Agree, SameLocal
    <3>4. \A s \in Files : Agree(s, vis, {"git"}) => Agree(G[s], G[vis], {"git"})
      BY <1>1, <2>6 DEF Agree, SameGit
    <3>5. {"git"} \in SUBSET AllDirs
      BY DEF AllDirs
    <3> QED BY <1>1, <3>1, <3>2, <3>3, <3>4, <3>5, ChangeMoves
  <2>8. /\ vis'.lock = lock /\ vis'.bundle = vis.bundle /\ vis'.journal = vis.journal
        /\ vis'.publish = vis.publish /\ vis'.index = vis.index
        /\ vis'.dst = vis.dst /\ vis'.src = vis.src
    BY <1>1, <1>3, <2>3 DEF Files
  <2>9. OwnedOK(vis)' /\ CountedOK(vis)'
    <3>1. OwnedOK(vis) /\ CountedOK(vis) /\ born' = born /\ gits' = gits
      BY <1>1, ActorIs DEF others
    <3> QED BY <2>2, <2>4, <2>8, <3>1, Keeps
        DEF OwnedOK, CountedOK, Sourced, Split, Absent, A
  <2>10. \A q \in Planned : Unused(q, vis)'
    <3>1. \A q \in Planned : Unused(q, vis)
      BY <1>1, ActorIs
    <3> QED BY <1>1, <2>8, <3>1 DEF Unused, others
  <2>11. Knows("markerSync")'
    <3>1. Before(TRUE)' /\ (vis.lock = A("marker", vis.bundle.tx))'
      BY <2>1, <2>3, <2>8 DEF Before, A, None
    <3>2. LocalKnown'
      <4>1. \A s \in disk : SameLocal(s, vis)
        BY <2>1 DEF LocalKnown
      <4>2. ASSUME NEW t \in disk' PROVE SameLocal(t, vis)
        <5>1. CASE \E s \in disk : Mixed(t, s, {}, {"git"})
          <6>1. PICK s \in disk : Mixed(t, s, {}, {"git"})
            BY <5>1
          <6> QED BY <2>7, <4>1, <6>1, MixedIs DEF SameLocal
        <5> QED BY <2>7, <4>1, <5>1 DEF Moved
      <4> QED BY <2>8, <4>2 DEF LocalKnown, SameLocal
    <3> QED BY <3>1, <3>2, KnowsNext DEF KnowsList
  <2>12. plan[p] # NoTx => Owns(plan[p], "markerSync")'
    <3> SUFFICES ASSUME plan[p] # NoTx PROVE Owns(plan[p], "markerSync")'
      OBVIOUS
    <3>1. PICK mine \in Plans : mine = plan[p] /\ mine = plan'[p]
      BY <1>1 DEF Typed, others
    <3>2. Owns(mine, "markerSync")'
      BY <1>1, <2>8, <3>1, OwnsMoves, MoveStepsAre DEF others
    <3> QED BY <3>1, <3>2
  <2>13. ASSUME NEW t \in Seen' PROVE Shape(t)
    <3>1. CASE t \in Seen
      BY <1>1, <3>1, ActorIs
    <3>2. CASE \E s \in Seen : Mixed(t, s, {}, {"git"})
      <4>1. PICK s \in Seen : Mixed(t, s, {}, {"git"})
        BY <3>2
      <4>2. /\ s \in Files /\ s \in disk /\ Shape(s)
            /\ t.bundle = s.bundle /\ t.publish = s.publish /\ t.journal = s.journal
            /\ t.lock = lock /\ t.index = s.index /\ t.dst = s.dst /\ t.src = s.src
        BY <1>1, <2>7, <2>8, <4>1, ActorIs, MixedIs
      <4>3. s.bundle = vis.bundle /\ s.publish = vis.publish /\ s.journal = vis.journal
        BY <2>1, <4>2 DEF LocalKnown, SameLocal
      <4>4. BeforeShape(s)
        BY <2>2, <4>2, <4>3, BeforeIs
      <4>5. BeforeShape(t)
        BY <2>2, <2>3, <4>2, <4>3, <4>4 DEF BeforeShape, SourceLeft
      <4> QED BY <4>5 DEF Shape
    <3> QED BY <1>1, <2>7, <3>1, <3>2, SeenMoves
  <2>14. /\ "markerSync" \in Steps /\ "markerSync" \notin Unguarded
         /\ "markerSync" \notin PlanSteps /\ "markerSync" \in LockMoves
         /\ "markerMove" \notin LocalMoves /\ "markerMove" \notin LockMoves
    BY DEF Steps, Unguarded, PlanSteps, LocalMoves, LockMoves
  <2>15. UNCHANGED <<plan, born, runs, gits, edits, faults, kills, losses>>
    BY <1>1, <1>3 DEF others
  <2>16. \A s \in disk : s.bundle = vis.bundle
    BY <2>1 DEF LocalKnown, SameLocal
  <2> QED BY <1>1, <1>3, <2>7, <2>8, <2>9, <2>10, <2>11, <2>12, <2>13, <2>14, <2>15, <2>16,
             ChangeGoes
<1> QED BY <1>2, <1>3 DEF MoveMarker, Change

LEMMA MoveJournalStep == \A p \in Procs : IInv /\ MoveJournal(p) => IInv'
<1> SUFFICES ASSUME NEW p \in Procs, IInv, MoveJournal(p) PROVE IInv'
  OBVIOUS
<1> DEFINE tx == vis.bundle.tx
           before == {"local"} \cup SourceDirs(tx)
<1>1. /\ holder = p /\ pc[p] = "journal" /\ Here = "journal" /\ UNCHANGED others
      /\ Knows("journal") /\ vis \in disk /\ vis \in Files /\ Typed /\ SeenInv
      /\ plan[p] # NoTx => Owns(plan[p], "journal")
  BY ActorIs DEF MoveJournal, Holds
<1>2. CASE \E r \in Replies : Refuse(p, r)
  <2>1. PICK r \in Replies : Refuse(p, r)
    BY <1>2
  <2> QED BY <1>1, <2>1, Refuses, MoveStepsAre DEF Refuse, files, others
<1>3. CASE /\ Authorized(vis) /\ MarkerNoJournal(vis)
           /\ Goto(p, "journalSync") /\ UNCHANGED faults
           /\ vis' = [vis EXCEPT !.journal = A("journal", tx)]
           /\ disk' = Synced(disk, before)
                        \cup {[s EXCEPT !.journal = A("journal", tx)] :
                                s \in Synced(Synced(disk, before), {"local"})}
  <2>1. /\ vis.bundle.kind = "stable" /\ vis.journal = None /\ tx \in Transactions
        /\ vis.publish = tx /\ vis.bundle = A("stable", tx)
        /\ vis.lock = A("marker", tx) /\ vis.lock.kind = "marker"
        /\ vis.index = tx.old /\ tx.old.target = tx.conflict
    BY <1>1, <1>3, PartsAre, PlacedIs DEF MarkerNoJournal, Bound, Unmoved, Authorized
  <2>2. PICK journal : journal = A("journal", tx)
    OBVIOUS
  <2>3. journal \in Owned(JournalKinds) /\ journal.kind = "journal" /\ journal.tx = tx
    BY <2>1, <2>2, PlacedIs DEF JournalKinds
  <2>4. PICK G : G = [s \in Files |-> [s EXCEPT !.journal = journal]]
    OBVIOUS
  <2>5. \A s \in Files :
          /\ G[s] \in Files /\ G[s].journal = journal
          /\ G[s].bundle = s.bundle /\ G[s].publish = s.publish /\ G[s].lock = s.lock
          /\ G[s].index = s.index /\ G[s].dst = s.dst /\ G[s].src = s.src
    BY <2>3, <2>4 DEF Files, JournalKinds
  <2>6. Moved(before, {"local"})
    <3>1. vis' = G[vis]
      BY <1>1, <1>3, <2>2, <2>4
    <3>2. disk' = Synced(disk, before)
                    \cup {G[s] : s \in Synced(Synced(disk, before), {"local"})}
      <4>1. \A s \in Synced(Synced(disk, before), {"local"}) :
              s \in Files /\ G[s] = [s EXCEPT !.journal = A("journal", tx)]
        BY <1>1, <2>2, <2>4, SyncedIs DEF Typed
      <4> QED BY <1>3, <4>1
    <3>3. \A s \in Files : G[s] \in Files /\ Agree(G[s], s, AllDirs \ {"local"})
      BY <2>5 DEF Agree, SameGit
    <3>4. \A s \in Files : Agree(s, vis, {"local"}) => Agree(G[s], G[vis], {"local"})
      BY <1>1, <2>5 DEF Agree, SameLocal
    <3>5. {"local"} \in SUBSET AllDirs
      BY DEF AllDirs
    <3> QED BY <1>1, <3>1, <3>2, <3>3, <3>4, <3>5, ChangeMoves
  <2>7. /\ vis'.journal = journal /\ vis'.bundle = vis.bundle /\ vis'.publish = vis.publish
        /\ vis'.lock = vis.lock /\ vis'.index = vis.index
        /\ vis'.dst = vis.dst /\ vis'.src = vis.src
    BY <1>1, <1>3, <2>2 DEF Files
  <2>8. OwnedOK(vis)' /\ CountedOK(vis)'
    <3>1. OwnedOK(vis) /\ CountedOK(vis) /\ born' = born /\ gits' = gits
      BY <1>1, ActorIs DEF others
    <3> QED BY <2>1, <2>3, <2>7, <3>1, Keeps
        DEF OwnedOK, CountedOK, Sourced, Split, Absent, A
  <2>9. \A q \in Planned : Unused(q, vis)'
    <3>1. \A q \in Planned : Unused(q, vis)
      BY <1>1, ActorIs
    <3> QED BY <1>1, <2>1, <2>3, <2>7, <3>1 DEF Unused, others
  <2>10. Knows("journalSync")'
    <3>1. JournalReady(vis)'
      BY <2>1, <2>2, <2>7 DEF JournalReady, Bound, Unmoved, A
    <3> QED BY <3>1, KnowsNext DEF KnowsList
  <2>11. plan[p] # NoTx => Owns(plan[p], "journalSync")'
    <3> SUFFICES ASSUME plan[p] # NoTx PROVE Owns(plan[p], "journalSync")'
      OBVIOUS
    <3>1. PICK mine \in Plans : mine = plan[p] /\ mine = plan'[p]
      BY <1>1 DEF Typed, others
    <3>2. Owns(mine, "journalSync")'
      BY <1>1, <2>7, <3>1, OwnsMoves, MoveStepsAre DEF others
    <3> QED BY <3>1, <3>2
  <2>12. ASSUME NEW t \in Seen' PROVE Shape(t)
    <3>1. CASE t \in Seen
      BY <1>1, <3>1, ActorIs
    <3>2. CASE \E s \in Seen : Mixed(t, s, before, {"local"})
      <4>1. PICK s \in Seen : Mixed(t, s, before, {"local"})
        BY <3>2
      <4>2. /\ s \in Files /\ Shape(s)
            /\ s.bundle = vis.bundle /\ s.publish = vis.publish /\ s.journal = vis.journal
            /\ t.bundle = vis.bundle /\ t.publish = vis.publish /\ t.journal = journal
            /\ t.lock = s.lock /\ t.index = s.index /\ t.dst = s.dst /\ t.src = s.src
        BY <1>1, <2>6, <2>7, <4>1, ActorIs, MixedIs
      <4>3. BeforeShape(s)
        BY <2>1, <4>2, BeforeIs
      <4>4. s.lock = vis.lock /\ s.index = vis.index
        <5>1. ~Calmly(vis) /\ "journal" \notin LockMoves
          BY <2>1 DEF Calmly, LockMoves
        <5> QED BY <1>1, <5>1 DEF SeenInv, SameGit
      <4>5. JournalReady(t)
        BY <2>1, <2>2, <4>2, <4>4 DEF JournalReady, Bound, Unmoved
      <4>6. SourceLeft(t, t.bundle.tx)
        BY <4>2, <4>3 DEF BeforeShape, SourceLeft
      <4> QED BY <4>5, <4>6 DEF Shape, ReadyShape
    <3> QED BY <1>1, <2>6, <3>1, <3>2, SeenMoves
  <2>13. /\ "journalSync" \in Steps /\ "journalSync" \notin Unguarded
         /\ "journalSync" \notin PlanSteps /\ "journalSync" \in LocalMoves
         /\ "journal" \notin LocalMoves /\ "journal" \notin LockMoves
    BY DEF Steps, Unguarded, PlanSteps, LocalMoves, LockMoves
  <2>14. UNCHANGED <<plan, born, runs, gits, edits, faults, kills, losses>>
    BY <1>1, <1>3 DEF others
  <2> HIDE DEF before
  <2> QED BY <1>1, <1>3, <2>6, <2>7, <2>8, <2>9, <2>10, <2>11, <2>12, <2>13, <2>14, ChangeGoes
<1>4. CASE SyncFails(p, before)
  BY <1>1, <1>4, SyncFailsStep
<1>5. Unauthorized(vis) \in Replies
  BY MoveStepsAre DEF Unauthorized
<1> QED BY <1>2, <1>3, <1>4, <1>5, MoveStepsAre DEF MoveJournal, Change

\* While the marker is in the lock, every file that recovery may find is ready.
LEMMA ReadySeen ==
  ASSUME IInv, NEW p \in Procs, holder = p, JournalReady(vis),
         pc[p] \notin LocalMoves, pc[p] \notin LockMoves
  PROVE  \A s \in Seen :
           /\ SameLocal(s, vis) /\ SameGit(s, vis) /\ s \in Files
           /\ JournalReady(s) /\ ReadyShape(s)
<1>1. /\ SeenInv /\ Here = pc[p] /\ vis \in Files /\ vis \in disk
      /\ \A s \in Seen : Shape(s) /\ s \in Files
  BY ActorIs
<1>2. ~Calmly(vis)
  BY PlacedIs DEF JournalReady, Bound, Calmly
<1> SUFFICES ASSUME NEW s \in Seen
             PROVE  SameLocal(s, vis) /\ SameGit(s, vis) /\ JournalReady(s) /\ ReadyShape(s)
  BY <1>1
<1>3. SameLocal(s, vis) /\ SameGit(s, vis)
  BY <1>1, <1>2 DEF SeenInv
<1>4. JournalReady(s)
  BY <1>3 DEF SameLocal, SameGit, JournalReady, Bound, Unmoved
<1> QED BY <1>1, <1>3, <1>4, ReadyIs

LEMMA WriteWorktreeStep == \A p \in Procs : IInv /\ WriteWorktree(p) => IInv'
<1> SUFFICES ASSUME NEW p \in Procs, IInv, WriteWorktree(p) PROVE IInv'
  OBVIOUS
<1> DEFINE tx == vis.bundle.tx
           source == SourceDirs(tx)
<1>1. /\ holder = p /\ pc[p] = "worktree" /\ Here = "worktree" /\ UNCHANGED others
      /\ Knows("worktree") /\ vis \in disk /\ vis \in Files /\ Typed /\ SeenInv
      /\ plan[p] # NoTx => Owns(plan[p], "worktree")
  BY ActorIs DEF WriteWorktree, Holds
<1>2. JournalReady(vis)
  BY <1>1, KnowsIs DEF KnowsList
<1>3. CASE \E r \in Replies : Refuse(p, r)
  <2>1. PICK r \in Replies : Refuse(p, r)
    BY <1>3
  <2> QED BY <1>1, <2>1, Refuses, MoveStepsAre DEF Refuse, files, others
<1>4. CASE /\ WorktreeOriginal(vis, tx) /\ Goto(p, "worktreeSync") /\ UNCHANGED faults
           /\ vis' = [vis EXCEPT !.dst = tx.result]
           /\ disk' = Synced(disk, source)
                        \cup {[s EXCEPT !.dst = tx.result] :
                                s \in Synced(Synced(disk, source), {"dst"})}
  <2>1. /\ vis.bundle.kind = "stable" /\ tx \in Transactions /\ TxOK(tx)
        /\ tx.result \in Versions /\ tx.result \in Nat /\ tx.result <= born
        /\ tx.conflict.dst \in Nat /\ tx.conflict.dst < tx.result
    <3>1. vis.bundle.kind = "stable" /\ tx \in Transactions
      BY <1>1, <1>2, PartsAre DEF JournalReady, Bound
    <3>2. TxOK(tx)
      BY <1>1, <3>1, ActorIs DEF OwnedOK
    <3> QED BY <3>1, <3>2, TxIs, TargetIs DEF TxOK, PlanOK
  <2>2. PICK G : G = [s \in Files |-> [s EXCEPT !.dst = tx.result]]
    OBVIOUS
  <2>3. \A s \in Files :
          /\ G[s] \in Files /\ G[s].dst = tx.result
          /\ G[s].bundle = s.bundle /\ G[s].publish = s.publish /\ G[s].lock = s.lock
          /\ G[s].journal = s.journal /\ G[s].index = s.index /\ G[s].src = s.src
    BY <2>1, <2>2 DEF Files
  <2>4. Moved(source, {"dst"})
    <3>1. vis' = G[vis]
      BY <1>1, <1>4, <2>2
    <3>2. disk' = Synced(disk, source)
                    \cup {G[s] : s \in Synced(Synced(disk, source), {"dst"})}
      <4>1. \A s \in Synced(Synced(disk, source), {"dst"}) :
              s \in Files /\ G[s] = [s EXCEPT !.dst = tx.result]
        BY <1>1, <2>2, SyncedIs DEF Typed
      <4> QED BY <1>4, <4>1
    <3>3. \A s \in Files : G[s] \in Files /\ Agree(G[s], s, AllDirs \ {"dst"})
      BY <2>3 DEF Agree, SameGit, SameLocal
    <3>4. \A s \in Files : Agree(s, vis, {"dst"}) => Agree(G[s], G[vis], {"dst"})
      BY <1>1, <2>3 DEF Agree
    <3>5. {"dst"} \in SUBSET AllDirs
      BY DEF AllDirs
    <3> QED BY <1>1, <3>1, <3>2, <3>3, <3>4, <3>5, ChangeMoves
  <2>5. /\ vis'.dst = tx.result /\ vis'.bundle = vis.bundle /\ vis'.publish = vis.publish
        /\ vis'.journal = vis.journal /\ vis'.lock = vis.lock /\ vis'.index = vis.index
        /\ vis'.src = vis.src
    BY <1>1, <1>4 DEF Files
  <2>6. OwnedOK(vis)' /\ CountedOK(vis)'
    <3>1. OwnedOK(vis) /\ CountedOK(vis) /\ born' = born /\ gits' = gits
      BY <1>1, ActorIs DEF others
    <3> QED BY <2>1, <2>5, <3>1, Keeps DEF OwnedOK, CountedOK, Sourced, Split, Absent, A
  <2>7. \A q \in Planned : Unused(q, vis)'
    <3>1. \A q \in Planned : Unused(q, vis)
      BY <1>1, ActorIs
    <3> QED BY <1>1, <2>1, <2>5, <3>1 DEF Unused, others
  <2>8. Knows("worktreeSync")'
    <3>1. JournalReady(vis)' /\ (vis.dst = vis.bundle.tx.result)'
      BY <1>2, <2>5 DEF JournalReady, Bound, Unmoved, A
    <3> QED BY <3>1, KnowsNext DEF KnowsList
  <2>9. plan[p] # NoTx => Owns(plan[p], "worktreeSync")'
    <3> SUFFICES ASSUME plan[p] # NoTx PROVE Owns(plan[p], "worktreeSync")'
      OBVIOUS
    <3>1. PICK mine \in Plans : mine = plan[p] /\ mine = plan'[p]
      BY <1>1 DEF Typed, others
    <3>2. Owns(mine, "worktreeSync")'
      BY <1>1, <2>5, <3>1, OwnsMoves, MoveStepsAre DEF others
    <3> QED BY <3>1, <3>2
  <2>10. "worktree" \notin LocalMoves /\ "worktree" \notin LockMoves
    BY DEF LocalMoves, LockMoves
  <2>11. ASSUME NEW t \in Seen' PROVE Shape(t)
    <3>1. CASE t \in Seen
      BY <1>1, <3>1, ActorIs
    <3>2. CASE \E s \in Seen : Mixed(t, s, source, {"dst"})
      <4>1. PICK s \in Seen : Mixed(t, s, source, {"dst"})
        BY <3>2
      <4>2. /\ t.bundle = s.bundle /\ t.publish = s.publish /\ t.journal = s.journal
            /\ t.lock = s.lock /\ t.index = s.index /\ t.dst = tx.result
        BY <2>4, <2>5, <4>1, MixedIs
      <4>3. JournalReady(s) /\ s.bundle = vis.bundle
        BY <1>1, <1>2, <2>10, <4>1, ReadySeen DEF SameLocal
      <4>4. JournalReady(t)
        BY <4>2, <4>3 DEF JournalReady, Bound, Unmoved
      <4>5. t.dst # t.bundle.tx.conflict.dst
        BY <2>1, <4>2, <4>3
      <4> QED BY <4>4, <4>5 DEF Shape, ReadyShape
    <3> QED BY <1>1, <2>4, <3>1, <3>2, SeenMoves
  <2>12. /\ "worktreeSync" \in Steps /\ "worktreeSync" \notin Unguarded
         /\ "worktreeSync" \notin PlanSteps
    BY DEF Steps, Unguarded, PlanSteps
  <2>13. UNCHANGED <<plan, born, runs, gits, edits, faults, kills, losses>>
    BY <1>1, <1>4 DEF others
  <2> HIDE DEF source
  <2> QED BY <1>1, <1>4, <2>4, <2>5, <2>6, <2>7, <2>8, <2>9, <2>10, <2>11, <2>12, <2>13,
             ChangeGoes
<1>5. CASE /\ vis.dst = tx.result /\ Sync({"dst"} \cup source)
           /\ Goto(p, AfterWorktree(tx))
  <2>1. PICK step : step \in {"source", "publish"} /\ step = AfterWorktree(tx)
                    /\ Knows(step)
    BY <1>2, <1>5, AfterWorktreeIs
  <2>2. Goto(p, step) /\ step \in MiddleSteps
    BY <1>5, <2>1, MoveStepsAre
  <2> QED BY <1>1, <1>5, <2>1, <2>2, SyncProceeds, MoveStepsAre DEF others
<1>6. CASE SyncFails(p, {"dst"} \cup source)
  BY <1>1, <1>6, SyncFailsStep
<1>7. (IF Split(tx.conflict.kind) THEN "RecoveryConflict" ELSE "WorktreeChanged") \in Replies
  BY MoveStepsAre
<1> QED BY <1>3, <1>4, <1>5, <1>6, <1>7, MoveStepsAre DEF WriteWorktree, Change

LEMMA RemoveSourceStep == \A p \in Procs : IInv /\ RemoveSource(p) => IInv'
<1> SUFFICES ASSUME NEW p \in Procs, IInv, RemoveSource(p) PROVE IInv'
  OBVIOUS
<1> DEFINE tx == vis.bundle.tx
<1>1. /\ holder = p /\ pc[p] = "source" /\ Here = "source" /\ UNCHANGED others
      /\ Knows("source") /\ vis \in disk /\ vis \in Files /\ Typed /\ SeenInv
      /\ plan[p] # NoTx => Owns(plan[p], "source")
  BY ActorIs DEF RemoveSource, Holds
<1>2. JournalReady(vis) /\ vis.dst = tx.result /\ Split(tx.conflict.kind)
  BY <1>1, KnowsIs DEF KnowsList
<1>3. CASE Refuse(p, "RecoveryConflict")
  BY <1>1, <1>3, Refuses, MoveStepsAre DEF Refuse, files, others
<1>4. CASE /\ Goto(p, "sourceSync") /\ UNCHANGED faults
           /\ vis' = [vis EXCEPT !.src = Absent]
           /\ disk' = Synced(disk, {})
                        \cup {[s EXCEPT !.src = Absent] :
                                s \in Synced(Synced(disk, {}), {"src"})}
  <2>1. /\ vis.bundle.kind = "stable" /\ tx \in Transactions /\ TxOK(tx)
        /\ tx.result \in Nat /\ tx.conflict.dst \in Nat /\ tx.conflict.dst < tx.result
    <3>1. vis.bundle.kind = "stable" /\ tx \in Transactions
      BY <1>1, <1>2, PartsAre DEF JournalReady, Bound
    <3>2. TxOK(tx)
      BY <1>1, <3>1, ActorIs DEF OwnedOK
    <3> QED BY <3>1, <3>2, TxIs, TargetIs DEF TxOK, PlanOK
  <2>2. PICK G : G = [s \in Files |-> [s EXCEPT !.src = Absent]]
    OBVIOUS
  <2>3. \A s \in Files :
          /\ G[s] \in Files /\ G[s].src = Absent
          /\ G[s].bundle = s.bundle /\ G[s].publish = s.publish /\ G[s].lock = s.lock
          /\ G[s].journal = s.journal /\ G[s].index = s.index /\ G[s].dst = s.dst
    BY <2>2 DEF Files
  <2>4. Moved({}, {"src"})
    <3>1. vis' = G[vis]
      BY <1>1, <1>4, <2>2
    <3>2. disk' = Synced(disk, {}) \cup {G[s] : s \in Synced(Synced(disk, {}), {"src"})}
      <4>1. \A s \in Synced(Synced(disk, {}), {"src"}) :
              s \in Files /\ G[s] = [s EXCEPT !.src = Absent]
        BY <1>1, <2>2, SyncedIs DEF Typed
      <4> QED BY <1>4, <4>1
    <3>3. \A s \in Files : G[s] \in Files /\ Agree(G[s], s, AllDirs \ {"src"})
      BY <2>3 DEF Agree, SameGit, SameLocal
    <3>4. \A s \in Files : Agree(s, vis, {"src"}) => Agree(G[s], G[vis], {"src"})
      BY <1>1, <2>3 DEF Agree
    <3>5. {"src"} \in SUBSET AllDirs
      BY DEF AllDirs
    <3> QED BY <1>1, <3>1, <3>2, <3>3, <3>4, <3>5, ChangeMoves
  <2>5. /\ vis'.src = Absent /\ vis'.bundle = vis.bundle /\ vis'.publish = vis.publish
        /\ vis'.journal = vis.journal /\ vis'.lock = vis.lock /\ vis'.index = vis.index
        /\ vis'.dst = vis.dst /\ vis'.src # 2
    BY <1>1, <1>4 DEF Files, Absent
  <2>6. OwnedOK(vis)' /\ CountedOK(vis)'
    <3>1. OwnedOK(vis) /\ CountedOK(vis) /\ born' = born /\ gits' = gits
      BY <1>1, ActorIs DEF others
    <3>2. Absent <= born
      BY <1>1 DEF Typed, Absent
    <3> QED BY <2>5, <3>1, <3>2, Keeps DEF OwnedOK, CountedOK, Sourced, Split, Absent, A
  <2>7. \A q \in Planned : Unused(q, vis)'
    <3>1. \A q \in Planned : Unused(q, vis)
      BY <1>1, ActorIs
    <3> QED BY <1>1, <2>5, <3>1 DEF Unused, others
  <2>8. Knows("sourceSync")'
    <3>1. (/\ JournalReady(vis) /\ vis.dst = vis.bundle.tx.result
           /\ Split(vis.bundle.tx.conflict.kind) /\ vis.src = Absent)'
      BY <1>2, <2>5 DEF JournalReady, Bound, Unmoved, A, Split, Absent
    <3> QED BY <3>1, KnowsNext DEF KnowsList
  <2>9. plan[p] # NoTx => Owns(plan[p], "sourceSync")'
    <3> SUFFICES ASSUME plan[p] # NoTx PROVE Owns(plan[p], "sourceSync")'
      OBVIOUS
    <3>1. PICK mine \in Plans : mine = plan[p] /\ mine = plan'[p]
      BY <1>1 DEF Typed, others
    <3>2. Owns(mine, "sourceSync")'
      BY <1>1, <2>5, <3>1, OwnsMoves, MoveStepsAre DEF others
    <3> QED BY <3>1, <3>2
  <2>10. "source" \notin LocalMoves /\ "source" \notin LockMoves
    BY DEF LocalMoves, LockMoves
  <2>11. ASSUME NEW t \in Seen' PROVE Shape(t)
    <3>1. CASE t \in Seen
      BY <1>1, <3>1, ActorIs
    <3>2. CASE \E s \in Seen : Mixed(t, s, {}, {"src"})
      <4>1. PICK s \in Seen : Mixed(t, s, {}, {"src"})
        BY <3>2
      <4>2. /\ t.bundle = s.bundle /\ t.publish = s.publish /\ t.journal = s.journal
            /\ t.lock = s.lock /\ t.index = s.index /\ t.dst = s.dst
        BY <2>4, <2>5, <4>1, MixedIs
      <4>3. JournalReady(s) /\ s.bundle = vis.bundle /\ s.dst = vis.dst
        BY <1>1, <1>2, <2>10, <4>1, ReadySeen DEF SameLocal, SeenInv
      <4>4. JournalReady(t)
        BY <4>2, <4>3 DEF JournalReady, Bound, Unmoved
      <4>5. t.dst # t.bundle.tx.conflict.dst
        BY <1>2, <2>1, <4>2, <4>3
      <4> QED BY <4>4, <4>5 DEF Shape, ReadyShape
    <3> QED BY <1>1, <2>4, <3>1, <3>2, SeenMoves
  <2>12. /\ "sourceSync" \in Steps /\ "sourceSync" \notin Unguarded
         /\ "sourceSync" \notin PlanSteps
    BY DEF Steps, Unguarded, PlanSteps
  <2>13. UNCHANGED <<plan, born, runs, gits, edits, faults, kills, losses>>
    BY <1>1, <1>4 DEF others
  <2> QED BY <1>1, <1>4, <2>4, <2>5, <2>6, <2>7, <2>8, <2>9, <2>10, <2>11, <2>12, <2>13,
             ChangeGoes
<1>5. CASE vis.src = Absent /\ Sync({"src"}) /\ Goto(p, "publish")
  <2>1. Knows("publish")
    BY <1>2, <1>5, KnowsIs DEF KnowsList
  <2> QED BY <1>1, <1>5, <2>1, SyncProceeds, MoveStepsAre DEF others
<1>6. CASE SyncFails(p, {"src"})
  BY <1>1, <1>6, SyncFailsStep
<1> QED BY <1>3, <1>4, <1>5, <1>6 DEF RemoveSource, Change

\* What a final worktree has in every directory that was synchronized.
LEMMA FinalTree ==
  ASSUME NEW tx \in Transactions, TxOK(tx), WorktreeFinal(vis, tx), NEW s,
         Agree(s, vis, WorktreeDirs(tx))
  PROVE  s.dst = tx.result /\ s.dst # tx.conflict.dst /\ SourceGone(s, tx)
<1>1. "dst" \in WorktreeDirs(tx) /\ (tx.conflict.kind # "inPlace" => "src" \in WorktreeDirs(tx))
  BY DEF WorktreeDirs
<1>2. s.dst = vis.dst /\ (tx.conflict.kind # "inPlace" => s.src = vis.src)
  BY <1>1 DEF Agree
<1>3. tx.result \in Nat /\ tx.conflict.dst \in Nat /\ tx.conflict.dst < tx.result
  BY TxIs, TargetIs DEF TxOK, PlanOK
<1> QED BY <1>2, <1>3 DEF WorktreeFinal, SourceIs, SourceGone

LEMMA PublishStagingStep == \A p \in Procs : IInv /\ PublishStaging(p) => IInv'
<1> SUFFICES ASSUME NEW p \in Procs, IInv, PublishStaging(p) PROVE IInv'
  OBVIOUS
<1> DEFINE tx == vis.bundle.tx
           before == WorktreeDirs(tx)
<1>1. /\ holder = p /\ pc[p] = "publish" /\ Here = "publish" /\ UNCHANGED others
      /\ Knows("publish") /\ vis \in disk /\ vis \in Files /\ Typed /\ SeenInv
      /\ plan[p] # NoTx => Owns(plan[p], "publish")
  BY ActorIs DEF PublishStaging, Holds
<1>2. JournalReady(vis) /\ vis.dst = tx.result
  BY <1>1, KnowsIs DEF KnowsList
<1>3. CASE \E r \in Replies : Refuse(p, r)
  <2>1. PICK r \in Replies : Refuse(p, r)
    BY <1>3
  <2> QED BY <1>1, <2>1, Refuses, MoveStepsAre DEF Refuse, files, others
<1>4. CASE /\ WorktreeFinal(vis, tx) /\ Goto(p, "publishSync") /\ UNCHANGED faults
           /\ vis' = [vis EXCEPT !.publish = NoTx, !.lock = A("candidate", tx)]
           /\ disk' = Synced(disk, before)
                        \cup {[s EXCEPT !.publish = NoTx, !.lock = A("candidate", tx)] :
                                s \in Synced(Synced(disk, before), {"local", "git"})}
  <2>1. /\ vis.bundle.kind = "stable" /\ tx \in Transactions /\ TxOK(tx)
        /\ vis.bundle = A("stable", tx) /\ vis.journal = A("journal", tx)
        /\ vis.index = tx.old
    <3>1. /\ vis.bundle.kind = "stable" /\ tx \in Transactions
          /\ vis.bundle = A("stable", tx) /\ vis.journal = A("journal", tx)
          /\ vis.index = tx.old
      BY <1>1, <1>2, PartsAre DEF JournalReady, Bound, Unmoved
    <3>2. TxOK(tx)
      BY <1>1, <3>1, ActorIs DEF OwnedOK
    <3> QED BY <3>1, <3>2
  <2>2. PICK lock : lock = A("candidate", tx)
    OBVIOUS
  <2>3. lock \in Owned(LockKinds) /\ lock.kind = "candidate" /\ lock.tx = tx
    BY <2>1, <2>2, PlacedIs DEF LockKinds
  <2>4. PICK G : G = [s \in Files |-> [s EXCEPT !.publish = NoTx, !.lock = lock]]
    OBVIOUS
  <2>5. \A s \in Files :
          /\ G[s] \in Files /\ G[s].publish = NoTx /\ G[s].lock = lock
          /\ G[s].bundle = s.bundle /\ G[s].journal = s.journal /\ G[s].index = s.index
          /\ G[s].dst = s.dst /\ G[s].src = s.src
    BY <2>3, <2>4 DEF Files, LockKinds
  <2>6. Moved(before, {"local", "git"})
    <3>1. vis' = G[vis]
      BY <1>1, <1>4, <2>2, <2>4
    <3>2. disk' = Synced(disk, before)
                    \cup {G[s] : s \in Synced(Synced(disk, before), {"local", "git"})}
      <4>1. \A s \in Synced(Synced(disk, before), {"local", "git"}) :
              s \in Files /\ G[s] = [s EXCEPT !.publish = NoTx, !.lock = A("candidate", tx)]
        BY <1>1, <2>2, <2>4, SyncedIs DEF Typed
      <4> QED BY <1>4, <4>1
    <3>3. \A s \in Files : G[s] \in Files /\ Agree(G[s], s, AllDirs \ {"local", "git"})
      BY <2>5 DEF Agree
    <3>4. \A s \in Files : Agree(s, vis, {"local", "git"}) =>
                             Agree(G[s], G[vis], {"local", "git"})
      BY <1>1, <2>5 DEF Agree, SameLocal, SameGit
    <3>5. {"local", "git"} \in SUBSET AllDirs
      BY DEF AllDirs
    <3> QED BY <1>1, <3>1, <3>2, <3>3, <3>4, <3>5, ChangeMoves
  <2>7. /\ vis'.publish = NoTx /\ vis'.lock = lock /\ vis'.bundle = vis.bundle
        /\ vis'.journal = vis.journal /\ vis'.index = vis.index
        /\ vis'.dst = vis.dst /\ vis'.src = vis.src
    BY <1>1, <1>4, <2>2 DEF Files
  <2>8. OwnedOK(vis)' /\ CountedOK(vis)'
    <3>1. OwnedOK(vis) /\ CountedOK(vis) /\ born' = born /\ gits' = gits
      BY <1>1, ActorIs DEF others
    <3> QED BY <2>1, <2>3, <2>7, <3>1, Keeps
        DEF OwnedOK, CountedOK, Sourced, Split, Absent, A
  <2>9. \A q \in Planned : Unused(q, vis)'
    <3>1. \A q \in Planned : Unused(q, vis)
      BY <1>1, ActorIs
    <3> QED BY <1>1, <2>7, <3>1 DEF Unused, others
  <2>10. Knows("publishSync")'
    <3>1. CandidateInLock(vis)'
      BY <2>1, <2>2, <2>7 DEF CandidateInLock, Bound, Unmoved, A
    <3> QED BY <3>1, KnowsNext DEF KnowsList
  <2>11. plan[p] # NoTx => Owns(plan[p], "publishSync")'
    <3> SUFFICES ASSUME plan[p] # NoTx PROVE Owns(plan[p], "publishSync")'
      OBVIOUS
    <3>1. PICK mine \in Plans : mine = plan[p] /\ mine = plan'[p]
      BY <1>1 DEF Typed, others
    <3>2. Owns(mine, "publishSync")'
      BY <1>1, <2>7, <3>1, OwnsMoves, MoveStepsAre DEF others
    <3> QED BY <3>1, <3>2
  <2>12. ASSUME NEW t \in Seen' PROVE Shape(t)
    <3>1. CASE t \in Seen
      BY <1>1, <3>1, ActorIs
    <3>2. CASE \E s \in Seen : Mixed(t, s, before, {"local", "git"})
      <4>1. PICK s \in Seen : Mixed(t, s, before, {"local", "git"})
        BY <3>2
      <4>2. /\ t.bundle = vis.bundle /\ t.publish = NoTx /\ t.journal = vis.journal
            /\ t.lock = lock /\ t.index = vis.index /\ t.dst = s.dst /\ t.src = s.src
        BY <2>6, <2>7, <4>1, MixedIs
      <4>3. Agree(s, vis, WorktreeDirs(tx))
        BY <4>1 DEF Mixed
      <4>4. s.dst # tx.conflict.dst /\ SourceGone(s, tx)
        BY <1>4, <2>1, <4>3, FinalTree
      <4>5. CandidateInLock(t)
        BY <2>1, <2>2, <4>2 DEF CandidateInLock, Bound, Unmoved
      <4>6. t.dst # t.bundle.tx.conflict.dst /\ SourceGone(t, t.bundle.tx)
        BY <4>2, <4>4 DEF SourceGone
      <4> QED BY <4>5, <4>6 DEF Shape, CandidateShape
    <3> QED BY <1>1, <2>6, <3>1, <3>2, SeenMoves
  <2>13. /\ "publishSync" \in Steps /\ "publishSync" \notin Unguarded
         /\ "publishSync" \notin PlanSteps
         /\ "publishSync" \in LocalMoves /\ "publishSync" \in LockMoves
         /\ "publish" \notin LocalMoves /\ "publish" \notin LockMoves
    BY DEF Steps, Unguarded, PlanSteps, LocalMoves, LockMoves
  <2>14. UNCHANGED <<plan, born, runs, gits, edits, faults, kills, losses>>
    BY <1>1, <1>4 DEF others
  <2> HIDE DEF before
  <2>15. PICK dirs : dirs = {"local", "git"}
    OBVIOUS
  <2>16. /\ Moved(before, dirs) /\ "local" \in dirs /\ "git" \in dirs
         /\ "dst" \notin dirs /\ "src" \notin dirs
    BY <2>6, <2>15
  <2> HIDE <2>15
  <2> QED BY <1>1, <1>4, <2>7, <2>8, <2>9, <2>10, <2>11, <2>12, <2>13, <2>14, <2>16,
             ChangeGoes
<1>5. CASE SyncFails(p, before)
  BY <1>1, <1>5, SyncFailsStep
<1> QED BY <1>3, <1>4, <1>5, MoveStepsAre DEF PublishStaging, Change

LEMMA InstallIndexStep == \A p \in Procs : IInv /\ InstallIndex(p) => IInv'
<1> SUFFICES ASSUME NEW p \in Procs, IInv, InstallIndex(p) PROVE IInv'
  OBVIOUS
<1> DEFINE tx == vis.bundle.tx
           before == WorktreeDirs(tx)
<1>1. /\ holder = p /\ pc[p] = "install" /\ Here = "install" /\ UNCHANGED others
      /\ Knows("install") /\ vis \in disk /\ vis \in Files /\ Typed /\ SeenInv
      /\ plan[p] # NoTx => Owns(plan[p], "install")
  BY ActorIs DEF InstallIndex, Holds
<1>2. CandidateInLock(vis)
  BY <1>1, KnowsIs DEF KnowsList
<1>3. CASE \E r \in Replies : Refuse(p, r)
  <2>1. PICK r \in Replies : Refuse(p, r)
    BY <1>3
  <2> QED BY <1>1, <2>1, Refuses, MoveStepsAre DEF Refuse, files, others
<1>4. CASE /\ WorktreeFinal(vis, tx) /\ Goto(p, "installSync") /\ UNCHANGED faults
           /\ vis' = [vis EXCEPT !.index = FinalIndex(tx), !.lock = None]
           /\ disk' = Synced(disk, before)
                        \cup {[s EXCEPT !.index = FinalIndex(tx), !.lock = None] :
                                s \in Synced(Synced(disk, before), {"git"})}
  <2>1. /\ vis.bundle.kind = "stable" /\ tx \in Transactions /\ TxOK(tx)
        /\ vis.bundle = A("stable", tx) /\ vis.journal = A("journal", tx)
        /\ vis.publish = NoTx
    <3>1. /\ vis.bundle.kind = "stable" /\ tx \in Transactions
          /\ vis.bundle = A("stable", tx) /\ vis.journal = A("journal", tx)
          /\ vis.publish = NoTx
      BY <1>1, <1>2, PartsAre DEF CandidateInLock, Bound
    <3>2. TxOK(tx)
      BY <1>1, <3>1, ActorIs DEF OwnedOK
    <3> QED BY <3>1, <3>2
  <2>2. PICK final, none : final = FinalIndex(tx) /\ none = None
    OBVIOUS
  <2>3. /\ final \in Indexes /\ final.target.kind = "merged" /\ final.target.src = Absent
        /\ final.target.dst = tx.result /\ final.rest = tx.old.rest
        /\ none \in Owned(LockKinds) /\ none.kind = "none"
    BY <2>1, <2>2, FinalIs, PlacedIs
  <2>4. PICK G : G = [s \in Files |-> [s EXCEPT !.index = final, !.lock = none]]
    OBVIOUS
  <2>5. \A s \in Files :
          /\ G[s] \in Files /\ G[s].index = final /\ G[s].lock = none
          /\ G[s].bundle = s.bundle /\ G[s].journal = s.journal /\ G[s].publish = s.publish
          /\ G[s].dst = s.dst /\ G[s].src = s.src
    BY <2>3, <2>4 DEF Files, LockKinds
  <2>6. Moved(before, {"git"})
    <3>1. vis' = G[vis]
      BY <1>1, <1>4, <2>2, <2>4
    <3>2. disk' = Synced(disk, before)
                    \cup {G[s] : s \in Synced(Synced(disk, before), {"git"})}
      <4>1. \A s \in Files : G[s] = [s EXCEPT !.index = final, !.lock = none]
        BY <2>4
      <4>2. Synced(Synced(disk, before), {"git"}) \subseteq Files
        BY <1>1, SyncedIs DEF Typed
      <4>3. disk' = Synced(disk, before)
                      \cup {[s EXCEPT !.index = final, !.lock = none] :
                              s \in Synced(Synced(disk, before), {"git"})}
        BY <1>4, <2>2
      <4> QED BY <4>1, <4>2, <4>3
    <3>3. \A s \in Files : G[s] \in Files /\ Agree(G[s], s, AllDirs \ {"git"})
      BY <2>5 DEF Agree, SameLocal
    <3>4. \A s \in Files : Agree(s, vis, {"git"}) => Agree(G[s], G[vis], {"git"})
      BY <1>1, <2>5 DEF Agree, SameGit
    <3>5. {"git"} \in SUBSET AllDirs
      BY DEF AllDirs
    <3> QED BY <1>1, <3>1, <3>2, <3>3, <3>4, <3>5, ChangeMoves
  <2>7. /\ vis'.index = final /\ vis'.lock = none /\ vis'.bundle = vis.bundle
        /\ vis'.journal = vis.journal /\ vis'.publish = vis.publish
        /\ vis'.dst = vis.dst /\ vis'.src = vis.src
    BY <1>1, <1>4, <2>2 DEF Files
  <2>8. OwnedOK(vis)' /\ CountedOK(vis)'
    <3>1. OwnedOK(vis) /\ CountedOK(vis) /\ born' = born /\ gits' = gits
      BY <1>1, ActorIs DEF others
    <3>2. tx.result <= born /\ tx.old.rest <= gits
      BY <2>1 DEF TxOK, PlanOK
    <3>3. OwnedOK(vis)'
      BY <2>1, <2>3, <2>7, <3>1, Keeps DEF OwnedOK
    <3>4. Sourced(final.target)
      BY <2>3 DEF Split, Sourced, Absent
    <3> QED BY <2>3, <2>7, <3>1, <3>2, <3>3, <3>4 DEF CountedOK, Sourced, Split, Absent
  <2>9. \A q \in Planned : Unused(q, vis)'
    <3>1. \A q \in Planned : Unused(q, vis)
      BY <1>1, ActorIs
    <3> QED BY <1>1, <2>1, <2>3, <2>7, <3>1 DEF Unused, others
  <2>10. Knows("installSync")'
    <3>1. After'
      BY <2>1, <2>2, <2>3, <2>7 DEF After, Calmly, A
    <3> QED BY <3>1, KnowsNext DEF KnowsList
  <2>11. plan[p] # NoTx => Owns(plan[p], "installSync")'
    <3> SUFFICES ASSUME plan[p] # NoTx PROVE Owns(plan[p], "installSync")'
      OBVIOUS
    <3>1. PICK mine \in Plans : mine = plan[p] /\ mine = plan'[p]
      BY <1>1 DEF Typed, others
    <3>2. Owns(mine, "installSync")'
      BY <1>1, <2>7, <3>1, OwnsMoves, MoveStepsAre DEF others
    <3> QED BY <3>1, <3>2
  <2>12. ASSUME NEW t \in Seen' PROVE Shape(t)
    <3>1. CASE t \in Seen
      BY <1>1, <3>1, ActorIs
    <3>2. CASE \E s \in Seen : Mixed(t, s, before, {"git"})
      <4>1. PICK s \in Seen : Mixed(t, s, before, {"git"})
        BY <3>2
      <4>2. /\ t.bundle = s.bundle /\ t.publish = s.publish /\ t.journal = s.journal
            /\ t.lock = none /\ t.index = final /\ t.dst = s.dst /\ t.src = s.src
        BY <2>6, <2>7, <4>1, MixedIs
      <4>3. s.bundle = vis.bundle /\ s.publish = vis.publish /\ s.journal = vis.journal
        BY <1>1 DEF SeenInv, SameLocal, LocalMoves
      <4>4. Agree(s, vis, WorktreeDirs(tx))
        BY <4>1 DEF Mixed
      <4>5. s.dst # tx.conflict.dst /\ SourceGone(s, tx)
        BY <1>4, <2>1, <4>4, FinalTree
      <4>6. InstalledShape(t)
        BY <2>1, <2>2, <2>3, <4>2, <4>3, <4>5
           DEF InstalledShape, Calmly, ResultStaged, SourceGone
      <4> QED BY <4>6 DEF Shape
    <3> QED BY <1>1, <2>6, <3>1, <3>2, SeenMoves
  <2>13. /\ "installSync" \in Steps /\ "installSync" \notin Unguarded
         /\ "installSync" \notin PlanSteps
         /\ "install" \notin LocalMoves /\ "install" \notin LockMoves
    BY DEF Steps, Unguarded, PlanSteps, LocalMoves, LockMoves
  <2>14. UNCHANGED <<plan, born, runs, gits, edits, faults, kills, losses>>
    BY <1>1, <1>4 DEF others
  <2>15. Calmly(vis') /\ vis'.lock.kind \notin {"marker", "candidate"}
    BY <2>3, <2>7 DEF Calmly
  <2> HIDE DEF before
  <2> QED BY <1>1, <1>4, <2>6, <2>7, <2>8, <2>9, <2>10, <2>11, <2>12, <2>13, <2>14, <2>15,
             ChangeGoes
<1>5. CASE SyncFails(p, before)
  BY <1>1, <1>5, SyncFailsStep
<1> QED BY <1>3, <1>4, <1>5, MoveStepsAre DEF InstallIndex, Change

\* One edge of the chain: what it starts from and what it leaves.
LEMMA EdgeIs ==
  ASSUME NEW v \in Files, NEW i \in 1 .. 6, Retiring(v, i), NEW tx, tx = v.journal.tx,
         NEW bundle, NEW journal,
         bundle = Place(Chain[i + 1][1], tx), journal = Place(Chain[i + 1][2], tx)
  PROVE  /\ tx \in Transactions /\ v.publish = NoTx
         /\ bundle \in Owned(BundleKinds) /\ journal \in Owned(JournalKinds)
         /\ bundle.kind # "stable" /\ (bundle.kind # "none" => bundle.tx = tx)
         /\ v.journal.kind # "none" /\ (journal.kind # "none" => journal.tx = tx)
         /\ i = 1 =>
              /\ v.bundle = A("stable", tx) /\ v.lock = None /\ v.journal.kind = "journal"
              /\ bundle = A("full", tx) /\ journal = A("journal", tx)
              /\ Chain[i][2] = "journal"
         /\ i # 1 => v.bundle.kind # "stable"
         /\ \/ bundle.kind = "full" \/ journal.kind = "receipt"
            \/ bundle = None /\ journal = None
         /\ \A t \in Files :
              i # 1 /\ t.publish = NoTx /\ t.bundle = bundle /\ t.journal = journal =>
                \E j \in 3 .. 7 : Retiring(t, j)
<1>1. /\ Chain[1] = <<"stable", "journal">> /\ Chain[2] = <<"full", "journal">>
      /\ Chain[3] = <<"full", "receipt">> /\ Chain[4] = <<"manifest", "receipt">>
      /\ Chain[5] = <<"empty", "receipt">> /\ Chain[6] = <<"none", "receipt">>
      /\ Chain[7] = <<"none", "none">>
  BY DEF Chain
<1>2. /\ Place("none", tx) = None /\ Place("full", tx) = A("full", tx)
      /\ Place("manifest", tx) = A("manifest", tx) /\ Place("empty", tx) = A("empty", tx)
      /\ Place("journal", tx) = A("journal", tx) /\ Place("receipt", tx) = A("receipt", tx)
  BY DEF Place
<1>3. /\ None.kind = "none" /\ \A k, ux : A(k, ux).kind = k /\ A(k, ux).tx = ux
      /\ \A kinds : None \in Owned(kinds)
      /\ \A kinds, k, ux : k \in kinds /\ ux \in Transactions => A(k, ux) \in Owned(kinds)
  BY PlacedIs
<1>4. v.journal.kind # "none" => v.journal.tx \in Transactions
  BY PartsAre
<1>5. CASE i = 1
  <2>1. Retiring(v, 1) /\ bundle = A("full", tx) /\ journal = A("journal", tx)
    BY <1>1, <1>2, <1>5
  <2>2. /\ v.publish = NoTx /\ v.journal.kind = "journal"
        /\ v.bundle = A("stable", tx) /\ v.lock = None
    BY <2>1, RetiringIs
  <2> QED BY <1>1, <1>3, <1>4, <1>5, <2>1, <2>2 DEF BundleKinds, JournalKinds
<1>6. CASE i = 2
  <2>1. Retiring(v, 2) /\ bundle = A("full", tx) /\ journal = A("receipt", tx)
    BY <1>1, <1>2, <1>6
  <2>2. v.publish = NoTx /\ v.journal.kind = "journal" /\ v.bundle.kind = "full"
    BY <1>3, <2>1, RetiringIs
  <2>3. \A t \in Files : t.publish = NoTx /\ t.bundle = bundle /\ t.journal = journal =>
                           Retiring(t, 3)
    BY <1>3, <2>1, RetiringIs
  <2> QED BY <1>3, <1>4, <1>6, <2>1, <2>2, <2>3 DEF BundleKinds, JournalKinds
<1>7. CASE i = 3
  <2>1. Retiring(v, 3) /\ bundle = A("manifest", tx) /\ journal = A("receipt", tx)
    BY <1>1, <1>2, <1>7
  <2>2. v.publish = NoTx /\ v.journal.kind = "receipt" /\ v.bundle.kind = "full"
    BY <1>3, <2>1, RetiringIs
  <2>3. \A t \in Files : t.publish = NoTx /\ t.bundle = bundle /\ t.journal = journal =>
                           Retiring(t, 4)
    BY <1>3, <2>1, RetiringIs
  <2> QED BY <1>3, <1>4, <1>7, <2>1, <2>2, <2>3 DEF BundleKinds, JournalKinds
<1>8. CASE i = 4
  <2>1. Retiring(v, 4) /\ bundle = A("empty", tx) /\ journal = A("receipt", tx)
    BY <1>1, <1>2, <1>8
  <2>2. v.publish = NoTx /\ v.journal.kind = "receipt" /\ v.bundle.kind = "manifest"
    BY <1>3, <2>1, RetiringIs
  <2>3. \A t \in Files : t.publish = NoTx /\ t.bundle = bundle /\ t.journal = journal =>
                           Retiring(t, 5)
    BY <1>3, <2>1, RetiringIs
  <2> QED BY <1>3, <1>4, <1>8, <2>1, <2>2, <2>3 DEF BundleKinds, JournalKinds
<1>9. CASE i = 5
  <2>1. Retiring(v, 5) /\ bundle = None /\ journal = A("receipt", tx)
    BY <1>1, <1>2, <1>9
  <2>2. v.publish = NoTx /\ v.journal.kind = "receipt" /\ v.bundle.kind = "empty"
    BY <1>3, <2>1, RetiringIs
  <2>3. \A t \in Files : t.publish = NoTx /\ t.bundle = bundle /\ t.journal = journal =>
                           Retiring(t, 6)
    BY <1>3, <2>1, RetiringIs
  <2> QED BY <1>3, <1>4, <1>9, <2>1, <2>2, <2>3 DEF BundleKinds, JournalKinds
<1>10. CASE i = 6
  <2>1. Retiring(v, 6) /\ bundle = None /\ journal = None
    BY <1>1, <1>2, <1>10
  <2>2. v.publish = NoTx /\ v.journal.kind = "receipt" /\ v.bundle = None
    BY <2>1, RetiringIs
  <2>3. \A t \in Files : t.publish = NoTx /\ t.bundle = bundle /\ t.journal = journal =>
                           Retiring(t, 7)
    BY <1>3, <2>1, RetiringIs DEF Clean
  <2> QED BY <1>3, <1>4, <1>10, <2>1, <2>2, <2>3 DEF BundleKinds, JournalKinds
<1> QED BY <1>5, <1>6, <1>7, <1>8, <1>9, <1>10

LEMMA CleanupEdgeStep == \A p \in Procs : IInv /\ CleanupEdge(p) => IInv'
<1> SUFFICES ASSUME NEW p \in Procs, IInv, CleanupEdge(p) PROVE IInv'
  OBVIOUS
<1> DEFINE tx == vis.journal.tx
           before == {"local"} \cup (IF vis.journal.kind = "journal"
                                     THEN WorktreeDirs(tx) \cup {"git"} ELSE {})
<1>1. /\ holder = p /\ pc[p] = "cleanup" /\ Here = "cleanup" /\ UNCHANGED others
      /\ vis \in disk /\ vis \in Files /\ Typed
      /\ plan[p] # NoTx => Owns(plan[p], "cleanup")
  BY ActorIs DEF CleanupEdge, Holds
<1>2. CASE Refuse(p, "RecoveryConflict")
  <2>1. Here \notin LocalMoves /\ Here \notin LockMoves /\ Here # "installSync"
    BY <1>1 DEF LocalMoves, LockMoves
  <2> QED BY <1>1, <1>2, <2>1, Refuses, MoveStepsAre DEF Refuse, files, others
<1>3. ASSUME NEW i \in 1 .. 6, Retiring(vis, i),
             Chain[i][2] = "journal" => Confirmed(vis, tx),
             Goto(p, "cleanupSync"), UNCHANGED faults,
             vis' = [vis EXCEPT !.bundle = Place(Chain[i + 1][1], tx),
                                !.journal = Place(Chain[i + 1][2], tx)],
             disk' = Synced(disk, before)
                       \cup {[s EXCEPT !.bundle = Place(Chain[i + 1][1], tx),
                                       !.journal = Place(Chain[i + 1][2], tx)] :
                               s \in Synced(Synced(disk, before), {"local"})}
      PROVE  IInv'
  <2>1. PICK bundle, journal, ux : /\ bundle = Place(Chain[i + 1][1], tx)
                                   /\ journal = Place(Chain[i + 1][2], tx)
                                   /\ ux = tx
    OBVIOUS
  <2>2. /\ ux \in Transactions /\ vis.publish = NoTx
        /\ bundle \in Owned(BundleKinds) /\ journal \in Owned(JournalKinds)
        /\ bundle.kind # "stable" /\ (bundle.kind # "none" => bundle.tx = ux)
        /\ vis.journal.kind # "none" /\ (journal.kind # "none" => journal.tx = ux)
        /\ i = 1 =>
             /\ vis.bundle = A("stable", ux) /\ vis.lock = None
             /\ vis.journal.kind = "journal"
             /\ bundle = A("full", ux) /\ journal = A("journal", ux)
             /\ Chain[i][2] = "journal"
        /\ i # 1 => vis.bundle.kind # "stable"
        /\ \/ bundle.kind = "full" \/ journal.kind = "receipt"
           \/ bundle = None /\ journal = None
        /\ \A t \in Files :
             i # 1 /\ t.publish = NoTx /\ t.bundle = bundle /\ t.journal = journal =>
               \E j \in 3 .. 7 : Retiring(t, j)
    <3>1. /\ vis \in Files /\ Retiring(vis, i) /\ ux = vis.journal.tx
          /\ bundle = Place(Chain[i + 1][1], ux) /\ journal = Place(Chain[i + 1][2], ux)
      BY <1>1, <1>3, <2>1
    <3> HIDE DEF tx
    <3> QED BY <3>1, EdgeIs
  <2>3. PICK G : G = [s \in Files |-> [s EXCEPT !.bundle = bundle, !.journal = journal]]
    OBVIOUS
  <2>4. \A s \in Files :
          /\ G[s] \in Files /\ G[s].bundle = bundle /\ G[s].journal = journal
          /\ G[s].publish = s.publish /\ G[s].lock = s.lock /\ G[s].index = s.index
          /\ G[s].dst = s.dst /\ G[s].src = s.src
    BY <2>2, <2>3 DEF Files, BundleKinds, JournalKinds
  <2>5. Moved(before, {"local"})
    <3>1. vis' = G[vis]
      BY <1>1, <1>3, <2>1, <2>3
    <3>2. disk' = Synced(disk, before)
                    \cup {G[s] : s \in Synced(Synced(disk, before), {"local"})}
      <4>1. \A s \in Files : G[s] = [s EXCEPT !.bundle = bundle, !.journal = journal]
        BY <2>3
      <4>2. Synced(Synced(disk, before), {"local"}) \subseteq Files
        BY <1>1, SyncedIs DEF Typed
      <4>3. disk' = Synced(disk, before)
                      \cup {[s EXCEPT !.bundle = bundle, !.journal = journal] :
                              s \in Synced(Synced(disk, before), {"local"})}
        BY <1>3, <2>1
      <4> HIDE DEF before
      <4>4. {[s EXCEPT !.bundle = bundle, !.journal = journal] :
               s \in Synced(Synced(disk, before), {"local"})}
              = {G[s] : s \in Synced(Synced(disk, before), {"local"})}
        BY <4>1, <4>2
      <4> QED BY <4>3, <4>4
    <3>3. \A s \in Files : G[s] \in Files /\ Agree(G[s], s, AllDirs \ {"local"})
      BY <2>4 DEF Agree, SameGit
    <3>4. \A s \in Files : Agree(s, vis, {"local"}) => Agree(G[s], G[vis], {"local"})
      BY <1>1, <2>4 DEF Agree, SameLocal
    <3>5. {"local"} \in SUBSET AllDirs
      BY DEF AllDirs
    <3> QED BY <1>1, <3>1, <3>2, <3>3, <3>4, <3>5, ChangeMoves
  <2>6. /\ vis'.bundle = bundle /\ vis'.journal = journal /\ vis'.publish = vis.publish
        /\ vis'.lock = vis.lock /\ vis'.index = vis.index
        /\ vis'.dst = vis.dst /\ vis'.src = vis.src
    BY <1>1, <1>3, <2>1 DEF Files
  <2>7. /\ OwnedOK(vis) /\ CountedOK(vis) /\ born' = born /\ gits' = gits
        /\ TxOK(ux) /\ ux.old.target = ux.conflict
    <3>1. OwnedOK(vis) /\ CountedOK(vis) /\ born' = born /\ gits' = gits
      BY <1>1, ActorIs DEF others
    <3> QED BY <2>1, <2>2, <3>1 DEF OwnedOK
  <2>8. \A s \in disk :
          Agree(s, vis, before) /\ Agree(s, vis, {"local"}) =>
            s.lock.kind \notin {"marker", "candidate"} /\ Calmly(s)
    <3> SUFFICES ASSUME NEW s \in disk, Agree(s, vis, before), Agree(s, vis, {"local"})
                 PROVE  s.lock.kind \notin {"marker", "candidate"} /\ Calmly(s)
      OBVIOUS
    <3>1. s \in Files /\ OwnedOK(s) /\ s.bundle = vis.bundle
      BY <1>1, ActorIs DEF Agree, SameLocal
    <3>2. s.lock.kind \notin {"marker", "candidate"}
      <4>1. CASE i = 1
        <5>1. "git" \in before
          BY <2>2, <4>1
        <5>2. s.lock = None
          BY <2>2, <4>1, <5>1 DEF Agree, SameGit
        <5> QED BY <5>2, PlacedIs
      <4>2. CASE i # 1
        BY <2>2, <3>1, <4>2, PlacedIs DEF OwnedOK
      <4> QED BY <4>1, <4>2
    <3> QED BY <3>1, <3>2, PartsAre DEF Calmly, LockKinds
  <2>9. OwnedOK(vis)' /\ CountedOK(vis)'
    <3>1. vis.lock.kind \notin {"marker", "candidate"}
      BY <1>1, <2>8 DEF Agree, SameLocal, SameGit
    <3> QED BY <2>2, <2>6, <2>7, <3>1, Keeps DEF OwnedOK, CountedOK, Sourced, Split, Absent
  <2>10. \A q \in Planned : Unused(q, vis)'
    <3>1. \A q \in Planned : Unused(q, vis)
      BY <1>1, ActorIs
    <3> QED BY <1>1, <2>1, <2>2, <2>6, <3>1 DEF Unused, others
  <2>11. Knows("cleanupSync")'
    <3>1. (InCleanup(vis) \/ Clean(vis))'
      <4>1. CASE bundle.kind = "full" \/ journal.kind = "receipt"
        BY <2>6, <4>1 DEF InCleanup
      <4>2. CASE bundle = None /\ journal = None
        <5>1. vis' \in Files /\ vis'.journal.kind = "none"
          BY <2>5, <2>6, <4>2, PlacedIs DEF Moved
        <5>2. Clean(vis)'
          <6>1. PICK u \in Files : u = vis'
            BY <5>1
          <6>2. Clean(u)
            BY <2>2, <2>6, <4>2, <5>1, <6>1, RetiringIs
          <6> QED BY <6>1, <6>2 DEF Clean, Retiring, Chain, Place, A, None
        <5> QED BY <5>2
      <4> QED BY <2>2, <4>1, <4>2
    <3> QED BY <3>1, KnowsNext DEF KnowsList, CleanupSteps
  <2>12. plan[p] # NoTx => Owns(plan[p], "cleanupSync")'
    <3> SUFFICES ASSUME plan[p] # NoTx PROVE Owns(plan[p], "cleanupSync")'
      OBVIOUS
    <3>1. PICK mine \in Plans : mine = plan[p] /\ mine = plan'[p]
      BY <1>1 DEF Typed, others
    <3>2. Owns(mine, "cleanup")
      BY <1>1, <3>1
    <3>3. PlanOK(mine.conflict, mine.result)'
      BY <2>7, <3>2 DEF Owns, PlanOK
    <3>4. \A s \in disk : s.dst = mine.result /\ s.index.target.dst = mine.result
      BY <3>2 DEF Owns, CleanupSteps
    <3>5. ASSUME NEW t \in disk'
          PROVE  t.dst = mine.result /\ t.index.target.dst = mine.result
      <4>1. CASE \E s \in disk : Mixed(t, s, before, {"local"})
        <5>1. PICK s \in disk : Mixed(t, s, before, {"local"})
          BY <4>1
        <5> QED BY <2>5, <3>4, <5>1, MixedIs
      <4> QED BY <2>5, <3>4, <4>1 DEF Moved
    <3>6. Owns(mine, "cleanupSync")'
      BY <3>3, <3>5 DEF Owns, CleanupSteps
    <3> QED BY <3>1, <3>6
  <2>13. ASSUME NEW t \in Seen' PROVE Shape(t)
    <3>1. CASE t \in Seen
      BY <1>1, <3>1, ActorIs
    <3>2. CASE \E s \in Seen : Mixed(t, s, before, {"local"})
      <4>1. PICK s \in Seen : Mixed(t, s, before, {"local"})
        BY <3>2
      <4>2. /\ t.bundle = bundle /\ t.publish = NoTx /\ t.journal = journal
            /\ t.lock = s.lock /\ t.index = s.index /\ t.dst = s.dst /\ t.src = s.src
        BY <2>2, <2>5, <2>6, <4>1, MixedIs
      <4>3. s \in disk /\ Agree(s, vis, before) /\ Agree(s, vis, {"local"})
        BY <1>1, <4>1, ActorIs DEF Mixed
      <4>4. Calmly(t)
        BY <2>8, <4>2, <4>3 DEF Calmly
      <4>5. CASE i = 1
        <5>1. Agree(s, vis, WorktreeDirs(ux)) /\ Agree(s, vis, {"git"})
          <6>1. before = {"local"} \cup WorktreeDirs(ux) \cup {"git"}
            BY <2>1, <2>2, <4>5
          <6> QED BY <4>3, <6>1 DEF Agree
        <5>2. WorktreeFinal(vis, ux) /\ ResultStaged(vis, ux)
          BY <1>3, <2>1, <2>2, <4>5 DEF Confirmed
        <5>3. s.dst # ux.conflict.dst /\ SourceGone(s, ux)
          BY <2>2, <2>7, <5>1, <5>2, FinalTree
        <5>4. s.index = vis.index
          BY <5>1 DEF Agree, SameGit
        <5>5. bundle.tx = ux /\ bundle.kind = "full"
          BY <2>2, <4>5, PlacedIs
        <5>6. InstalledShape(t)
          BY <2>2, <4>2, <4>4, <4>5, <5>2, <5>3, <5>4, <5>5
             DEF InstalledShape, ResultStaged, SourceGone
        <5> QED BY <5>6 DEF Shape
      <4>6. CASE i # 1
        <5>1. t \in Files
          BY <1>1, <2>5, SeenMoves DEF Moved, Seen
        <5>2. PICK j \in 3 .. 7 : Retiring(t, j)
          BY <2>2, <4>2, <4>6, <5>1
        <5> QED BY <4>4, <5>2 DEF Shape, ReceiptShape
      <4> QED BY <4>5, <4>6
    <3> QED BY <1>1, <2>5, <3>1, <3>2, SeenMoves
  <2>14. /\ "cleanupSync" \in Steps /\ "cleanupSync" \notin Unguarded
         /\ "cleanupSync" \notin PlanSteps /\ "cleanupSync" \in LocalMoves
         /\ "cleanup" \notin LocalMoves /\ "cleanup" \notin LockMoves
    BY DEF Steps, Unguarded, PlanSteps, LocalMoves, LockMoves
  <2>15. UNCHANGED <<plan, born, runs, gits, edits, faults, kills, losses>>
    BY <1>1, <1>3 DEF others
  <2> HIDE DEF before
  <2> QED BY <1>1, <1>3, <2>5, <2>6, <2>8, <2>9, <2>10, <2>11, <2>12, <2>13, <2>14, <2>15,
             ChangeGoes
<1>4. CASE SyncFails(p, before)
  BY <1>1, <1>4, SyncFailsStep
<1> QED BY <1>2, <1>3, <1>4 DEF CleanupEdge, Change

LEMMA MoveBundleStep == \A p \in Procs : IInv /\ MoveBundle(p) => IInv'
<1> SUFFICES ASSUME NEW p \in Procs, IInv, MoveBundle(p) PROVE IInv'
  OBVIOUS
<1> DEFINE record == [conflict |-> plan[p].conflict, src |-> vis.src,
                      old |-> vis.index, result |-> plan[p].result]
<1>1. /\ holder = p /\ pc[p] = "bundle" /\ Here = "bundle" /\ UNCHANGED others
      /\ Typed /\ PlanInv /\ DiskInv /\ SeenInv /\ vis \in disk /\ vis \in Files
  BY ActorIs DEF MoveBundle, Holds
<1>2. CASE \E r \in Replies : Refuse(p, r)
  <2>1. PICK r \in Replies : Refuse(p, r)
    BY <1>2
  <2>2. Here \notin LocalMoves /\ Here \notin LockMoves /\ Here # "installSync"
    BY <1>1 DEF LocalMoves, LockMoves
  <2> QED BY <1>1, <2>1, <2>2, Refuses DEF Refuse, files, others
<1>3. CASE /\ Clean(vis) /\ Goto(p, "bundleSync") /\ UNCHANGED faults
           /\ vis' = [vis EXCEPT !.bundle = A("stable", record)]
           /\ disk' = Synced(disk, {"local"})
                        \cup {[s EXCEPT !.bundle = A("stable", record)] :
                                s \in Synced(Synced(disk, {"local"}), {"local"})}
  <2>1. p \in Planned
    BY <1>1 DEF Planned
  <2>2. PICK mine \in Plans : mine = plan[p] /\ mine = plan'[p]
    <3>1. plan[p] \in Plans /\ plan'[p] = plan[p]
      BY <1>1, <2>1 DEF Typed, PlanInv, others
    <3> QED BY <3>1
  <2>3. PICK tx : tx = record
    OBVIOUS
  <2>4. /\ tx \in Transactions /\ tx.conflict = mine.conflict /\ tx.result = mine.result
        /\ tx.src = vis.src /\ tx.old = vis.index
    BY <1>1, <2>2, <2>3, FileIs DEF Transactions, Plans
  <2>5. /\ vis.publish = NoTx /\ vis.journal.kind = "none" /\ vis.bundle = None
        /\ vis.journal = None /\ vis.bundle.kind = "none"
    BY <1>1, <1>3, RetiringIs, PartsAre, PlacedIs
  <2>6. /\ PlanOK(tx.conflict, tx.result)
        /\ tx.conflict.kind # "inPlace" => tx.src \in FitSources(tx.conflict)
        /\ \A s \in disk : s.dst # tx.result
        /\ \A q \in Planned : q # p => plan[q].result # tx.result
    BY <1>1, <2>1, <2>2, <2>4 DEF PlanInv, Unused
  <2>7. OwnedOK(vis) /\ CountedOK(vis) /\ born' = born /\ gits' = gits
    BY <1>1, ActorIs DEF others
  <2>8. TxOK(tx)
    BY <2>4, <2>6, <2>7 DEF TxOK, CountedOK
  <2>9. PICK G : G = [s \in Files |-> [s EXCEPT !.bundle = A("stable", tx)]]
    OBVIOUS
  <2>10. A("stable", tx) \in Owned({"stable", "full", "manifest", "empty"})
         /\ A("stable", tx).kind = "stable" /\ A("stable", tx).tx = tx
    BY <2>4, PlacedIs
  <2>11. \A s \in Files :
           /\ G[s] \in Files /\ G[s].bundle = A("stable", tx)
           /\ G[s].publish = s.publish /\ G[s].journal = s.journal /\ G[s].lock = s.lock
           /\ G[s].index = s.index /\ G[s].dst = s.dst /\ G[s].src = s.src
    BY <2>9, <2>10 DEF Files
  <2>12. Moved({"local"}, {"local"})
    <3>1. vis' = G[vis]
      BY <1>1, <1>3, <2>3, <2>9
    <3>2. disk' = Synced(disk, {"local"})
                    \cup {G[s] : s \in Synced(Synced(disk, {"local"}), {"local"})}
      <4>1. \A s \in Files : G[s] = [s EXCEPT !.bundle = A("stable", tx)]
        BY <2>9
      <4>2. Synced(Synced(disk, {"local"}), {"local"}) \subseteq Files
        BY <1>1, SyncedIs DEF Typed
      <4>3. disk' = Synced(disk, {"local"})
                      \cup {[s EXCEPT !.bundle = A("stable", tx)] :
                              s \in Synced(Synced(disk, {"local"}), {"local"})}
        BY <1>3, <2>3
      <4> QED BY <4>1, <4>2, <4>3
    <3>3. \A s \in Files : G[s] \in Files /\ Agree(G[s], s, AllDirs \ {"local"})
      BY <2>11 DEF Agree, SameGit
    <3>4. \A s \in Files : Agree(s, vis, {"local"}) => Agree(G[s], G[vis], {"local"})
      BY <1>1, <2>11 DEF Agree, SameLocal
    <3>5. {"local"} \in SUBSET AllDirs
      BY DEF AllDirs
    <3> QED BY <1>1, <3>1, <3>2, <3>3, <3>4, <3>5, ChangeMoves
  <2>13. /\ vis'.bundle = A("stable", tx) /\ vis'.publish = vis.publish
         /\ vis'.journal = vis.journal /\ vis'.lock = vis.lock
         /\ vis'.index = vis.index /\ vis'.dst = vis.dst /\ vis'.src = vis.src
    BY <1>1, <1>3, <2>3 DEF Files
  <2>14. \A s \in disk :
           Agree(s, vis, {"local"}) => s.lock.kind \notin {"marker", "candidate"} /\ Calmly(s)
    <3> SUFFICES ASSUME NEW s \in disk, Agree(s, vis, {"local"})
                 PROVE  s.lock.kind \notin {"marker", "candidate"} /\ Calmly(s)
      OBVIOUS
    <3>1. s \in Files /\ OwnedOK(s) /\ s.bundle.kind = "none"
      BY <1>1, <2>5, ActorIs DEF Agree, SameLocal
    <3>2. s.lock.kind \notin {"marker", "candidate"}
      BY <3>1, PlacedIs DEF OwnedOK
    <3> QED BY <3>1, <3>2, PartsAre DEF Calmly, LockKinds
  <2>15. Calmly(vis) /\ vis.lock.kind \notin {"marker", "candidate"}
    BY <1>1, <2>14 DEF Agree, SameLocal
  <2>16. OwnedOK(vis)' /\ CountedOK(vis)'
    <3>1. TxOK(tx)'
      BY <2>7, <2>8, Keeps
    <3>2. CountedOK(vis)'
      BY <2>7, <2>13 DEF CountedOK, Sourced, Split, Absent
    <3>3. OwnedOK(vis)'
      BY <2>5, <2>10, <2>13, <2>15, <3>1 DEF OwnedOK
    <3> QED BY <3>2, <3>3
  <2>17. \A q \in Planned : q # p => Unused(q, vis)'
    <3>1. \A q \in Planned : Unused(q, vis)
      BY <1>1, ActorIs
    <3> QED BY <1>1, <2>5, <2>6, <2>10, <2>13, <3>1 DEF Unused, others
  <2>18. Knows("bundleSync")'
    <3>1. (Before(FALSE) /\ Calmly(vis))'
      BY <2>5, <2>10, <2>13, <2>15 DEF Before, Calmly
    <3> QED BY <3>1, KnowsNext DEF KnowsList, BundleSteps
  <2>19. Owns(mine, "bundleSync")'
    <3>1. PlanOK(mine.conflict, mine.result)'
      BY <2>4, <2>6, <2>7, Keeps
    <3> QED BY <2>4, <2>10, <2>13, <3>1 DEF Owns, CleanupSteps
  <2>20. plan[p] # NoTx => Owns(plan[p], "bundleSync")'
    BY <2>2, <2>19
  <2>21. ASSUME NEW t \in Seen' PROVE Shape(t)
    <3>1. CASE t \in Seen
      BY <1>1, <3>1, ActorIs
    <3>2. CASE \E s \in Seen : Mixed(t, s, {"local"}, {"local"})
      <4>1. PICK s \in Seen : Mixed(t, s, {"local"}, {"local"})
        BY <3>2
      <4>2. /\ s \in disk /\ Agree(s, vis, {"local"})
            /\ t.bundle = A("stable", tx) /\ t.publish = NoTx /\ t.journal = None
            /\ t.lock = s.lock /\ t.index = s.index /\ t.dst = s.dst /\ t.src = s.src
        BY <1>1, <2>5, <2>12, <2>13, <4>1, ActorIs, MixedIs DEF Mixed
      <4>3. Calmly(t)
        BY <2>14, <4>2 DEF Calmly
      <4>4. t.index = tx.old \/ t.index.rest # tx.old.rest
        BY <1>1, <2>4, <4>1, <4>2 DEF SeenInv
      <4>5. SourceLeft(t, tx)
        <5> SUFFICES ASSUME tx.conflict.kind # "inPlace", tx.src # Absent PROVE t.src # Absent
          BY DEF SourceLeft
        <5>1. tx.src = tx.conflict.src
          BY <2>6 DEF FitSources
        <5>2. vis.src = 2
          BY <2>4, <2>6, <5>1 DEF PlanOK, Sourced
        <5> QED BY <1>1, <4>2, <5>2 DEF DiskInv, Absent
      <4>6. BeforeShape(t)
        BY <2>6, <2>10, <4>2, <4>3, <4>4, <4>5 DEF BeforeShape
      <4> QED BY <4>6 DEF Shape
    <3> QED BY <1>1, <2>12, <3>1, <3>2, SeenMoves
  <2>22. /\ "bundleSync" \in Steps /\ "bundleSync" \notin Unguarded
         /\ "bundleSync" \notin PlanSteps /\ "bundleSync" \in LocalMoves
         /\ "bundle" \notin LocalMoves /\ "bundle" \notin LockMoves
    BY DEF Steps, Unguarded, PlanSteps, LocalMoves, LockMoves
  <2>23. UNCHANGED <<plan, born, runs, gits, edits, faults, kills, losses>>
    BY <1>1, <1>3 DEF others
  <2> QED BY <1>1, <1>3, <2>12, <2>13, <2>14, <2>16, <2>17, <2>18, <2>20, <2>21, <2>22,
             <2>23, ChangeGoes
<1>4. CASE SyncFails(p, {"local"})
  BY <1>1, <1>4, SyncFailsStep
<1> QED BY <1>2, <1>3, <1>4, MoveStepsAre DEF MoveBundle, Change

-----------------------------------------------------------------------------
(* Everybody else.                                                         *)

\* A change by somebody who does not take part in a merge.
LEMMA QuietGoes ==
  ASSUME IInv, Quiet, NEW before, NEW dirs, Moved(before, dirs), "local" \notin dirs,
         UNCHANGED <<runs, faults, kills, losses>>, born' \in Nat, born <= born',
         gits' \in 0 .. MaxGits, gits <= gits',
         edits' \in 0 .. MaxEdits, born' + edits = born + edits',
         OwnedOK(vis)', CountedOK(vis)', "src" \in dirs => vis'.src # 2,
         "git" \in dirs => Calmly(vis'),
         "src" \in dirs \/ "dst" \in dirs => holder = NoProc,
         vis'.index = vis.index \/ \A s \in disk : s.index.rest # vis'.index.rest,
         \A q \in Planned : Unused(q, vis)', NEW step, step = Here, Knows(step)',
         holder \in Procs /\ plan[holder] # NoTx => Owns(plan[holder], step)',
         \A t \in Seen' : Shape(t)
  PROVE  IInv'
<1>1. Typed /\ DiskInv /\ PlanInv /\ SeenInv
  BY DEF IInv
<1>2. /\ holder' = holder /\ pc' = pc /\ plan' = plan /\ reply' \in Replies
      /\ Here' = Here /\ Here' = step /\ Pending' = Pending /\ Planned' = Planned
  BY DEF Quiet, Replies, Here, Pending, Planned
<1>3. Typed'
  <2>1. /\ disk' \subseteq Files /\ vis' \in disk'
    BY DEF Moved
  <2>2. /\ holder' \in Procs \cup {NoProc} /\ pc' \in [Procs -> Steps]
        /\ \A q \in Procs : pc'[q] \notin Unguarded <=> holder' = q
        /\ plan' \in [Procs -> Plans \cup {NoTx}] /\ IsFiniteSet(Pending')
    BY <1>1, <1>2 DEF Typed
  <2>3. born' + Cardinality(Pending') <= 2 + runs' + edits' /\ born' >= 2
    <3>1. /\ born \in Nat /\ born >= 2 /\ runs \in Nat /\ edits \in Nat /\ edits' \in Nat
          /\ Cardinality(Pending) \in Nat
          /\ born + Cardinality(Pending) <= 2 + runs + edits
      BY <1>1, Bounds, FS_CardinalityType DEF Typed
    <3> QED BY <1>2, <3>1
  <2>4. /\ runs' \in 0 .. MaxRuns /\ faults' \in 0 .. MaxFaults
        /\ kills' \in 0 .. MaxKills /\ losses' \in 0 .. MaxLosses
    BY <1>1 DEF Typed
  <2> QED BY <1>2, <2>1, <2>2, <2>3, <2>4 DEF Typed
<1>4. gits' \in Nat
  BY Bounds
<1>5. DiskInv'
  <2>1. "git" \in dirs => vis'.lock.kind \notin {"marker", "candidate"}
    BY DEF Calmly
  <2> QED BY <1>1, <1>4, <2>1, DiskMoves
<1>6. PlanInv'
  <2>1. "src" \in dirs => \A q \in Procs : pc'[q] # "bundle"
    BY <1>1, <1>2, NobodyIs DEF Typed, Unguarded
  <2>2. pc' \in [Procs -> Steps] /\ \A q \in Procs : pc'[q] = pc[q]
    BY <1>1, <1>2 DEF Typed
  <2> QED BY <1>1, <1>2, <1>4, <2>1, <2>2, PlanMoves
<1>7. HolderInv'
  BY <1>2 DEF HolderInv
<1>8. OwnInv'
  <2> SUFFICES ASSUME holder' \in Procs, plan'[holder'] # NoTx PROVE OwnInv'
    BY DEF OwnInv
  <2>1. PICK p \in Procs : p = holder
    BY <1>2
  <2>2. PICK mine \in Plans : mine = plan[p] /\ mine = plan[holder]
    BY <1>1, <1>2, <2>1 DEF Typed
  <2>3. Owns(mine, step)'
    BY <1>2, <2>1, <2>2
  <2>4. mine = plan'[holder'] /\ step = Here'
    BY <1>2, <2>2
  <2> QED BY <2>3, <2>4 DEF OwnInv
<1>9. SeenInv'
  <2>1. \A t \in Seen' : Shape(t)'
    BY ShapeStays
  <2>2. step \in {"source", "sourceSync"} => "dst" \notin dirs
    BY <1>1, <1>2, HereIs, NobodyIs
  <2> QED BY <1>1, <1>2, <2>1, <2>2, SeenInvMoves
<1> QED BY <1>3, <1>5, <1>6, <1>7, <1>8, <1>9 DEF IInv

\* Git changes its lock or its index only while no transaction has the lock.
LEMMA GitGoes ==
  ASSUME IInv, Quiet, NEW before, NEW dirs, dirs = {"git"}, Moved(before, dirs),
         Calmly(vis), Calmly(vis'),
         UNCHANGED <<born, runs, edits, faults, kills, losses>>,
         gits' \in 0 .. MaxGits, gits <= gits',
         \/ vis'.index = vis.index
         \/ /\ gits < gits' /\ vis'.index.rest = gits' /\ Sourced(vis'.index.target)
            /\ \/ vis'.index.target = vis.index.target
               \/ vis'.index.target.dst = vis.dst
  PROVE  IInv'
<1>1. Typed /\ DiskInv /\ PlanInv /\ SeenInv /\ HolderInv /\ OwnInv
  BY DEF IInv
<1>2. /\ holder' = holder /\ pc' = pc /\ plan' = plan
  BY DEF Quiet
<1>3. /\ vis'.bundle = vis.bundle /\ vis'.publish = vis.publish
      /\ vis'.journal = vis.journal /\ vis'.dst = vis.dst /\ vis'.src = vis.src
      /\ vis' \in Files /\ vis \in disk /\ vis \in Files
      /\ \A s \in disk : s \in Files /\ OwnedOK(s) /\ CountedOK(s)
  BY <1>1 DEF Moved, Agree, AllDirs, SameLocal, Typed, DiskInv
<1>4. /\ born \in Nat /\ gits \in Nat /\ gits' \in Nat /\ born <= born'
      /\ born' + edits = born + edits' /\ edits' \in 0 .. MaxEdits
  BY <1>1, Bounds DEF Typed
<1>5. vis'.lock.kind \notin {"marker", "candidate"}
  BY DEF Calmly
<1>6. OwnedOK(vis)'
  <2>1. OwnedOK(vis)
    BY <1>3
  <2>2. \A tx \in Transactions : TxOK(tx) => TxOK(tx)'
    BY <1>1, <1>4, Grows
  <2>3. /\ vis.bundle.kind # "none" => vis.bundle.tx \in Transactions
        /\ vis.journal.kind # "none" => vis.journal.tx \in Transactions
    BY <1>3, PartsAre
  <2> QED BY <1>3, <1>5, <2>1, <2>2, <2>3 DEF OwnedOK
<1>7. CountedOK(vis)'
  <2>1. CountedOK(vis) /\ vis.index.rest \in Nat
    BY <1>3, FileIs
  <2>2. /\ vis'.dst <= born' /\ vis'.src <= born' /\ vis'.index.target.dst <= born'
        /\ vis'.index.rest <= gits'
    BY <1>3, <1>4, <2>1 DEF CountedOK
  <2>3. Sourced(vis'.index.target)
    BY <2>1 DEF CountedOK
  <2> QED BY <2>2, <2>3 DEF CountedOK, Sourced, Split, Absent
<1>8. vis'.index = vis.index \/ \A s \in disk : s.index.rest # vis'.index.rest
  <2> SUFFICES ASSUME gits < gits', vis'.index.rest = gits', NEW s \in disk
               PROVE  s.index.rest # vis'.index.rest
    OBVIOUS
  <2>1. s.index.rest <= gits /\ s.index.rest \in Nat
    BY <1>3, FileIs DEF CountedOK
  <2> QED BY <1>4, <2>1
<1>9. \A q \in Planned : Unused(q, vis)'
  <2>1. \A q \in Planned : Unused(q, vis)
    BY <1>3, <1>1 DEF PlanInv
  <2> QED BY <1>2, <1>3, <2>1 DEF Unused
<1>10. PICK step : step = Here
  OBVIOUS
<1>11. ASSUME LocalKnown, NEW t \in disk' PROVE SameLocal(t, vis')
  <2>1. CASE \E s \in disk : Mixed(t, s, before, dirs)
    BY <1>3, <1>11, <2>1, MixedIs DEF LocalKnown, SameLocal
  <2> QED BY <1>3, <1>11, <2>1 DEF Moved, LocalKnown, SameLocal
<1>12. LocalKnown => LocalKnown'
  BY <1>11 DEF LocalKnown, SameLocal
<1>13. Clean(vis) => Clean(vis)'
  <2> SUFFICES ASSUME Clean(vis) PROVE Clean(vis)'
    OBVIOUS
  <2>1. PICK u \in Files : u = vis'
    BY <1>3
  <2>2. Clean(u)
    BY <1>3, <2>1, RetiringIs
  <2> QED BY <2>1, <2>2 DEF Clean, Retiring, Chain, Place, A, None
<1>14. Knows(step)'
  <2>1. Knows(step)
    BY <1>1, <1>10 DEF HolderInv
  <2>2. step \notin {"markerSync", "journal", "publishSync", "install"} \cup ReadySteps
    <3>1. JournalReady(vis) \/ MarkerNoJournal(vis) => vis.lock.kind = "marker"
      BY PlacedIs DEF JournalReady, MarkerNoJournal, Bound
    <3>2. CandidateInLock(vis) => vis.lock.kind = "candidate"
      BY PlacedIs DEF CandidateInLock, Bound
    <3>3. vis.lock.kind \notin {"marker", "candidate"} /\ vis.lock # A("marker", vis.bundle.tx)
      BY PlacedIs DEF Calmly
    <3>4. /\ step = "markerSync" => vis.lock = A("marker", vis.bundle.tx)
          /\ step = "journal" => MarkerNoJournal(vis)
          /\ step \in ReadySteps => JournalReady(vis)
          /\ step \in {"publishSync", "install"} => CandidateInLock(vis)
      BY <2>1 DEF Knows
    <3> QED BY <3>1, <3>2, <3>3, <3>4
  <2>3. /\ Before(FALSE) => Before(FALSE)'
        /\ Before(TRUE) => Before(TRUE)'
        /\ After => After'
        /\ InCleanup(vis) => InCleanup(vis)'
        /\ Calmly(vis)'
    BY <1>3 DEF Before, After, Calmly, InCleanup, A
  <2>4. /\ step \notin WrittenSteps /\ step \notin {"source", "sourceSync"} /\ step # "publish"
        /\ step \notin ReadySteps /\ step \notin {"publishSync", "install"}
        /\ step # "markerSync" /\ step # "journal"
    BY <2>2 DEF ReadySteps, WrittenSteps
  <2>5. /\ step \in BundleSteps => Before(FALSE) /\ Calmly(vis)
        /\ step \in StagedSteps => Before(TRUE) /\ Calmly(vis)
        /\ step \in {"markerMove", "markerSync"} => LocalKnown
        /\ step \in {"installSync", "verify"} => After
        /\ step \in CleanupSteps => After \/ InCleanup(vis) \/ Clean(vis)
    BY <2>1 DEF Knows
  <2>6. /\ step \in BundleSteps => Before(FALSE)' /\ Calmly(vis)'
        /\ step \in StagedSteps => Before(TRUE)' /\ Calmly(vis)'
        /\ step \in {"markerMove", "markerSync"} => LocalKnown'
        /\ step \in {"installSync", "verify"} => After'
        /\ step \in CleanupSteps => After' \/ InCleanup(vis)' \/ Clean(vis)'
    <3>1. step \in BundleSteps => Before(FALSE)' /\ Calmly(vis)'
      BY <2>3, <2>5
    <3>2. step \in StagedSteps => Before(TRUE)' /\ Calmly(vis)'
      BY <2>3, <2>5
    <3>3. step \in {"markerMove", "markerSync"} => LocalKnown'
      BY <1>12, <2>5
    <3>4. step \in {"installSync", "verify"} => After'
      BY <2>3, <2>5
    <3>5. step \in CleanupSteps => After' \/ InCleanup(vis)' \/ Clean(vis)'
      BY <1>13, <2>3, <2>5
    <3> QED BY <3>1, <3>2, <3>3, <3>4, <3>5
  <2>7. CASE step \in BundleSteps
    BY <2>6, <2>7, KnowsNext DEF KnowsList
  <2>8. CASE step \in {"stagingSync", "marker"}
    BY <2>6, <2>8, KnowsNext DEF KnowsList, StagedSteps
  <2>9. CASE step = "markerMove"
    BY <2>6, <2>9, KnowsNext DEF KnowsList, StagedSteps
  <2>10. CASE step \in {"installSync", "verify"}
    BY <2>6, <2>10, KnowsNext DEF KnowsList
  <2>11. CASE step \in CleanupSteps
    BY <2>6, <2>11, KnowsNext DEF KnowsList
  <2>12. CASE step \in {"idle", "inspect", "bundle"} \cup PlanSteps
    BY <2>12 DEF Knows, BundleSteps, StagedSteps, CleanupSteps, ReadySteps, WrittenSteps,
                 PlanSteps
  <2>13. step \in Steps
    BY <1>1, <1>10, HereIs
  <2> QED BY <2>4, <2>7, <2>8, <2>9, <2>10, <2>11, <2>12, <2>13
          DEF Steps, BundleSteps, CleanupSteps, ReadySteps, WrittenSteps, PlanSteps
<1>15. ASSUME holder \in Procs, plan[holder] # NoTx PROVE Owns(plan[holder], step)'
  <2>1. PICK mine \in Plans : mine = plan[holder] /\ mine = plan'[holder']
    BY <1>1, <1>2, <1>15 DEF Typed
  <2>2. Owns(mine, step)
    BY <1>1, <1>10, <1>15, <2>1 DEF OwnInv
  <2>3. PlanOK(mine.conflict, mine.result)'
    BY <1>1, <1>4, <2>2, Grows DEF Owns, Plans
  <2>4. ASSUME step \in CleanupSteps, NEW t \in disk'
        PROVE  t.dst = mine.result /\ t.index.target.dst = mine.result
    <3>1. \A s \in disk : s.dst = mine.result /\ s.index.target.dst = mine.result
      BY <2>2, <2>4 DEF Owns
    <3>2. vis'.index.target.dst = mine.result
      BY <1>3, <3>1
    <3>3. CASE \E s \in disk : Mixed(t, s, before, dirs)
      BY <3>1, <3>2, <3>3, MixedIs
    <3> QED BY <3>1, <3>3 DEF Moved
  <2>5. Clean(vis)' => Clean(vis)
    <3> SUFFICES ASSUME Clean(vis)' PROVE Clean(vis)
      OBVIOUS
    <3>1. PICK u \in Files : u = vis'
      BY <1>3
    <3>2. Clean(u)
      BY <3>1 DEF Clean, Retiring, Chain, Place, A, None
    <3> QED BY <1>3, <3>1, <3>2, RetiringIs
  <2>6. Owns(mine, step)'
    BY <1>3, <1>12, <2>2, <2>3, <2>4, <2>5 DEF Owns, CleanupSteps
  <2> QED BY <2>1, <2>6
<1>16. ASSUME NEW t \in Seen' PROVE Shape(t)
  <2>1. CASE t \in Seen
    BY <1>1, <2>1 DEF SeenInv
  <2>2. CASE \E s \in Seen : Mixed(t, s, before, dirs)
    <3>1. PICK s \in Seen : Mixed(t, s, before, dirs)
      BY <2>2
    <3>2. /\ t.bundle = s.bundle /\ t.publish = s.publish /\ t.journal = s.journal
          /\ t.dst = s.dst /\ t.src = s.src /\ s.lock = vis.lock /\ s.index = vis.index
          /\ t.lock = vis'.lock /\ t.index = vis'.index
      BY <3>1, MixedIs
    <3>3. Calmly(s) /\ Calmly(t) /\ Shape(s) /\ s \in Files /\ OwnedOK(s) /\ t \in Files
      <4>1. t \in disk' /\ disk' \subseteq Files
        BY DEF Seen, Moved
      <4> QED BY <1>1, <1>3, <3>2, <4>1, SeenIs DEF SeenInv, Calmly
    <3>4. \A tx : tx.old.rest <= gits /\ tx.old.rest \in Nat =>
            t.index = s.index \/ t.index.rest # tx.old.rest
      BY <1>4, <3>2
    <3>5. s.bundle.kind # "none" =>
            s.bundle.tx.old.rest <= gits /\ s.bundle.tx.old.rest \in Nat
      BY <3>3, PartsAre, TxIs DEF OwnedOK, TxOK
    <3>6. CASE BeforeShape(s)
      <4>1. BeforeShape(t)
        BY <3>2, <3>3, <3>4, <3>5, <3>6 DEF BeforeShape, SourceLeft
      <4> QED BY <4>1 DEF Shape
    <3>7. CASE InstalledShape(s)
      <4>1. InstalledShape(t)
        BY <3>2, <3>3, <3>4, <3>5, <3>7 DEF InstalledShape, SourceGone, ResultStaged
      <4> QED BY <4>1 DEF Shape
    <3>8. CASE ReceiptShape(s)
      <4>1. PICK i \in 3 .. 7 : Retiring(s, i)
        BY <3>8 DEF ReceiptShape
      <4>2. s.journal.kind # "journal"
        BY <4>1 DEF Retiring, Chain
      <4>3. Retiring(t, i)
        BY <3>2, <4>1, <4>2 DEF Retiring
      <4> QED BY <3>3, <4>1, <4>3 DEF ReceiptShape, Shape
    <3>9. ~ReadyShape(s) /\ ~CandidateShape(s)
      BY <3>3, PlacedIs
         DEF ReadyShape, CandidateShape, JournalReady, CandidateInLock, Bound, Calmly
    <3> QED BY <3>3, <3>6, <3>7, <3>8, <3>9 DEF Shape
  <2> QED BY <1>1, <2>1, <2>2, SeenMoves
<1> QED BY <1>4, <1>6, <1>7, <1>8, <1>9, <1>10, <1>14, <1>15, <1>16, QuietGoes

LEMMA LocksAre ==
  /\ Foreign \in Owned({"marker", "candidate"}) \cup {Foreign}
  /\ None \in Owned({"marker", "candidate"}) \cup {Foreign}
  /\ Foreign.kind = "foreign" /\ None.kind = "none"
BY PlacedIs DEF Foreign

\* Only the index lock changes.
LEMMA GitLockMoves ==
  ASSUME Typed, NEW lock \in {None, Foreign}, vis' = [vis EXCEPT !.lock = lock],
         disk' = Synced(disk, {}) \cup {[s EXCEPT !.lock = lock] :
                                          s \in Synced(Synced(disk, {}), {"git"})}
  PROVE  /\ Moved({}, {"git"}) /\ vis'.index = vis.index /\ vis'.lock = lock
<1>1. vis \in Files /\ disk \subseteq Files
  BY DEF Typed
<1>2. PICK G : G = [s \in Files |-> [s EXCEPT !.lock = lock]]
  OBVIOUS
<1>3. \A s \in Files :
        /\ G[s] \in Files /\ G[s].lock = lock
        /\ G[s].bundle = s.bundle /\ G[s].publish = s.publish /\ G[s].journal = s.journal
        /\ G[s].index = s.index /\ G[s].dst = s.dst /\ G[s].src = s.src
  BY <1>2, LocksAre DEF Files
<1>4. vis' = G[vis]
  BY <1>1, <1>2
<1>5. disk' = Synced(disk, {}) \cup {G[s] : s \in Synced(Synced(disk, {}), {"git"})}
  <2>1. \A s \in Files : G[s] = [s EXCEPT !.lock = lock]
    BY <1>2
  <2>2. Synced(Synced(disk, {}), {"git"}) \subseteq Files
    BY <1>1, SyncedIs
  <2> QED BY <2>1, <2>2
<1>6. \A s \in Files : G[s] \in Files /\ Agree(G[s], s, AllDirs \ {"git"})
  BY <1>3 DEF Agree, SameLocal
<1>7. \A s \in Files : Agree(s, vis, {"git"}) => Agree(G[s], G[vis], {"git"})
  BY <1>1, <1>3 DEF Agree, SameGit
<1>8. {"git"} \in SUBSET AllDirs
  BY DEF AllDirs
<1>9. vis'.index = vis.index /\ vis'.lock = lock
  BY <1>1, <1>3, <1>4
<1> QED BY <1>4, <1>5, <1>6, <1>7, <1>8, <1>9, ChangeMoves

LEMMA GitLockStep == IInv /\ GitLock => IInv'
<1> SUFFICES ASSUME IInv, GitLock PROVE IInv'
  OBVIOUS
<1>1. Typed /\ Quiet /\ UNCHANGED counts /\ vis.lock = None
  BY DEF IInv, GitLock
<1>2. Moved({}, {"git"}) /\ vis'.index = vis.index /\ vis'.lock = Foreign
  <2>1. PICK lock \in {None, Foreign} : lock = Foreign
    OBVIOUS
  <2>2. vis' = [vis EXCEPT !.lock = lock]
    BY <2>1 DEF GitLock, Change, Foreign
  <2>3. disk' = Synced(disk, {}) \cup {[s EXCEPT !.lock = lock] :
                                         s \in Synced(Synced(disk, {}), {"git"})}
    BY <2>1 DEF GitLock, Change, Foreign
  <2> QED BY <1>1, <2>1, <2>2, <2>3, GitLockMoves
<1>3. Calmly(vis) /\ Calmly(vis')
  BY <1>1, <1>2, LocksAre DEF Calmly
<1>4. gits' \in 0 .. MaxGits /\ gits <= gits'
  BY <1>1, Bounds DEF Typed, counts
<1>5. PICK before, dirs : before = {} /\ dirs = {"git"}
  OBVIOUS
<1>6. UNCHANGED <<born, runs, edits, faults, kills, losses>>
  BY <1>1 DEF counts
<1> QED BY <1>1, <1>2, <1>3, <1>4, <1>5, <1>6, GitGoes

LEMMA GitUnlockStep == IInv /\ GitUnlock => IInv'
<1> SUFFICES ASSUME IInv, GitUnlock PROVE IInv'
  OBVIOUS
<1>1. Typed /\ Quiet /\ UNCHANGED counts /\ vis.lock.kind = "foreign"
  BY DEF IInv, GitUnlock
<1>2. Moved({}, {"git"}) /\ vis'.index = vis.index /\ vis'.lock = None
  <2>1. PICK lock \in {None, Foreign} : lock = None
    OBVIOUS
  <2>2. vis' = [vis EXCEPT !.lock = lock]
    BY <2>1 DEF GitUnlock, Change
  <2>3. disk' = Synced(disk, {}) \cup {[s EXCEPT !.lock = lock] :
                                         s \in Synced(Synced(disk, {}), {"git"})}
    BY <2>1 DEF GitUnlock, Change
  <2> QED BY <1>1, <2>1, <2>2, <2>3, GitLockMoves
<1>3. Calmly(vis) /\ Calmly(vis')
  BY <1>1, <1>2, LocksAre DEF Calmly
<1>4. gits' \in 0 .. MaxGits /\ gits <= gits'
  BY <1>1, Bounds DEF Typed, counts
<1>5. PICK before, dirs : before = {} /\ dirs = {"git"}
  OBVIOUS
<1>6. UNCHANGED <<born, runs, edits, faults, kills, losses>>
  BY <1>1 DEF counts
<1> QED BY <1>1, <1>2, <1>3, <1>4, <1>5, <1>6, GitGoes

LEMMA GitUpdateStep == IInv /\ GitUpdate => IInv'
<1> SUFFICES ASSUME IInv, GitUpdate PROVE IInv'
  OBVIOUS
<1> DEFINE add   == [kind |-> "merged", dst |-> vis.dst, src |-> Absent]
           again == [kind |-> "inPlace", dst |-> vis.dst, src |-> Absent]
<1>1. /\ Typed /\ Quiet /\ vis.lock.kind = "foreign" /\ gits < MaxGits /\ gits' = gits + 1
      /\ UNCHANGED <<born, runs, edits, faults, kills, losses>>
      /\ vis \in Files /\ disk \subseteq Files /\ CountedOK(vis)
  BY DEF IInv, GitUpdate, Typed, DiskInv
<1>2. PICK target \in {vis.index.target, add, again} :
        /\ vis' = [vis EXCEPT !.index = [target |-> target, rest |-> gits + 1],
                              !.lock = None]
        /\ disk' = Synced(disk, {})
                     \cup {[s EXCEPT !.index = [target |-> target, rest |-> gits + 1],
                                     !.lock = None] :
                             s \in Synced(Synced(disk, {}), {"git"})}
  BY DEF GitUpdate, Change
<1>3. gits' \in 0 .. MaxGits /\ gits < gits' /\ gits <= gits'
  BY <1>1, Bounds DEF Typed
<1>4. target \in Targets /\ Sourced(target)
      /\ (target = vis.index.target \/ target.dst = vis.dst)
  <2>1. vis.dst \in Versions /\ vis.index.target \in Targets /\ Sourced(vis.index.target)
    BY <1>1, FileIs DEF CountedOK
  <2>2. CASE target = add
    BY <2>1, <2>2 DEF Targets, Sourced, Split
  <2>3. CASE target = again
    BY <2>1, <2>3 DEF Targets, Sourced, Split, AllKinds
  <2> QED BY <2>1, <2>2, <2>3
<1>5. PICK index \in Indexes :
        /\ index = [target |-> target, rest |-> gits + 1]
        /\ index.target = target /\ index.rest = gits'
  <2>1. [target |-> target, rest |-> gits + 1] \in Indexes
    BY <1>1, <1>3, <1>4 DEF Indexes
  <2> QED BY <1>1, <2>1
<1>6. PICK G : G = [s \in Files |-> [s EXCEPT !.index = index, !.lock = None]]
  OBVIOUS
<1>7. \A s \in Files :
        /\ G[s] \in Files /\ G[s].lock = None /\ G[s].index = index
        /\ G[s].bundle = s.bundle /\ G[s].publish = s.publish /\ G[s].journal = s.journal
        /\ G[s].dst = s.dst /\ G[s].src = s.src
  BY <1>6, LocksAre DEF Files
<1>8. vis' = G[vis]
  BY <1>1, <1>2, <1>5, <1>6
<1>9. Moved({}, {"git"})
  <2>1. disk' = Synced(disk, {}) \cup {G[s] : s \in Synced(Synced(disk, {}), {"git"})}
    <3>1. \A s \in Files : G[s] = [s EXCEPT !.index = index, !.lock = None]
      BY <1>6
    <3>2. Synced(Synced(disk, {}), {"git"}) \subseteq Files
      BY <1>1, SyncedIs
    <3>3. disk' = Synced(disk, {}) \cup {[s EXCEPT !.index = index, !.lock = None] :
                                           s \in Synced(Synced(disk, {}), {"git"})}
      BY <1>2, <1>5
    <3> QED BY <3>1, <3>2, <3>3
  <2>2. \A s \in Files : G[s] \in Files /\ Agree(G[s], s, AllDirs \ {"git"})
    BY <1>7 DEF Agree, SameLocal
  <2>3. \A s \in Files : Agree(s, vis, {"git"}) => Agree(G[s], G[vis], {"git"})
    BY <1>1, <1>7 DEF Agree, SameGit
  <2>4. {"git"} \in SUBSET AllDirs
    BY DEF AllDirs
  <2> QED BY <1>1, <1>8, <2>1, <2>2, <2>3, <2>4, ChangeMoves
<1>10. vis'.index.rest = gits' /\ vis'.index.target = target /\ vis'.lock = None
  BY <1>1, <1>5, <1>7, <1>8
<1>11. Calmly(vis) /\ Calmly(vis')
  BY <1>1, <1>10, LocksAre DEF Calmly
<1>12. PICK before, dirs : before = {} /\ dirs = {"git"}
  OBVIOUS
<1> QED BY <1>1, <1>3, <1>4, <1>9, <1>10, <1>11, <1>12, GitGoes

LEMMA EditStep == \A d \in {"dst", "src"} : IInv /\ Edit(d) => IInv'
<1> SUFFICES ASSUME NEW d \in {"dst", "src"}, IInv, Edit(d) PROVE IInv'
  OBVIOUS
<1>1. /\ Typed /\ PlanInv /\ SeenInv /\ Quiet /\ holder = NoProc /\ edits < MaxEdits
      /\ edits' = edits + 1 /\ born' = born + 1
      /\ UNCHANGED <<runs, gits, faults, kills, losses>>
      /\ vis \in Files /\ vis \in disk /\ disk \subseteq Files
      /\ \A s \in disk : OwnedOK(s) /\ CountedOK(s)
  BY DEF IInv, Edit, Typed, DiskInv
<1>2. /\ born \in Nat /\ born >= 2 /\ edits \in Nat /\ edits' \in 0 .. MaxEdits
      /\ gits' \in 0 .. MaxGits /\ gits <= gits' /\ gits' \in Nat
  BY <1>1, Bounds DEF Typed
<1>3. PICK new \in Versions : new = born + 1 /\ new \in Nat /\ new > born
  <2>1. /\ Cardinality(Pending) \in Nat /\ runs <= MaxRuns /\ runs \in Nat
        /\ born + Cardinality(Pending) <= 2 + runs + edits
    BY <1>1, Bounds, FS_CardinalityType DEF Typed
  <2> QED BY <1>1, <1>2, <2>1, Bounds DEF Versions
<1>4. PICK G : G = [s \in Files |-> IF d = "dst" THEN [s EXCEPT !.dst = new]
                                                 ELSE [s EXCEPT !.src = new]]
  OBVIOUS
<1>5. \A s \in Files :
        /\ G[s] \in Files /\ G[s].bundle = s.bundle /\ G[s].publish = s.publish
        /\ G[s].journal = s.journal /\ G[s].lock = s.lock /\ G[s].index = s.index
        /\ G[s].dst = IF d = "dst" THEN new ELSE s.dst
        /\ G[s].src = IF d = "src" THEN new ELSE s.src
  <2>1. CASE d = "dst"
    BY <1>3, <1>4, <2>1 DEF Files
  <2>2. CASE d = "src"
    BY <1>3, <1>4, <2>2 DEF Files
  <2> QED BY <2>1, <2>2
<1>6. vis' = G[vis]
  BY <1>1, <1>3, <1>4 DEF Edit, Change
<1>7. Moved({}, {d})
  <2>1. disk' = Synced(disk, {}) \cup {G[s] : s \in Synced(Synced(disk, {}), {d})}
    <3>1. \A s \in Files : G[s] = IF d = "dst" THEN [s EXCEPT !.dst = new]
                                               ELSE [s EXCEPT !.src = new]
      BY <1>4
    <3>2. Synced(Synced(disk, {}), {d}) \subseteq Files
      BY <1>1, SyncedIs
    <3>3. disk' = Synced(disk, {})
                    \cup {IF d = "dst" THEN [s EXCEPT !.dst = new]
                                       ELSE [s EXCEPT !.src = new] :
                            s \in Synced(Synced(disk, {}), {d})}
      BY <1>3 DEF Edit, Change
    <3> QED BY <3>1, <3>2, <3>3
  <2>2. \A s \in Files : G[s] \in Files /\ Agree(G[s], s, AllDirs \ {d})
    BY <1>5 DEF Agree, SameLocal, SameGit
  <2>3. \A s \in Files : Agree(s, vis, {d}) => Agree(G[s], G[vis], {d})
    BY <1>1, <1>5 DEF Agree
  <2>4. {d} \in SUBSET AllDirs
    BY DEF AllDirs
  <2> QED BY <1>1, <1>6, <2>1, <2>2, <2>3, <2>4, ChangeMoves
<1>8. /\ vis'.bundle = vis.bundle /\ vis'.publish = vis.publish
      /\ vis'.journal = vis.journal /\ vis'.lock = vis.lock /\ vis'.index = vis.index
      /\ vis'.dst = IF d = "dst" THEN new ELSE vis.dst
      /\ vis'.src = IF d = "src" THEN new ELSE vis.src
  BY <1>1, <1>5, <1>6
<1>9. OwnedOK(vis)'
  <2>1. OwnedOK(vis) /\ \A tx \in Transactions : TxOK(tx) => TxOK(tx)'
    BY <1>1, <1>2, Grows
  <2>2. /\ vis.bundle.kind # "none" => vis.bundle.tx \in Transactions
        /\ vis.journal.kind # "none" => vis.journal.tx \in Transactions
    BY <1>1, PartsAre
  <2> QED BY <1>8, <2>1, <2>2 DEF OwnedOK, A
<1>10. CountedOK(vis)'
  <2>1. CountedOK(vis) /\ vis.dst \in Nat /\ vis.src \in Nat
        /\ vis.index.target.dst \in Nat
    BY <1>1, FileIs, TargetIs
  <2>2. /\ vis'.dst <= born' /\ vis'.src <= born' /\ vis'.index.target.dst <= born'
        /\ vis'.index.rest <= gits'
    BY <1>1, <1>2, <1>3, <1>8, <2>1 DEF CountedOK
  <2> QED BY <1>8, <2>1, <2>2 DEF CountedOK, Sourced, Split, Absent
<1>11. "src" \in {d} => vis'.src # 2
  BY <1>2, <1>3, <1>8
<1>12. \A q \in Planned : Unused(q, vis)'
  <2> SUFFICES ASSUME NEW q \in Planned PROVE Unused(q, vis)'
    OBVIOUS
  <2>1. PICK mine \in Plans : mine = plan[q] /\ mine = plan'[q]
    BY <1>1 DEF PlanInv, Typed, Planned, Quiet
  <2>2. PlanOK(mine.conflict, mine.result) /\ Unused(q, vis) /\ mine.result \in Versions
    BY <1>1, <2>1 DEF PlanInv, Plans
  <2>3. new # mine.result
    <3>1. Versions \subseteq Nat
      BY Bounds DEF Versions
    <3> QED BY <1>2, <1>3, <2>2, <3>1 DEF PlanOK
  <2> QED BY <1>8, <2>1, <2>2, <2>3 DEF Unused
<1>13. ASSUME NEW t \in Seen' PROVE Shape(t)
  <2>1. CASE t \in Seen
    BY <1>1, <2>1 DEF SeenInv
  <2>2. CASE \E s \in Seen : Mixed(t, s, {}, {d})
    <3>1. PICK s \in Seen : Mixed(t, s, {}, {d})
      BY <2>2
    <3>2. /\ t.bundle = s.bundle /\ t.publish = s.publish /\ t.journal = s.journal
          /\ t.lock = s.lock /\ t.index = s.index
          /\ t.dst = IF d = "dst" THEN new ELSE s.dst
          /\ t.src = IF d = "src" THEN new ELSE s.src
      BY <1>7, <1>8, <3>1, MixedIs
    <3>3. s \in Files /\ OwnedOK(s) /\ Shape(s)
      BY <1>1, SeenIs DEF SeenInv
    <3>4. PICK tx : tx = s.bundle.tx
      OBVIOUS
    <3>5. s.bundle.kind # "none" =>
            /\ new # tx.result /\ new # tx.conflict.dst /\ new # tx.src /\ new # Absent
      <4> SUFFICES ASSUME s.bundle.kind # "none"
                   PROVE  /\ new # tx.result /\ new # tx.conflict.dst
                          /\ new # tx.src /\ new # Absent
        OBVIOUS
      <4>1. tx \in Transactions /\ TxOK(tx)
        BY <3>3, <3>4, PartsAre DEF OwnedOK
      <4>2. /\ tx.result \in Nat /\ tx.src \in Nat /\ tx.conflict.dst \in Nat
            /\ tx.conflict.dst < tx.result /\ tx.result <= born /\ tx.src <= born
        BY <4>1, TxIs, TargetIs DEF TxOK, PlanOK
      <4> QED BY <1>2, <1>3, <4>2 DEF Absent
    <3>6. Calmly(t) <=> Calmly(s)
      BY <3>2 DEF Calmly
    <3>7. CASE BeforeShape(s)
      <4>1. BeforeShape(t)
        BY <3>2, <3>4, <3>5, <3>6, <3>7 DEF BeforeShape, SourceLeft
      <4> QED BY <4>1 DEF Shape
    <3>8. CASE ReadyShape(s)
      <4>1. JournalReady(t) /\ s.bundle.kind = "stable"
        BY <3>2, <3>8 DEF ReadyShape, JournalReady, Bound, Unmoved
      <4>2. ReadyShape(t)
        BY <3>2, <3>4, <3>5, <3>8, <4>1 DEF ReadyShape, SourceLeft
      <4> QED BY <4>2 DEF Shape
    <3>9. CASE CandidateShape(s)
      <4>1. CandidateInLock(t) /\ s.bundle.kind = "stable"
        BY <3>2, <3>9 DEF CandidateShape, CandidateInLock, Bound, Unmoved
      <4>2. CandidateShape(t)
        BY <3>2, <3>4, <3>5, <3>9, <4>1 DEF CandidateShape, SourceGone
      <4> QED BY <4>2 DEF Shape
    <3>10. CASE InstalledShape(s)
      <4>1. InstalledShape(t)
        BY <3>2, <3>4, <3>5, <3>6, <3>10 DEF InstalledShape, SourceGone, ResultStaged
      <4> QED BY <4>1 DEF Shape
    <3>11. CASE ReceiptShape(s)
      <4>1. PICK i \in 3 .. 7 : Retiring(s, i) /\ Calmly(s)
        BY <3>11 DEF ReceiptShape
      <4>2. Retiring(t, i)
        BY <3>2, <4>1 DEF Retiring
      <4> QED BY <3>6, <4>1, <4>2 DEF ReceiptShape, Shape
    <3> QED BY <3>3, <3>7, <3>8, <3>9, <3>10, <3>11 DEF Shape
  <2> QED BY <1>1, <1>7, <2>1, <2>2, SeenMoves
<1>14. PICK step : step = Here /\ step = "idle"
  BY <1>1, HereIs
<1>15. Knows(step)'
  BY <1>14, KnowsNext DEF KnowsList
<1>16. PICK before, dirs : before = {} /\ dirs = {d}
  OBVIOUS
<1>17. /\ UNCHANGED <<runs, faults, kills, losses>> /\ born' \in Nat /\ born <= born'
       /\ born' + edits = born + edits'
  BY <1>1, <1>2
<1>18. "local" \notin dirs /\ "git" \notin dirs /\ Moved(before, dirs)
       /\ ("src" \in dirs => vis'.src # 2)
  BY <1>7, <1>11, <1>16
<1>19. holder \notin Procs
  BY <1>1, NobodyIs
<1> QED BY <1>1, <1>2, <1>8, <1>9, <1>10, <1>12, <1>13, <1>14, <1>15, <1>17, <1>18, <1>19,
           QuietGoes

\* What is left is one of the possible files, and nobody is at work.
LEMMA PowerLossStep == IInv /\ PowerLoss => IInv'
<1> SUFFICES ASSUME IInv, PowerLoss PROVE IInv'
  OBVIOUS
<1>1. /\ Typed /\ DiskInv /\ SeenInv /\ losses < MaxLosses /\ losses' = losses + 1
      /\ vis' \in disk /\ disk' = {vis'} /\ holder' = NoProc /\ reply' = "none"
      /\ UNCHANGED <<plan, born, runs, gits, edits, faults, kills>>
  BY DEF IInv, PowerLoss
<1>2. pc' \in [Procs -> Steps] /\ \A p \in Procs : pc'[p] = "idle"
  BY StepsAre DEF PowerLoss
<1>3. Here' = "idle"
  BY <1>1, NobodyIs DEF Here
<1>4. Typed'
  <2>1. Pending' \subseteq Pending
    BY <1>2 DEF Pending
  <2>2. \A p \in Procs : pc'[p] \notin Unguarded <=> holder' = p
    BY <1>1, <1>2, StepsAre, NobodyIs
  <2>3. /\ disk' \subseteq Files /\ vis' \in disk' /\ faults' \in 0 .. MaxFaults
        /\ kills' \in 0 .. MaxKills
    BY <1>1 DEF Typed
  <2>4. losses' \in 0 .. MaxLosses
    BY <1>1, Bounds DEF Typed
  <2>5. reply' \in Replies
    BY <1>1 DEF Replies
  <2> QED BY <1>1, <1>2, <2>1, <2>2, <2>3, <2>4, <2>5, TypedKept
<1>5. DiskInv'
  <2>1. OwnedOK(vis') /\ CountedOK(vis') /\ vis' \in Files
    BY <1>1 DEF DiskInv, Typed
  <2>2. (OwnedOK(vis) /\ CountedOK(vis))'
    BY <1>1, <2>1
       DEF OwnedOK, CountedOK, TxOK, PlanOK, FitSources, Sourced, Split, Absent, A
  <2> QED BY <1>1, <2>2 DEF DiskInv
<1>6. PlanInv'
  BY <1>2 DEF PlanInv, Planned
<1>7. HolderInv'
  <2>1. Knows("idle")'
    BY KnowsNext DEF KnowsList
  <2> QED BY <1>3, <2>1 DEF HolderInv
<1>8. OwnInv'
  BY <1>1, NobodyIs DEF OwnInv
<1>9. SeenInv'
  <2>1. \A s \in Seen' : s = vis'
    BY <1>1 DEF Seen
  <2>2. ASSUME NEW s \in Seen' PROVE Shape(s)'
    <3>1. Calm
      <4>1. MaxLosses # 0
        BY <1>1, Bounds DEF Typed
      <4> QED BY <4>1 DEF Seen, Calm
    <3>2. s \in Seen
      BY <1>1, <2>1, <3>1, SeenIs
    <3> QED BY <1>1, <3>2, ShapeStays DEF SeenInv
  <2>3. \A s \in Seen' : SameLocal(s, vis)' /\ SameGit(s, vis)'
    BY <2>1 DEF SameLocal, SameGit
  <2> QED BY <2>1, <2>2, <2>3 DEF SeenInv
<1> QED BY <1>4, <1>5, <1>6, <1>7, <1>8, <1>9 DEF IInv

-----------------------------------------------------------------------------
(* The invariant.                                                          *)

LEMMA InitHolds == Init => IInv
<1> SUFFICES ASSUME Init PROVE IInv
  OBVIOUS
<1>1. PICK k \in Kinds, src \in {2, Absent} :
        LET stage == IF Split(k) THEN 2 ELSE Absent
        IN /\ src = stage \/ src = Absent
           /\ vis = [bundle |-> None, publish |-> NoTx, journal |-> None, lock |-> None,
                     index |-> [target |-> [kind |-> k, dst |-> 1, src |-> stage],
                                rest |-> 0],
                     dst |-> 1, src |-> src]
  BY DEF Init, Split, Absent
<1> DEFINE stage == IF Split(k) THEN 2 ELSE Absent
           target == [kind |-> k, dst |-> 1, src |-> stage]
           index == [target |-> target, rest |-> 0]
<1>2. /\ disk = {vis} /\ holder = NoProc /\ pc = [p \in Procs |-> "idle"]
      /\ plan = [p \in Procs |-> NoTx] /\ reply = "none" /\ born = 2
      /\ runs = 0 /\ gits = 0 /\ edits = 0 /\ faults = 0 /\ kills = 0 /\ losses = 0
  BY DEF Init
<1>3. 1 \in Versions /\ 2 \in Versions /\ 0 \in 0 .. MaxGits
  BY Bounds DEF Versions
<1>4. k \in AllKinds /\ k # "merged"
  BY NameAssumption DEF AllKinds
<1>5. target \in Targets /\ index \in Indexes
  BY <1>3, <1>4 DEF Targets, Indexes
<1>6. vis \in Files
  BY <1>1, <1>3, <1>5, PlacedIs DEF Files
<1>7. /\ vis.bundle = None /\ vis.publish = NoTx /\ vis.journal = None /\ vis.lock = None
      /\ vis.index.target.kind = k /\ vis.index.target.dst = 1
      /\ vis.index.target.src = stage /\ vis.index.rest = 0
      /\ vis.dst = 1 /\ (vis.src = 2 \/ vis.src = 0)
  BY <1>1 DEF Absent
<1>8. Typed
  <2>1. Pending = {} /\ IsFiniteSet(Pending) /\ Cardinality(Pending) = 0
    BY <1>2, FS_EmptySet DEF Pending
  <2>2. /\ pc \in [Procs -> Steps] /\ plan \in [Procs -> Plans \cup {NoTx}]
        /\ reply \in Replies
    BY <1>2, StepsAre DEF Replies
  <2>3. \A p \in Procs : pc[p] \notin Unguarded <=> holder = p
    BY <1>2, StepsAre, NobodyIs
  <2>4. /\ runs \in 0 .. MaxRuns /\ gits \in 0 .. MaxGits /\ edits \in 0 .. MaxEdits
        /\ faults \in 0 .. MaxFaults /\ kills \in 0 .. MaxKills
        /\ losses \in 0 .. MaxLosses
    BY <1>2, Bounds
  <2> QED BY <1>2, <1>6, <2>1, <2>2, <2>3, <2>4 DEF Typed
<1>9. DiskInv
  BY <1>2, <1>7, PlacedIs DEF DiskInv, OwnedOK, CountedOK, Sourced
<1>10. Here = "idle"
  BY <1>2, NobodyIs DEF Here
<1>11. PlanInv /\ HolderInv /\ OwnInv
  <2>1. PlanInv
    BY <1>2 DEF PlanInv, Planned
  <2>2. HolderInv
    BY <1>10, KnowsIs DEF HolderInv, KnowsList
  <2>3. OwnInv
    BY <1>2, NobodyIs DEF OwnInv
  <2> QED BY <2>1, <2>2, <2>3
<1>12. SeenInv
  <2>1. \A s \in Seen : s = vis
    BY <1>2 DEF Seen
  <2>2. Shape(vis)
    <3>1. Clean(vis) /\ Calmly(vis)
      BY <1>6, <1>7, RetiringIs, PlacedIs DEF Calmly
    <3> QED BY <3>1 DEF Clean, ReceiptShape, Shape
  <2> QED BY <1>10, <2>1, <2>2 DEF SeenInv, SameLocal, SameGit
<1> QED BY <1>8, <1>9, <1>11, <1>12 DEF IInv

LEMMA StutterStep == IInv /\ UNCHANGED vars => IInv'
<1> SUFFICES ASSUME IInv, UNCHANGED vars PROVE IInv'
  OBVIOUS
<1>1. /\ UNCHANGED <<vis, disk, holder, pc, plan, reply, born, runs, gits, edits, faults,
                     kills, losses>>
      /\ Typed
  BY DEF vars, IInv
<1>2. Typed'
  BY <1>1 DEF Typed, Pending
<1>3. PlanInv'
  <2>1. PlanInv /\ pc \in [Procs -> Steps]
    BY DEF IInv, Typed
  <2>2. \A q \in Procs : plan'[q] = plan[q] /\ pc'[q] = pc[q]
    BY <1>1
  <2> QED BY <1>1, <2>1, <2>2, PlanKept
<1>4. /\ Here' = Here /\ holder' = holder /\ born <= born' /\ gits' = gits
      /\ vis' = vis /\ disk' \subseteq disk
      /\ (holder \in Procs => plan'[holder] = plan[holder])
  BY <1>1 DEF Here, Typed
<1> QED BY <1>2, <1>3, <1>4, Stands

LEMMA StepHolds == IInv /\ [Next]_vars => IInv'
<1> SUFFICES ASSUME IInv, [Next]_vars PROVE IInv'
  OBVIOUS
<1>1. ASSUME NEW p \in Procs, Unlocked(p) PROVE IInv'
  BY <1>1, StartStep, AcquireRecoverStep, PlanStep, CommitStep DEF Unlocked
<1>2. ASSUME NEW p \in Procs, Prejournal(p) PROVE IInv'
  BY <1>2, InspectStep, MoveBundleStep, SyncBundleStep, MoveStagingStep, SyncStagingStep,
     AuditMarkerStep, MoveMarkerStep, SyncMarkerStep, MoveJournalStep, SyncJournalStep
     DEF Prejournal
<1>3. ASSUME NEW p \in Procs, Forward(p) PROVE IInv'
  BY <1>3, WriteWorktreeStep, SyncWorktreeStep, RemoveSourceStep, SyncSourceStep,
     PublishStagingStep, SyncPublishStep, InstallIndexStep, SyncInstallStep, VerifyStep,
     CleanupEdgeStep, SyncCleanupStep, DoneStep
     DEF Forward
<1>4. ASSUME NEW p \in Procs, Kill(p) PROVE IInv'
  BY <1>4, KillStep
<1>5. CASE Others
  BY <1>5, GitLockStep, GitUpdateStep, GitUnlockStep, EditStep DEF Others
<1>6. CASE PowerLoss
  BY <1>6, PowerLossStep
<1>7. CASE UNCHANGED vars
  BY <1>7, StutterStep
<1> QED BY <1>1, <1>2, <1>3, <1>4, <1>5, <1>6, <1>7 DEF Next, Step

\* The invariant: what is on disk and what each process knows of it, at every
\* step of a merge or a recovery and whatever else happens.
THEOREM InvariantHolds == Spec => []IInv
<1>1. Init => IInv
  BY InitHolds
<1>2. IInv /\ [Next]_vars => IInv'
  BY StepHolds
<1> QED BY <1>1, <1>2, PTL DEF Spec

\* Every value has its type: among others the versions and the index updates
\* stay within the bounds, and nobody but the holder of the guard is in a step
\* that needs it.
THEOREM TypeCorrect == Spec => []TypeOK
<1>1. IInv => TypeOK
  <2> SUFFICES ASSUME Typed PROVE TypeOK
    BY DEF IInv
  <2>1. \A s \in disk : IsFiles(s)
    BY FileIs DEF Typed, IsFiles, BundleKinds, JournalKinds, LockKinds, Foreign
  <2>2. born \in 2 .. (2 + runs + edits)
    <3>1. /\ Cardinality(Pending) \in Nat /\ runs \in Nat /\ edits \in Nat
          /\ born \in Nat /\ born >= 2 /\ born + Cardinality(Pending) <= 2 + runs + edits
      BY Bounds, FS_CardinalityType DEF Typed
    <3> QED BY <3>1
  <2>3. \A p \in Procs : plan[p] = NoTx \/ plan[p] \in [conflict : Targets, result : Versions]
    BY DEF Typed, Plans
  <2> QED BY <2>1, <2>2, <2>3 DEF Typed, TypeOK
<1> QED BY <1>1, InvariantHolds, PTL

-----------------------------------------------------------------------------
(* The properties of single states.                                        *)

\* .git/index.lock is never a marker or a candidate without the stable bundle
\* that recovery needs to release it, in none of the files that a power loss may
\* leave.
THEOREM LockHasOwner == Spec => []LockIsOwned
<1>1. IInv => LockIsOwned
  BY DEF IInv, DiskInv, OwnedOK, LockIsOwned
<1> QED BY <1>1, InvariantHolds, PTL

\* Nobody has interfered with the transaction of these files.
LEMMA UndisturbedIs ==
  ASSUME NEW s \in Files, s.bundle.kind # "none", Undisturbed(s), OwnedOK(s), NEW tx,
         tx = s.bundle.tx
  PROVE  /\ tx \in Transactions /\ TxOK(tx)
         /\ s.index \in {tx.old, FinalIndex(tx)} /\ tx.old.target = tx.conflict
         /\ s.lock.kind # "foreign" /\ s.dst \in {tx.conflict.dst, tx.result}
         /\ SourceIs(s, tx.conflict, {tx.src, Absent})
         /\ tx.conflict.dst # tx.result /\ tx.old # FinalIndex(tx)
         /\ s.index.rest = tx.old.rest
         /\ s.index = FinalIndex(tx) <=> ResultStaged(s, tx)
         /\ tx.conflict.kind \notin {"inPlace", "splitOurs", "splitTheirs"} =>
              tx.src = Absent
<1>1. tx \in Transactions /\ TxOK(tx) /\ tx # NoTx
  BY PartsAre, NoTxIs DEF OwnedOK
<1>2. TxOf(s) = tx
  BY <1>1 DEF TxOf
<1>3. /\ s.index \in {tx.old, FinalIndex(tx)} /\ tx.old.target = tx.conflict
      /\ s.lock.kind # "foreign" /\ s.dst \in {tx.conflict.dst, tx.result}
      /\ SourceIs(s, tx.conflict, {tx.src, Absent})
  BY <1>1, <1>2 DEF Undisturbed
<1>4. /\ PlanOK(tx.conflict, tx.result)
      /\ tx.conflict.kind # "inPlace" => tx.src \in FitSources(tx.conflict)
  BY <1>1 DEF TxOK
<1>5. tx.conflict.dst # tx.result
  BY <1>1, <1>4, TxIs, TargetIs DEF PlanOK
<1>6. /\ FinalIndex(tx).target.kind = "merged" /\ FinalIndex(tx).rest = tx.old.rest
      /\ tx.old.target.kind # "merged"
  BY <1>1, <1>3, <1>4, FinalIs DEF PlanOK
<1>7. tx.old # FinalIndex(tx) /\ s.index.rest = tx.old.rest
  BY <1>3, <1>6
<1>8. s.index = FinalIndex(tx) <=> ResultStaged(s, tx)
  BY <1>3, <1>6 DEF ResultStaged
<1>9. ASSUME tx.conflict.kind \notin {"inPlace", "splitOurs", "splitTheirs"}
      PROVE  tx.src = Absent
  BY <1>4, <1>9 DEF PlanOK, Sourced, Split, FitSources
<1> QED BY <1>1, <1>3, <1>5, <1>7, <1>8, <1>9

\* What the shape of undisturbed files says of their transaction.
LEMMA ShapesAre ==
  ASSUME NEW s \in Files, Undisturbed(s), OwnedOK(s), NEW tx, tx = s.bundle.tx
  PROVE  /\ BeforeShape(s) =>
              /\ Unmoved(s) /\ tx.old.target = tx.conflict /\ WorktreeOriginal(s, tx)
              /\ s.lock = None \/ (s.publish = tx /\ s.lock = A("marker", tx))
         /\ ReadyShape(s) =>
              /\ JournalReady(s) /\ (WorktreeOriginal(s, tx) \/ s.dst = tx.result)
              /\ tx.conflict.kind = "detected" => s.src = Absent
         /\ CandidateShape(s) => CandidateInLock(s) /\ WorktreeFinal(s, tx)
         /\ InstalledShape(s) =>
              /\ s.lock = None /\ ResultStaged(s, tx) /\ WorktreeFinal(s, tx)
              /\ s.index = FinalIndex(tx)
<1>1. ASSUME BeforeShape(s)
      PROVE  /\ Unmoved(s) /\ tx.old.target = tx.conflict /\ WorktreeOriginal(s, tx)
             /\ s.lock = None \/ (s.publish = tx /\ s.lock = A("marker", tx))
  <2>1. /\ s.bundle.kind = "stable"
        /\ s.index = tx.old \/ s.index.rest # tx.old.rest
        /\ Calmly(s) \/ (s.publish = tx /\ s.lock = A("marker", tx))
        /\ s.dst # tx.result /\ SourceLeft(s, tx)
    BY <1>1 DEF BeforeShape
  <2>2. /\ s.index.rest = tx.old.rest /\ tx.old.target = tx.conflict
        /\ s.lock.kind # "foreign" /\ s.dst \in {tx.conflict.dst, tx.result}
        /\ SourceIs(s, tx.conflict, {tx.src, Absent})
    BY <2>1, UndisturbedIs
  <2>3. Unmoved(s)
    BY <2>1, <2>2 DEF Unmoved
  <2>4. WorktreeOriginal(s, tx)
    BY <2>1, <2>2 DEF WorktreeOriginal, SourceIs, SourceLeft
  <2>5. s.lock = None \/ (s.publish = tx /\ s.lock = A("marker", tx))
    BY <2>1, <2>2, PartsAre DEF Calmly
  <2> QED BY <2>2, <2>3, <2>4, <2>5
<1>2. ASSUME ReadyShape(s)
      PROVE  /\ JournalReady(s) /\ (WorktreeOriginal(s, tx) \/ s.dst = tx.result)
             /\ tx.conflict.kind = "detected" => s.src = Absent
  <2>1. JournalReady(s) /\ s.bundle.kind = "stable"
        /\ (s.dst = tx.conflict.dst => SourceLeft(s, tx))
    BY <1>2 DEF ReadyShape, JournalReady, Bound
  <2>2. /\ s.dst \in {tx.conflict.dst, tx.result}
        /\ SourceIs(s, tx.conflict, {tx.src, Absent})
        /\ tx.conflict.kind = "detected" => tx.src = Absent
    BY <2>1, UndisturbedIs
  <2> QED BY <2>1, <2>2 DEF WorktreeOriginal, SourceIs, SourceLeft
<1>3. ASSUME CandidateShape(s)
      PROVE  CandidateInLock(s) /\ WorktreeFinal(s, tx)
  <2>1. /\ CandidateInLock(s) /\ s.bundle.kind = "stable" /\ s.dst # tx.conflict.dst
        /\ SourceGone(s, tx)
    BY <1>3 DEF CandidateShape, CandidateInLock, Bound
  <2>2. /\ s.dst \in {tx.conflict.dst, tx.result}
        /\ SourceIs(s, tx.conflict, {tx.src, Absent})
    BY <2>1, UndisturbedIs
  <2> QED BY <2>1, <2>2 DEF WorktreeFinal, SourceIs, SourceGone
<1>4. ASSUME InstalledShape(s)
      PROVE  /\ s.lock = None /\ ResultStaged(s, tx) /\ WorktreeFinal(s, tx)
             /\ s.index = FinalIndex(tx)
  <2>1. /\ s.bundle.kind # "none" /\ Calmly(s) /\ s.dst # tx.conflict.dst
        /\ ResultStaged(s, tx) \/ s.index.rest # tx.old.rest
        /\ SourceGone(s, tx)
    BY <1>4 DEF InstalledShape
  <2>2. /\ s.dst \in {tx.conflict.dst, tx.result} /\ s.index.rest = tx.old.rest
        /\ SourceIs(s, tx.conflict, {tx.src, Absent}) /\ s.lock.kind # "foreign"
        /\ s.index = FinalIndex(tx) <=> ResultStaged(s, tx)
    BY <2>1, UndisturbedIs
  <2>3. s.lock = None
    BY <2>1, <2>2, PartsAre DEF Calmly
  <2> QED BY <2>1, <2>2, <2>3 DEF WorktreeFinal, SourceIs, SourceGone
<1> QED BY <1>1, <1>2, <1>3, <1>4

\* Files of such a shape are a state that recovery goes on from.
LEMMA ShapeRecovers ==
  ASSUME NEW s \in Files, Shape(s), OwnedOK(s), Undisturbed(s)
  PROVE  Recoverable(s)
<1>1. PICK tx : tx = s.bundle.tx
  OBVIOUS
<1>2. CASE BeforeShape(s)
  <2>1. /\ Unmoved(s) /\ WorktreeOriginal(s, tx)
        /\ s.lock = None \/ (s.publish = tx /\ s.lock = A("marker", tx))
    BY <1>1, <1>2, ShapesAre
  <2>2. s.bundle.kind = "stable" /\ s.journal = None /\ s.publish \in {NoTx, tx}
    BY <1>1, <1>2 DEF BeforeShape
  <2>3. StableOnly(s) \/ PublishReady(s) \/ MarkerNoJournal(s)
    BY <1>1, <2>1, <2>2 DEF StableOnly, PublishReady, MarkerNoJournal, Bound
  <2> QED BY <1>1, <2>1, <2>3 DEF Recoverable
<1>3. CASE ReadyShape(s)
  BY <1>1, <1>3, ShapesAre DEF Recoverable
<1>4. CASE CandidateShape(s)
  BY <1>1, <1>4, ShapesAre DEF Recoverable
<1>5. CASE InstalledShape(s)
  <2>1. /\ s.lock = None /\ ResultStaged(s, tx) /\ WorktreeFinal(s, tx)
    BY <1>1, <1>5, ShapesAre
  <2>2. /\ s.bundle.kind \in {"stable", "full"} /\ s.publish = NoTx
        /\ s.journal = A("journal", tx) /\ s.journal.kind = "journal"
        /\ s.journal.tx = tx /\ s.bundle = A(s.bundle.kind, tx)
    BY <1>1, <1>5, PlacedIs, PartsAre DEF InstalledShape
  <2>3. CASE s.bundle.kind = "stable"
    <3>1. Completed(s)
      BY <1>1, <2>1, <2>2, <2>3 DEF Completed, Bound
    <3> QED BY <1>1, <2>1, <3>1 DEF Recoverable
  <2>4. CASE s.bundle.kind = "full"
    <3>1. Retiring(s, 2) /\ Confirmed(s, s.journal.tx)
      BY <2>1, <2>2, <2>4, RetiringIs DEF Confirmed
    <3> QED BY <3>1 DEF Recoverable
  <2> QED BY <2>2, <2>3, <2>4
<1>6. CASE ReceiptShape(s)
  <2>1. PICK i \in 3 .. 7 : Retiring(s, i)
    BY <1>6 DEF ReceiptShape
  <2>2. CASE i = 7
    BY <2>1, <2>2 DEF Recoverable, Clean
  <2>3. CASE i # 7
    <3>1. i \in 2 .. 6 /\ Chain[i][2] # "journal"
      BY <2>3 DEF Chain
    <3> QED BY <2>1, <3>1 DEF Recoverable
  <2> QED BY <2>2, <2>3
<1> QED BY <1>2, <1>3, <1>4, <1>5, <1>6 DEF Shape

\* Without power losses: whenever a run is killed, or a sync fails, the files that it
\* leaves are a state that the next run can finish, unless an editor or a Git
\* command has interfered.
THEOREM KillsRecover ==
  ASSUME MaxLosses = 0 PROVE Spec => []RecoverableAfterKill
<1>1. IInv => RecoverableAfterKill
  <2> SUFFICES ASSUME IInv, Undisturbed(vis) PROVE Recoverable(vis)
    BY DEF RecoverableAfterKill
  <2>1. Typed /\ DiskInv /\ SeenInv /\ vis \in disk /\ vis \in Files
    BY DEF IInv, Typed
  <2>2. Shape(vis)
    BY <2>1 DEF Seen, SeenInv
  <2> QED BY <2>1, <2>2, ShapeRecovers DEF DiskInv
<1> QED BY <1>1, InvariantHolds, PTL

\* When no sync fails and nobody is killed: everything that a power loss may
\* leave, in whatever order the directories reach the disk, is a state that
\* recovery can finish, and the index lock in it has its bundle.
THEOREM LossRecovers ==
  ASSUME MaxFaults = 0, MaxKills = 0 PROVE Spec => []LossLeavesMerge
<1>1. IInv => LossLeavesMerge
  <2> SUFFICES ASSUME IInv, NEW s \in disk PROVE LockIsOwned /\ (Undisturbed(s) => Recoverable(s))
    BY DEF RecoverableAfterPowerLoss, LossLeavesMerge, IInv, Typed
  <2>1. DiskInv /\ SeenInv /\ s \in Files
    BY DEF IInv, Typed
  <2>2. Shape(s)
    BY <2>1 DEF Seen, SeenInv, Calm
  <2>3. LockIsOwned
    BY <2>1 DEF DiskInv, OwnedOK, LockIsOwned
  <2> QED BY <2>1, <2>2, <2>3, ShapeRecovers DEF DiskInv
<1> QED BY <1>1, InvariantHolds, PTL

-----------------------------------------------------------------------------
(* The properties of steps.                                                *)

\* What is visible of the index and of the worktree.
Shown(s) == <<s.index, s.dst, s.src>>

LEMMA ShownIs ==
  ASSUME NEW s, NEW t, Shown(s) = Shown(t)
  PROVE  s.index = t.index /\ s.dst = t.dst /\ s.src = t.src
BY DEF Shown

\* The steps of a merge change the index and the worktree in three places.
LEMMA PrejournalShows ==
  ASSUME Typed, NEW p \in Procs, Prejournal(p)
  PROVE  Shown(vis') = Shown(vis)
<1>1. vis \in Files
  BY DEF Typed
<1>2. CASE vis' = vis
  BY <1>2 DEF Shown
<1>3. ASSUME NEW x, vis' = [vis EXCEPT !.bundle = x] \/ vis' = [vis EXCEPT !.publish = x]
                      \/ vis' = [vis EXCEPT !.lock = x] \/ vis' = [vis EXCEPT !.journal = x]
      PROVE  Shown(vis') = Shown(vis)
  BY <1>1, <1>3 DEF Files, Shown
<1>4. \/ vis' = vis
      \/ \E x : \/ vis' = [vis EXCEPT !.bundle = x] \/ vis' = [vis EXCEPT !.publish = x]
                \/ vis' = [vis EXCEPT !.lock = x] \/ vis' = [vis EXCEPT !.journal = x]
  <2>1. CASE Inspect(p)
    BY <2>1 DEF Inspect, files
  <2>2. CASE MoveBundle(p)
    BY <2>2 DEF MoveBundle, Refuse, Change, SyncFails, files
  <2>3. CASE SyncBundle(p) \/ SyncStaging(p) \/ SyncMarker(p) \/ SyncJournal(p)
    BY <2>3 DEF SyncBundle, SyncStaging, SyncMarker, SyncJournal, Sync, SyncFails
  <2>4. CASE MoveStaging(p)
    BY <2>4 DEF MoveStaging, Refuse, Change, SyncFails, files
  <2>5. CASE AuditMarker(p)
    BY <2>5 DEF AuditMarker, Refuse, Sync, SyncFails, files
  <2>6. CASE MoveMarker(p)
    BY <2>6 DEF MoveMarker, Refuse, Change, SyncFails, files
  <2>7. CASE MoveJournal(p)
    BY <2>7 DEF MoveJournal, Refuse, Change, SyncFails, files
  <2> QED BY <2>1, <2>2, <2>3, <2>4, <2>5, <2>6, <2>7 DEF Prejournal
<1> QED BY <1>2, <1>3, <1>4

Writes(p) ==
  LET tx == vis.bundle.tx
  IN /\ WriteWorktree(p) /\ WorktreeOriginal(vis, tx)
     /\ vis' = [vis EXCEPT !.dst = tx.result]

Removes(p) ==
  /\ RemoveSource(p) /\ vis.src # Absent /\ vis.src = vis.bundle.tx.src
  /\ vis' = [vis EXCEPT !.src = Absent]

Installs(p) ==
  LET tx == vis.bundle.tx
  IN /\ InstallIndex(p) /\ CandidateInLock(vis)
     /\ vis' = [vis EXCEPT !.index = FinalIndex(tx), !.lock = None]

LEMMA ForwardShows ==
  ASSUME Typed, NEW p \in Procs, Forward(p)
  PROVE  Shown(vis') = Shown(vis) \/ Writes(p) \/ Removes(p) \/ Installs(p)
<1>1. vis \in Files
  BY DEF Typed
<1>2. CASE vis' = vis
  BY <1>2 DEF Shown
<1>3. CASE WriteWorktree(p)
  <2>1. vis' = vis \/ Writes(p)
    BY <1>3 DEF WriteWorktree, Writes, Refuse, Change, Sync, SyncFails, files
  <2> QED BY <1>2, <2>1
<1>4. CASE RemoveSource(p)
  <2>1. vis' = vis \/ Removes(p)
    BY <1>4 DEF RemoveSource, Removes, Refuse, Change, Sync, SyncFails, files
  <2> QED BY <1>2, <2>1
<1>5. CASE PublishStaging(p)
  <2>1. vis' = vis \/ \E x, y : vis' = [vis EXCEPT !.publish = x, !.lock = y]
    BY <1>5 DEF PublishStaging, Refuse, Change, SyncFails, files
  <2>2. ASSUME NEW x, NEW y, vis' = [vis EXCEPT !.publish = x, !.lock = y]
        PROVE  Shown(vis') = Shown(vis)
    BY <1>1, <2>2 DEF Files, Shown
  <2> QED BY <1>2, <2>1, <2>2
<1>6. CASE InstallIndex(p)
  <2>1. vis' = vis \/ Installs(p)
    BY <1>6 DEF InstallIndex, Installs, Refuse, Change, SyncFails, files
  <2> QED BY <1>2, <2>1
<1>7. CASE Verify(p)
  <2>1. vis' = vis
    BY <1>7 DEF Verify, Refuse, Sync, SyncFails, files
  <2> QED BY <1>2, <2>1
<1>8. CASE CleanupEdge(p)
  <2>1. vis' = vis \/ \E x, y : vis' = [vis EXCEPT !.bundle = x, !.journal = y]
    BY <1>8 DEF CleanupEdge, Refuse, Change, SyncFails, files
  <2>2. ASSUME NEW x, NEW y, vis' = [vis EXCEPT !.bundle = x, !.journal = y]
        PROVE  Shown(vis') = Shown(vis)
    BY <1>1, <2>2 DEF Files, Shown
  <2> QED BY <1>2, <2>1, <2>2
<1>9. CASE SyncWorktree(p) \/ SyncSource(p) \/ SyncPublish(p) \/ SyncInstall(p)
             \/ SyncCleanup(p) \/ Done(p)
  <2>1. vis' = vis
    BY <1>9 DEF SyncWorktree, SyncSource, SyncPublish, SyncInstall, SyncCleanup, Done,
                Sync, SyncFails, files
  <2> QED BY <1>2, <2>1
<1> QED BY <1>3, <1>4, <1>5, <1>6, <1>7, <1>8, <1>9 DEF Forward

LEMMA OwnShows ==
  ASSUME Typed, [Next]_vars, OwnStep
  PROVE  \/ Shown(vis') = Shown(vis)
         \/ \E p \in Procs : Writes(p) \/ Removes(p) \/ Installs(p)
<1>1. vis \in Files /\ gits \in Nat /\ edits \in Nat /\ losses \in Nat
  BY Bounds DEF Typed
<1>2. CASE vis' = vis
  BY <1>2 DEF Shown
<1>3. ASSUME NEW p \in Procs, Step(p) \/ Kill(p)
      PROVE  Shown(vis') = Shown(vis) \/ Writes(p) \/ Removes(p) \/ Installs(p)
  <2>1. CASE Unlocked(p)
    <3>1. vis' = vis
      BY <2>1 DEF Unlocked, Start, AcquireRecover, Plan, Commit, Refuse, Sync, SyncFails, files
    <3> QED BY <1>2, <3>1
  <2>2. CASE Kill(p)
    <3>1. vis' = vis
      BY <2>2 DEF Kill, files
    <3> QED BY <1>2, <3>1
  <2> QED BY <1>3, <2>1, <2>2, PrejournalShows, ForwardShows DEF Step
<1>4. CASE Others
  <2>1. ~GitUpdate /\ ~Edit("dst") /\ ~Edit("src")
    BY <1>1 DEF OwnStep, GitUpdate, Edit
  <2>2. \E x : vis' = [vis EXCEPT !.lock = x]
    BY <1>4, <2>1 DEF Others, GitLock, GitUnlock, Change
  <2> QED BY <1>1, <2>2 DEF Files, Shown
<1>5. CASE PowerLoss
  BY <1>1, <1>5 DEF PowerLoss, OwnStep
<1>6. CASE UNCHANGED vars
  BY <1>2, <1>6 DEF vars
<1> QED BY <1>3, <1>4, <1>5, <1>6 DEF Next

\* The index that a merge installs was made from exactly the index that it
\* replaces: no entry that a Git command wrote in between is lost.
THEOREM GitChangesAreKept == Spec => GitChangesKept
<1>1. IInv /\ [Next]_vars =>
        [OwnStep /\ vis'.index # vis.index =>
           vis.index = vis.lock.tx.old /\ vis'.index = FinalIndex(vis.lock.tx)]_vars
  <2> SUFFICES ASSUME IInv, [Next]_vars, OwnStep, vis'.index # vis.index
               PROVE  vis.index = vis.lock.tx.old /\ vis'.index = FinalIndex(vis.lock.tx)
    OBVIOUS
  <2>1. Typed /\ vis \in Files
    BY DEF IInv, Typed
  <2>2. PICK p \in Procs : Writes(p) \/ Removes(p) \/ Installs(p)
    BY <2>1, OwnShows, ShownIs
  <2>3. ~Writes(p) /\ ~Removes(p)
    BY <2>1 DEF Writes, Removes, Files
  <2>4. /\ CandidateInLock(vis)
        /\ vis' = [vis EXCEPT !.index = FinalIndex(vis.bundle.tx), !.lock = None]
    BY <2>2, <2>3 DEF Installs
  <2>5. vis'.index = FinalIndex(vis.bundle.tx)
    BY <2>1, <2>4 DEF Files
  <2>6. vis.lock.tx = vis.bundle.tx /\ vis.index = vis.bundle.tx.old
    BY <2>4, PlacedIs DEF CandidateInLock, Bound, Unmoved
  <2> QED BY <2>5, <2>6
<1> QED BY <1>1, InvariantHolds, PTL DEF Spec, GitChangesKept

\* A document that a merge replaces or removes is a stage of the conflict that is
\* still in the index, so no version that an editor saved since is overwritten,
\* and the source goes only after the result has come.
THEOREM EditsAreKept == Spec => EditsKept
<1>1. IInv /\ [Next]_vars =>
        [OwnStep =>
           /\ vis'.dst # vis.dst => vis.index.target.kind # "merged"
                                    /\ vis.index.target.dst = vis.dst
           /\ vis'.src # vis.src => vis.index.target.src = vis.src
                                    /\ vis.dst = vis.bundle.tx.result]_vars
  <2> SUFFICES ASSUME IInv, [Next]_vars, OwnStep
               PROVE  /\ vis'.dst # vis.dst => vis.index.target.kind # "merged"
                                               /\ vis.index.target.dst = vis.dst
                      /\ vis'.src # vis.src => vis.index.target.src = vis.src
                                               /\ vis.dst = vis.bundle.tx.result
    OBVIOUS
  <2>1. Typed /\ vis \in Files
    BY DEF IInv, Typed
  <2>2. CASE Shown(vis') = Shown(vis)
    BY <2>2, ShownIs
  <2>3. ASSUME JournalReady(vis)
        PROVE  LET tx == vis.bundle.tx
               IN TxOK(tx) /\ vis.index.target = tx.conflict
    <3>1. OwnedOK(vis) /\ vis.journal.kind = "journal" /\ vis.journal.tx = vis.bundle.tx
      BY <2>1, <2>3, PlacedIs DEF IInv, DiskInv, Typed, JournalReady, Bound
    <3> QED BY <2>3, <3>1 DEF OwnedOK, JournalReady, Unmoved
  <2>4. ASSUME NEW p \in Procs, Writes(p)
        PROVE  /\ vis.index.target.kind # "merged" /\ vis.index.target.dst = vis.dst
               /\ vis'.src = vis.src
    <3>1. holder = p /\ pc[p] = "worktree" /\ Knows("worktree")
      BY <2>4, ActorIs DEF Writes, WriteWorktree, Holds
    <3>2. JournalReady(vis)
      BY <3>1, KnowsIs DEF KnowsList
    <3>3. vis.dst = vis.bundle.tx.conflict.dst /\ vis'.src = vis.src
      BY <2>1, <2>4 DEF Writes, WorktreeOriginal, Files
    <3> QED BY <2>3, <3>2, <3>3 DEF TxOK, PlanOK
  <2>5. ASSUME NEW p \in Procs, Removes(p)
        PROVE  /\ vis.index.target.src = vis.src /\ vis.dst = vis.bundle.tx.result
               /\ vis'.dst = vis.dst
    <3>1. holder = p /\ pc[p] = "source" /\ Knows("source")
      BY <2>5, ActorIs DEF Removes, RemoveSource, Holds
    <3>2. /\ JournalReady(vis) /\ vis.dst = vis.bundle.tx.result
          /\ Split(vis.bundle.tx.conflict.kind)
      BY <3>1, KnowsIs DEF KnowsList
    <3>3. vis.src # Absent /\ vis.src = vis.bundle.tx.src /\ vis'.dst = vis.dst
      BY <2>1, <2>5 DEF Removes, Files
    <3>4. vis.bundle.tx.src \in FitSources(vis.bundle.tx.conflict)
      BY <2>3, <3>2 DEF TxOK, Split
    <3> QED BY <2>3, <3>2, <3>3, <3>4 DEF FitSources
  <2>6. ASSUME NEW p \in Procs, Installs(p)
        PROVE  vis'.dst = vis.dst /\ vis'.src = vis.src
    BY <2>1, <2>6 DEF Installs, Files
  <2> QED BY <2>1, <2>2, <2>4, <2>5, <2>6, OwnShows
<1> QED BY <1>1, InvariantHolds, PTL DEF Spec, EditsKept

\* Only the end of a merge of its own reports it as done.
LEMMA MergedIs ==
  ASSUME NEW p \in Procs, Step(p) \/ Kill(p), reply' = "Merged"
  PROVE  Done(p) /\ plan[p] # NoTx
<1>1. ~Kill(p) /\ ~Start(p) /\ ~AcquireRecover(p) /\ ~Plan(p) /\ ~Commit(p)
  BY DEF Kill, Start, AcquireRecover, Plan, Commit, Goto, Return, Refuse, SyncFails
<1>2. ~Inspect(p)
  BY DEF Inspect, Recovered, Goto, Return
<1>3. ~MoveBundle(p) /\ ~MoveStaging(p) /\ ~AuditMarker(p) /\ ~MoveMarker(p)
  BY DEF MoveBundle, MoveStaging, AuditMarker, MoveMarker, Goto, Return, Refuse, SyncFails,
         Unauthorized
<1>4. ~MoveJournal(p)
  BY DEF MoveJournal, Goto, Return, Refuse, SyncFails, Unauthorized
<1>5. ~SyncBundle(p) /\ ~SyncStaging(p) /\ ~SyncMarker(p) /\ ~SyncJournal(p) /\ ~SyncPublish(p)
  BY DEF SyncBundle, SyncStaging, SyncMarker, SyncJournal, SyncPublish, Proceed, Goto, Return,
         SyncFails
<1>6. ~WriteWorktree(p) /\ ~RemoveSource(p)
  BY DEF WriteWorktree, RemoveSource, Goto, Return, Refuse, SyncFails
<1>7. ~SyncWorktree(p) /\ ~SyncSource(p) /\ ~SyncInstall(p) /\ ~SyncCleanup(p)
  BY DEF SyncWorktree, SyncSource, SyncInstall, SyncCleanup, Goto, Return, SyncFails
<1>8. ~PublishStaging(p) /\ ~InstallIndex(p)
  BY DEF PublishStaging, InstallIndex, Goto, Return, Refuse, SyncFails
<1>9. ~Verify(p)
  BY DEF Verify, Goto, Return, Refuse, SyncFails
<1>10. ~CleanupEdge(p)
  BY DEF CleanupEdge, Goto, Return, Refuse, SyncFails
<1>11. Done(p)
  BY <1>1, <1>2, <1>3, <1>4, <1>5, <1>6, <1>7, <1>8, <1>9, <1>10
     DEF Step, Unlocked, Prejournal, Forward
<1>12. plan[p] # NoTx
  BY <1>11 DEF Done, Recovered, Return
<1> QED BY <1>11, <1>12

\* A step of one process leaves the others where they are.
LEMMA OthersWait ==
  ASSUME Typed, NEW p \in Procs, Step(p) \/ Kill(p)
  PROVE  \A q \in Procs : q # p => pc'[q] = pc[q]
<1>1. pc \in [Procs -> Steps]
  BY DEF Typed
<1>2. (\E step : Goto(p, step)) \/ (\E r : Return(p, r)) \/ (\E r, step : Proceed(p, r, step))
        \/ \E step : pc' = [pc EXCEPT ![p] = step]
  <2>1. CASE Unlocked(p) \/ Kill(p)
    BY <2>1 DEF Unlocked, Kill, Start, AcquireRecover, Plan, Commit, Refuse, SyncFails
  <2>2. CASE Inspect(p)
    BY <2>2 DEF Inspect, Recovered
  <2>3. CASE MoveBundle(p) \/ MoveStaging(p) \/ AuditMarker(p) \/ MoveMarker(p) \/ MoveJournal(p)
    BY <2>3 DEF MoveBundle, MoveStaging, AuditMarker, MoveMarker, MoveJournal, Refuse, SyncFails
  <2>4. CASE SyncBundle(p) \/ SyncStaging(p) \/ SyncMarker(p) \/ SyncJournal(p) \/ SyncPublish(p)
    BY <2>4 DEF SyncBundle, SyncStaging, SyncMarker, SyncJournal, SyncPublish, SyncFails
  <2>5. CASE WriteWorktree(p) \/ RemoveSource(p) \/ PublishStaging(p) \/ InstallIndex(p)
    BY <2>5 DEF WriteWorktree, RemoveSource, PublishStaging, InstallIndex, Refuse, SyncFails
  <2>6. CASE SyncWorktree(p) \/ SyncSource(p) \/ SyncInstall(p) \/ SyncCleanup(p)
    BY <2>6 DEF SyncWorktree, SyncSource, SyncInstall, SyncCleanup, SyncFails
  <2>7. CASE Verify(p) \/ CleanupEdge(p)
    BY <2>7 DEF Verify, CleanupEdge, Refuse, SyncFails
  <2>8. CASE Done(p)
    BY <2>8 DEF Done, Recovered
  <2> QED BY <2>1, <2>2, <2>3, <2>4, <2>5, <2>6, <2>7, <2>8
          DEF Step, Prejournal, Forward
<1>3. \E step : pc' = [pc EXCEPT ![p] = step]
  BY <1>2 DEF Goto, Return, Proceed
<1> QED BY <1>1, <1>3

\* A merge that is reported as done survives a power loss: whatever Git has done
\* to the index since, its conflict is out of it, its result is in the worktree
\* and nothing is left to recover.
THEOREM AcknowledgedMerges == Spec => MergeAcknowledged
<1>1. IInv /\ [Next]_vars =>
        [\A p \in Procs :
           pc[p] # "idle" /\ pc'[p] = "idle" /\ reply' = "Merged" =>
             \A s \in disk' : /\ Clean(s)
                              /\ s.index.target # plan[p].conflict
                              /\ s.dst = plan[p].result]_vars
  <2> SUFFICES ASSUME IInv, [Next]_vars, NEW p \in Procs, pc[p] # "idle", pc'[p] = "idle",
                      reply' = "Merged", NEW s \in disk'
               PROVE  /\ Clean(s) /\ s.index.target # plan[p].conflict
                      /\ s.dst = plan[p].result
    OBVIOUS
  <2>1. Typed /\ pc' # pc
    BY DEF IInv
  <2>2. PICK q \in Procs : Step(q) \/ Kill(q)
    <3>1. ~Others /\ ~PowerLoss
      BY <2>1 DEF Others, GitLock, GitUpdate, GitUnlock, Edit, Quiet, PowerLoss
    <3> QED BY <2>1, <3>1 DEF Next, vars
  <2>3. q = p
    BY <2>1, <2>2, OthersWait
  <2>4. Done(p) /\ plan[p] # NoTx
    BY <2>2, <2>3, MergedIs
  <2>5. /\ holder = p /\ pc[p] = "cleanup" /\ Clean(vis) /\ s \in disk /\ s \in Files
        /\ vis \in Files
    BY <2>1, <2>4 DEF Done, Holds, files, Typed
  <2>6. PICK mine \in Plans : mine = plan[p]
    BY <2>1, <2>4 DEF Typed
  <2>7. Owns(mine, "cleanup")
    BY <2>4, <2>5, <2>6, ActorIs
  <2>8. /\ s.dst = mine.result /\ s.index.target.dst = mine.result /\ SameLocal(s, vis)
    BY <2>5, <2>7 DEF Owns, CleanupSteps, LocalKnown
  <2>9. Clean(s)
    BY <2>5, <2>8, RetiringIs DEF SameLocal
  <2>10. mine.conflict.dst # mine.result
    <3>1. mine.conflict \in Targets /\ mine.result \in Nat
      <4>1. Versions \subseteq Nat
        BY Bounds DEF Versions
      <4> QED BY <4>1 DEF Plans
    <3> QED BY <2>7, <3>1, TargetIs DEF Owns, PlanOK
  <2> QED BY <2>6, <2>8, <2>9, <2>10
<1> QED BY <1>1, InvariantHolds, PTL DEF Spec, MergeAcknowledged


\* What a run may return when nobody has interfered.
Allowed == {"none", "Merged", "Recovered", "NoConflict", "DurabilityNotConfirmed"}

\* Before the journal the holder finds what it has made.
LEMMA BeforeProceeds ==
  ASSUME IInv, NEW p \in Procs, Shape(vis), Undisturbed(vis),
         SyncBundle(p) \/ MoveStaging(p) \/ SyncStaging(p) \/ AuditMarker(p)
           \/ MoveMarker(p) \/ SyncMarker(p) \/ MoveJournal(p)
  PROVE  reply' \in Allowed
<1>1. holder = p /\ vis \in Files /\ OwnedOK(vis) /\ Knows(pc[p])
  <2>1. holder = p
    BY DEF SyncBundle, MoveStaging, SyncStaging, AuditMarker, MoveMarker, SyncMarker,
           MoveJournal, Holds
  <2> QED BY <2>1, ActorIs
<1>2. PICK tx : tx = vis.bundle.tx
  OBVIOUS
<1>3. ASSUME vis.bundle.kind = "stable", vis.journal = None
      PROVE  /\ Unmoved(vis) /\ Authorized(vis)
             /\ vis.lock = None \/ (vis.publish = tx /\ vis.lock = A("marker", tx))
  <2>1. /\ Unmoved(vis) /\ tx.old.target = tx.conflict /\ WorktreeOriginal(vis, tx)
        /\ vis.lock = None \/ (vis.publish = tx /\ vis.lock = A("marker", tx))
    BY <1>1, <1>2, <1>3, BeforeIs, ShapesAre
  <2> QED BY <1>2, <2>1 DEF Authorized
<1>4. Calmly(vis) /\ vis.bundle.kind = "stable" /\ vis.journal = None => vis.lock = None
  BY <1>3, PlacedIs DEF Calmly
<1>5. CASE SyncBundle(p)
  <2>1. Before(FALSE) /\ Calmly(vis)
    BY <1>1, <1>5, KnowsIs DEF SyncBundle, Holds, KnowsList, BundleSteps
  <2>2. StableOnly(vis)
    BY <1>3, <1>4, <2>1 DEF Before, StableOnly, Bound
  <2> QED BY <1>5, <2>2 DEF SyncBundle, Proceed, Goto, SyncFails, Return, Allowed
<1>6. CASE MoveStaging(p)
  <2>1. Before(FALSE)
    BY <1>1, <1>6, KnowsIs DEF MoveStaging, Holds, KnowsList, BundleSteps
  <2> QED BY <1>3, <1>6, <2>1 DEF Before, MoveStaging, Goto, SyncFails, Return, Allowed
<1>7. CASE SyncStaging(p)
  <2>1. Before(TRUE) /\ Calmly(vis)
    BY <1>1, <1>7, KnowsIs DEF SyncStaging, Holds, KnowsList
  <2>2. PublishReady(vis)
    BY <1>3, <1>4, <2>1 DEF Before, PublishReady, Bound
  <2> QED BY <1>7, <2>2 DEF SyncStaging, Proceed, Goto, SyncFails, Return, Allowed
<1>8. CASE AuditMarker(p)
  <2>1. Before(TRUE) /\ Calmly(vis)
    BY <1>1, <1>8, KnowsIs DEF AuditMarker, Holds, KnowsList
  <2>2. Authorized(vis) /\ vis.lock = None
    BY <1>3, <1>4, <2>1 DEF Before
  <2> QED BY <1>8, <2>2 DEF AuditMarker, Goto, SyncFails, Return, Allowed
<1>9. CASE MoveMarker(p)
  <2>1. Before(TRUE) /\ Calmly(vis)
    BY <1>1, <1>9, KnowsIs DEF MoveMarker, Holds, KnowsList
  <2>2. vis.lock = None
    BY <1>4, <2>1 DEF Before
  <2> QED BY <1>9, <2>2 DEF MoveMarker, Goto, Allowed
<1>10. CASE SyncMarker(p)
  <2>1. Before(TRUE) /\ vis.lock = A("marker", vis.bundle.tx)
    BY <1>1, <1>10, KnowsIs DEF SyncMarker, Holds, KnowsList
  <2>2. MarkerNoJournal(vis)
    BY <1>3, <2>1 DEF Before, MarkerNoJournal, Bound
  <2> QED BY <1>10, <2>2 DEF SyncMarker, Proceed, Goto, SyncFails, Return, Allowed
<1>11. CASE MoveJournal(p)
  <2>1. MarkerNoJournal(vis)
    BY <1>1, <1>11, KnowsIs DEF MoveJournal, Holds, KnowsList
  <2>2. Authorized(vis)
    BY <1>3, <2>1 DEF MarkerNoJournal, Bound
  <2> QED BY <1>11, <2>2 DEF MoveJournal, Goto, SyncFails, Return, Allowed
<1> QED BY <1>5, <1>6, <1>7, <1>8, <1>9, <1>10, <1>11

\* So does it from the journal to the new index.
LEMMA ForwardProceeds ==
  ASSUME IInv, NEW p \in Procs, Shape(vis), Undisturbed(vis),
         SyncJournal(p) \/ WriteWorktree(p) \/ SyncWorktree(p) \/ RemoveSource(p)
           \/ SyncSource(p) \/ PublishStaging(p) \/ SyncPublish(p) \/ InstallIndex(p)
  PROVE  reply' \in Allowed
<1>1. holder = p /\ vis \in Files /\ OwnedOK(vis) /\ Knows(pc[p])
  <2>1. holder = p
    BY DEF SyncJournal, WriteWorktree, SyncWorktree, RemoveSource, SyncSource,
           PublishStaging, SyncPublish, InstallIndex, Holds
  <2> QED BY <2>1, ActorIs
<1>2. PICK tx : tx = vis.bundle.tx
  OBVIOUS
<1>3. ASSUME JournalReady(vis)
      PROVE  /\ Unmoved(vis) /\ vis.bundle.kind = "stable"
             /\ WorktreeOriginal(vis, tx) \/ vis.dst = tx.result
             /\ tx.conflict.kind = "detected" => vis.src = Absent
  BY <1>1, <1>2, <1>3, ReadyIs, ShapesAre DEF JournalReady, Bound
<1>4. vis.bundle.kind # "none" =>
        /\ SourceIs(vis, tx.conflict, {tx.src, Absent})
        /\ tx.conflict.kind \notin {"inPlace", "splitOurs", "splitTheirs"} => tx.src = Absent
        /\ tx.conflict.kind \in AllKinds \cup {"merged"}
  BY <1>1, <1>2, UndisturbedIs, TxIs, TargetIs
<1>5. CASE SyncJournal(p)
  <2>1. JournalReady(vis)
    BY <1>1, <1>5, KnowsIs DEF SyncJournal, Holds, KnowsList
  <2> QED BY <1>5, <2>1 DEF SyncJournal, Proceed, Goto, SyncFails, Return, Allowed
<1>6. CASE WriteWorktree(p)
  <2>1. JournalReady(vis)
    BY <1>1, <1>6, KnowsIs DEF WriteWorktree, Holds, KnowsList
  <2> QED BY <1>2, <1>3, <1>6, <2>1 DEF WriteWorktree, Goto, SyncFails, Return, Allowed
<1>7. CASE SyncWorktree(p) \/ SyncSource(p)
  BY <1>7 DEF SyncWorktree, SyncSource, Goto, SyncFails, Return, Allowed
<1>8. CASE RemoveSource(p)
  <2>1. JournalReady(vis) /\ Split(vis.bundle.tx.conflict.kind)
    BY <1>1, <1>8, KnowsIs DEF RemoveSource, Holds, KnowsList
  <2>2. vis.src \in {Absent, vis.bundle.tx.src}
    BY <1>2, <1>3, <1>4, <2>1 DEF SourceIs, Split
  <2> QED BY <1>8, <2>2 DEF RemoveSource, Goto, SyncFails, Return, Allowed
<1>9. CASE PublishStaging(p)
  <2>1. /\ JournalReady(vis) /\ vis.dst = vis.bundle.tx.result
        /\ Split(vis.bundle.tx.conflict.kind) => vis.src = Absent
    BY <1>1, <1>9, KnowsIs DEF PublishStaging, Holds, KnowsList
  <2>2. WorktreeFinal(vis, vis.bundle.tx)
    BY <1>2, <1>3, <1>4, <2>1 DEF WorktreeFinal, SourceIs, Split
  <2> QED BY <1>9, <2>1, <2>2 DEF PublishStaging, Goto, SyncFails, Return, Allowed
<1>10. CASE SyncPublish(p)
  <2>1. CandidateInLock(vis)
    BY <1>1, <1>10, KnowsIs DEF SyncPublish, Holds, KnowsList
  <2> QED BY <1>10, <2>1 DEF SyncPublish, Proceed, Goto, SyncFails, Return, Allowed
<1>11. CASE InstallIndex(p)
  <2>1. CandidateInLock(vis)
    BY <1>1, <1>11, KnowsIs DEF InstallIndex, Holds, KnowsList
  <2>2. CandidateShape(vis)
    BY <1>1, <2>1, CandidateIs
  <2>3. WorktreeFinal(vis, vis.bundle.tx)
    BY <1>1, <1>2, <2>2, ShapesAre
  <2> QED BY <1>11, <2>1, <2>3 DEF InstallIndex, Goto, SyncFails, Return, Allowed
<1> QED BY <1>5, <1>6, <1>7, <1>8, <1>9, <1>10, <1>11

\* And from the new index to the end.
LEMMA CleanupProceeds ==
  ASSUME IInv, NEW p \in Procs, Shape(vis), Undisturbed(vis),
         SyncInstall(p) \/ Verify(p) \/ CleanupEdge(p) \/ SyncCleanup(p) \/ Done(p)
  PROVE  reply' \in Allowed
<1>1. holder = p /\ vis \in Files /\ OwnedOK(vis) /\ Knows(pc[p]) /\ Typed
  <2>1. holder = p
    BY DEF SyncInstall, Verify, CleanupEdge, SyncCleanup, Done, Holds
  <2> QED BY <2>1, ActorIs
<1>2. PICK tx : tx = vis.bundle.tx
  OBVIOUS
<1>3. ASSUME After \/ InstalledShape(vis)
      PROVE  /\ vis.publish = NoTx /\ vis.journal = A("journal", tx)
             /\ vis.bundle.kind \in {"stable", "full"} /\ vis.lock = None
             /\ ResultStaged(vis, tx) /\ WorktreeFinal(vis, tx)
             /\ vis.index = FinalIndex(tx)
  <2>1. InstalledShape(vis)
    BY <1>1, <1>3, InstalledIs
  <2> QED BY <1>1, <1>2, <2>1, ShapesAre DEF InstalledShape
<1>4. After => ExactFinal(vis) /\ Completed(vis)
  BY <1>2, <1>3 DEF After, ExactFinal, Completed, Bound
<1>5. CASE SyncInstall(p)
  <2>1. After
    BY <1>1, <1>5, KnowsIs DEF SyncInstall, Holds, KnowsList
  <2> QED BY <1>4, <1>5, <2>1 DEF SyncInstall, Goto, SyncFails, Return, Allowed
<1>6. CASE Verify(p)
  <2>1. After
    BY <1>1, <1>6, KnowsIs DEF Verify, Holds, KnowsList
  <2>2. Completed(vis) /\ WorktreeFinal(vis, vis.bundle.tx)
    BY <1>2, <1>3, <1>4, <2>1
  <2> QED BY <1>6, <2>2 DEF Verify, Goto, SyncFails, Return, Allowed
<1>7. CASE SyncCleanup(p) \/ Done(p)
  BY <1>7 DEF SyncCleanup, Done, Recovered, Goto, SyncFails, Return, Allowed
<1>8. CASE CleanupEdge(p)
  <2>1. After \/ InCleanup(vis)
    BY <1>1, <1>8, KnowsIs DEF CleanupEdge, Holds, KnowsList, CleanupSteps
  <2>2. \E i \in 1 .. 6 :
          Retiring(vis, i) /\ (Chain[i][2] = "journal" => Confirmed(vis, vis.journal.tx))
    <3>1. CASE After \/ InstalledShape(vis)
      <4>1. vis.journal.kind = "journal" /\ vis.journal.tx = tx
            /\ vis.bundle = A(vis.bundle.kind, tx)
        BY <1>1, <1>2, <1>3, <3>1, PlacedIs, PartsAre
      <4>2. Confirmed(vis, vis.journal.tx)
        BY <1>3, <3>1, <4>1 DEF Confirmed
      <4>3. Retiring(vis, 1) \/ Retiring(vis, 2)
        BY <1>1, <1>3, <3>1, <4>1, RetiringIs
      <4>4. 1 \in 1 .. 6 /\ 2 \in 1 .. 6
        OBVIOUS
      <4> QED BY <4>2, <4>3, <4>4
    <3>2. CASE ReceiptShape(vis)
      <4>1. PICK i \in 3 .. 7 : Retiring(vis, i)
        BY <3>2 DEF ReceiptShape
      <4>2. i # 7 /\ Chain[i][2] # "journal"
        <5>1. ~Clean(vis)
          BY <1>8 DEF CleanupEdge
        <5> QED BY <4>1, <5>1 DEF Clean, Chain
      <4>3. i \in 1 .. 6
        BY <4>2
      <4> QED BY <4>1, <4>2, <4>3
    <3>3. CASE InCleanup(vis) /\ ~InstalledShape(vis) /\ ~ReceiptShape(vis)
      <4>1. vis.bundle.kind # "stable" \/ vis.journal.kind = "receipt"
        BY <3>3 DEF InCleanup
      <4>2. ~BeforeShape(vis) /\ ~ReadyShape(vis) /\ ~CandidateShape(vis)
        BY <4>1, PlacedIs
           DEF BeforeShape, ReadyShape, CandidateShape, JournalReady, CandidateInLock, Bound
      <4> QED BY <3>3, <4>2 DEF Shape
    <3> QED BY <2>1, <3>1, <3>2, <3>3
  <2> QED BY <1>8, <2>2 DEF CleanupEdge, Goto, SyncFails, Return, Allowed
<1> QED BY <1>5, <1>6, <1>7, <1>8

\* Recovery finds where to go on.
LEMMA InspectProceeds ==
  ASSUME IInv, NEW p \in Procs, Shape(vis), Undisturbed(vis), Inspect(p)
  PROVE  reply' \in Allowed
<1>1. vis \in Files /\ OwnedOK(vis)
  BY DEF IInv, Typed, DiskInv
<1>2. Recoverable(vis)
  BY <1>1, ShapeRecovers
<1>3. Clean(vis) \/ \E step \in Steps : Resumes(vis, step)
  <2>1. {"staging", "marker", "journal", "worktree", "install", "verify", "cleanup"}
          \subseteq Steps
    BY DEF Steps
  <2>2. ASSUME NEW i \in 2 .. 6, Retiring(vis, i) PROVE InCleanup(vis)
    <3>1. CASE i = 2
      BY <1>1, <2>2, <3>1, RetiringIs, PlacedIs DEF InCleanup
    <3>2. CASE i # 2
      <4>1. vis.journal.kind = "receipt"
        BY <2>2, <3>2 DEF Retiring, Chain
      <4> QED BY <4>1 DEF InCleanup
    <3> QED BY <3>1, <3>2
  <2> QED BY <1>2, <2>1, <2>2 DEF Recoverable, Resumes
<1> QED BY <1>3 DEF Inspect, Recovered, Goto, Return, Allowed

\* A run that finds a transaction which nobody has interfered with never refuses
\* to finish it: while no sync fails and nobody is killed, whatever a power loss
\* leaves, and without power losses, wherever a run was killed.
THEOREM RefusalsAreCaused ==
  ASSUME Calm \/ MaxLosses = 0 PROVE Spec => RefusesOnlyDisturbed
<1>1. IInv /\ [Next]_vars =>
        [Undisturbed(vis) /\ reply' \notin {"none", reply} =>
           \/ reply' \in {"Merged", "Recovered", "NoConflict", "DurabilityNotConfirmed"}
           \/ \E p \in Procs : pc[p] \in {"commit", "bundle"} /\ pc'[p] = "idle"]_vars
  <2> SUFFICES ASSUME IInv, [Next]_vars, Undisturbed(vis), reply' \notin {"none", reply}
               PROVE  \/ reply' \in Allowed
                      \/ \E p \in Procs : pc[p] \in {"commit", "bundle"} /\ pc'[p] = "idle"
    BY DEF Allowed
  <2>1. Shape(vis) /\ pc \in [Procs -> Steps]
    BY DEF IInv, Typed, SeenInv, Seen
  <2>2. ASSUME NEW p \in Procs, Step(p) \/ Kill(p)
        PROVE  \/ reply' \in Allowed
               \/ pc[p] \in {"commit", "bundle"} /\ pc'[p] = "idle"
    <3>1. CASE Start(p) \/ AcquireRecover(p) \/ Plan(p) \/ Kill(p)
      BY <3>1 DEF Start, AcquireRecover, Plan, Kill, Goto, Return, Allowed
    <3>2. CASE Commit(p) \/ MoveBundle(p)
      <4>1. pc[p] \in {"commit", "bundle"}
        BY <3>2 DEF Commit, MoveBundle, Holds
      <4>2. reply' = "none" \/ \E r : Return(p, r)
        BY <3>2 DEF Commit, MoveBundle, Refuse, SyncFails, Goto
      <4>3. (\E r : Return(p, r)) => pc'[p] = "idle"
        BY <2>1 DEF Return
      <4> QED BY <4>1, <4>2, <4>3 DEF Allowed
    <3> QED BY <2>1, <2>2, <3>1, <3>2, InspectProceeds, BeforeProceeds, ForwardProceeds,
               CleanupProceeds
            DEF Step, Unlocked, Prejournal, Forward
  <2>3. CASE Others \/ PowerLoss
    BY <2>3 DEF Others, GitLock, GitUpdate, GitUnlock, Edit, Quiet, PowerLoss, Allowed
  <2>4. CASE UNCHANGED vars
    BY <2>4 DEF vars
  <2> QED BY <2>2, <2>3, <2>4 DEF Next
<1> QED BY <1>1, InvariantHolds, PTL DEF Spec, RefusesOnlyDisturbed
=============================================================================
