-------------------------- MODULE VaultDocumentsProofs -------------------------
(***************************************************************************)
(* Proofs about the documents of a vault, for any number of sessions,      *)
(* paths, contents and writes.                                             *)
(***************************************************************************)
EXTENDS VaultDocuments, TLAPS

-----------------------------------------------------------------------------
(* The inductive invariant.                                                *)

\* What a committed version says was counted.
DocsOK ==
  \A p \in Paths :
    docs[p] # None => docs[p].etag \in 1 .. writes /\ docs[p].id \in 1 .. writes

\* What a session displays of a plain document is what was written under the
\* displayed etag; of a container it may be another version.
ShownOK(s) ==
  shown[s] # None =>
    /\ shown[s].etag \in 1 .. writes
    /\ \A p \in Paths :
         IsAt(p, shown[s].etag) /\ docs[p].kind = "plain" =>
           docs[p].body = shown[s].body

\* Operation o is about the version that the session displays.
AboutShown(s, path, etag) ==
  /\ shown[s] # None
  /\ path = shown[s].path /\ etag = shown[s].etag

\* Between its accesses, an operation knows the version it read as long as
\* that version is still there.
ProjectOK(s) ==
  op[s].at = "project" =>
    /\ AboutShown(s, op[s].path, op[s].etag)
    /\ IsAt(op[s].path, op[s].etag) => docs[op[s].path].body = op[s].body

RereadOK(s) ==
  op[s].at = "reread" =>
    /\ AboutShown(s, op[s].path, op[s].etag)
    /\ IsAt(op[s].path, op[s].etag) => docs[op[s].path].body = shown[s].body

CommitOK(s) ==
  op[s].at = "commit" =>
    /\ AboutShown(s, op[s].path, op[s].version.etag)
    /\ IsAt(op[s].path, op[s].version.etag) =>
         LET d == docs[op[s].path]
             v == op[s].version
         IN /\ d.id = v.id /\ d.body = shown[s].body
            /\ d.kind = "umbra" => v.kind = "umbra"
            /\ d.merge = "unresolved" /\ v.merge = "resolved" =>
                 v.body \notin Marked

RenderOK(s) ==
  op[s].at = "render" =>
    /\ op[s].etag \in 1 .. writes
    /\ \A p \in Paths : IsAt(p, op[s].etag) => docs[p].kind = "umbra"

\* What is indexed under a fingerprint is what was written under its etags,
\* but for the documents still to be read.
Indexed(stamp, got, todo) ==
  \A p \in Paths :
    /\ stamp[p] = None => got[p] = None /\ p \notin todo
    /\ stamp[p] # None =>
         /\ stamp[p] \in 1 .. writes
         /\ IsAt(p, stamp[p]) /\ p \notin todo => got[p] = docs[p].body

RebuildOK(s) ==
  op[s].at = "rebuild" => Indexed(op[s].stamp, op[s].got, op[s].todo)

OpOK(s) ==
  ProjectOK(s) /\ RereadOK(s) /\ CommitOK(s) /\ RenderOK(s) /\ RebuildOK(s)

IndexOK(s) ==
  \A m \in Modes :
    index[s][m].ready = "yes" => Indexed(index[s][m].stamp, index[s][m].got, {})

SessionOK(s) == ShownOK(s) /\ OpOK(s) /\ IndexOK(s)

IInv ==
  /\ TypeOK
  /\ DocsOK
  /\ IdentityUnique
  /\ \A s \in Sessions : SessionOK(s)

-----------------------------------------------------------------------------
(* The documents only gain versions with new etags.                        *)

Grows ==
  /\ writes' \in writes .. MaxWrites
  /\ \A p \in Paths :
       docs'[p] = docs[p] \/ docs'[p] = None \/ docs'[p].etag = writes + 1

\* What a version v that replaces version d may not take away.
Succeeds(d, v) ==
  /\ d.kind = "umbra" => v.kind = "umbra"
  /\ d.merge = "unresolved" /\ v.merge = "resolved" => v.body \notin Marked

\* Version v is written at q, in place of the one at p or as a new document.
Writes(p, q, v) ==
  /\ writes < MaxWrites /\ writes' = writes + 1
  /\ v.etag = writes + 1
  /\ v.id = writes + 1 \/ (docs[p] # None /\ v.id = docs[p].id)
  /\ docs[p] # None => Succeeds(docs[p], v)
  /\ docs' = [docs EXCEPT ![p] = None, ![q] = v]

\* What a step does to the documents.
DocsStep ==
  \/ docs' = docs /\ writes' = writes
  \/ \E p \in Paths : docs' = [docs EXCEPT ![p] = None] /\ writes' = writes
  \/ \E p, q \in Paths, v \in Versions : Writes(p, q, v)

LEMMA VersionsAreNumbered ==
  ASSUME NEW v \in Versions
  PROVE  v.etag \in Nat /\ v.id \in Nat
BY DocumentsAssumption DEF Versions, Etags

LEMMA StepGrows ==
  ASSUME TypeOK, DocsStep
  PROVE  Grows
<1>1. writes \in 0 .. MaxWrites /\ docs \in [Paths -> Versions \cup {None}]
  BY DEF TypeOK
<1>2. CASE docs' = docs /\ writes' = writes
  BY <1>1, <1>2, DocumentsAssumption DEF Grows
<1>3. ASSUME NEW p \in Paths,
             docs' = [docs EXCEPT ![p] = None] /\ writes' = writes
      PROVE  Grows
  BY <1>1, <1>3, DocumentsAssumption DEF Grows
<1>4. ASSUME NEW p \in Paths, NEW q \in Paths, NEW v \in Versions,
             Writes(p, q, v)
      PROVE  Grows
  BY <1>1, <1>4, DocumentsAssumption DEF Grows, Writes
<1> QED BY <1>2, <1>3, <1>4 DEF DocsStep

\* The documents stay typed and counted, and each at one path.
LEMMA DocsKept ==
  ASSUME TypeOK, DocsOK, IdentityUnique, DocsStep
  PROVE  /\ docs' \in [Paths -> Versions \cup {None}]
         /\ writes' \in 0 .. MaxWrites
         /\ DocsOK' /\ IdentityUnique'
<1>1. writes \in 0 .. MaxWrites /\ docs \in [Paths -> Versions \cup {None}]
  BY DEF TypeOK
<1>2. CASE docs' = docs /\ writes' = writes
  BY <1>1, <1>2 DEF DocsOK, IdentityUnique
<1>3. ASSUME NEW p \in Paths,
             docs' = [docs EXCEPT ![p] = None] /\ writes' = writes
      PROVE  /\ docs' \in [Paths -> Versions \cup {None}]
             /\ writes' \in 0 .. MaxWrites
             /\ DocsOK' /\ IdentityUnique'
  BY <1>1, <1>3 DEF DocsOK, IdentityUnique
<1>4. ASSUME NEW p \in Paths, NEW q \in Paths, NEW v \in Versions,
             Writes(p, q, v)
      PROVE  /\ docs' \in [Paths -> Versions \cup {None}]
             /\ writes' \in 0 .. MaxWrites
             /\ DocsOK' /\ IdentityUnique'
  <2>1. /\ writes < MaxWrites /\ writes' = writes + 1
        /\ v.etag = writes + 1
        /\ v.id = writes + 1 \/ (docs[p] # None /\ v.id = docs[p].id)
        /\ docs' = [docs EXCEPT ![p] = None, ![q] = v]
    BY <1>4 DEF Writes
  <2>2. /\ docs' \in [Paths -> Versions \cup {None}]
        /\ writes' \in 0 .. MaxWrites
    BY <1>1, <2>1, DocumentsAssumption
  <2>3. /\ docs'[q] = v
        /\ q # p => docs'[p] = None
        /\ \A r \in Paths : r # p /\ r # q => docs'[r] = docs[r]
    BY <1>1, <2>1
  <2>4. v.id \in 1 .. writes + 1
    BY <1>1, <2>1, DocumentsAssumption DEF DocsOK
  <2>5. DocsOK'
    BY <1>1, <2>1, <2>3, <2>4, DocumentsAssumption DEF DocsOK
  <2>6. ASSUME NEW r \in Paths, r # q, docs'[r] # None
        PROVE  /\ docs'[r].id # docs'[q].id /\ docs'[r].etag # docs'[q].etag
    <3>1. r # p /\ docs'[r] = docs[r]
      BY <2>3, <2>6
    <3>2. docs[r].id \in 1 .. writes /\ docs[r].etag \in 1 .. writes
      BY <2>6, <3>1 DEF DocsOK
    <3>3. docs[p] # None => docs[r].id # docs[p].id
      BY <2>6, <3>1 DEF IdentityUnique
    <3> QED BY <1>1, <2>1, <2>3, <3>1, <3>2, <3>3
  <2>7. ASSUME NEW r \in Paths, NEW t \in Paths, r # q, t # q, r # t,
               docs'[r] # None, docs'[t] # None
        PROVE  docs'[r].id # docs'[t].id /\ docs'[r].etag # docs'[t].etag
    BY <2>3, <2>7 DEF IdentityUnique
  <2>8. IdentityUnique'
    BY <2>6, <2>7 DEF IdentityUnique
  <2> QED BY <2>2, <2>5, <2>8
<1> QED BY <1>2, <1>3, <1>4 DEF DocsStep

\* A version under an etag that was counted is the one that was there.
LEMMA OldVersions ==
  ASSUME TypeOK, Grows, NEW p \in Paths, NEW e \in 1 .. writes, IsAt(p, e)'
  PROVE  docs'[p] = docs[p] /\ IsAt(p, e)
BY DocumentsAssumption DEF TypeOK, Grows, IsAt

LEMMA OldEtags ==
  ASSUME TypeOK, Grows, NEW e \in 1 .. writes
  PROVE  e \in 1 .. writes'
BY DocumentsAssumption DEF TypeOK, Grows

-----------------------------------------------------------------------------
(* A session that does nothing keeps its part of the invariant.            *)

LEMMA ShownKept ==
  ASSUME TypeOK, Grows, NEW s \in Sessions, ShownOK(s), shown'[s] = shown[s]
  PROVE  ShownOK(s)'
<1>1. CASE shown[s] = None
  BY <1>1 DEF ShownOK
<1>2. CASE shown[s] # None
  <2>1. PICK e \in 1 .. writes : e = shown[s].etag
    BY <1>2 DEF ShownOK
  <2>2. ASSUME NEW p \in Paths, IsAt(p, e)', docs'[p].kind = "plain"
        PROVE  docs'[p].body = shown[s].body
    BY <1>2, <2>1, <2>2, OldVersions DEF ShownOK
  <2>3. e \in 1 .. writes'
    BY OldEtags
  <2> QED BY <1>2, <2>1, <2>2, <2>3 DEF ShownOK, IsAt
<1> QED BY <1>1, <1>2

LEMMA IndexedKept ==
  ASSUME TypeOK, Grows, NEW stamp, NEW got, NEW todo, Indexed(stamp, got, todo)
  PROVE  Indexed(stamp, got, todo)'
<1> SUFFICES ASSUME NEW p \in Paths, stamp[p] # None
             PROVE  /\ stamp[p] \in 1 .. writes'
                    /\ IsAt(p, stamp[p])' /\ p \notin todo =>
                         got[p] = docs'[p].body
  BY DEF Indexed
<1>1. PICK e \in 1 .. writes : e = stamp[p]
  BY DEF Indexed
<1>2. e \in 1 .. writes'
  BY OldEtags
<1>3. ASSUME IsAt(p, e)', p \notin todo
      PROVE  got[p] = docs'[p].body
  BY <1>1, <1>3, OldVersions DEF Indexed
<1> QED BY <1>1, <1>2, <1>3 DEF IsAt

LEMMA IndexKept ==
  ASSUME TypeOK, Grows, NEW s \in Sessions, IndexOK(s),
         \A m \in Modes : index'[s][m] = index[s][m] \/ index'[s][m] = NotReady
  PROVE  IndexOK(s)'
<1> SUFFICES ASSUME NEW m \in Modes, index'[s][m].ready = "yes"
             PROVE  Indexed(index[s][m].stamp, index[s][m].got, {})'
                      /\ index'[s][m] = index[s][m]
  BY DEF IndexOK, Indexed, IsAt
<1>1. index'[s][m] = index[s][m]
  BY DEF NotReady
<1>2. PICK x : x = index[s][m]
  OBVIOUS
<1>3. Indexed(x.stamp, x.got, {})
  BY <1>1, <1>2 DEF IndexOK
<1>4. Indexed(x.stamp, x.got, {})'
  BY <1>3, IndexedKept
<1> QED BY <1>1, <1>2, <1>4

\* What an operation is at each of its steps.
LEMMA OpTypes ==
  ASSUME NEW o \in Ops
  PROVE  /\ o.at = "open" => o.path \in Paths /\ o.body \in Bodies
         /\ o.at \in {"project", "reread"} =>
              o.path \in Paths /\ o.etag \in Etags /\ o.body \in Bodies
         /\ o.at = "commit" =>
              o.path \in Paths /\ o.to \in Paths /\ o.version \in Versions
         /\ o.at = "render" => o.path \in Paths /\ o.etag \in Etags
         /\ o.at = "rebuild" =>
              /\ o.mode \in Modes /\ o.stamp \in Fingerprints
              /\ o.todo \in SUBSET Paths /\ o.got \in Partial
BY DEF Ops, Idle

LEMMA ProjectKept ==
  ASSUME TypeOK, Grows, NEW s \in Sessions, SessionOK(s),
         op'[s] = op[s], shown'[s] = shown[s]
  PROVE  ProjectOK(s)' /\ RereadOK(s)'
<1> SUFFICES ASSUME op[s].at \in {"project", "reread"}
             PROVE  ProjectOK(s)' /\ RereadOK(s)'
  BY DEF ProjectOK, RereadOK
<1>1. /\ AboutShown(s, op[s].path, op[s].etag)
      /\ op[s].at = "project" => (IsAt(op[s].path, op[s].etag) =>
                                    docs[op[s].path].body = op[s].body)
      /\ op[s].at = "reread" => (IsAt(op[s].path, op[s].etag) =>
                                   docs[op[s].path].body = shown[s].body)
  BY DEF SessionOK, OpOK, ProjectOK, RereadOK
<1>2. PICK e \in 1 .. writes : e = op[s].etag
  BY <1>1 DEF SessionOK, ShownOK, AboutShown
<1>3. PICK p \in Paths : p = op[s].path
  BY OpTypes DEF TypeOK
<1>4. IsAt(p, e)' => docs'[p] = docs[p] /\ IsAt(p, e)
  BY OldVersions
<1>5. AboutShown(s, p, e)'
  BY <1>1, <1>2, <1>3 DEF AboutShown
<1>6. IsAt(p, e)' /\ op[s].at = "project" => docs'[p].body = op[s].body
  BY <1>1, <1>2, <1>3, <1>4
<1>7. IsAt(p, e)' /\ op[s].at = "reread" => docs'[p].body = shown[s].body
  BY <1>1, <1>2, <1>3, <1>4
<1> QED BY <1>2, <1>3, <1>5, <1>6, <1>7 DEF ProjectOK, RereadOK, AboutShown, IsAt

\* What a version about to be written owes to the one it replaces.
Replaces(s, d, v) ==
  /\ d.id = v.id /\ d.body = shown[s].body
  /\ d.kind = "umbra" => v.kind = "umbra"
  /\ d.merge = "unresolved" /\ v.merge = "resolved" => v.body \notin Marked

LEMMA CommitMeans ==
  ASSUME NEW s \in Sessions
  PROVE  CommitOK(s) <=>
           (op[s].at = "commit" =>
             /\ AboutShown(s, op[s].path, op[s].version.etag)
             /\ IsAt(op[s].path, op[s].version.etag) =>
                  Replaces(s, docs[op[s].path], op[s].version))
BY DEF CommitOK, Replaces

LEMMA CommitKept ==
  ASSUME TypeOK, Grows, NEW s \in Sessions, SessionOK(s),
         op'[s] = op[s], shown'[s] = shown[s]
  PROVE  CommitOK(s)'
<1> SUFFICES ASSUME op[s].at = "commit"
             PROVE  CommitOK(s)'
  BY DEF CommitOK
<1>1. PICK v \in Versions : v = op[s].version
  BY OpTypes DEF TypeOK
<1>2. PICK p \in Paths : p = op[s].path
  BY OpTypes DEF TypeOK
<1>3. AboutShown(s, p, v.etag) /\ (IsAt(p, v.etag) => Replaces(s, docs[p], v))
  BY <1>1, <1>2, CommitMeans DEF SessionOK, OpOK
<1>4. PICK e \in 1 .. writes : e = v.etag
  BY <1>3 DEF SessionOK, ShownOK, AboutShown
<1>5. IsAt(p, e)' => docs'[p] = docs[p] /\ IsAt(p, e)
  BY OldVersions
<1>6. AboutShown(s, p, v.etag)'
  BY <1>3 DEF AboutShown
<1>7. ASSUME IsAt(p, e)'
      PROVE  Replaces(s, docs[p], v)'
  BY <1>3, <1>4, <1>5, <1>7 DEF Replaces
<1> QED BY <1>1, <1>2, <1>4, <1>6, <1>7
        DEF CommitOK, Replaces, AboutShown, IsAt

LEMMA RenderKept ==
  ASSUME TypeOK, Grows, NEW s \in Sessions, RenderOK(s), op'[s] = op[s]
  PROVE  RenderOK(s)'
<1> SUFFICES ASSUME op[s].at = "render"
             PROVE  RenderOK(s)'
  BY DEF RenderOK
<1>1. PICK e \in 1 .. writes : e = op[s].etag
  BY DEF RenderOK
<1>2. e \in 1 .. writes'
  BY OldEtags
<1>3. ASSUME NEW p \in Paths, IsAt(p, e)'
      PROVE  docs'[p].kind = "umbra"
  BY <1>1, <1>3, OldVersions DEF RenderOK
<1> QED BY <1>1, <1>2, <1>3 DEF RenderOK, IsAt

LEMMA RebuildKept ==
  ASSUME TypeOK, Grows, NEW s \in Sessions, RebuildOK(s), op'[s] = op[s]
  PROVE  RebuildOK(s)'
<1> SUFFICES ASSUME op[s].at = "rebuild"
             PROVE  RebuildOK(s)'
  BY DEF RebuildOK
<1>1. PICK o : o = op[s]
  OBVIOUS
<1>2. Indexed(o.stamp, o.got, o.todo)
  BY <1>1 DEF RebuildOK
<1>3. Indexed(o.stamp, o.got, o.todo)'
  BY <1>2, IndexedKept
<1> QED BY <1>1, <1>3 DEF RebuildOK, Indexed, IsAt

\* An operation that goes on is as right as it was; between operations there
\* is nothing to be wrong about.
LEMMA OpKept ==
  ASSUME TypeOK, Grows, NEW s \in Sessions, SessionOK(s),
         op'[s] = op[s], shown'[s] = shown[s]
  PROVE  OpOK(s)'
BY ProjectKept, CommitKept, RenderKept, RebuildKept DEF OpOK, SessionOK

LEMMA QuietOK ==
  ASSUME NEW s \in Sessions, op'[s].at \in {"idle", "open"}
  PROVE  OpOK(s)'
BY DEF OpOK, ProjectOK, RereadOK, CommitOK, RenderOK, RebuildOK

LEMMA OthersKept ==
  ASSUME TypeOK, Grows, NEW s \in Sessions, SessionOK(s),
         op'[s] = op[s], shown'[s] = shown[s], index'[s] = index[s]
  PROVE  SessionOK(s)'
BY ShownKept, OpKept, IndexKept DEF SessionOK

-----------------------------------------------------------------------------
(* One step of one session.                                                *)

\* Session s goes to operation o, display d and indexes x, and takes or gives
\* back the lock as the operation needs it.
Turn(s, o, d, x) ==
  /\ op' = [op EXCEPT ![s] = o]
  /\ shown' = [shown EXCEPT ![s] = d]
  /\ index' = [index EXCEPT ![s] = x]
  /\ o.at = "rebuild" => lock \in {None, s}
  /\ lock' = IF o.at = "rebuild" THEN s ELSE IF lock = s THEN None ELSE lock

\* A step of s: on the documents, on its own state, and its state is right.
StepOf(s) ==
  /\ DocsStep
  /\ \E o \in Ops, d \in Displays \cup {None}, x \in [Modes -> Indexes] :
       Turn(s, o, d, x)
  /\ SessionOK(s)'

LEMMA StepKeeps ==
  ASSUME IInv, NEW s \in Sessions, StepOf(s)
  PROVE  IInv'
<1>1. TypeOK /\ DocsOK /\ IdentityUnique /\ DocsStep
  BY DEF IInv, StepOf
<1>2. Grows
  BY <1>1, StepGrows
<1>3. /\ docs' \in [Paths -> Versions \cup {None}]
      /\ writes' \in 0 .. MaxWrites
      /\ DocsOK' /\ IdentityUnique'
  BY <1>1, DocsKept
<1>4. PICK o \in Ops, d \in Displays \cup {None}, x \in [Modes -> Indexes] :
        Turn(s, o, d, x)
  BY DEF StepOf
<1>5. /\ op' \in [Sessions -> Ops]
      /\ shown' \in [Sessions -> Displays \cup {None}]
      /\ index' \in [Sessions -> [Modes -> Indexes]]
  BY <1>1, <1>4 DEF TypeOK, Turn
<1>6. /\ op'[s] = o
      /\ \A t \in Sessions \ {s} :
           op'[t] = op[t] /\ shown'[t] = shown[t] /\ index'[t] = index[t]
  BY <1>1, <1>4 DEF TypeOK, Turn
<1>7. /\ \A t \in Sessions : op[t].at = "rebuild" <=> lock = t
      /\ lock \in Sessions \cup {None}
  BY <1>1 DEF TypeOK
<1>8. /\ o.at = "rebuild" => lock \in {None, s}
      /\ lock' = IF o.at = "rebuild" THEN s ELSE IF lock = s THEN None ELSE lock
  BY <1>4 DEF Turn
<1>9. lock' \in Sessions \cup {None}
  BY <1>7, <1>8
<1>10. ASSUME NEW t \in Sessions
       PROVE  op'[t].at = "rebuild" <=> lock' = t
  BY <1>6, <1>7, <1>8, DocumentsAssumption
<1>11. TypeOK'
  BY <1>3, <1>5, <1>9, <1>10 DEF TypeOK
<1>12. ASSUME NEW t \in Sessions
       PROVE  SessionOK(t)'
  BY <1>1, <1>2, <1>6, OthersKept DEF IInv, StepOf
<1> QED BY <1>3, <1>11, <1>12 DEF IInv

\* A session keeps the lock as it is unless it rebuilds an index.
LEMMA LockUntouched ==
  ASSUME TypeOK, NEW s \in Sessions, op[s].at # "rebuild", NEW o \in Ops,
         o.at # "rebuild", UNCHANGED lock
  PROVE  lock' = IF o.at = "rebuild" THEN s ELSE IF lock = s THEN None ELSE lock
BY DEF TypeOK

\* What the invariant gives to an action of session s.
LEMMA AtWork ==
  ASSUME IInv, NEW s \in Sessions
  PROVE  /\ TypeOK /\ DocsOK /\ IdentityUnique /\ SessionOK(s)
         /\ op \in [Sessions -> Ops] /\ op[s] \in Ops
         /\ shown \in [Sessions -> Displays \cup {None}]
         /\ shown[s] \in Displays \cup {None}
         /\ index \in [Sessions -> [Modes -> Indexes]]
         /\ index[s] \in [Modes -> Indexes]
         /\ docs \in [Paths -> Versions \cup {None}]
         /\ writes \in 0 .. MaxWrites
BY DEF IInv, TypeOK

LEMMA Unwritten ==
  ASSUME UNCHANGED <<docs, writes>>
  PROVE  DocsStep
BY DEF DocsStep

LEMMA IdleIsOp == Idle \in Ops /\ Idle.at = "idle"
BY DEF Ops, Idle

LEMMA NoIndexesTyped ==
  NoIndexes \in [Modes -> Indexes]
BY DEF NoIndexes, Indexes

\* Steps that change neither documents nor indexes nor lock.
LEMMA LocalStep ==
  ASSUME IInv, NEW s \in Sessions, NEW o \in Ops, NEW d \in Displays \cup {None},
         op[s].at # "rebuild", o.at # "rebuild",
         op' = [op EXCEPT ![s] = o], shown' = [shown EXCEPT ![s] = d],
         UNCHANGED <<docs, writes, lock, index>>,
         ShownOK(s)', OpOK(s)'
  PROVE  StepOf(s)
<1>1. DocsStep
  BY Unwritten
<1>2. TypeOK /\ SessionOK(s) /\ index \in [Sessions -> [Modes -> Indexes]]
        /\ index[s] \in [Modes -> Indexes]
  BY AtWork
<1>3. lock' = IF o.at = "rebuild" THEN s ELSE IF lock = s THEN None ELSE lock
  BY <1>2, LockUntouched
<1>4. Turn(s, o, d, index[s])
  BY <1>2, <1>3 DEF Turn
<1>5. IndexOK(s)'
  BY <1>1, <1>2, IndexKept, StepGrows DEF SessionOK
<1> QED BY <1>1, <1>2, <1>4, <1>5 DEF StepOf, SessionOK

\* The same, for a step that only moves the operation on.
LEMMA OpOnly ==
  ASSUME IInv, NEW s \in Sessions, NEW o \in Ops,
         op[s].at # "rebuild", o.at # "rebuild",
         op' = [op EXCEPT ![s] = o],
         UNCHANGED <<docs, writes, lock, shown, index>>, OpOK(s)'
  PROVE  StepOf(s)
<1>1. TypeOK /\ SessionOK(s) /\ shown \in [Sessions -> Displays \cup {None}]
        /\ shown[s] \in Displays \cup {None}
  BY AtWork
<1>2. shown' = [shown EXCEPT ![s] = shown[s]] /\ shown'[s] = shown[s]
  BY <1>1
<1>3. ShownOK(s)'
  BY <1>1, <1>2, ShownKept, StepGrows, Unwritten DEF SessionOK
<1>4. PICK d \in Displays \cup {None} : d = shown[s]
  BY <1>1
<1> QED BY <1>2, <1>3, <1>4, LocalStep

LEMMA EndOnly ==
  ASSUME IInv, NEW s \in Sessions, op[s].at # "rebuild", Finish(s),
         UNCHANGED <<docs, writes, lock, shown, index>>
  PROVE  StepOf(s)
<1>1. op' = [op EXCEPT ![s] = Idle] /\ op'[s] = Idle
  BY AtWork DEF Finish
<1> QED BY <1>1, QuietOK, IdleIsOp, OpOnly

-----------------------------------------------------------------------------
(* Opening.                                                                *)

\* A session displays body under the etag of what is at p, which is that body
\* or a container.
LEMMA Displayed ==
  ASSUME IInv, NEW s \in Sessions, NEW p \in Paths, NEW d \in Displays,
         docs[p] # None, d.etag = docs[p].etag,
         docs[p].kind = "plain" => docs[p].body = d.body,
         shown'[s] = d, UNCHANGED <<docs, writes>>
  PROVE  ShownOK(s)'
<1>1. d.etag \in 1 .. writes'
  BY DEF IInv, DocsOK
<1>2. ASSUME NEW r \in Paths, IsAt(r, d.etag)
      PROVE  r = p
  BY <1>2 DEF IInv, IdentityUnique, IsAt
<1>3. ASSUME NEW r \in Paths, IsAt(r, d.etag)', docs'[r].kind = "plain"
      PROVE  docs'[r].body = d.body
  BY <1>2, <1>3 DEF IsAt
<1> QED BY <1>1, <1>3 DEF ShownOK, IsAt

LEMMA OpenStep ==
  ASSUME IInv, NEW s \in Sessions, NEW p \in Paths, Open(s, p)
  PROVE  StepOf(s)
<1>1. /\ op[s].at = "idle" /\ docs[p] # None
      /\ shown' = [shown EXCEPT ![s] = [path |-> p, etag |-> docs[p].etag,
                                        body |-> docs[p].body]]
      /\ UNCHANGED <<docs, writes, lock, op, index>>
  BY DEF Open, Ready, Has
<1>2. docs[p] \in Versions
  BY <1>1, AtWork
<1>3. [path |-> p, etag |-> docs[p].etag, body |-> docs[p].body] \in Displays
  BY <1>2 DEF Versions, Displays
<1>4. PICK d \in Displays :
        d = [path |-> p, etag |-> docs[p].etag, body |-> docs[p].body]
  BY <1>3
<1>5. d.etag = docs[p].etag /\ d.body = docs[p].body
  BY <1>4
<1>6. shown' = [shown EXCEPT ![s] = d] /\ shown'[s] = d
  BY <1>1, <1>4, AtWork
<1>7. ShownOK(s)'
  BY <1>1, <1>5, <1>6, Displayed
<1>8. OpOK(s)'
  BY <1>1, QuietOK
<1>9. PICK o \in Ops : o = op[s]
  BY AtWork
<1>10. op' = [op EXCEPT ![s] = o]
  BY <1>1, <1>9, AtWork
<1> QED BY <1>1, <1>6, <1>7, <1>8, <1>9, <1>10, LocalStep

LEMMA OpenUmbraStep ==
  ASSUME IInv, NEW s \in Sessions, NEW p \in Paths, OpenUmbra(s, p)
  PROVE  StepOf(s)
<1>1. docs[p] \in Versions /\ op[s].at = "idle"
  BY AtWork DEF OpenUmbra, Has, Ready
<1>2. [at |-> "open", path |-> p, body |-> docs[p].body] \in Ops
  BY <1>1 DEF Ops, Versions
<1>3. PICK o \in Ops : o = [at |-> "open", path |-> p, body |-> docs[p].body]
  BY <1>2
<1>4. o.at = "open" /\ op' = [op EXCEPT ![s] = o] /\ op'[s] = o
  BY <1>3, AtWork DEF OpenUmbra
<1>5. UNCHANGED <<docs, writes, lock, shown, index>>
  BY DEF OpenUmbra
<1> QED BY <1>1, <1>4, <1>5, QuietOK, OpOnly

\* The end of an operation that changes what the client displays.
LEMMA EndShows ==
  ASSUME IInv, NEW s \in Sessions, NEW d \in Displays, op[s].at # "rebuild",
         Finish(s), shown' = [shown EXCEPT ![s] = d],
         UNCHANGED <<docs, writes, lock, index>>, ShownOK(s)'
  PROVE  StepOf(s)
<1>1. op' = [op EXCEPT ![s] = Idle] /\ op'[s] = Idle
  BY AtWork DEF Finish
<1>2. OpOK(s)'
  BY <1>1, QuietOK, IdleIsOp
<1> QED BY <1>1, <1>2, IdleIsOp, LocalStep

LEMMA OpenedUmbraStep ==
  ASSUME IInv, NEW s \in Sessions, OpenedUmbra(s)
  PROVE  StepOf(s)
<1>1. /\ op[s].at = "open" /\ Finish(s)
      /\ UNCHANGED <<docs, writes, lock, index>>
  BY DEF OpenedUmbra
<1>2. PICK p \in Paths : p = op[s].path
  BY <1>1, AtWork, OpTypes
<1>3. CASE UNCHANGED shown
  BY <1>1, <1>3, EndOnly
<1>4. CASE /\ Has(p, "umbra")
           /\ shown' = [shown EXCEPT ![s] = [path |-> p, etag |-> docs[p].etag,
                                             body |-> op[s].body]]
  <2>1. docs[p] \in Versions /\ docs[p] # None /\ docs[p].kind = "umbra"
    BY <1>4, AtWork DEF Has
  <2>2. op[s].body \in Bodies
    BY <1>1, AtWork, OpTypes
  <2>3. [path |-> p, etag |-> docs[p].etag, body |-> op[s].body] \in Displays
    BY <2>1, <2>2 DEF Versions, Displays
  <2>4. PICK d \in Displays :
          d = [path |-> p, etag |-> docs[p].etag, body |-> op[s].body]
    BY <2>3
  <2>5. d.etag = docs[p].etag /\ shown' = [shown EXCEPT ![s] = d]
          /\ shown'[s] = d
    BY <1>4, <2>4, AtWork
  <2>6. ShownOK(s)'
    BY <1>1, <2>1, <2>5, Displayed
  <2> QED BY <1>1, <2>5, <2>6, EndShows
<1> QED BY <1>2, <1>3, <1>4 DEF OpenedUmbra

LEMMA RenderStep ==
  ASSUME IInv, NEW s \in Sessions, Render(s)
  PROVE  StepOf(s)
<1>1. /\ op[s].at = "render" /\ Finish(s)
      /\ UNCHANGED <<docs, writes, lock, index>>
  BY DEF Render
<1>2. PICK p \in Paths : p = op[s].path
  BY <1>1, AtWork, OpTypes
<1>3. CASE UNCHANGED shown
  BY <1>1, <1>3, EndOnly
<1>4. CASE /\ Has(p, "umbra")
           /\ shown' = [shown EXCEPT ![s] = [path |-> p, etag |-> op[s].etag,
                                             body |-> docs[p].body]]
  <2>1. docs[p] \in Versions
    BY <1>4, AtWork DEF Has
  <2>2. op[s].etag \in Etags
    BY <1>1, AtWork, OpTypes
  <2>3. [path |-> p, etag |-> op[s].etag, body |-> docs[p].body] \in Displays
    BY <2>1, <2>2 DEF Versions, Displays
  <2>4. PICK d \in Displays :
          d = [path |-> p, etag |-> op[s].etag, body |-> docs[p].body]
    BY <2>3
  <2>5. /\ d.etag = op[s].etag /\ shown' = [shown EXCEPT ![s] = d]
        /\ shown'[s] = d
    BY <1>4, <2>4, AtWork
  <2>6. /\ op[s].etag \in 1 .. writes
        /\ \A r \in Paths : IsAt(r, op[s].etag) => docs[r].kind = "umbra"
    BY <1>1, AtWork DEF SessionOK, OpOK, RenderOK
  <2>7. ShownOK(s)'
    BY <1>1, <2>5, <2>6 DEF ShownOK, IsAt
  <2> QED BY <1>1, <2>5, <2>7, EndShows
<1> QED BY <1>2, <1>3, <1>4 DEF Render

-----------------------------------------------------------------------------
(* Preparing a version.                                                    *)

\* A version prepared from the one that is displayed.
LEMMA PreparedStep ==
  ASSUME IInv, NEW s \in Sessions, Ready(s), shown[s] # None,
         NEW to \in Paths, NEW v \in Versions, v.etag = shown[s].etag,
         IsAt(shown[s].path, shown[s].etag), Replaces(s, Current(s), v),
         ToCommit(s, to, v)
  PROVE  StepOf(s)
<1>1. shown[s] \in Displays /\ op[s].at = "idle"
  BY AtWork DEF Ready
<1>2. PICK p \in Paths : p = shown[s].path
  BY <1>1 DEF Displays
<1>3. [at |-> "commit", path |-> p, to |-> to, version |-> v] \in Ops
  BY DEF Ops
<1>4. PICK o \in Ops :
        o = [at |-> "commit", path |-> p, to |-> to, version |-> v]
  BY <1>3
<1>5. o.at = "commit" /\ o.path = p /\ o.version = v
  BY <1>4
<1>6. /\ op' = [op EXCEPT ![s] = o] /\ op'[s] = o
      /\ UNCHANGED <<docs, writes, lock, shown, index>>
  BY <1>2, <1>4, AtWork DEF ToCommit
<1>7. CommitOK(s)'
  BY <1>2, <1>5, <1>6 DEF CommitOK, Replaces, Current, AboutShown
<1>8. OpOK(s)'
  BY <1>5, <1>6, <1>7 DEF OpOK, ProjectOK, RereadOK, RenderOK, RebuildOK
<1> QED BY <1>1, <1>5, <1>6, <1>8, OpOnly

\* An operation on a plain document starts from the text that is displayed.
LEMMA PlainRead ==
  ASSUME IInv, NEW s \in Sessions, Unchanged(s, "plain")
  PROVE  /\ Ready(s) /\ shown[s] # None /\ shown[s] \in Displays
         /\ shown[s].path \in Paths
         /\ IsAt(shown[s].path, shown[s].etag)
         /\ Current(s) \in Versions /\ Current(s).etag = shown[s].etag
         /\ Current(s).kind = "plain" /\ Current(s).body = shown[s].body
<1>1. /\ Ready(s) /\ shown[s] # None /\ shown[s] \in Displays
      /\ Has(shown[s].path, "plain") /\ IsAt(shown[s].path, shown[s].etag)
  BY AtWork DEF Unchanged
<1>2. shown[s].path \in Paths
  BY <1>1 DEF Displays
<1>3. Current(s) \in Versions
  BY <1>1, <1>2, AtWork DEF Current, Has
<1>4. Current(s).kind = "plain" /\ Current(s).etag = shown[s].etag
  BY <1>1 DEF Current, Has, IsAt
<1>5. Current(s).body = shown[s].body
  BY <1>1, <1>2, <1>4, AtWork DEF SessionOK, ShownOK, Current
<1> QED BY <1>1, <1>2, <1>3, <1>4, <1>5

LEMMA SaveStep ==
  ASSUME IInv, NEW s \in Sessions, Save(s)
  PROVE  StepOf(s)
<1>1. Unchanged(s, "plain")
  BY DEF Save
<1>2. PICK u \in Versions : u = Current(s)
  BY <1>1, PlainRead
<1>3. PICK b \in Bodies :
        ToCommit(s, shown[s].path,
                 [u EXCEPT !.body = b,
                    !.merge = IF b \in Marked THEN @ ELSE "resolved"])
  BY <1>2 DEF Save
<1>4. PICK m \in {"resolved", "unresolved"} :
        m = IF b \in Marked THEN u.merge ELSE "resolved"
  BY DEF Versions
<1>5. [u EXCEPT !.body = b, !.merge = m] \in Versions
  BY DEF Versions
<1>6. PICK v \in Versions : v = [u EXCEPT !.body = b, !.merge = m]
  BY <1>5
<1>7. /\ v.etag = u.etag /\ v.id = u.id /\ v.kind = u.kind
      /\ v.body = b /\ v.merge = m
  BY <1>6 DEF Versions
<1>8. ToCommit(s, shown[s].path, v)
  BY <1>3, <1>4, <1>6 DEF Versions
<1>9. Replaces(s, Current(s), v)
  BY <1>1, <1>2, <1>4, <1>7, PlainRead DEF Replaces
<1> QED BY <1>1, <1>2, <1>7, <1>8, <1>9, PlainRead, PreparedStep

LEMMA ConvertStep ==
  ASSUME IInv, NEW s \in Sessions, Convert(s)
  PROVE  StepOf(s)
<1>1. Unchanged(s, "plain")
  BY DEF Convert
<1>2. PICK u \in Versions : u = Current(s)
  BY <1>1, PlainRead
<1>3. [u EXCEPT !.kind = "umbra"] \in Versions
  BY DEF Versions
<1>4. PICK v \in Versions : v = [u EXCEPT !.kind = "umbra"]
  BY <1>3
<1>5. /\ v.etag = u.etag /\ v.id = u.id /\ v.kind = "umbra"
      /\ v.body = u.body /\ v.merge = u.merge
  BY <1>4 DEF Versions
<1>6. ToCommit(s, shown[s].path, v)
  BY <1>2, <1>4 DEF Convert
<1>7. Replaces(s, Current(s), v)
  BY <1>1, <1>2, <1>5, PlainRead DEF Replaces
<1> QED BY <1>1, <1>2, <1>5, <1>6, <1>7, PlainRead, PreparedStep

LEMMA RenameStep ==
  ASSUME IInv, NEW s \in Sessions, Rename(s)
  PROVE  StepOf(s)
<1>1. Unchanged(s, "plain")
  BY DEF Rename
<1>2. PICK v \in Versions : v = Current(s)
  BY <1>1, PlainRead
<1>3. PICK q \in Paths : ToCommit(s, q, v)
  BY <1>2 DEF Rename
<1>4. Replaces(s, Current(s), v)
  BY <1>1, <1>2, PlainRead DEF Replaces
<1> QED BY <1>1, <1>2, <1>3, <1>4, PlainRead, PreparedStep

LEMMA AnnotateStep ==
  ASSUME IInv, NEW s \in Sessions, Annotate(s)
  PROVE  StepOf(s)
<1>1. /\ op[s].at = "idle" /\ shown[s] # None /\ shown[s] \in Displays
      /\ Has(shown[s].path, "umbra") /\ IsAt(shown[s].path, shown[s].etag)
      /\ UNCHANGED <<docs, writes, lock, shown, index>>
  BY AtWork DEF Annotate, Unchanged, Ready
<1>2. PICK p \in Paths, e \in Etags : p = shown[s].path /\ e = shown[s].etag
  BY <1>1 DEF Displays
<1>3. docs[p] \in Versions
  BY <1>1, <1>2, AtWork DEF Has
<1>4. PICK b \in Bodies : b = docs[p].body
  BY <1>3 DEF Versions
<1>5. [at |-> "project", path |-> p, etag |-> e, body |-> b] \in Ops
  BY DEF Ops
<1>6. PICK o \in Ops :
        o = [at |-> "project", path |-> p, etag |-> e, body |-> b]
  BY <1>5
<1>7. o.at = "project" /\ o.path = p /\ o.etag = e /\ o.body = b
  BY <1>6
<1>8. op' = [op EXCEPT ![s] = o] /\ op'[s] = o
  BY <1>2, <1>4, <1>6, AtWork DEF Annotate, Current
<1>9. ProjectOK(s)'
  BY <1>1, <1>2, <1>4, <1>7, <1>8 DEF ProjectOK, AboutShown
<1>10. OpOK(s)'
  BY <1>7, <1>8, <1>9 DEF OpOK, RereadOK, CommitOK, RenderOK, RebuildOK
<1> QED BY <1>1, <1>7, <1>8, <1>10, OpOnly

LEMMA ProjectStep ==
  ASSUME IInv, NEW s \in Sessions, Project(s)
  PROVE  StepOf(s)
<1>1. op[s].at = "project" /\ UNCHANGED <<docs, writes, lock, shown, index>>
  BY DEF Project
<1>2. CASE Finish(s)
  BY <1>1, <1>2, EndOnly
<1>3. CASE /\ \/ op[s].body = shown[s].body
              \/ /\ Has(op[s].path, "umbra")
                 /\ docs[op[s].path].body = shown[s].body
           /\ op' = [op EXCEPT ![s].at = "reread"]
  <2>1. PICK p \in Paths, e \in Etags, b \in Bodies :
          p = op[s].path /\ e = op[s].etag /\ b = op[s].body
    BY <1>1, AtWork, OpTypes
  <2>2. PICK u \in Ops : u = op[s]
    BY AtWork
  <2>3. u \in [at : {"project", "reread"}, path : Paths, etag : Etags,
               body : Bodies]
    BY <1>1, <2>2 DEF Ops, Idle
  <2>4. [u EXCEPT !.at = "reread"] \in [at : {"project", "reread"},
                                         path : Paths, etag : Etags,
                                         body : Bodies]
    BY <2>3
  <2>5. PICK o \in Ops : o = [u EXCEPT !.at = "reread"]
    BY <2>4 DEF Ops
  <2>6. o.at = "reread" /\ o.path = p /\ o.etag = e
    BY <2>1, <2>2, <2>3, <2>5
  <2>7. op' = [op EXCEPT ![s] = o] /\ op'[s] = o
    BY <1>3, <2>2, <2>5, AtWork
  <2>8. /\ AboutShown(s, p, e)
        /\ IsAt(p, e) => docs[p].body = b
    BY <1>1, <2>1, AtWork DEF SessionOK, OpOK, ProjectOK
  <2>9. RereadOK(s)'
    BY <1>1, <1>3, <2>1, <2>6, <2>7, <2>8 DEF RereadOK, AboutShown, IsAt
  <2>10. OpOK(s)'
    BY <2>6, <2>7, <2>9 DEF OpOK, ProjectOK, CommitOK, RenderOK, RebuildOK
  <2> QED BY <1>1, <2>6, <2>7, <2>10, OpOnly
<1> QED BY <1>2, <1>3 DEF Project

LEMMA RereadStep ==
  ASSUME IInv, NEW s \in Sessions, Reread(s)
  PROVE  StepOf(s)
<1>1. op[s].at = "reread" /\ UNCHANGED <<docs, writes, lock, shown, index>>
  BY DEF Reread
<1>2. PICK p \in Paths, e \in Etags : p = op[s].path /\ e = op[s].etag
  BY <1>1, AtWork, OpTypes
<1>3. CASE Finish(s)
  BY <1>1, <1>3, EndOnly
<1>4. ASSUME Has(p, "umbra"), IsAt(p, e), NEW b \in Bodies,
             op' = [op EXCEPT ![s] = [at |-> "commit", path |-> p, to |-> p,
                                      version |-> [docs[p] EXCEPT !.body = b]]]
      PROVE  StepOf(s)
  <2>1. PICK u \in Versions : u = docs[p]
    BY <1>4, AtWork DEF Has
  <2>2. [u EXCEPT !.body = b] \in Versions
    BY DEF Versions
  <2>3. PICK v \in Versions : v = [u EXCEPT !.body = b]
    BY <2>2
  <2>4. /\ v.etag = u.etag /\ v.id = u.id /\ v.kind = u.kind
        /\ v.merge = u.merge
    BY <2>3 DEF Versions
  <2>5. [at |-> "commit", path |-> p, to |-> p, version |-> v] \in Ops
    BY DEF Ops
  <2>6. PICK o \in Ops :
          o = [at |-> "commit", path |-> p, to |-> p, version |-> v]
    BY <2>5
  <2>7. o.at = "commit" /\ o.path = p /\ o.version = v
    BY <2>6
  <2>8. op' = [op EXCEPT ![s] = o] /\ op'[s] = o
    BY <1>4, <2>1, <2>3, <2>6, AtWork
  <2>9. AboutShown(s, p, e) /\ docs[p].body = shown[s].body
    BY <1>1, <1>2, <1>4, AtWork DEF SessionOK, OpOK, RereadOK
  <2>10. u.etag = e /\ u.kind = "umbra"
    BY <1>4, <2>1 DEF Has, IsAt
  <2>11. CommitOK(s)'
    BY <1>1, <2>1, <2>4, <2>7, <2>8, <2>9, <2>10
       DEF CommitOK, AboutShown
  <2>12. OpOK(s)'
    BY <2>7, <2>8, <2>11 DEF OpOK, ProjectOK, RereadOK, RenderOK, RebuildOK
  <2> QED BY <1>1, <2>7, <2>8, <2>12, OpOnly
<1> QED BY <1>2, <1>3, <1>4 DEF Reread

-----------------------------------------------------------------------------
(* Writing and deleting.                                                   *)

LEMMA Written ==
  ASSUME IInv, NEW p \in Paths, NEW q \in Paths, NEW v \in Versions,
         Writes(p, q, v)
  PROVE  /\ docs'[q] = v /\ v.etag \in 1 .. writes'
         /\ \A r \in Paths : IsAt(r, v.etag)' => r = q
<1>1. /\ writes \in 0 .. MaxWrites /\ docs \in [Paths -> Versions \cup {None}]
      /\ DocsOK
  BY AtWork DEF IInv, TypeOK
<1>2. /\ writes' = writes + 1 /\ v.etag = writes + 1
      /\ docs' = [docs EXCEPT ![p] = None, ![q] = v]
  BY DEF Writes
<1>3. docs'[q] = v /\ v.etag \in 1 .. writes'
  BY <1>1, <1>2, DocumentsAssumption
<1>4. ASSUME NEW r \in Paths, r # q, docs'[r] # None
      PROVE  docs'[r] = docs[r]
  BY <1>1, <1>2, <1>4
<1>5. ASSUME NEW r \in Paths, r # q, IsAt(r, v.etag)'
      PROVE  FALSE
  <2>1. docs'[r] = docs[r] /\ docs[r] # None /\ docs[r].etag = v.etag
    BY <1>4, <1>5 DEF IsAt
  <2>2. docs[r].etag \in 1 .. writes
    BY <1>1, <2>1 DEF DocsOK
  <2> QED BY <1>1, <1>2, <2>1, <2>2, DocumentsAssumption
<1> QED BY <1>3, <1>5

\* A version from u with a new etag.
LEMMA Renumbered ==
  ASSUME IInv, writes < MaxWrites, NEW u \in Versions
  PROVE  /\ [u EXCEPT !.etag = writes + 1] \in Versions
         /\ [u EXCEPT !.etag = writes + 1].etag = writes + 1
         /\ [u EXCEPT !.etag = writes + 1].id = u.id
         /\ [u EXCEPT !.etag = writes + 1].kind = u.kind
         /\ [u EXCEPT !.etag = writes + 1].body = u.body
         /\ [u EXCEPT !.etag = writes + 1].merge = u.merge
<1>1. writes + 1 \in Etags
  BY DocumentsAssumption DEF IInv, TypeOK, Etags
<1> QED BY <1>1 DEF Versions

LEMMA ClearedStep ==
  ASSUME IInv, NEW s \in Sessions, NEW o \in Ops, NEW d \in Displays \cup {None},
         op[s].at # "rebuild", o.at # "rebuild",
         op' = [op EXCEPT ![s] = o], shown' = [shown EXCEPT ![s] = d],
         ClearIndexes(s), UNCHANGED lock, DocsStep, ShownOK(s)', OpOK(s)'
  PROVE  StepOf(s)
<1>1. TypeOK /\ SessionOK(s) /\ index \in [Sessions -> [Modes -> Indexes]]
  BY AtWork
<1>2. lock' = IF o.at = "rebuild" THEN s ELSE IF lock = s THEN None ELSE lock
  BY <1>1, LockUntouched
<1>3. Turn(s, o, d, NoIndexes)
  BY <1>2 DEF Turn, ClearIndexes
<1>4. index'[s] = NoIndexes
  BY <1>1 DEF ClearIndexes
<1>5. IndexOK(s)'
  BY <1>1, <1>4, IndexKept, StepGrows DEF SessionOK, NoIndexes
<1> QED BY <1>3, <1>5, NoIndexesTyped DEF StepOf, SessionOK

\* What session s displays is the version it has just written.
LEMMA WrittenShown ==
  ASSUME IInv, NEW s \in Sessions, NEW p \in Paths, NEW q \in Paths,
         NEW v \in Versions, Writes(p, q, v), NEW d \in Displays,
         d.etag = v.etag, d.body = v.body, shown'[s] = d
  PROVE  ShownOK(s)'
BY Written DEF ShownOK, IsAt

LEMMA CreateStep ==
  ASSUME IInv, NEW s \in Sessions, NEW p \in Paths, Create(s, p)
  PROVE  StepOf(s)
<1>1. /\ op[s].at = "idle" /\ docs[p] = None /\ ClearIndexes(s)
      /\ UNCHANGED <<lock, op>> /\ writes < MaxWrites
  BY DEF Create, Ready, Write
<1>2. PICK b \in Bodies :
        /\ Write(p, [etag |-> 1, id |-> writes + 1, kind |-> "plain",
                     body |-> b, merge |-> "resolved"])
        /\ shown' = [shown EXCEPT ![s] = [path |-> p, etag |-> writes + 1,
                                          body |-> b]]
  BY DEF Create
<1>3. writes + 1 \in Etags /\ 1 \in Etags
  BY <1>1, AtWork, DocumentsAssumption DEF Etags
<1>4. [etag |-> 1, id |-> writes + 1, kind |-> "plain", body |-> b,
       merge |-> "resolved"] \in Versions
  BY <1>3 DEF Versions
<1>5. PICK u \in Versions :
        u = [etag |-> 1, id |-> writes + 1, kind |-> "plain", body |-> b,
             merge |-> "resolved"]
  BY <1>4
<1>6. u.id = writes + 1 /\ u.body = b
  BY <1>5
<1>7. PICK v \in Versions : v = [u EXCEPT !.etag = writes + 1]
  BY <1>1, Renumbered
<1>8. v.etag = writes + 1 /\ v.id = writes + 1 /\ v.body = b
  BY <1>1, <1>6, <1>7, Renumbered
<1>9. writes' = writes + 1 /\ docs' = [docs EXCEPT ![p] = v]
  BY <1>2, <1>5, <1>7 DEF Write
<1>10. Writes(p, p, v)
  BY <1>1, <1>8, <1>9, AtWork DEF Writes
<1>11. [path |-> p, etag |-> writes + 1, body |-> b] \in Displays
  BY <1>3 DEF Displays
<1>12. PICK d \in Displays : d = [path |-> p, etag |-> writes + 1, body |-> b]
  BY <1>11
<1>13. d.etag = v.etag /\ d.body = v.body
  BY <1>8, <1>12
<1>14. shown' = [shown EXCEPT ![s] = d] /\ shown'[s] = d
  BY <1>2, <1>12, AtWork
<1>15. ShownOK(s)'
  BY <1>10, <1>13, <1>14, WrittenShown
<1>16. DocsStep
  BY <1>10 DEF DocsStep
<1>17. PICK o \in Ops : o = op[s]
  BY AtWork
<1>18. op' = [op EXCEPT ![s] = o] /\ op'[s].at = "idle"
  BY <1>1, <1>17, AtWork
<1> QED BY <1>1, <1>14, <1>15, <1>16, <1>17, <1>18, QuietOK, ClearedStep

LEMMA DeleteStep ==
  ASSUME IInv, NEW s \in Sessions, Delete(s)
  PROVE  StepOf(s)
<1>1. /\ op[s].at = "idle" /\ shown[s] # None /\ ClearIndexes(s)
      /\ docs' = [docs EXCEPT ![shown[s].path] = None]
      /\ shown' = [shown EXCEPT ![s] = None]
      /\ UNCHANGED <<writes, lock, op>>
  BY DEF Delete, Ready
<1>2. shown[s].path \in Paths
  BY <1>1, AtWork DEF Displays
<1>3. DocsStep
  BY <1>1, <1>2 DEF DocsStep
<1>4. shown'[s] = None
  BY <1>1, AtWork
<1>5. ShownOK(s)'
  BY <1>4 DEF ShownOK
<1>6. PICK o \in Ops : o = op[s]
  BY AtWork
<1>7. op' = [op EXCEPT ![s] = o] /\ op'[s].at = "idle"
  BY <1>1, <1>6, AtWork
<1>8. PICK d \in Displays \cup {None} : d = None
  OBVIOUS
<1> QED BY <1>1, <1>3, <1>5, <1>6, <1>7, <1>8, QuietOK, ClearedStep

LEMMA CommitStep ==
  ASSUME IInv, NEW s \in Sessions, Commit(s)
  PROVE  StepOf(s)
<1>1. op[s].at = "commit" /\ UNCHANGED lock
  BY DEF Commit
<1>2. CASE Finish(s) /\ UNCHANGED <<docs, writes, shown, index>>
  BY <1>1, <1>2, EndOnly
<1>3. PICK p \in Paths, q \in Paths : p = op[s].path /\ q = op[s].to
  BY <1>1, AtWork, OpTypes
<1>4. PICK v : v = [op[s].version EXCEPT !.etag = writes + 1]
  OBVIOUS
<1>5. CASE /\ IsAt(p, op[s].version.etag)
           /\ writes < MaxWrites /\ writes' = writes + 1
           /\ docs' = [docs EXCEPT ![p] = None, ![q] = v]
           /\ ClearIndexes(s)
           /\ \/ /\ Has(p, "plain") /\ Finish(s)
                 /\ shown' = [shown EXCEPT ![s] = [path |-> q, etag |-> v.etag,
                                                   body |-> v.body]]
              \/ /\ Has(p, "umbra") /\ UNCHANGED shown
                 /\ op' = [op EXCEPT ![s] = [at |-> "render", path |-> p,
                                             etag |-> v.etag]]
  <2>1. /\ v \in Versions /\ Writes(p, q, v) /\ v.etag = writes + 1
        /\ Replaces(s, docs[p], v)
    <3>1. PICK u \in Versions : u = op[s].version
      BY <1>1, AtWork, OpTypes
    <3>2. /\ v \in Versions /\ v.etag = writes + 1 /\ v.id = u.id
          /\ v.kind = u.kind /\ v.body = u.body /\ v.merge = u.merge
      BY <1>4, <1>5, <3>1, Renumbered
    <3>3. docs[p] # None /\ Replaces(s, docs[p], u)
      BY <1>1, <1>3, <1>5, <3>1, AtWork, CommitMeans DEF SessionOK, OpOK, IsAt
    <3>4. Replaces(s, docs[p], v)
      BY <3>2, <3>3 DEF Replaces
    <3> QED BY <1>5, <3>2, <3>3, <3>4 DEF Writes, Replaces, Succeeds
  <2>2. DocsStep
    BY <2>1 DEF DocsStep
  <2>3. v.etag \in Etags /\ v.body \in Bodies
    BY <2>1 DEF Versions
  <2>4. CASE /\ Finish(s)
             /\ shown' = [shown EXCEPT ![s] = [path |-> q, etag |-> v.etag,
                                               body |-> v.body]]
    <3>1. [path |-> q, etag |-> v.etag, body |-> v.body] \in Displays
      BY <2>3 DEF Displays
    <3>2. PICK d \in Displays :
            d = [path |-> q, etag |-> v.etag, body |-> v.body]
      BY <3>1
    <3>3. d.etag = v.etag /\ d.body = v.body
      BY <3>2
    <3>4. shown' = [shown EXCEPT ![s] = d] /\ shown'[s] = d
      BY <2>4, <3>2, AtWork
    <3>5. ShownOK(s)'
      BY <2>1, <3>3, <3>4, WrittenShown
    <3>6. op' = [op EXCEPT ![s] = Idle] /\ op'[s] = Idle
      BY <2>4, AtWork DEF Finish
    <3> QED BY <1>1, <1>5, <2>2, <3>4, <3>5, <3>6, QuietOK, IdleIsOp, ClearedStep
  <2>5. CASE /\ Has(p, "umbra") /\ UNCHANGED shown
             /\ op' = [op EXCEPT ![s] = [at |-> "render", path |-> p,
                                         etag |-> v.etag]]
    <3>1. [at |-> "render", path |-> p, etag |-> v.etag] \in Ops
      BY <2>3 DEF Ops
    <3>2. PICK o \in Ops : o = [at |-> "render", path |-> p, etag |-> v.etag]
      BY <3>1
    <3>3. o.at = "render" /\ o.etag = v.etag
      BY <3>2
    <3>4. op' = [op EXCEPT ![s] = o] /\ op'[s] = o
      BY <2>5, <3>2, AtWork
    <3>5. v.kind = "umbra"
      BY <2>1, <2>5 DEF Replaces, Has
    <3>6. RenderOK(s)'
      BY <2>1, <3>3, <3>4, <3>5, Written DEF RenderOK, IsAt
    <3>7. OpOK(s)'
      BY <3>3, <3>4, <3>6 DEF OpOK, ProjectOK, RereadOK, CommitOK, RebuildOK
    <3>8. PICK d \in Displays \cup {None} : d = shown[s]
      BY AtWork
    <3>9. shown' = [shown EXCEPT ![s] = d] /\ shown'[s] = shown[s]
      BY <2>5, <3>8, AtWork
    <3>10. ShownOK(s)'
      BY <2>2, <3>9, AtWork, ShownKept, StepGrows DEF SessionOK
    <3> QED BY <1>1, <1>5, <2>2, <3>3, <3>4, <3>7, <3>9, <3>10, ClearedStep
  <2> QED BY <1>5, <2>4, <2>5
<1> QED BY <1>2, <1>3, <1>4, <1>5 DEF Commit

-----------------------------------------------------------------------------
(* Search.                                                                 *)

\* A step of a session on its indexes: nothing is displayed or written.
LEMMA IndexStep ==
  ASSUME IInv, NEW s \in Sessions, NEW o \in Ops, NEW x \in [Modes -> Indexes],
         op' = [op EXCEPT ![s] = o], index' = [index EXCEPT ![s] = x],
         o.at = "rebuild" => lock \in {None, s},
         lock' = IF o.at = "rebuild" THEN s ELSE IF lock = s THEN None ELSE lock,
         UNCHANGED <<docs, writes, shown>>, OpOK(s)', IndexOK(s)'
  PROVE  StepOf(s)
<1>1. /\ TypeOK /\ SessionOK(s) /\ shown \in [Sessions -> Displays \cup {None}]
  BY AtWork
<1>2. PICK d \in Displays \cup {None} : d = shown[s]
  BY AtWork
<1>3. shown' = [shown EXCEPT ![s] = d] /\ shown'[s] = shown[s]
  BY <1>1, <1>2
<1>4. Turn(s, o, d, x)
  BY <1>3 DEF Turn
<1>5. DocsStep
  BY Unwritten
<1>6. ShownOK(s)'
  BY <1>1, <1>3, <1>5, ShownKept, StepGrows DEF SessionOK
<1> QED BY <1>4, <1>5, <1>6 DEF StepOf, SessionOK

\* The indexes of a session after those of a mode, or of both, are dropped.
Dropped(s, mode) ==
  IF mode = "outer" THEN NoIndexes ELSE [index[s] EXCEPT !["umbra"] = NotReady]

LEMMA DroppedOK ==
  ASSUME IInv, NEW s \in Sessions, NEW mode \in Modes,
         index' = [index EXCEPT ![s] = Dropped(s, mode)],
         UNCHANGED <<docs, writes>>
  PROVE  Dropped(s, mode) \in [Modes -> Indexes] /\ IndexOK(s)'
<1>1. /\ TypeOK /\ SessionOK(s) /\ index \in [Sessions -> [Modes -> Indexes]]
      /\ index[s] \in [Modes -> Indexes]
  BY AtWork
<1>2. Dropped(s, mode) \in [Modes -> Indexes]
  BY <1>1, NoIndexesTyped DEF Dropped, Indexes
<1>3. ASSUME NEW m \in Modes
      PROVE  index'[s][m] = index[s][m] \/ index'[s][m] = NotReady
  BY <1>1 DEF Dropped, NoIndexes
<1>4. IndexOK(s)'
  BY <1>1, <1>3, IndexKept, StepGrows, Unwritten DEF SessionOK
<1> QED BY <1>2, <1>4

LEMMA SearchStaleStep ==
  ASSUME IInv, NEW s \in Sessions, NEW mode \in Modes, SearchStale(s, mode)
  PROVE  StepOf(s)
<1>1. /\ op[s].at = "idle" /\ lock = None
      /\ index' = [index EXCEPT ![s] = Dropped(s, mode)]
      /\ UNCHANGED <<docs, writes, lock, shown, op>>
  BY DEF SearchStale, Ready, Dropped
<1>2. Dropped(s, mode) \in [Modes -> Indexes] /\ IndexOK(s)'
  BY <1>1, DroppedOK
<1>3. PICK x \in [Modes -> Indexes] : x = Dropped(s, mode)
  BY <1>2
<1>4. PICK o \in Ops : o = op[s]
  BY AtWork
<1>5. op' = [op EXCEPT ![s] = o] /\ op'[s].at = "idle"
  BY <1>1, <1>4, AtWork
<1>6. lock' = IF o.at = "rebuild" THEN s ELSE IF lock = s THEN None ELSE lock
  BY <1>1, <1>4, DocumentsAssumption
<1> QED BY <1>1, <1>2, <1>3, <1>4, <1>5, <1>6, QuietOK, IndexStep

LEMMA FingerprintTyped ==
  ASSUME IInv
  PROVE  Fingerprint \in Fingerprints
BY AtWork DEF IInv, TypeOK, Fingerprint, Fingerprints, Versions

\* A rebuild that is right goes on being right.
LEMMA RebuildingOK ==
  ASSUME NEW s \in Sessions, NEW o, op'[s] = o, o.at = "rebuild",
         Indexed(o.stamp, o.got, o.todo)'
  PROVE  OpOK(s)'
BY DEF OpOK, ProjectOK, RereadOK, CommitOK, RenderOK, RebuildOK, Indexed, IsAt

LEMMA RebuildStartStep ==
  ASSUME IInv, NEW s \in Sessions, NEW mode \in Modes, RebuildStart(s, mode)
  PROVE  StepOf(s)
<1>1. /\ lock = None /\ lock' = s
      /\ index' = [index EXCEPT ![s] = Dropped(s, mode)]
      /\ UNCHANGED <<docs, writes, shown>>
  BY DEF RebuildStart, Dropped
<1>2. PICK todo \in SUBSET Paths : todo = {p \in Paths : docs[p] # None}
  OBVIOUS
<1>3. PICK stamp \in Fingerprints : stamp = Fingerprint
  BY FingerprintTyped
<1>4. PICK got \in Partial : got = [p \in Paths |-> None]
  BY DEF Partial
<1>5. [at |-> "rebuild", mode |-> mode, stamp |-> stamp, todo |-> todo,
       got |-> got] \in Ops
  BY DEF Ops
<1>6. PICK o \in Ops :
        o = [at |-> "rebuild", mode |-> mode, stamp |-> stamp, todo |-> todo,
             got |-> got]
  BY <1>5
<1>7. o.at = "rebuild" /\ o.stamp = stamp /\ o.todo = todo /\ o.got = got
  BY <1>6
<1>8. op' = [op EXCEPT ![s] = o] /\ op'[s] = o
  BY <1>2, <1>3, <1>4, <1>6, AtWork DEF RebuildStart
<1>9. ASSUME NEW p \in Paths
      PROVE  /\ stamp[p] = None => got[p] = None /\ p \notin todo
             /\ stamp[p] # None => stamp[p] \in 1 .. writes /\ p \in todo
  BY <1>2, <1>3, <1>4, DocumentsAssumption DEF Fingerprint, IInv, DocsOK
<1>10. Indexed(stamp, got, todo)'
  BY <1>1, <1>9 DEF Indexed
<1>11. OpOK(s)'
  BY <1>7, <1>8, <1>10, RebuildingOK
<1>12. Dropped(s, mode) \in [Modes -> Indexes] /\ IndexOK(s)'
  BY <1>1, DroppedOK
<1>13. PICK x \in [Modes -> Indexes] : x = Dropped(s, mode)
  BY <1>12
<1> QED BY <1>1, <1>7, <1>8, <1>11, <1>12, <1>13, IndexStep

\* The indexes of a session that leaves them alone.
LEMMA IndexUntouched ==
  ASSUME IInv, NEW s \in Sessions, UNCHANGED <<docs, writes, index>>
  PROVE  /\ index' = [index EXCEPT ![s] = index[s]] /\ IndexOK(s)'
<1>1. TypeOK /\ SessionOK(s) /\ index \in [Sessions -> [Modes -> Indexes]]
  BY AtWork
<1>2. IndexOK(s)'
  BY <1>1, IndexKept, StepGrows, Unwritten DEF SessionOK
<1> QED BY <1>1, <1>2

\* The end of a rebuild, with or without a result.
LEMMA RebuildEnds ==
  ASSUME IInv, NEW s \in Sessions, op[s].at = "rebuild", Finish(s), lock' = None,
         NEW x \in [Modes -> Indexes], index' = [index EXCEPT ![s] = x],
         UNCHANGED <<docs, writes, shown>>, IndexOK(s)'
  PROVE  StepOf(s)
<1>1. op' = [op EXCEPT ![s] = Idle] /\ op'[s] = Idle
  BY AtWork DEF Finish
<1>2. lock = s
  BY DEF IInv, TypeOK
<1> QED BY <1>1, <1>2, QuietOK, IdleIsOp, IndexStep

LEMMA RebuildReadStep ==
  ASSUME IInv, NEW s \in Sessions, NEW p \in Paths, RebuildRead(s, p)
  PROVE  StepOf(s)
<1>1. /\ op[s].at = "rebuild" /\ p \in op[s].todo
      /\ UNCHANGED <<docs, writes, shown, index>>
  BY DEF RebuildRead
<1>2. index' = [index EXCEPT ![s] = index[s]] /\ IndexOK(s)'
  BY <1>1, IndexUntouched
<1>3. PICK x \in [Modes -> Indexes] : x = index[s]
  BY AtWork
<1>4. CASE Finish(s) /\ lock' = None
  BY <1>1, <1>2, <1>3, <1>4, RebuildEnds
<1>5. CASE /\ docs[p] # None
           /\ op' = [op EXCEPT ![s].todo = @ \ {p}, ![s].got[p] = docs[p].body]
           /\ UNCHANGED lock
  <2>1. PICK u \in Ops : u = op[s]
    BY AtWork
  <2>2. u \in [at : {"rebuild"}, mode : Modes, stamp : Fingerprints,
               todo : SUBSET Paths, got : Partial]
    BY <1>1, <2>1 DEF Ops, Idle
  <2>3. PICK b \in Bodies : b = docs[p].body
    BY <1>5, AtWork DEF Versions
  <2>4. PICK g : g = [u.got EXCEPT ![p] = b]
    OBVIOUS
  <2>5. g \in Partial
    BY <2>2, <2>4 DEF Partial
  <2>6. [u EXCEPT !.todo = @ \ {p}, !.got = g]
          \in [at : {"rebuild"}, mode : Modes, stamp : Fingerprints,
               todo : SUBSET Paths, got : Partial]
    BY <2>2, <2>5
  <2>7. PICK o \in Ops : o = [u EXCEPT !.todo = @ \ {p}, !.got = g]
    BY <2>6 DEF Ops
  <2>8. /\ o.at = "rebuild" /\ o.stamp = u.stamp /\ o.todo = u.todo \ {p}
        /\ o.got = g
    BY <2>2, <2>7
  <2>9. op' = [op EXCEPT ![s] = o] /\ op'[s] = o
    BY <1>5, <2>1, <2>2, <2>3, <2>4, <2>7, AtWork
  <2>10. Indexed(u.stamp, u.got, u.todo)
    BY <1>1, <2>1, AtWork DEF SessionOK, OpOK, RebuildOK
  <2>11. g[p] = docs[p].body /\ \A r \in Paths \ {p} : g[r] = u.got[r]
    BY <2>2, <2>3, <2>4 DEF Partial
  <2>12. u.stamp[p] # None
    BY <1>1, <2>1, <2>10 DEF Indexed
  <2>13. Indexed(o.stamp, o.got, o.todo)
    BY <2>8, <2>10, <2>11, <2>12 DEF Indexed
  <2>14. Indexed(o.stamp, o.got, o.todo)'
    BY <1>1, <2>13 DEF Indexed, IsAt
  <2>15. OpOK(s)'
    BY <2>8, <2>9, <2>14, RebuildingOK
  <2>16. lock = s
    BY <1>1, AtWork DEF TypeOK
  <2> QED BY <1>1, <1>2, <1>3, <1>5, <2>8, <2>9, <2>15, <2>16, IndexStep
<1> QED BY <1>4, <1>5 DEF RebuildRead

LEMMA RebuildEndStep ==
  ASSUME IInv, NEW s \in Sessions, RebuildEnd(s)
  PROVE  StepOf(s)
<1>1. /\ op[s].at = "rebuild" /\ op[s].todo = {} /\ Finish(s) /\ lock' = None
      /\ UNCHANGED <<docs, writes, shown>>
  BY DEF RebuildEnd
<1>2. CASE UNCHANGED index
  <2>1. index' = [index EXCEPT ![s] = index[s]] /\ IndexOK(s)'
    BY <1>1, <1>2, IndexUntouched
  <2>2. PICK x \in [Modes -> Indexes] : x = index[s]
    BY AtWork
  <2> QED BY <1>1, <2>1, <2>2, RebuildEnds
<1>3. CASE index' = [index EXCEPT ![s][op[s].mode] =
                       [ready |-> "yes", stamp |-> op[s].stamp,
                        got |-> op[s].got]]
  <2>1. PICK mode \in Modes, stamp \in Fingerprints, got \in Partial :
          mode = op[s].mode /\ stamp = op[s].stamp /\ got = op[s].got
    BY <1>1, AtWork, OpTypes
  <2>2. [ready |-> "yes", stamp |-> stamp, got |-> got] \in Indexes
    BY DEF Indexes
  <2>3. PICK i \in Indexes : i = [ready |-> "yes", stamp |-> stamp, got |-> got]
    BY <2>2
  <2>4. i.stamp = stamp /\ i.got = got
    BY <2>3
  <2>5. PICK x \in [Modes -> Indexes] : x = [index[s] EXCEPT ![mode] = i]
    BY AtWork
  <2>6. index' = [index EXCEPT ![s] = x] /\ index'[s] = x
    BY <1>3, <2>1, <2>3, <2>5, AtWork
  <2>7. x[mode] = i /\ \A m \in Modes \ {mode} : x[m] = index[s][m]
    BY <2>5, AtWork
  <2>8. Indexed(stamp, got, {})
    BY <1>1, <2>1, AtWork DEF SessionOK, OpOK, RebuildOK
  <2>9. ASSUME NEW m \in Modes, x[m].ready = "yes"
        PROVE  Indexed(x[m].stamp, x[m].got, {})
    BY <2>4, <2>7, <2>8, <2>9, AtWork DEF SessionOK, IndexOK
  <2>10. IndexOK(s)'
    BY <1>1, <2>6, <2>9 DEF IndexOK, Indexed, IsAt
  <2> QED BY <1>1, <2>6, <2>10, RebuildEnds
<1> QED BY <1>2, <1>3 DEF RebuildEnd

-----------------------------------------------------------------------------
(* The rest of the world.                                                  *)

LEMMA CloseStep ==
  ASSUME IInv, NEW s \in Sessions, Close(s)
  PROVE  StepOf(s)
<1>1. /\ op' = [op EXCEPT ![s] = Idle] /\ shown' = [shown EXCEPT ![s] = None]
      /\ index' = [index EXCEPT ![s] = NoIndexes]
      /\ lock' = IF lock = s THEN None ELSE lock
      /\ UNCHANGED <<docs, writes>>
  BY DEF Close, Finish, ClearIndexes
<1>2. op'[s] = Idle /\ shown'[s] = None /\ index'[s] = NoIndexes
  BY <1>1, AtWork
<1>3. Turn(s, Idle, None, NoIndexes)
  BY <1>1, IdleIsOp DEF Turn
<1>4. ShownOK(s)'
  BY <1>2 DEF ShownOK
<1>5. OpOK(s)'
  BY <1>2, QuietOK, IdleIsOp
<1>6. DocsStep
  BY <1>1, Unwritten
<1>7. IndexOK(s)'
  BY <1>2, <1>6, AtWork, IndexKept, StepGrows DEF SessionOK, NoIndexes
<1> QED BY <1>3, <1>4, <1>5, <1>6, <1>7, IdleIsOp, NoIndexesTyped
        DEF StepOf, SessionOK

\* A version that keeps the identity of the one in place is written over it.
LEMMA OverwriteWrites ==
  ASSUME IInv, NEW p \in Paths, docs[p] # None, NEW u \in Versions,
         u.id = docs[p].id, Succeeds(docs[p], u), Write(p, u)
  PROVE  \E v \in Versions : Writes(p, p, v)
<1>1. writes < MaxWrites
  BY DEF Write
<1>2. PICK v \in Versions : v = [u EXCEPT !.etag = writes + 1]
  BY <1>1, Renumbered
<1>3. /\ v.etag = writes + 1 /\ v.id = u.id /\ v.kind = u.kind
      /\ v.body = u.body /\ v.merge = u.merge
  BY <1>1, <1>2, Renumbered
<1>4. writes' = writes + 1 /\ docs' = [docs EXCEPT ![p] = v]
  BY <1>2 DEF Write
<1>5. Succeeds(docs[p], v)
  BY <1>3 DEF Succeeds
<1>6. Writes(p, p, v)
  BY <1>1, <1>3, <1>4, <1>5 DEF Writes, IInv, TypeOK
<1> QED BY <1>6

\* A merge flags what still has markers, and a synchronizer brings a version of
\* the same kind with the same flag.
LEMMA MergeWrites ==
  ASSUME IInv, NEW p \in Paths, Merge(p)
  PROVE  DocsStep
<1>1. docs[p] # None /\ docs[p].kind = "plain"
  BY DEF Merge, Has
<1>2. PICK u \in Versions : u = docs[p]
  BY <1>1 DEF IInv, TypeOK
<1>3. PICK b \in Bodies :
        Write(p, [u EXCEPT !.body = b,
                    !.merge = IF b \in Marked THEN "unresolved" ELSE "resolved"])
  BY <1>2 DEF Merge
<1>4. PICK m \in {"resolved", "unresolved"} :
        m = IF b \in Marked THEN "unresolved" ELSE "resolved"
  OBVIOUS
<1>5. [u EXCEPT !.body = b, !.merge = m] \in Versions
  BY DEF Versions
<1>6. PICK w \in Versions : w = [u EXCEPT !.body = b, !.merge = m]
  BY <1>5
<1>7. w.id = u.id /\ w.body = b /\ w.merge = m
  BY <1>6 DEF Versions
<1>8. Write(p, w)
  BY <1>3, <1>4, <1>6
<1>9. Succeeds(docs[p], w)
  BY <1>1, <1>4, <1>7 DEF Succeeds
<1> QED BY <1>1, <1>2, <1>7, <1>8, <1>9, OverwriteWrites DEF DocsStep

LEMMA SyncWrites ==
  ASSUME IInv, NEW p \in Paths, Sync(p)
  PROVE  DocsStep
<1>1. docs[p] # None
  BY DEF Sync
<1>2. PICK u \in Versions : u = docs[p]
  BY <1>1 DEF IInv, TypeOK
<1>3. ASSUME NEW b \in Bodies, Write(p, [u EXCEPT !.body = b])
      PROVE  DocsStep
  <2>1. [u EXCEPT !.body = b] \in Versions
    BY DEF Versions
  <2>2. PICK w \in Versions : w = [u EXCEPT !.body = b]
    BY <2>1
  <2>3. w.id = u.id /\ w.kind = u.kind /\ w.merge = u.merge
    BY <2>2 DEF Versions
  <2>4. Write(p, w)
    BY <1>3, <2>2
  <2>5. Succeeds(docs[p], w)
    BY <1>2, <2>3 DEF Succeeds
  <2> QED BY <1>1, <1>2, <2>3, <2>4, <2>5, OverwriteWrites DEF DocsStep
<1>4. CASE docs' = [docs EXCEPT ![p] = None] /\ UNCHANGED writes
  BY <1>4 DEF DocsStep
<1> QED BY <1>2, <1>3, <1>4 DEF Sync

LEMMA OutsideKeeps ==
  ASSUME IInv, DocsStep, UNCHANGED <<lock, shown, op, index>>
  PROVE  IInv'
<1>1. TypeOK /\ DocsOK /\ IdentityUnique /\ Grows
  BY StepGrows DEF IInv
<1>2. /\ docs' \in [Paths -> Versions \cup {None}]
      /\ writes' \in 0 .. MaxWrites
      /\ DocsOK' /\ IdentityUnique'
  BY <1>1, DocsKept
<1>3. TypeOK'
  BY <1>1, <1>2 DEF TypeOK
<1>4. ASSUME NEW s \in Sessions
      PROVE  SessionOK(s)'
  BY <1>1, OthersKept DEF IInv
<1> QED BY <1>2, <1>3, <1>4 DEF IInv

LEMMA OutsideStep ==
  ASSUME IInv, NEW p \in Paths, Merge(p) \/ Sync(p)
  PROVE  DocsStep /\ UNCHANGED <<lock, shown, op, index>>
<1>1. DocsStep
  BY MergeWrites, SyncWrites
<1>2. UNCHANGED <<lock, shown, op, index>>
  BY DEF Merge, Sync
<1> QED BY <1>1, <1>2

-----------------------------------------------------------------------------
(* The invariant.                                                          *)

LEMMA InitOK ==
  Init => IInv
<1> SUFFICES ASSUME Init PROVE IInv
  OBVIOUS
<1>1. /\ lock = None /\ shown = [s \in Sessions |-> None]
      /\ op = [s \in Sessions |-> Idle]
      /\ index = [s \in Sessions |-> NoIndexes]
  BY DEF Init
<1>2. \/ writes = 0 /\ docs = [p \in Paths |-> None]
      \/ /\ writes = 1
         /\ \E p \in Paths, b \in Bodies :
              docs = [q \in Paths |->
                        IF q = p THEN [etag |-> 1, id |-> 1, kind |-> "umbra",
                                       body |-> b, merge |-> "resolved"]
                        ELSE None]
  BY DEF Init
<1>3. DocsOK /\ IdentityUnique /\ writes \in 0 .. MaxWrites
        /\ docs \in [Paths -> Versions \cup {None}]
  <2>1. CASE writes = 0 /\ docs = [p \in Paths |-> None]
    BY <2>1, DocumentsAssumption DEF DocsOK, IdentityUnique
  <2>2. ASSUME writes = 1, NEW p \in Paths, NEW b \in Bodies,
               docs = [q \in Paths |->
                         IF q = p THEN [etag |-> 1, id |-> 1, kind |-> "umbra",
                                        body |-> b, merge |-> "resolved"]
                         ELSE None]
        PROVE  DocsOK /\ IdentityUnique /\ writes \in 0 .. MaxWrites
                 /\ docs \in [Paths -> Versions \cup {None}]
    <3>1. [etag |-> 1, id |-> 1, kind |-> "umbra", body |-> b,
           merge |-> "resolved"] \in Versions
      BY DocumentsAssumption DEF Versions, Etags
    <3>2. PICK v \in Versions :
            v = [etag |-> 1, id |-> 1, kind |-> "umbra", body |-> b,
                 merge |-> "resolved"]
      BY <3>1
    <3>3. v.etag = 1 /\ v.id = 1
      BY <3>2
    <3>4. docs = [q \in Paths |-> IF q = p THEN v ELSE None]
      BY <2>2, <3>2
    <3> QED BY <2>2, <3>3, <3>4, DocumentsAssumption DEF DocsOK, IdentityUnique
  <2> QED BY <1>2, <2>1, <2>2
<1>4. /\ op \in [Sessions -> Ops] /\ index \in [Sessions -> [Modes -> Indexes]]
      /\ shown \in [Sessions -> Displays \cup {None}]
  BY <1>1, IdleIsOp, NoIndexesTyped
<1>5. ASSUME NEW s \in Sessions
      PROVE  (op[s].at = "rebuild" <=> lock = s) /\ SessionOK(s)
  BY <1>1, <1>5, IdleIsOp, DocumentsAssumption
     DEF SessionOK, ShownOK, OpOK, ProjectOK, RereadOK, CommitOK, RenderOK,
         RebuildOK, IndexOK, NoIndexes, NotReady
<1> QED BY <1>1, <1>3, <1>4, <1>5 DEF IInv, TypeOK

LEMMA SessionStep ==
  ASSUME IInv, NEW s \in Sessions,
         \/ \E p \in Paths : Open(s, p) \/ OpenUmbra(s, p) \/ RebuildRead(s, p)
         \/ \E m \in Modes : RebuildStart(s, m) \/ SearchStale(s, m)
         \/ OpenedUmbra(s) \/ Save(s) \/ Convert(s) \/ Rename(s)
         \/ Annotate(s) \/ Project(s) \/ Reread(s) \/ Render(s)
         \/ RebuildEnd(s) \/ Close(s) \/ Edit(s)
  PROVE  StepOf(s)
<1>1. ASSUME NEW p \in Paths, Open(s, p) \/ OpenUmbra(s, p) \/ RebuildRead(s, p)
      PROVE  StepOf(s)
  BY <1>1, OpenStep, OpenUmbraStep, RebuildReadStep
<1>2. ASSUME NEW m \in Modes, RebuildStart(s, m) \/ SearchStale(s, m)
      PROVE  StepOf(s)
  BY <1>2, RebuildStartStep, SearchStaleStep
<1>3. CASE Edit(s)
  BY <1>3, CreateStep, CommitStep, DeleteStep DEF Edit
<1>4. CASE OpenedUmbra(s) \/ Save(s) \/ Convert(s) \/ Rename(s)
  BY <1>4, OpenedUmbraStep, SaveStep, ConvertStep, RenameStep
<1>5. CASE Annotate(s) \/ Project(s) \/ Reread(s) \/ Render(s)
  BY <1>5, AnnotateStep, ProjectStep, RereadStep, RenderStep
<1>6. CASE RebuildEnd(s) \/ Close(s)
  BY <1>6, RebuildEndStep, CloseStep
<1> QED BY <1>1, <1>2, <1>3, <1>4, <1>5, <1>6

LEMMA NextSteps ==
  ASSUME IInv, [Next]_vars
  PROVE  \/ \E s \in Sessions : StepOf(s)
         \/ DocsStep /\ UNCHANGED <<lock, shown, op, index>>
<1>1. CASE UNCHANGED vars
  BY <1>1, Unwritten DEF vars
<1>2. ASSUME NEW s \in Sessions,
             \/ \E p \in Paths :
                  Open(s, p) \/ OpenUmbra(s, p) \/ RebuildRead(s, p)
             \/ \E m \in Modes : RebuildStart(s, m) \/ SearchStale(s, m)
             \/ OpenedUmbra(s) \/ Save(s) \/ Convert(s) \/ Rename(s)
             \/ Annotate(s) \/ Project(s) \/ Reread(s) \/ Render(s)
             \/ RebuildEnd(s) \/ Close(s) \/ Edit(s)
      PROVE  StepOf(s)
  BY <1>2, SessionStep
<1>3. ASSUME NEW p \in Paths, Merge(p) \/ Sync(p)
      PROVE  DocsStep /\ UNCHANGED <<lock, shown, op, index>>
  BY <1>3, OutsideStep
<1> QED BY <1>1, <1>2, <1>3 DEF Next

LEMMA NextOK ==
  IInv /\ [Next]_vars => IInv'
BY NextSteps, StepKeeps, OutsideKeeps

\* The inductive invariant holds in every reachable state.
THEOREM InvariantHolds ==
  Spec => []IInv
<1>1. Init => IInv
  BY InitOK
<1>2. IInv /\ [Next]_vars => IInv'
  BY NextOK
<1> QED BY <1>1, <1>2, PTL DEF Spec

\* Every variable keeps its type, and only a session that rebuilds an index
\* holds the mutation lock between two accesses.
THEOREM TypeCorrect ==
  Spec => []TypeOK
<1>1. IInv => TypeOK
  BY DEF IInv
<1> QED BY <1>1, InvariantHolds, PTL

\* However the saves, renames, re-creations, merges and synchronizations of any
\* number of sessions interleave, a file id is at one path, and so is an etag.
THEOREM IdentitiesAreUnique ==
  Spec => []IdentityUnique
<1>1. IInv => IdentityUnique
  BY DEF IInv
<1> QED BY <1>1, InvariantHolds, PTL

\* An index that may answer, answers from the documents as they are: its
\* fingerprint is that of the vault, and under each etag of a fingerprint it
\* holds what was written under that etag.
THEOREM SearchIsTrue ==
  Spec => []SearchTellsTruth
<1>1. ASSUME IInv, NEW s \in Sessions, NEW m \in Modes, Answers(s, m),
             NEW p \in Paths
      PROVE  index[s][m].got[p] = IF docs[p] = None THEN None ELSE docs[p].body
  <2>1. PICK stamp, got : stamp = index[s][m].stamp /\ got = index[s][m].got
    OBVIOUS
  <2>2. Indexed(stamp, got, {}) /\ stamp = Fingerprint
    BY <1>1, <2>1, AtWork DEF SessionOK, IndexOK, Answers
  <2>3. stamp[p] = IF docs[p] = None THEN None ELSE docs[p].etag
    BY <2>2 DEF Fingerprint
  <2>4. docs[p] # None => docs[p].etag \in Nat
    BY <1>1, AtWork, VersionsAreNumbered
  <2> QED BY <2>1, <2>2, <2>3, <2>4, DocumentsAssumption DEF Indexed, IsAt
<1>2. IInv => SearchTellsTruth
  BY <1>1 DEF SearchTellsTruth
<1> QED BY <1>2, InvariantHolds, PTL

-----------------------------------------------------------------------------
(* What a step may do.                                                     *)

\* An edit that goes through replaces or moves exactly the text its client
\* displays, also when that text and its etag came from two reads.
THEOREM EditsAreOfTheShown ==
  Spec => EditsApplyToShown
<1>1. ASSUME IInv, NEW s \in Sessions, Commit(s), docs' # docs
      PROVE  /\ IsAt(shown[s].path, shown[s].etag)
             /\ docs[shown[s].path].body = shown[s].body
  <2>1. /\ op[s].at = "commit"
        /\ IsAt(op[s].path, op[s].version.etag)
    BY <1>1 DEF Commit
  <2>2. /\ AboutShown(s, op[s].path, op[s].version.etag)
        /\ Replaces(s, docs[op[s].path], op[s].version)
    BY <1>1, <2>1, AtWork, CommitMeans DEF SessionOK, OpOK
  <2> QED BY <2>1, <2>2 DEF AboutShown, Replaces
<1>2. IInv /\ [Next]_vars =>
        [\A s \in Sessions :
           Commit(s) /\ docs' # docs =>
             /\ IsAt(shown[s].path, shown[s].etag)
             /\ docs[shown[s].path].body = shown[s].body]_vars
  BY <1>1
<1> QED BY <1>2, InvariantHolds, PTL DEF Spec, EditsApplyToShown

\* A version with the identity of an earlier one succeeds it.
LEMMA SuccessorSucceeds ==
  ASSUME IInv, [Next]_vars, NEW p \in Paths, NEW q \in Paths,
         docs[p] # None, docs'[q] # None, docs'[q].id = docs[p].id
  PROVE  docs'[q] = docs[p] \/ Succeeds(docs[p], docs'[q])
<1>1. DocsStep /\ DocsOK /\ IdentityUnique
  BY NextSteps DEF StepOf, IInv
<1>2. CASE docs'[q] = docs[q]
  BY <1>1, <1>2 DEF IdentityUnique
<1>3. CASE docs'[q] # docs[q]
  <2>1. docs \in [Paths -> Versions \cup {None}] /\ writes \in Nat
    BY DEF IInv, TypeOK
  <2>2. PICK r \in Paths, v \in Versions : Writes(r, q, v)
    BY <1>1, <1>3, <2>1 DEF DocsStep, Writes
  <2>3. docs'[q] = v
    BY <2>1, <2>2 DEF Writes
  <2>4. v.id # writes + 1
    BY <1>1, <2>1, <2>3 DEF DocsOK
  <2>5. docs[r] # None /\ v.id = docs[r].id /\ Succeeds(docs[r], v)
    BY <2>2, <2>4 DEF Writes
  <2>6. r = p
    BY <1>1, <2>3, <2>5 DEF IdentityUnique
  <2> QED BY <2>3, <2>5, <2>6
<1> QED BY <1>2, <1>3

\* A document with private annotations never becomes a plain one again: a plain
\* save or rename that was prepared before the conversion is refused.
THEOREM UmbraIsKept ==
  Spec => UmbraNeverDowngraded
<1>1. IInv /\ [Next]_vars =>
        [\A p, q \in Paths :
           Has(p, "umbra") /\ docs'[q] # None /\ docs'[q].id = docs[p].id =>
             docs'[q].kind = "umbra"]_vars
  BY SuccessorSucceeds DEF Has, Succeeds
<1> QED BY <1>1, InvariantHolds, PTL DEF Spec, UmbraNeverDowngraded

\* The mark of an unresolved merge goes only with the markers, whichever save,
\* rename, merge or annotation was prepared before it.
THEOREM FlagIsKept ==
  Spec => UnresolvedStaysFlagged
<1>1. IInv /\ [Next]_vars =>
        [\A p, q \in Paths :
           /\ docs[p] # None /\ docs[p].merge = "unresolved"
           /\ docs'[q] # None /\ docs'[q].id = docs[p].id
           /\ docs'[q].merge = "resolved"
           => docs'[q].body \notin Marked]_vars
  BY SuccessorSucceeds DEF Succeeds
<1> QED BY <1>1, InvariantHolds, PTL DEF Spec, UnresolvedStaysFlagged
=============================================================================
