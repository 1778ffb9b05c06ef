-------------------------------- MODULE MergePlan --------------------------------
(***************************************************************************)
(* What `inex git merge` makes of a conflicted index: the checks and the   *)
(* classification before any write, the merged documents, and the checks   *)
(* before each commit (merge and what it calls in crates/inex-git/src/     *)
(* lib.rs).  GitMergeV5 models how one plan reaches the disk; here every   *)
(* small history of two branches is merged.                                *)
(*                                                                         *)
(* A document is [id, at, text, flag, by]: the file id and the path in its *)
(* header, two lines each a set of versions, UNRESOLVED_MERGE, and who     *)
(* encrypted it, so that two encryptions of one text differ.  A line of    *)
(* several versions stands for a block of conflict markers.  A tree is a   *)
(* set of documents, an index a set of entries [path, stage, doc].         *)
(***************************************************************************)
EXTENDS Integers, FiniteSets, SequencesExt

CONSTANTS
  MaxCommitEdits   \* the operations of both branches since their merge base

ASSUME MergePlanBounds == MaxCommitEdits \in Nat

PathOrder == <<"A", "a", "b", "c">>
DocPaths == ToSet(PathOrder)
PathFold(path) == IF path = "A" THEN "a" ELSE path
Branches == {"ours", "theirs"}
Other(side) == CHOOSE s \in Branches : s # side
NoDoc == [id |-> "none", at |-> "none", text |-> <<{"none"}, {"none"}>>,
          flag |-> FALSE, by |-> "none"]
Marked(text) == \E i \in DOMAIN text : Cardinality(text[i]) > 1
At(tree, path) == IF \E d \in tree : d.at = path
                  THEN CHOOSE d \in tree : d.at = path ELSE NoDoc

-----------------------------------------------------------------------------
(* The branches, made by a vault's own operations, and Git's merge.        *)

\* One save, rename, deletion or creation.  A save clears the flag when no
\* marker is left; no name may alias another one.
Edited(tree, side) ==
  LET Save(d, i) == LET text == [d.text EXCEPT ![i] = {side}]
                    IN [d EXCEPT !.text = text, !.flag = d.flag /\ Marked(text), !.by = side]
      Free(path) == \A d \in tree : PathFold(d.at) # PathFold(path)
      Fresh(path) == [id |-> side, at |-> path, text |-> <<{side}, {side}>>,
                      flag |-> FALSE, by |-> side]
  IN {(tree \ {d}) \cup {Save(d, i)} : d \in tree, i \in 1..2}
       \cup {(tree \ {d}) \cup {[d EXCEPT !.at = p, !.by = side]} :
               d \in tree, p \in {q \in DocPaths : Free(q)}}
       \cup {tree \ {d} : d \in tree}
       \cup {tree \cup {Fresh(p)} :
               p \in {q \in DocPaths : Free(q) /\ \A d \in tree : d.id # side}}
After(base, side, n) ==
  LET trees[i \in 0..n] ==
        IF i = 0 THEN {base}
        ELSE trees[i - 1] \cup UNION {Edited(t, side) : t \in trees[i - 1]}
  IN trees[n]

\* A merge of two branches, the sides whose renames Git finds, and whether HEAD,
\* MERGE_HEAD and one merge base tell how the index came about (if they do not, no
\* rename need be found).
Histories(n) ==
  LET Doc(id, path, text) == [id |-> id, at |-> path, text |-> text,
                              flag |-> Marked(text), by |-> "base"]
      Bases == {{Doc("one", "a", <<line, {"one"}>>), Doc("two", "b", <<{"two"}, {"two"}>>)} :
                  line \in {{"one"}, {"left", "right"}}}
      Seen == {<<{}, FALSE>>} \cup {<<found, TRUE>> : found \in SUBSET Branches}
  IN UNION {{[base |-> base, ours |-> ours, theirs |-> theirs, found |-> git[1],
              merging |-> git[2]] :
               ours \in After(base, "ours", k), theirs \in After(base, "theirs", n - k),
               git \in Seen} :
              base \in Bases, k \in 0..n}

\* Where Git says that a document of the base went: a rename to a free path that
\* is also free on the other side, or taken there by the same rename.
Moves(h, e) ==
  {d.at : d \in UNION {{d \in h[side] :
            /\ side \in h.found /\ d.id = e.id /\ d.at # e.at
            /\ At(h[side], e.at) = NoDoc /\ At(h.base, d.at) = NoDoc
            /\ At(h[Other(side)], d.at).id \in {"none", e.id}} : side \in Branches}}
HomeOf(h, e) == IF Moves(h, e) = {} THEN e.at ELSE CHOOSE p \in Moves(h, e) : TRUE
\* The path under which Git compares a document with its base.
SlotOf(h, d) == IF At(h.base, d.at) = NoDoc THEN d.at ELSE HomeOf(h, At(h.base, d.at))

\* Git's three-way merge by path: the inex driver leaves a path changed on both
\* sides in conflict, with all its stages.
GitIndex(h) ==
  LET Split == {e \in h.base : Cardinality(Moves(h, e)) > 1}
      In(tree, path) == LET there == {d \in tree : SlotOf(h, d) = path}
                        IN IF there = {} THEN NoDoc ELSE CHOOSE d \in there : TRUE
      Of(path) ==
        LET b == In(h.base, path)  o == In(h.ours, path)  t == In(h.theirs, path)
            Clean(d) == IF d = NoDoc THEN {} ELSE {[path |-> path, stage |-> 0, doc |-> d]}
        IN CASE o = t -> Clean(o)
             [] o # t /\ b = o -> Clean(t)
             [] o # t /\ b = t -> Clean(o)
             [] OTHER -> {[path |-> path, stage |-> i, doc |-> <<b, o, t>>[i]] :
                            i \in {j \in 1..3 : <<b, o, t>>[j] # NoDoc}}
      Torn(e) == {[path |-> e.at, stage |-> 1, doc |-> e]}
                   \cup {[path |-> d.at, stage |-> 2, doc |-> d] : d \in {x \in h.ours : x.id = e.id}}
                   \cup {[path |-> d.at, stage |-> 3, doc |-> d] : d \in {x \in h.theirs : x.id = e.id}}
      torn == UNION {Torn(e) : e \in Split}
  IN torn \cup {x \in UNION {Of(p) : p \in DocPaths} : \A y \in torn : y.path # x.path}

\* Git leaves our version of a conflict in the worktree, theirs when we have none.
GitWorktree(index) ==
  LET Shown(x) == x.stage \in {0, 2} \/ (x.stage = 3 /\ \A y \in index : y.path = x.path => y.stage # 2)
  IN {[path |-> x.path, doc |-> x.doc] : x \in {y \in index : Shown(y)}}

-----------------------------------------------------------------------------
(* The checks before any write.                                            *)

\* unmerged_entries and staged_entries.
Stage(index, path, stage) ==
  LET there == {x \in index : x.path = path /\ x.stage = stage}
  IN IF there = {} THEN NoDoc ELSE (CHOOSE x \in there : TRUE).doc
Stages(index, path) == [i \in 1..3 |-> Stage(index, path, i)]
Present(stages) == {stages[i] : i \in {j \in 1..3 : stages[j] # NoDoc}}
Conflicts(index) == {x.path : x \in {y \in index : y.stage # 0}}
Tracked(index) == {x \in index : x.stage = 0}
TrackedAs(index, id) ==
  LET there == {x \in Tracked(index) : x.doc.id = id}
  IN IF there = {} THEN "none" ELSE (CHOOSE x \in there : TRUE).path

\* validate_conflict_modes.
ValidModes(stages) ==
  /\ Cardinality({i \in 1..3 : stages[i] # NoDoc}) >= 2
  /\ stages[2] # NoDoc \/ stages[3] # NoDoc

\* merge, up to the classification: the walk of the worktree finds no aliases,
\* conflicts have no aliases and no stage zero, the tracked documents are where
\* their headers say and have an identity each, and no identity is in two
\* conflicts (tracked_identity_index, authenticate_conflict_identities).
WalkAccepts(worktree) ==
  \A f, g \in worktree : f.path # g.path => PathFold(f.path) # PathFold(g.path)
IndexAccepted(index) ==
  /\ \A p \in Conflicts(index) : ValidModes(Stages(index, p)) /\ Stage(index, p, 0) = NoDoc
  /\ \A p, q \in Conflicts(index) : p # q => PathFold(p) # PathFold(q)
  /\ \A x \in Tracked(index) : x.doc.at = x.path
  /\ \A x, y \in Tracked(index) : x # y => x.doc.id # y.doc.id
  /\ \A x, y \in index : x.stage # 0 /\ y.stage # 0 /\ x.path # y.path => x.doc.id # y.doc.id

\* verify_rename_provenance, with current_rename_provenance.
Proven(h, source, destination, ancestor, renamed, other, side) ==
  /\ h.merging /\ source # destination
  /\ At(h.base, source) = ancestor          /\ At(h.base, destination) = NoDoc
  /\ At(h[side], source) = NoDoc            /\ At(h[side], destination) = renamed
  /\ At(h[Other(side)], source) = other     /\ At(h[Other(side)], destination) = NoDoc

StageOf(side) == IF side = "ours" THEN 2 ELSE 3
Refused == [kind |-> "refused"]

\* classify_same_path_plan: in place, unless the index has the document of the
\* conflict at another path, where one side moved it without Git noticing.
SamePathPlan(h, index, path) ==
  LET stages == Stages(index, path)
      elsewhere == {d.id : d \in {e \in Present(stages) :
                      TrackedAs(index, e.id) \notin {"none", path}}}
      id == CHOOSE i \in elsewhere : TRUE
      destination == TrackedAs(index, id)
      side == IF stages[2] = NoDoc THEN "ours" ELSE "theirs"
      moved == Stage(index, destination, 0)
  IN IF elsewhere = {}
     THEN [kind |-> "InPlace", path |-> path, docs |-> stages, paths |-> {path}]
     ELSE IF /\ Cardinality(elsewhere) = 1 /\ stages[1] # NoDoc
             /\ (stages[2] = NoDoc) # (stages[3] = NoDoc)
             /\ \A d \in Present(stages) : d.id = id
             /\ destination \notin Conflicts(index)
             /\ PathFold(destination) # PathFold(path)
             /\ moved.at = destination
             /\ Proven(h, path, destination, stages[1], moved,
                       stages[StageOf(Other(side))], side)
          THEN [kind |-> "SplitRename", path |-> destination, source |-> path, side |-> side,
                docs |-> [stages EXCEPT ![StageOf(side)] = moved],
                paths |-> {path, destination}]
          ELSE Refused

\* classify_detected_rename_plan.
DetectedPlan(h, index, path) ==
  LET stages == Stages(index, path)
      source == stages[1].at
      side == IF stages[2].at # source THEN "ours" ELSE "theirs"
      renamed == stages[StageOf(side)]
      other == stages[StageOf(Other(side))]
  IN IF /\ \A i \in 1..3 : stages[i] # NoDoc /\ stages[i].id = stages[1].id
        /\ renamed.at # source /\ other.at = source
        /\ renamed.at = path
        /\ PathFold(path) # PathFold(source)
        /\ TrackedAs(index, stages[1].id) = "none"
        /\ source \notin Conflicts(index)
        /\ Proven(h, source, path, stages[1], renamed, other, side)
     THEN [kind |-> "DetectedRename", path |-> path, source |-> source, side |-> side,
           docs |-> stages, paths |-> {path, source}]
     ELSE Refused

\* classify_conflict_plan; preflight_conflict_identities: no two plans claim
\* aliases of one path.
PlanOf(h, index, path) ==
  IF \A d \in Present(Stages(index, path)) : d.at = path
  THEN SamePathPlan(h, index, path) ELSE DetectedPlan(h, index, path)
PlansAccepted(plans) ==
  /\ \A p \in DOMAIN plans : plans[p] # Refused
  /\ \A p, q \in DOMAIN plans : p # q =>
       {PathFold(x) : x \in plans[p].paths} \cap {PathFold(x) : x \in plans[q].paths} = {}
Plans(h, index) == [p \in Conflicts(index) |-> PlanOf(h, index, p)]
Accepted(h) ==
  LET index == GitIndex(h)
  IN /\ WalkAccepts(GitWorktree(index)) /\ IndexAccepted(index)
     /\ PlansAccepted(Plans(h, index))

-----------------------------------------------------------------------------
(* The merged document.                                                    *)

\* diffy::merge, line by line; what both sides changed becomes a conflict.
Diff3(base, ours, theirs) ==
  [i \in 1..2 |-> CASE ours[i] = theirs[i] -> ours[i]
                    [] ours[i] # theirs[i] /\ base[i] = ours[i] -> theirs[i]
                    [] ours[i] # theirs[i] /\ base[i] = theirs[i] -> ours[i]
                    [] OTHER -> ours[i] \cup theirs[i]]
Diff3Conflicts(base, ours, theirs) ==
  \E i \in 1..2 : ours[i] # theirs[i] /\ base[i] \notin {ours[i], theirs[i]}

\* prepare_result_for_paths, prepare_split_rename_result and
\* merge_and_encrypt_documents: the identity is the renamed document's, else ours
\* before theirs; should_flag_merge_result decides on the flag.
Identity(plan) ==
  IF plan.kind # "InPlace" THEN plan.docs[StageOf(plan.side)]
  ELSE IF plan.docs[2] # NoDoc THEN plan.docs[2] ELSE plan.docs[3]
Flagged(conflicted, inherited, text) == conflicted \/ (inherited /\ Marked(text))
Merged(plan) ==
  LET Text(i) == plan.docs[i].text
      text == Diff3(Text(1), Text(2), Text(3))
  IN [id |-> Identity(plan).id, at |-> plan.path, text |-> text,
      flag |-> Flagged(Diff3Conflicts(Text(1), Text(2), Text(3)),
                       \E i \in 1..3 : plan.docs[i].flag, text),
      by |-> "merge"]

-----------------------------------------------------------------------------
(* The commits, one plan after another.  repo is [ok, index, worktree].    *)

\* commit_result, commit_split_rename_result, commit_detected_rename_result:
\* the index is still the one that was planned for.
IndexIsOriginal(repo, before, plan) ==
  CASE plan.kind = "InPlace" ->
         /\ Stages(repo.index, plan.path) = Stages(before, plan.path)
         /\ Stage(repo.index, plan.path, 0) = NoDoc
    [] plan.kind = "SplitRename" ->
         /\ Stages(repo.index, plan.source) = Stages(before, plan.source)
         /\ Stage(repo.index, plan.source, 0) = NoDoc
         /\ plan.path \notin Conflicts(repo.index)
         /\ Stage(repo.index, plan.path, 0) = Stage(before, plan.path, 0)
    [] plan.kind = "DetectedRename" ->
         /\ Stages(repo.index, plan.path) = Stages(before, plan.path)
         /\ Stage(repo.index, plan.path, 0) = NoDoc
         /\ plan.source \notin Conflicts(repo.index)
         /\ Stage(repo.index, plan.source, 0) = NoDoc

\* verify_tracked_identity_owner, verify_worktree_identity_owner: nothing else in
\* the index or the worktree has the identity of the result.
OwnersFit(repo, plan) ==
  LET id == Identity(plan).id
      folded == {PathFold(p) : p \in plan.paths}
      expected == IF plan.kind = "SplitRename" THEN plan.path ELSE "none"
      Readable(f) ==
        IF f.path \in Conflicts(repo.index)
        THEN f.doc \in Present(Stages(repo.index, f.path)) ELSE f.doc.at = f.path
  IN /\ TrackedAs(repo.index, id) = expected
     /\ WalkAccepts(repo.worktree)
     /\ \A f \in repo.worktree :
          PathFold(f.path) \notin folded => Readable(f) /\ f.doc.id # id

\* The files are those that Git left (expected_worktree_digest).
WorktreeFits(repo, plan) ==
  LET ShownOf(docs) == IF docs[2] # NoDoc THEN docs[2] ELSE docs[3]
      there == {f \in repo.worktree : f.path = plan.path}
      source == {f.doc : f \in {g \in repo.worktree :
                                  plan.kind # "InPlace" /\ g.path = plan.source}}
  IN CASE plan.kind = "InPlace" -> {f.doc : f \in there} = {ShownOf(plan.docs)}
       [] plan.kind = "SplitRename" ->
            /\ {f.doc : f \in there} = {plan.docs[StageOf(plan.side)]}
            /\ \/ source = {plan.docs[StageOf(Other(plan.side))]}
               \/ source = {} /\ plan.side = "ours"
       [] plan.kind = "DetectedRename" ->
            {f.doc : f \in there} = {ShownOf(plan.docs)} /\ source = {}

\* authenticate_all_in_place_stages_v5: one identity, except that two documents
\* may have been created under one name.
StagesAuthenticate(plan) ==
  \A i \in {j \in 1..3 : plan.docs[j] # NoDoc} :
    plan.docs[i].id = Identity(plan).id
      \/ (i = 3 /\ plan.docs[1] = NoDoc /\ plan.docs[2] # NoDoc)

MayCommit(h, before, repo, plan) ==
  /\ Identity(plan).at = plan.path
  /\ plan.kind = "InPlace" => StagesAuthenticate(plan)
  /\ IndexIsOriginal(repo, before, plan) /\ OwnersFit(repo, plan) /\ WorktreeFits(repo, plan)
  /\ plan.kind # "InPlace" =>
       Proven(h, plan.source, plan.path, plan.docs[1], plan.docs[StageOf(plan.side)],
              plan.docs[StageOf(Other(plan.side))], plan.side)

\* apply_payload_to_index and the writes of the worktree, when nothing fails.
Committed(repo, plan) ==
  LET gone == IF plan.kind = "SplitRename" THEN plan.paths ELSE {plan.path}
  IN [ok |-> TRUE,
      index |-> {x \in repo.index : x.path \notin gone}
                  \cup {[path |-> plan.path, stage |-> 0, doc |-> Merged(plan)]},
      worktree |-> {f \in repo.worktree : f.path \notin gone}
                     \cup {[path |-> plan.path, doc |-> Merged(plan)]}]

\* merge: all plans in the order of their paths, up to the first commit that is
\* refused.
MergeOf(h) ==
  LET before == GitIndex(h)
      plans == Plans(h, before)
      start == [ok |-> TRUE, index |-> before, worktree |-> GitWorktree(before)]
      Commit(path, repo) ==
        IF repo.ok /\ MayCommit(h, before, repo, plans[path])
        THEN Committed(repo, plans[path]) ELSE [repo EXCEPT !.ok = FALSE]
  IN FoldLeft(LAMBDA repo, path : Commit(path, repo), start,
              SelectSeq(PathOrder, LAMBDA p : p \in Conflicts(before)))
-----------------------------------------------------------------------------
(* What a merge promises, for every history of MaxCommitEdits operations.  *)

ChangesOf(tree, side) == {d \in tree : d.by = side}

\* A branch gave the name of a document of the base to another document, and the
\* other branch changed it: classify_same_path_plan lets this conflict pass.
Supplanted(h) ==
  LET index == GitIndex(h)
      plans == Plans(h, index)
  IN \E p \in DOMAIN plans :
       /\ plans[p].kind = "InPlace" /\ plans[p].docs[1] # NoDoc
       /\ Cardinality({d.id : d \in Present(plans[p].docs)}) > 1

Merges(h) == Accepted(h) /\ ~Supplanted(h)

\* What the checks before the first write accept, the checks before each commit
\* accept as well, but for a supplanted document: a merge does not stop half way
\* when nothing else runs (preflight_conflict_identities against commit_result and
\* its siblings).  With a supplanted document it always stops half way.
ASSUME PreflightIsEnough ==
  \A h \in Histories(MaxCommitEdits) :
    Accepted(h) => (MergeOf(h).ok <=> ~Supplanted(h))

\* An accepted merge leaves no conflict, one file for each name and identity, each
\* under the name in its header, in the index and the worktree alike, and a flag
\* wherever there are conflict markers.
ASSUME MergedVaultIsSound ==
  \A h \in Histories(MaxCommitEdits) : Merges(h) =>
    LET after == MergeOf(h)
    IN /\ Conflicts(after.index) = {}
       /\ {[path |-> x.path, doc |-> x.doc] : x \in after.index} = after.worktree
       /\ \A x, y \in after.worktree : x # y =>
            x.doc.id # y.doc.id /\ PathFold(x.path) # PathFold(y.path)
       /\ \A x \in after.worktree : x.doc.at = x.path /\ x.doc.flag = Marked(x.doc.text)

\* Nothing that a branch wrote is lost: each line it changed is in a document of
\* the result, with its identity or, where two documents met under one name, with
\* its name.
ASSUME MergeKeepsBothSides ==
  \A h \in Histories(MaxCommitEdits) : Merges(h) =>
    \A side \in Branches : \A d \in h[side], i \in 1..2 :
      side \in d.text[i] =>
        \E f \in MergeOf(h).worktree :
          /\ side \in f.doc.text[i]
          /\ f.doc.id = d.id \/ f.path = d.at

\* Whether Git finds a rename decides how the index looks, not what is merged.
ASSUME RenamesMergeAlike ==
  \A h \in Histories(MaxCommitEdits) : h.found = Branches /\ Merges(h) =>
    LET unaware == [h EXCEPT !.found = {}]
        Content(g) == {[f.doc EXCEPT !.by = "any"] : f \in MergeOf(g).worktree}
    IN Merges(unaware) => Content(h) = Content(unaware)

\* A branch that renamed a document and one that saved it can always be merged,
\* however Git saw it (docs/architecture.md, "Git and merge").
ASSUME RenameMeetsSave ==
  \A h \in Histories(2) :
    (h.merging /\ \E side \in Branches :
       /\ \E d \in ChangesOf(h[side], side) : d.id # side /\ At(h.base, d.at) = NoDoc
       /\ \E d \in ChangesOf(h[Other(side)], Other(side)) : At(h.base, d.at) # NoDoc)
    => Merges(h)

=============================================================================
