---------------------------- MODULE PlainPublication ----------------------------
(***************************************************************************)
(* Publication of a new directory by the copy import (`inex import`,       *)
(* import.rs of inex-cli) and by the plaintext export (plaintext_export.rs *)
(* of inex-core): a staging directory is filled, audited and moved to an   *)
(* absent name beside it (atomic.rs of inex-core).  A command is a         *)
(* sequence of steps.  Before any of them somebody else may change the     *)
(* directories, one of them may fail, and the process may be killed.       *)
(***************************************************************************)
EXTENDS Naturals, SequencesExt

CONSTANT MaxIntrusions  \* the changes that somebody else makes during one command

ASSUME IntrusionBound == MaxIntrusions \in Nat

-----------------------------------------------------------------------------
(* What an export writes.  A tree is a function from relative paths to what *)
(* is there: "dir", "link" or the bytes of a file. *)

Paths == SeqOf({"a", "b"}, 2) \ {<<>>}
Parents(path) == {SubSeq(path, 1, n) : n \in 1 .. (Len(path) - 1)}
Empty == [path \in {} |-> "dir"]
\* What is written so far: the tree, the files and directories of the manifest.
NoExport == [ok |-> TRUE, tree |-> Empty, files |-> Empty, dirs |-> {}]

WithDirs(tree, dirs) ==
  [path \in DOMAIN tree \cup dirs |-> IF path \in dirs THEN "dir" ELSE tree[path]]
AreDirs(tree, paths) == \A path \in paths \cap DOMAIN tree : tree[path] = "dir"

CreateDirectory(written, path) ==
  LET dirs == Parents(path) \cup {path}
  IN IF ~AreDirs(written.tree, dirs) THEN [written EXCEPT !.ok = FALSE]
     ELSE [written EXCEPT !.tree = WithDirs(@, dirs), !.dirs = @ \cup {path}]

WriteFile(written, path, bytes) ==
  IF ~AreDirs(written.tree, Parents(path)) \/ path \in DOMAIN written.tree
    THEN [written EXCEPT !.ok = FALSE]
    ELSE [written EXCEPT !.tree = (path :> bytes) @@ WithDirs(@, Parents(path)),
                         !.files = (path :> bytes) @@ @,
                         !.dirs = @ \cup Parents(path)]

\* The entries of the tree that was confirmed, in order, up to the first failure.
\* A document that cannot be read any more is "lost"; an Umbra document is written
\* with its private text in the scope "umbra", which needs the key, and without it in
\* the scope "outer".
Text(scope, entry) == IF entry.kind = "umbra" THEN scope ELSE "text"
Populate(scope, hasKey, entries) ==
  LET Export(written, entry) ==
        CASE ~written.ok -> written
          [] written.ok /\ entry.kind = "dir" -> CreateDirectory(written, entry.path)
          [] written.ok /\ entry.kind = "lost" -> [written EXCEPT !.ok = FALSE]
          [] OTHER -> WriteFile(written, entry.path, Text(scope, entry))
  IN IF scope = "umbra" /\ ~hasKey THEN [NoExport EXCEPT !.ok = FALSE]
     ELSE FoldLeft(Export, NoExport, entries)

\* audit_exact_tree: nothing is there that is not expected.
NothingElse(tree, files, dirs) ==
  \A path \in DOMAIN tree :
    \/ tree[path] = "dir" /\ path \in dirs
    \/ tree[path] \notin {"dir", "link"} /\ path \in files
\* audit: every file is as it was written, and every directory can be synchronized, so
\* it is there.
Audit(written, tree) ==
  LET dirs == written.dirs \cup UNION {Parents(path) : path \in DOMAIN written.files}
  IN /\ NothingElse(tree, DOMAIN written.files, dirs)
     /\ \A path \in DOMAIN written.files :
          path \in DOMAIN tree /\ tree[path] = written.files[path]
     /\ dirs \subseteq DOMAIN tree

-----------------------------------------------------------------------------
(* The commands.  At the names src (staging) and dst (destination) there is *)
(* Gone, "ours" or something "other"; damage is what was done to our        *)
(* directory, marker its publication marker, parent whether the name of the *)
(* common parent is still that of the directory they are in.                *)

Gone == "gone"
Fresh == [src |-> "ours", dst |-> Gone, parent |-> TRUE, damage |-> {}, marker |-> FALSE,
          captured |-> Gone, error |-> FALSE, synced |-> TRUE, outcome |-> "open"]
Ends(s, outcome) == [s EXCEPT !.outcome = outcome]
Require(s, condition, otherwise) == IF condition THEN s ELSE Ends(s, otherwise)
Seen(s, name) == IF s.parent THEN s[name] ELSE Gone

Program == [import |-> <<"seal", "mark", "resolve", "hash", "walk", "recheck", "move",
                       "classify", "sync", "confirm", "unmark", "finish">>,
          export |-> <<"revalidate", "resolve", "guard", "walk", "hash", "recheck", "move",
                       "classify", "sync", "confirm">>]

\* The destination is absent, or the command ends.
Absent(s) == Require(s, Seen(s, "dst") = Gone, "DestinationExists")
\* revalidate, and revalidate_target with StagingRoot::validate.
Revalidate(s) == IF Seen(s, "src") # "ours" THEN Ends(s, "Refused") ELSE Absent(s)
\* VerifiedDirectoryMovePaths::resolve.
Resolve(s) ==
  IF Seen(s, "src") = Gone THEN Ends(s, "Refused") ELSE Absent([s EXCEPT !.captured = s.src])
\* parent_and_source_match, and the last look at the destination.
Recheck(s) ==
  IF ~s.parent \/ s.src # s.captured THEN Ends(s, "Indeterminate") ELSE Absent(s)
\* namespace_move_no_replace_in_directory: by the names in the directory that is held.
MoveNoReplace(s, fault) ==
  IF s.src = Gone \/ s.dst # Gone \/ fault = "before" THEN [s EXCEPT !.error = TRUE]
  ELSE [s EXCEPT !.dst = s.src, !.src = Gone, !.error = fault = "after"]

ExactMoved(s) == s.parent /\ s.src = Gone /\ s.dst = s.captured
\* What is found after the move decides, and not what the call returned.
Classify(s) ==
  CASE ExactMoved(s) -> s
    [] s.parent /\ s.src = s.captured /\ s.dst = Gone /\ s.error -> Ends(s, "NotMoved")
    [] s.parent /\ s.src = s.captured /\ s.dst # Gone -> Ends(s, "DestinationExists")
    [] OTHER -> Ends(s, "Indeterminate")
\* The marker goes once the move is known to be exact.
Unmark(s, fault) ==
  CASE ~ExactMoved(s) \/ fault = "after" ->
         Ends([s EXCEPT !.marker = @ /\ fault # "after"], "Indeterminate")
    [] ExactMoved(s) /\ fault = "before" -> Ends(s, "PublishedCleanupFailed")
    [] OTHER -> [s EXCEPT !.marker = FALSE]

\* One step.  fault is "none", or a call of the step fails "before" or "after" it took
\* effect.
Step(s, step, fault) ==
  CASE s.outcome # "open" -> s
    [] s.outcome = "open" /\ step = "move" -> MoveNoReplace(s, fault)
    [] s.outcome = "open" /\ step = "sync" -> [s EXCEPT !.synced = fault = "none"]
    [] s.outcome = "open" /\ step = "unmark" -> Unmark(s, fault)
    [] s.outcome = "open" /\ step = "mark" ->
         IF fault = "before" \/ Seen(s, "src") # "ours" THEN Ends(s, "Refused")
         ELSE Require([s EXCEPT !.marker = TRUE], fault = "none", "Refused")
    [] s.outcome = "open" /\ step = "finish" ->
         Require([s EXCEPT !.synced = fault = "none"], s.parent /\ s.dst = "ours", "Indeterminate")
    [] s.outcome = "open" /\ fault # "none" /\ step \in {"recheck", "classify", "confirm"} ->
         Ends(s, "Indeterminate")
    [] s.outcome = "open" /\ fault # "none"
         /\ step \in {"seal", "revalidate", "resolve", "guard", "walk", "hash"} -> Ends(s, "Refused")
    [] OTHER -> \* no call fails
         CASE step = "seal" -> IF s.damage = {} THEN Revalidate(s) ELSE Ends(s, "Refused")
           [] step = "revalidate" -> Revalidate(s)
           [] step = "resolve" -> Resolve(s)
           [] step = "guard" ->
                Require(s, Seen(s, "src") = "ours" /\ Seen(s, "dst") = Gone, "Refused")
           [] step = "walk" ->
                Require(s, Seen(s, "src") = "ours" /\ "entry" \notin s.damage, "Refused")
           [] step = "hash" ->
                Require(s, Seen(s, "src") = "ours" /\ "bytes" \notin s.damage, "Refused")
           [] step = "recheck" -> Recheck(s)
           [] step = "classify" -> Classify(s)
           [] step = "confirm" -> Require(s, ExactMoved(s), "Indeterminate")

\* What the user is told.  The import looks once more at both names before it says
\* that the destination exists; the export calls every other failure the same.
Told(command, s) ==
  CASE s.outcome = "open" -> IF s.synced THEN "Published" ELSE "PublishedUnsynced"
    [] s.outcome = "DestinationExists" /\ command = "import" /\ s.marker ->
         IF s.parent /\ s.src = "ours" THEN "DestinationExists" ELSE "Indeterminate"
    [] command = "export" /\ s.outcome \in {"NotMoved", "Indeterminate"} -> "Refused"
    [] OTHER -> s.outcome

-----------------------------------------------------------------------------
(* Everybody else, and the runs. *)

Acts == {"occupy", "vacate", "take", "swap", "add", "alter", "parent"}
Act(s, act) ==
  CASE act = "occupy" -> [s EXCEPT !.dst = IF @ = Gone THEN "other" ELSE @]
    [] act = "vacate" -> [s EXCEPT !.dst = Gone]
    [] act = "take" -> [s EXCEPT !.src = Gone]
    [] act = "swap" -> [s EXCEPT !.src = "other"]
    [] act = "add" -> [s EXCEPT !.damage = @ \cup {"entry"}]
    [] act = "alter" -> [s EXCEPT !.damage = @ \cup {"bytes"}]
    [] act = "parent" -> [s EXCEPT !.parent = FALSE]

\* A schedule: the acts of others, in order, each before a step, and the step at which
\* a call fails, if one does.
Schedules(command) ==
  LET Places == DOMAIN Program[command]
      InOrder(acts) == \A i, j \in DOMAIN acts : i < j => acts[i][1] <= acts[j][1]
  IN [acts : {a \in SeqOf(Places \X Acts, MaxIntrusions) : InOrder(a)},
      at : Places, fault : {"before", "after"}]
     \cup [acts : {a \in SeqOf(Places \X Acts, MaxIntrusions) : InOrder(a)},
           at : {1}, fault : {"none"}]
\* The states of a run, one after each step; a killed process stops at one of them.
Run(command, schedule) ==
  LET Next(states, n) ==
        LET now == Last(states)
            due == SelectSeq(schedule.acts, LAMBDA a : a[1] = n)
            met == IF now.outcome = "open" THEN FoldLeft(LAMBDA s, a : Act(s, a[2]), now, due)
                   ELSE now
        IN Append(states, Step(met, Program[command][n],
                               IF schedule.at = n THEN schedule.fault ELSE "none"))
  IN FoldLeft(Next, <<Fresh>>, [n \in DOMAIN Program[command] |-> n])
-----------------------------------------------------------------------------
(* What is claimed. *)

Publishers == DOMAIN Program
Place(command, step) == CHOOSE n \in DOMAIN Program[command] : Program[command][n] = step
Quiet(command) == {r \in Schedules(command) : r.acts = <<>>}

\* An export of a listing, which names the directories that its entries are in, passes
\* its audit once it is written, is what was confirmed, and has private text only in the
\* scope "umbra" with the key; the audit accepts no other tree
\* (populate_plaintext_export_staging_from_tree, audit).
ASSUME TheConfirmedIsExported ==
  LET Lists(entries) ==
        \A i \in DOMAIN entries : \A dir \in Parents(entries[i].path) :
          \E j \in DOMAIN entries : entries[j].path = dir /\ entries[j].kind = "dir"
      Entries == [path : Paths, kind : {"dir", "plain", "umbra", "lost"}]
      Trees == UNION {[paths -> {"dir", "link", "text", "umbra"}] :
                        paths \in SUBSET {<<"a">>, <<"b">>, <<"a", "a">>}}
  IN \A scope \in {"outer", "umbra"}, hasKey \in BOOLEAN, entries \in SeqOf(Entries, 2) :
       LET written == Populate(scope, hasKey, entries)
       IN written.ok /\ Lists(entries) =>
            /\ Audit(written, written.tree)
            /\ \A tree \in Trees : Audit(written, tree) => tree = written.tree
            /\ \A i \in DOMAIN entries :
                 written.tree[entries[i].path] =
                   IF entries[i].kind = "dir" THEN "dir" ELSE Text(scope, entries[i])
            /\ \A path \in DOMAIN written.tree :
                 written.tree[path] = "umbra" => scope = "umbra" /\ hasKey

\* No step replaces or removes what somebody else put at the destination, and none
\* loses our directory: on an error it stays at one of the two names.
ASSUME NothingIsReplaced ==
  \A s \in [src : {Gone, "ours", "other"}, dst : {Gone, "ours", "other"}, parent : BOOLEAN,
            damage : SUBSET {"entry", "bytes"}, marker : BOOLEAN,
            captured : {"ours", "other"}, error : BOOLEAN, synced : BOOLEAN,
            outcome : {"open"}],
     step \in UNION {ToSet(Program[command]) : command \in Publishers},
     fault \in {"none", "before", "after"} :
       LET after == Step(s, step, fault)
       IN /\ s.dst # Gone => after.dst = s.dst
          /\ {s.src, s.dst} = {after.src, after.dst}

\* Whatever others do, and wherever the process is killed: our directory is at the
\* destination only with the files it was audited with, nothing changed before the
\* audit, and until the import has confirmed the move it is there with the marker.
ASSUME WhatIsThereWasAudited ==
  \A command \in Publishers : \A schedule \in Schedules(command) :
    LET run == Run(command, schedule)
    IN \A n \in DOMAIN run : run[n].dst = "ours" =>
         /\ \A i \in DOMAIN schedule.acts :
              /\ schedule.acts[i][2] = "add" => schedule.acts[i][1] > Place(command, "walk")
              /\ schedule.acts[i][2] = "alter" => schedule.acts[i][1] > Place(command, "hash")
         /\ command = "import" => run[n].marker \/ n > Place(command, "confirm") + 1

\* What the user is told is so: published means at the destination, without the marker;
\* a failure, that nothing of ours is there, but for an export that could not confirm.
ASSUME AnswersAreTrue ==
  \A command \in Publishers : \A schedule \in Schedules(command) :
    LET s == Last(Run(command, schedule))
        told == Told(command, s)
    IN /\ told \in {"Published", "PublishedUnsynced"} =>
            s.parent /\ s.dst = "ours" /\ ~s.marker
       /\ told = "PublishedCleanupFailed" => s.parent /\ s.dst = "ours" /\ s.marker
       /\ told = "NotMoved" => s.parent /\ s.src = "ours" /\ s.dst = Gone
       /\ told = "DestinationExists" =>
            s.dst = "other" /\ (s.marker => s.parent /\ s.src = "ours")
       /\ told = "Refused" /\ s.outcome # "Indeterminate" => s.dst # "ours"

\* With one failing call and nobody else: the staging directory stays whole when the
\* command fails before the move, and the outcome is unknown only when the look after
\* the move, or the removal of the marker, fails.
ASSUME OneFaultIsTold ==
  \A command \in Publishers : \A schedule \in Quiet(command) :
    LET s == Last(Run(command, schedule))
        step == Program[command][schedule.at]
    IN /\ schedule.fault = "none" => Told(command, s) = "Published"
       /\ s.outcome \in {"Refused", "NotMoved"} => s.src = "ours" /\ s.dst = Gone
       /\ s.outcome = "Indeterminate" /\ s.dst = "ours" =>
            step \in {"classify", "confirm", "unmark"}
       /\ step \in {"sync", "finish"} => s.dst = "ours" /\ s.outcome = "open"
       /\ schedule.fault = "after" /\ step = "move" => Told(command, s) = "Published"
===============================================================================
