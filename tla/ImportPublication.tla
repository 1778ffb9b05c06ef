--------------------------- MODULE ImportPublication ---------------------------
(***************************************************************************)
(* `inex import-repository`: crates/inex-cli/src/repository_import.rs, and *)
(* repository_import.rs with repository_import/candidate_*.rs of inex-git. *)
(*                                                                         *)
(* The command builds a vault with its own Git repository in a staging     *)
(* directory next to the destination, audits it, claims it with a marker   *)
(* in .vault-local, moves the whole directory to the destination without   *)
(* replacing anything, makes the move durable, unlinks the marker and      *)
(* audits once more.  Run again at a destination that exists, it settles   *)
(* the claim that an interrupted run left there, or refuses.               *)
(*                                                                         *)
(* now[c] is what the candidate directory c is to its readers and disk[c]  *)
(* the values that a power loss may leave of each of its fields.           *)
(***************************************************************************)
EXTENDS Integers, FiniteSets

CONSTANTS
  Procs,         \* invocations of the command that run at the same time
  NoProc,        \* nobody holds a lock
  MaxCandidates, \* bound: staging directories created
  Attempts,      \* SAME_PROCESS_ATTEMPTS
  MaxEdits,      \* bound: edits of the source repository
  MaxTroubles    \* bound: failing operations, kills, power losses, parts of a
                 \* candidate altered by other programs, directories that
                 \* others make at the destination, and documents written there

ASSUME NameAssumption == NoProc \notin Procs
ASSUME CandidateAssumption == MaxCandidates \in Nat \ {0}
ASSUME AttemptAssumption == Attempts \in Nat \ {0}
ASSUME BoundAssumption == MaxEdits \in Nat /\ MaxTroubles \in Nat

Candidates == 1 .. MaxCandidates
NoOne      == 0      \* no candidate
Stranger   == -1     \* a directory that no import made

\* What a candidate consists of: vault.json with the tracked ciphertexts, the
\* loose objects, the index and the main ref of its repository, .git/config,
\* and .vault-local without a marker.
Parts == {"files", "objects", "index", "ref", "control", "private"}

\* A part is missing, made from a version of the source, or altered.
Missing == 0
Altered == -1
Versions == 1 .. (1 + MaxEdits)
Values   == Versions \cup {Missing, Altered}
Whole(v) == [part \in Parts |-> v]
Nothing  == Whole(Missing)
Contents == [Parts -> Values]

Places  == {"none", "staging", "destination"}
Markers == {"none", "empty", "exact"}

\* RepositoryPublicationNamespaceState, or an inspection that failed.
MarkerStates == {"Absent", "V2Invalid", "V2Exact", "Indeterminate"}

Steps ==
  {"idle", "planned", "staged", "built", "initialized", "synced", "audited",
   "authorized", "marking", "marked", "claimed", "reviewed", "moved",
   "notMoved", "published", "durable", "unlinked", "clean", "inspected"}

Commands == {"import", "reconcile"}

\* RepositoryImportTerminal, RepositoryReconcileTerminal and success.
Terminals ==
  {"Nothing", "StagingIncomplete", "StagingAudited", "PublicationIndeterminate",
   "PublishedNeedsReconcile", "V2ClaimRejected", "DurabilityIndeterminate",
   "MarkerRetained", "MarkerPostStateIndeterminate",
   "PostUnlinkAbsentIndeterminate", "Complete"}

VARIABLES
  source,   \* the Git repository that is imported
  now,      \* the candidates, as they are
  disk,     \* the values that a power loss may leave of each of their fields
  planned,  \* planned[c]: the version of the source that c was made from
  seal,     \* seal[c]: the candidate seal, in the marker and in memory
  lock,     \* lock[c]: holder of mutation.lock of c
  foreign,  \* somebody else's directory is at the destination
  proc,     \* the running commands
  told,     \* told[c]: the terminal that the last command on c reported
  troubles, \* how many troubles there were
  disturbed \* the power failed, or another program altered a candidate

counts == <<troubles, disturbed>>
vars == <<source, now, disk, planned, seal, lock, foreign, proc, told, counts>>

Idle ==
  [pc |-> "idle", cmd |-> "import", cand |-> NoOne, plan |-> Missing,
   target |-> Missing, seen |-> "Absent", tries |-> 0]

\* A disk is a set for every field of a candidate.
Fields == {"place", "marker", "content"}

TypeOK ==
  /\ source \in [head : Versions, index : Versions, files : Versions]
  /\ now \in [Candidates ->
              [place : Places, marker : Markers, content : Contents]]
  /\ \A c \in Candidates :
       /\ disk[c].place \subseteq Places
       /\ disk[c].marker \subseteq Markers
       /\ disk[c].content \subseteq Contents
  /\ planned \in [Candidates -> Versions \cup {Missing}]
  /\ seal \in [Candidates -> Contents]
  /\ lock \in [Candidates -> Procs \cup {NoProc}]
  /\ foreign \in BOOLEAN
  /\ proc \in [Procs ->
       [pc : Steps, cmd : Commands, cand : Candidates \cup {NoOne, Stranger},
        plan : Versions \cup {Missing}, target : Values, seen : MarkerStates,
        tries : 0 .. (Attempts + 1)]]
  /\ told \in [Candidates -> Terminals]
  /\ troubles \in 0 .. MaxTroubles
  /\ disturbed \in BOOLEAN

Init ==
  /\ source = [head |-> 1, index |-> 1, files |-> 1]
  /\ now = [c \in Candidates |->
              [place |-> "none", marker |-> "none", content |-> Nothing]]
  /\ disk = [c \in Candidates |->
              [place |-> {"none"}, marker |-> {"none"}, content |-> {Nothing}]]
  /\ planned = [c \in Candidates |-> Missing]
  /\ seal = [c \in Candidates |-> Nothing]
  /\ lock = [c \in Candidates |-> NoProc]
  /\ foreign = FALSE
  /\ proc = [p \in Procs |-> Idle]
  /\ told = [c \in Candidates |-> "Nothing"]
  /\ troubles = 0
  /\ disturbed = FALSE

-----------------------------------------------------------------------------
(* The source repository and the names next to the destination.            *)

\* prove_source_endpoints: the index holds the tree of HEAD, and
\* verify_source_bytes: every file is the blob of its entry.
SourceIsClean ==
  /\ source.index = source.head
  /\ source.files = source.index

\* SourceSnapshot::revalidate plans the source again and compares.
SourceUnchanged(p) == SourceIsClean /\ source.head = proc[p].plan

\* The directory at the destination.
Occupant ==
  IF foreign THEN Stranger
  ELSE IF \E c \in Candidates : now[c].place = "destination"
       THEN CHOOSE c \in Candidates : now[c].place = "destination"
       ELSE NoOne

DestinationAbsent == Occupant = NoOne

\* inspect_repository_publication_namespace.
MarkerState(c) ==
  IF c = Stranger \/ now[c].marker = "none" THEN "Absent"
  ELSE IF now[c].marker = "exact" THEN "V2Exact" ELSE "V2Invalid"

-----------------------------------------------------------------------------
(* The evidence that every audit collects anew from the files.             *)

Content(c) == now[c].content

\* The physical manifest: every entry is there, is a file or a directory of
\* its own, and .vault-local holds its lock and nothing else but the marker.
Manifest(c) ==
  /\ \A part \in Parts : Content(c)[part] # Missing
  /\ Content(c)["private"] # Altered

\* Every file that the index names is there with the bytes of its blob.
TrackedEvidence(c) == Content(c)["files"] = Content(c)["index"]

\* The trees that the index describes are the tree objects of the root commit.
TreeEvidence(c) == Content(c)["objects"] = Content(c)["index"]

\* refs/heads/main names the only commit, which has no parent.
MainRef(c) == Content(c)["ref"] = Content(c)["objects"]

\* The fixed files of .git: HEAD, config, hooks and no reflog.
GitControl(c) == Content(c)["control"] # Altered

\* The vault that was unlocked for the independent audit is the one whose
\* vault.json the repository tracks.
VaultConfig(p, c) == Content(c)["files"] = proc[p].target

\* audit_fresh_marker_candidate and its marker-free relatives accept c.
Sound(c) ==
  /\ Manifest(c) /\ TrackedEvidence(c) /\ TreeEvidence(c) /\ MainRef(c)
  /\ GitControl(c)

\* The candidate seal covers every part.
ContentSeal(c) == Content(c)

\* A fresh audit that finds what the seal of the claim binds.
Reproduces(c) == Sound(c) /\ ContentSeal(c) = seal[c]

\* require_destination_absent_at and require_published_at: the held directory
\* has the name that the marker gives it, and the other name is free.
HeldAtStaging(p, c) ==
  /\ now[c].place = "staging" /\ now[c].marker = "exact" /\ lock[c] = p
  /\ DestinationAbsent
HeldAtDestination(p, c) ==
  /\ Occupant = c /\ now[c].marker = "exact" /\ lock[c] = p

-----------------------------------------------------------------------------
(* Steps of a command.                                                     *)

Trouble == troubles < MaxTroubles /\ troubles' = troubles + 1
Harmless == Trouble /\ UNCHANGED disturbed
Disturbing == Trouble /\ disturbed' = TRUE

\* The system fails an operation of the command.
Faulty == Harmless

\* A field of c changes; the change may or may not survive a power loss.
Store(c, field, value) ==
  /\ now' = [now EXCEPT ![c][field] = value]
  /\ disk' = [disk EXCEPT ![c][field] = @ \cup {value}]

\* fsync: what is there now is what a power loss leaves.
Flush(c, field) == disk' = [disk EXCEPT ![c][field] = {now[c][field]}]

\* fsync of the directory that holds the staging names and the destination.
FlushNames ==
  disk' = [c \in Candidates |-> [disk[c] EXCEPT !.place = {now[c].place}]]

Goto(p, step) == proc' = [proc EXCEPT ![p].pc = step, ![p].tries = Attempts]
Again(p)      == proc' = [proc EXCEPT ![p].tries = @ - 1]
LastTry(p)    == proc[p].tries = 1

\* publication_terminal and reconciliation_terminal.
ImportTerminal(kind) ==
  CASE kind = "PublicationIndeterminate" -> "PublicationIndeterminate"
    [] kind \in {"PublicationDurabilityIndeterminate",
                 "PublicationDurabilityRejected", "PublicationMarkerRetained",
                 "PublicationMarkerPostStateIndeterminate",
                 "PostUnlinkIndeterminate"} ->
         "PublishedNeedsReconcile"
    [] OTHER -> "StagingAudited"

ReconcileTerminal(kind) ==
  CASE kind \in {"PublicationDurabilityIndeterminate",
                 "PublicationDurabilityRejected"} -> "DurabilityIndeterminate"
    [] kind = "PublicationMarkerRetained" -> "MarkerRetained"
    [] kind = "PublicationMarkerPostStateIndeterminate" ->
         "MarkerPostStateIndeterminate"
    [] kind = "PostUnlinkIndeterminate" -> "PostUnlinkAbsentIndeterminate"
    [] OTHER -> "V2ClaimRejected"

\* The process prints a terminal and exits; its lock is released last.
Exit(p, terminal) ==
  /\ proc' = [proc EXCEPT ![p] = Idle]
  /\ lock' = [c \in Candidates |-> IF lock[c] = p THEN NoProc ELSE lock[c]]
  /\ told' = [c \in Candidates |->
                IF c = proc[p].cand THEN terminal ELSE told[c]]

\* RepositoryCandidatePublicationFailure, through the table of the command.
Fail(p, kind) ==
  Exit(p, IF proc[p].cmd = "import" THEN ImportTerminal(kind)
                                    ELSE ReconcileTerminal(kind))

World == <<source, foreign>>
Claim == <<planned, seal>>

\* dispatch at a destination that does not exist: plan_source_repository
\* accepts a clean worktree only.
Plan(p) ==
  /\ proc[p].pc = "idle"
  /\ DestinationAbsent
  /\ SourceIsClean
  /\ proc' = [proc EXCEPT ![p].pc = "planned", ![p].plan = source.head]
  /\ UNCHANGED <<World, Claim, now, disk, lock, told, counts>>

\* dispatch at a destination that exists: the marker namespace is inspected.
Inspect(p) ==
  /\ proc[p].pc = "idle"
  /\ ~ DestinationAbsent
  /\ \E state \in {MarkerState(Occupant), "Indeterminate"} :
       /\ proc' = [proc EXCEPT ![p].pc = "inspected", ![p].cmd = "reconcile",
                               ![p].cand = Occupant, ![p].seen = state]
       /\ IF state = MarkerState(Occupant) THEN UNCHANGED counts ELSE Faulty
  /\ UNCHANGED <<World, Claim, now, disk, lock, told>>

-----------------------------------------------------------------------------
(* An import: the candidate is built and audited in its staging directory. *)

Unused == {c \in Candidates : planned[c] = Missing}

\* The command exits and says nothing of a candidate.
Leave(p) ==
  /\ proc' = [proc EXCEPT ![p] = Idle]
  /\ UNCHANGED <<World, Claim, now, disk, lock, told>>

\* execute: the source and the destination are the planned ones, and a new
\* directory is made beside the destination, whose name is not synchronized.
CreateStaging(p) ==
  /\ proc[p].pc = "planned"
  /\ SourceUnchanged(p) /\ DestinationAbsent
  /\ Unused # {}
  /\ LET c == CHOOSE u \in Unused : \A w \in Unused : u <= w
     IN /\ Store(c, "place", "staging")
        /\ planned' = [planned EXCEPT ![c] = proc[p].plan]
        /\ proc' = [proc EXCEPT ![p].pc = "staged", ![p].cand = c]
  /\ UNCHANGED <<World, seal, lock, told, counts>>

CreateStagingFails(p) ==
  /\ proc[p].pc = "planned"
  /\ IF SourceUnchanged(p) /\ DestinationAbsent THEN Faulty ELSE UNCHANGED counts
  /\ Leave(p)

With(c, parts, v) ==
  [part \in Parts |-> IF part \in parts THEN v ELSE Content(c)[part]]

\* build_staging_vault: every entry is read again, hashed and encrypted.
BuildVault(p) ==
  /\ proc[p].pc = "staged"
  /\ SourceUnchanged(p)
  /\ Store(proc[p].cand, "content",
           With(proc[p].cand, {"files", "private"}, proc[p].plan))
  /\ proc' = [proc EXCEPT ![p].pc = "built"]
  /\ UNCHANGED <<World, Claim, lock, told, counts>>

\* initialize_and_audit_target: objects, index and main ref are made of the
\* files that are there, and the result is what later audits compare with.
InitTarget(p) ==
  /\ proc[p].pc = "built"
  /\ Content(proc[p].cand)["private"] # Altered
  /\ LET made == Content(proc[p].cand)["files"]
     IN /\ Store(proc[p].cand, "content",
                 With(proc[p].cand, {"objects", "index", "ref", "control"}, made))
        /\ proc' = [proc EXCEPT ![p].pc = "initialized", ![p].target = made]
  /\ UNCHANGED <<World, Claim, lock, told, counts>>

\* audit_target: the repository is the one that initialize_and_audit_target made.
TargetAudit(p, c) == Sound(c) /\ Content(c)["objects"] = proc[p].target

\* durably_audit_repository_import_target: sync_tree_postorder.
SyncTarget(p) ==
  /\ proc[p].pc = "initialized"
  /\ TargetAudit(p, proc[p].cand)
  /\ Flush(proc[p].cand, "content")
  /\ proc' = [proc EXCEPT ![p].pc = "synced"]
  /\ UNCHANGED <<World, Claim, now, lock, told, counts>>

\* The vault is unlocked and every entry compared with the source.
IndependentAudit(p) ==
  /\ proc[p].pc = "synced"
  /\ Content(proc[p].cand)["files"] = proc[p].plan
  /\ SourceUnchanged(p)
  /\ proc' = [proc EXCEPT ![p].pc = "audited"]
  /\ UNCHANGED <<World, Claim, now, disk, lock, told, counts>>

\* Any of these steps may fail: the staging directory stays as it is.
Unbuildable(p) ==
  \/ proc[p].pc = "staged" /\ ~ SourceUnchanged(p)
  \/ proc[p].pc = "built" /\ Content(proc[p].cand)["private"] = Altered
  \/ proc[p].pc = "initialized" /\ ~ TargetAudit(p, proc[p].cand)
  \/ /\ proc[p].pc = "synced"
     /\ ~ (Content(proc[p].cand)["files"] = proc[p].plan /\ SourceUnchanged(p))

StagingFails(p) ==
  /\ proc[p].pc \in {"staged", "built", "initialized", "synced"}
  /\ IF Unbuildable(p) THEN UNCHANGED counts ELSE Faulty
  /\ Exit(p, "StagingIncomplete")
  /\ UNCHANGED <<World, Claim, now, disk>>

\* acquire_initial_candidate_authority: the source and the destination are
\* looked at a last time, the lock of the candidate is taken without waiting,
\* and the seal is computed under it.
Authorize(p) ==
  /\ proc[p].pc = "audited"
  /\ LET c == proc[p].cand
     IN /\ SourceUnchanged(p) /\ DestinationAbsent
        /\ lock[c] = NoProc
        /\ TargetAudit(p, c) /\ VaultConfig(p, c)
        /\ lock' = [lock EXCEPT ![c] = p]
        /\ seal' = [seal EXCEPT ![c] = ContentSeal(c)]
  /\ Goto(p, "authorized")
  /\ UNCHANGED <<World, planned, now, disk, told, counts>>

AuthorizeFails(p) ==
  /\ proc[p].pc = "audited"
  /\ LET c == proc[p].cand
     IN IF /\ SourceUnchanged(p) /\ DestinationAbsent /\ lock[c] = NoProc
           /\ TargetAudit(p, c) /\ VaultConfig(p, c)
        THEN Faulty ELSE UNCHANGED counts
  /\ Fail(p, "InitialAuthorityRejected")
  /\ UNCHANGED <<World, Claim, now, disk>>

-----------------------------------------------------------------------------
(* The claim and the move.                                                 *)

\* HeldPublicationMarkerV2::create makes an empty marker if the candidate is
\* still the sealed one and no marker and no destination is there.
CreateMarker(p) ==
  /\ proc[p].pc = "authorized"
  /\ LET c == proc[p].cand
     IN /\ ContentSeal(c) = seal[c] /\ now[c].marker = "none" /\ DestinationAbsent
        /\ Store(c, "marker", "empty")
  /\ Goto(p, "marking")
  /\ UNCHANGED <<World, Claim, lock, told, counts>>

\* It is written and synchronized, then .vault-local and the candidate.
SealMarker(p) ==
  /\ proc[p].pc = "marking"
  /\ LET c == proc[p].cand
     IN /\ now' = [now EXCEPT ![c].marker = "exact"]
        /\ disk' = [disk EXCEPT ![c].marker = {"exact"}]
  /\ Goto(p, "marked")
  /\ UNCHANGED <<World, Claim, lock, told, counts>>

\* claim_initial_candidate audits the candidate with its marker.
AuditClaim(p) ==
  /\ proc[p].pc = "marked"
  /\ HeldAtStaging(p, proc[p].cand) /\ Reproduces(proc[p].cand)
  /\ Goto(p, "claimed")
  /\ UNCHANGED <<World, Claim, now, disk, lock, told, counts>>

\* Once the marker was created no failure deletes it.
ClaimFails(p) ==
  /\ LET c == proc[p].cand IN
     \/ /\ proc[p].pc = "authorized"
        /\ IF /\ ContentSeal(c) = seal[c] /\ now[c].marker = "none"
              /\ DestinationAbsent
           THEN Faulty ELSE UNCHANGED counts
        /\ UNCHANGED <<now, disk>>
     \/ /\ proc[p].pc = "marking"
        /\ Faulty
        /\ \/ UNCHANGED <<now, disk>>
           \/ Store(c, "marker", "exact")
     \/ /\ proc[p].pc = "marked"
        /\ IF HeldAtStaging(p, c) /\ Reproduces(c)
           THEN Faulty ELSE UNCHANGED counts
        /\ UNCHANGED <<now, disk>>
  /\ Fail(p, "InitialClaimRejected")
  /\ UNCHANGED <<World, Claim>>

\* critical_initial_publication_review, the last look before the move.
ReviewMove(p) ==
  /\ proc[p].pc = "claimed"
  /\ HeldAtStaging(p, proc[p].cand) /\ Reproduces(proc[p].cand)
  /\ proc' = [proc EXCEPT ![p].pc = "reviewed"]
  /\ UNCHANGED <<World, Claim, now, disk, lock, told, counts>>

\* A rename that replaces nothing; its own fsync is tried, and forgotten.
Move(p) ==
  /\ proc[p].pc = "reviewed"
  /\ DestinationAbsent
  /\ LET c == proc[p].cand
     IN /\ now' = [now EXCEPT ![c].place = "destination"]
        /\ \E left \in {disk[c].place \cup {"destination"}, {"destination"}} :
             disk' = [disk EXCEPT ![c].place = left]
  /\ proc' = [proc EXCEPT ![p].pc = "moved"]
  /\ UNCHANGED <<World, Claim, lock, told, counts>>

\* The rename took place and the look after it failed.
MoveUnknown(p) ==
  /\ proc[p].pc = "reviewed"
  /\ DestinationAbsent
  /\ Faulty
  /\ Store(proc[p].cand, "place", "destination")
  /\ Fail(p, "PublicationIndeterminate")
  /\ UNCHANGED <<World, Claim>>

MoveRefused(p) ==
  /\ proc[p].pc = "reviewed"
  /\ ~ DestinationAbsent
  /\ Fail(p, "DestinationExists")
  /\ UNCHANGED <<World, Claim, now, disk, counts>>

NotMoved(p) ==
  /\ proc[p].pc = "reviewed"
  /\ DestinationAbsent
  /\ Faulty
  /\ proc' = [proc EXCEPT ![p].pc = "notMoved"]
  /\ UNCHANGED <<World, Claim, now, disk, lock, told>>

\* reconcile_not_moved_initial_candidate, and the loop of the driver.
RetryMove(p) ==
  /\ proc[p].pc = "notMoved"
  /\ HeldAtStaging(p, proc[p].cand) /\ Reproduces(proc[p].cand)
  /\ IF LastTry(p)
     THEN Fail(p, "InitialPublicationNotMoved")
     ELSE /\ proc' = [proc EXCEPT ![p].pc = "claimed", ![p].tries = @ - 1]
          /\ UNCHANGED <<lock, told>>
  /\ UNCHANGED <<World, Claim, now, disk, counts>>

\* reconcile_published_initial_candidate, the look after the move.
AuditMoved(p) ==
  /\ proc[p].pc = "moved"
  /\ HeldAtDestination(p, proc[p].cand) /\ Reproduces(proc[p].cand)
  /\ Goto(p, "published")
  /\ UNCHANGED <<World, Claim, now, disk, lock, told, counts>>

\* A review fails: drive_initial_publication calls it the same before the move
\* and after it.
ReviewFails(p) ==
  /\ LET c == proc[p].cand IN
     \/ /\ proc[p].pc \in {"claimed", "notMoved"}
        /\ IF HeldAtStaging(p, c) /\ Reproduces(c)
           THEN Faulty ELSE UNCHANGED counts
     \/ /\ proc[p].pc = "moved"
        /\ IF HeldAtDestination(p, c) /\ Reproduces(c)
           THEN Faulty ELSE UNCHANGED counts
  /\ Fail(p, "InitialPublicationRejected")
  /\ UNCHANGED <<World, Claim, now, disk>>

-----------------------------------------------------------------------------
(* A published candidate with its marker is settled, by the import that    *)
(* moved it or by a later command at the same destination.                 *)

\* review_published_candidate.
Reviewed(p) == HeldAtDestination(p, proc[p].cand) /\ Reproduces(proc[p].cand)

\* The candidate is synchronized, then the directory that names it.
SyncPublished(p) ==
  /\ proc[p].pc = "published"
  /\ Reviewed(p)
  /\ FlushNames
  /\ Goto(p, "durable")
  /\ UNCHANGED <<World, Claim, now, lock, told, counts>>

\* Mutant: the last sync that fails is taken for one that was done.
SyncPublishedGivesUp(p) ==
  /\ proc[p].pc = "published"
  /\ Reviewed(p) /\ Faulty
  /\ IF LastTry(p) THEN Goto(p, "durable") ELSE Again(p)
  /\ UNCHANGED <<World, Claim, now, disk, lock, told>>

\* A sync that fails is tried again, unless the review fails too.
SyncPublishedFails(p) ==
  /\ proc[p].pc = "published"
  /\ FlushNames \/ UNCHANGED disk
  /\ \/ /\ Reviewed(p) /\ Faulty
        /\ IF LastTry(p) THEN Fail(p, "PublicationDurabilityIndeterminate")
                         ELSE Again(p) /\ UNCHANGED <<lock, told>>
     \/ /\ IF Reviewed(p) THEN Faulty ELSE UNCHANGED counts
        /\ Fail(p, "PublicationDurabilityRejected")
  /\ UNCHANGED <<World, Claim, now>>

\* unlink_exact_published_marker_at.
UnlinkMarker(p) ==
  /\ proc[p].pc = "durable"
  /\ Reviewed(p)
  /\ Store(proc[p].cand, "marker", "none")
  \* The unlink tries its own sync before drive_parent_sync does.
  /\ proc' = [proc EXCEPT ![p].pc = "unlinked", ![p].tries = Attempts + 1]
  /\ UNCHANGED <<World, Claim, lock, told, counts>>

UnlinkMarkerFails(p) ==
  /\ proc[p].pc = "durable"
  /\ \/ /\ IF Reviewed(p) THEN Faulty ELSE UNCHANGED counts
        /\ Fail(p, "PublicationDurabilityRejected")
        /\ UNCHANGED <<now, disk>>
     \/ /\ Reviewed(p) /\ Faulty
        /\ IF LastTry(p) THEN Fail(p, "PublicationMarkerRetained")
                         ELSE Again(p) /\ UNCHANGED <<lock, told>>
        /\ UNCHANGED <<now, disk>>
     \/ /\ Reviewed(p) /\ Faulty
        /\ Store(proc[p].cand, "marker", "none")
        /\ Fail(p, "PublicationMarkerPostStateIndeterminate")
  /\ UNCHANGED <<World, Claim>>

\* retry_marker_parent_sync_at.
SyncUnlinked(p) ==
  /\ proc[p].pc = "unlinked"
  /\ Flush(proc[p].cand, "marker")
  /\ Goto(p, "clean")
  /\ UNCHANGED <<World, Claim, now, lock, told, counts>>

\* Mutant: the clean audit starts although the unlink was never synchronized.
SyncUnlinkedGivesUp(p) ==
  /\ proc[p].pc = "unlinked"
  /\ Faulty
  /\ Goto(p, "clean")
  /\ UNCHANGED <<World, Claim, now, disk, lock, told>>

SyncUnlinkedFails(p) ==
  /\ proc[p].pc = "unlinked"
  /\ Faulty
  /\ Flush(proc[p].cand, "marker") \/ UNCHANGED disk
  /\ IF LastTry(p) THEN Fail(p, "PostUnlinkIndeterminate")
                   ELSE Again(p) /\ UNCHANGED <<lock, told>>
  /\ UNCHANGED <<World, Claim, now>>

\* Mutant: success is reported from the audits before the unlink.
CleanAuditSkipped(p) ==
  /\ proc[p].pc = "clean"
  /\ Exit(p, "Complete")
  /\ UNCHANGED <<World, Claim, now, disk, counts>>

\* audit_post_unlink_candidate: the same evidence, without the marker.
CleanAudit(p) ==
  /\ proc[p].pc = "clean"
  /\ Reproduces(proc[p].cand)
  /\ Exit(p, "Complete")
  /\ UNCHANGED <<World, Claim, now, disk, counts>>

\* An audit that rejects the candidate is repeated like one that failed.
CleanAuditFails(p) ==
  /\ proc[p].pc = "clean"
  /\ IF Reproduces(proc[p].cand) THEN Faulty ELSE UNCHANGED counts
  /\ IF LastTry(p) THEN Fail(p, "PostUnlinkIndeterminate")
                   ELSE Again(p) /\ UNCHANGED <<lock, told>>
  /\ UNCHANGED <<World, Claim, now, disk>>

\* execute_reconcile: anything but a canonical marker is left to the user.
Refuse(p) ==
  /\ proc[p].pc = "inspected"
  /\ proc[p].seen # "V2Exact"
  /\ Leave(p)
  /\ UNCHANGED counts

\* claim_fresh_existing_candidate opens the marker and the lock that are
\* there, and audits the candidate against the seal in the marker.
Claimable(c) ==
  /\ Occupant = c /\ MarkerState(c) = "V2Exact" /\ lock[c] = NoProc
  /\ Reproduces(c)

OpenExisting(p) ==
  /\ proc[p].pc = "inspected"
  /\ proc[p].seen = "V2Exact"
  /\ Claimable(proc[p].cand)
  /\ lock' = [lock EXCEPT ![proc[p].cand] = p]
  /\ Goto(p, "published")
  /\ UNCHANGED <<World, Claim, now, disk, told, counts>>

OpenExistingFails(p) ==
  /\ proc[p].pc = "inspected"
  /\ proc[p].seen = "V2Exact"
  /\ IF Claimable(proc[p].cand) THEN Faulty ELSE UNCHANGED counts
  /\ Fail(p, "ExistingClaimRejected")
  /\ UNCHANGED <<World, Claim, now, disk>>

\* --dry-run audits the claim and releases it.
Preview(p) ==
  /\ proc[p].pc = "inspected"
  /\ proc[p].seen = "V2Exact"
  /\ Claimable(proc[p].cand)
  /\ Leave(p)
  /\ UNCHANGED counts

-----------------------------------------------------------------------------
(* The world.                                                              *)

\* The user edits the source, stages the edit and commits it.
EditSource ==
  /\ \/ /\ SourceIsClean /\ source.files \in 1 .. MaxEdits
        /\ source' = [source EXCEPT !.files = @ + 1]
     \/ /\ source.index # source.files
        /\ source' = [source EXCEPT !.index = source.files]
     \/ /\ source.head # source.index
        /\ source' = [source EXCEPT !.head = source.index]
  /\ UNCHANGED <<foreign, Claim, now, disk, lock, proc, told, counts>>

\* Another program makes a directory at the destination.
MakeForeign ==
  /\ Harmless
  /\ DestinationAbsent
  /\ foreign' = TRUE
  /\ UNCHANGED <<source, Claim, now, disk, lock, proc, told>>

\* Another program changes one part of a candidate.
Alter(c) ==
  /\ Disturbing
  /\ now[c].place # "none"
  /\ \E part \in Parts :
       /\ Content(c)[part] \notin {Missing, Altered}
       /\ Store(c, "content", With(c, {part}, Altered))
  /\ UNCHANGED <<World, Claim, lock, proc, told>>

\* Mutant: a vault command takes the lock and does not look for a marker.
WriteDocumentUnclaimed(c) ==
  /\ Harmless
  /\ Occupant = c /\ lock[c] = NoProc
  /\ Manifest(c)
  /\ now' = [now EXCEPT ![c].content["files"] = Altered]
  /\ disk' = [disk EXCEPT ![c].content = {now'[c].content}]
  /\ UNCHANGED <<World, Claim, lock, proc, told>>

\* VaultMutationGuard::acquire refuses a vault with a marker, takes the lock
\* and looks for a marker again; then a document is written and synchronized.
WriteDocument(c) ==
  /\ Harmless
  /\ Occupant = c /\ MarkerState(c) = "Absent" /\ lock[c] = NoProc
  /\ Manifest(c)
  /\ now' = [now EXCEPT ![c].content["files"] = Altered]
  /\ disk' = [disk EXCEPT ![c].content = {now'[c].content}]
  /\ UNCHANGED <<World, Claim, lock, proc, told>>

\* The process is killed: the system releases its lock.
Kill(p) ==
  /\ proc[p].pc # "idle"
  /\ Harmless
  /\ proc' = [proc EXCEPT ![p] = Idle]
  /\ lock' = [c \in Candidates |-> IF lock[c] = p THEN NoProc ELSE lock[c]]
  /\ UNCHANGED <<World, Claim, now, disk, told>>

Lost == [place |-> "none", marker |-> "none", content |-> Nothing]

\* What a power loss may leave of c.
Survivors(c) ==
  {s \in [place : disk[c].place, marker : disk[c].marker,
          content : disk[c].content] : s.place # "none"}
  \cup (IF "none" \in disk[c].place THEN {Lost} ELSE {})

LosePower ==
  /\ Disturbing
  /\ \E after \in [Candidates -> UNION {Survivors(c) : c \in Candidates}] :
       /\ \A c \in Candidates : after[c] \in Survivors(c)
       /\ now' = after
       /\ disk' = [c \in Candidates |->
                     [place |-> {after[c].place}, marker |-> {after[c].marker},
                      content |-> {after[c].content}]]
  /\ proc' = [p \in Procs |-> Idle]
  /\ lock' = [c \in Candidates |-> NoProc]
  /\ UNCHANGED <<World, Claim, told>>

Command(p) ==
  \/ Plan(p) \/ Inspect(p)
  \/ CreateStaging(p) \/ CreateStagingFails(p)
  \/ BuildVault(p) \/ InitTarget(p) \/ SyncTarget(p) \/ IndependentAudit(p)
  \/ StagingFails(p)
  \/ Authorize(p) \/ AuthorizeFails(p)
  \/ CreateMarker(p) \/ SealMarker(p) \/ AuditClaim(p) \/ ClaimFails(p)
  \/ ReviewMove(p) \/ Move(p) \/ MoveUnknown(p) \/ MoveRefused(p)
  \/ NotMoved(p) \/ RetryMove(p) \/ AuditMoved(p) \/ ReviewFails(p)
  \/ SyncPublished(p) \/ SyncPublishedFails(p)
  \/ UnlinkMarker(p) \/ UnlinkMarkerFails(p)
  \/ SyncUnlinked(p) \/ SyncUnlinkedFails(p)
  \/ CleanAudit(p) \/ CleanAuditFails(p)
  \/ Refuse(p) \/ OpenExisting(p) \/ OpenExistingFails(p) \/ Preview(p)

Next ==
  \/ \E p \in Procs : Command(p) \/ Kill(p)
  \/ \E c \in Candidates : Alter(c) \/ WriteDocument(c)
  \/ EditSource \/ MakeForeign \/ LosePower

Spec == Init /\ [][Next]_vars

-----------------------------------------------------------------------------
(* Properties.                                                             *)

\* What a power loss may leave at the destination is never half a candidate:
\* durably_audit_repository_import_target comes before the move.
PublishedWhole ==
  \A c \in Candidates : "destination" \in disk[c].place =>
    \A left \in disk[c].content : \A part \in Parts : left[part] # Missing

\* As long as a power loss may undo or redo the move of a candidate, the marker
\* that lets a later command settle it is sure to be there: it is durable before
\* the move and unlinked only after the sync of the directory that names it.
ClaimOutlivesMove ==
  \A c \in Candidates :
    "destination" \in disk[c].place /\ disk[c].place # {"destination"}
      => disk[c].marker = {"exact"}

\* Both: what a power loss leaves at the destination is a whole candidate and,
\* until its move is durable, one that a later command can settle.
LossLeavesWholeClaim == PublishedWhole /\ ClaimOutlivesMove

\* A command that reported success leaves nothing to a power loss: the candidate
\* is at the destination and its marker is gone for good.
SuccessIsSettled ==
  \A c \in Candidates : told[c] = "Complete" =>
    disk[c].place = {"destination"} /\ disk[c].marker = {"none"}

\* Success means that the destination holds what the import read from the clean
\* source, whatever became of the candidate between its audits and whichever
\* command settled it.
SettledAsImported ==
  [][\A c \in Candidates :
       told'[c] = "Complete" /\ told[c] # "Complete" =>
         now'[c].content = Whole(planned[c])]_vars

\* While the power does not fail and no other program changes a candidate, a
\* claim at the destination can be settled: what inex itself does to the vault,
\* before or after a kill, never disagrees with the seal of its marker.
ClaimsCanBeSettled ==
  ~ disturbed =>
    \A c \in Candidates :
      now[c].place = "destination" /\ now[c].marker = "exact" => Reproduces(c)

================================================================================
