------------------------ MODULE ImportPublicationProofs ------------------------
(***************************************************************************)
(* Proofs about the publication of an imported vault, for any number of    *)
(* running commands, candidates, attempts, edits and troubles.             *)
(***************************************************************************)
EXTENDS ImportPublication, WellFoundedInduction, TLAPS

-----------------------------------------------------------------------------
(* The inductive invariant.                                                *)

\* The steps of a command whose candidate is still in its staging directory,
\* and those of one that has it at the destination.
StagingSteps ==
  {"staged", "built", "initialized", "synced", "audited", "authorized",
   "marking", "marked", "claimed", "reviewed", "notMoved"}
MovedSteps == {"moved", "published", "durable", "unlinked", "clean"}

\* The steps at which a loop of the command is entered or goes on.
TriedSteps ==
  {"claimed", "reviewed", "notMoved", "published", "durable", "unlinked", "clean"}

Cand == [place : Places, marker : Markers, content : Contents]
Disk == [place : SUBSET Places, marker : SUBSET Markers,
         content : SUBSET Contents]
Process ==
  [pc : Steps, cmd : Commands, cand : Candidates \cup {NoOne, Stranger},
   plan : Versions \cup {Missing}, target : Values, seen : MarkerStates,
   tries : 0 .. (Attempts + 1)]

\* Types, by what changes together.
FilesTyped ==
  /\ now \in [Candidates -> Cand] /\ disk \in [Candidates -> Disk]
  /\ planned \in [Candidates -> Versions \cup {Missing}]
  /\ seal \in [Candidates -> Contents]
RestTyped ==
  /\ source \in [head : Versions, index : Versions, files : Versions]
  /\ lock \in [Candidates -> Procs \cup {NoProc}]
  /\ foreign \in BOOLEAN
  /\ told \in [Candidates -> Terminals]
  /\ troubles \in 0 .. MaxTroubles
  /\ disturbed \in BOOLEAN

\* No part of a candidate is missing.
Full(content) == \A part \in Parts : content[part] # Missing

\* A candidate that was not made yet.
Unmade(c) ==
  /\ now[c] = Lost /\ seal[c] = Nothing
  /\ disk[c] = [place |-> {"none"}, marker |-> {"none"}, content |-> {Nothing}]

\* What is true of one candidate c: a power loss may leave what is there now;
\* it may leave c at the destination only if c is there, and then whole and,
\* until the move is durable, claimed; the seal is that of the import; and while
\* nothing was disturbed a claim agrees with its seal.
FileOK(c) ==
  /\ /\ now[c].place \in disk[c].place /\ now[c].marker \in disk[c].marker
     /\ now[c].content \in disk[c].content
  /\ "destination" \in disk[c].place => now[c].place = "destination"
  /\ "destination" \in disk[c].place => \A left \in disk[c].content : Full(left)
  /\ "destination" \in disk[c].place /\ disk[c].place # {"destination"} =>
       disk[c].marker = {"exact"}
  /\ planned[c] = Missing => Unmade(c)
  /\ seal[c] \in {Nothing, Whole(planned[c])}
  /\ ~ disturbed /\ now[c].marker = "exact" => Reproduces(c)

\* Only one directory has the destination's name.
OneOccupant ==
  /\ \A c, d \in Candidates :
       now[c].place = "destination" /\ now[d].place = "destination" => c = d
  /\ \A c \in Candidates : now[c].place = "destination" => ~ foreign

\* What is true of a command r by its step: where its candidate is, what it
\* wrote there or found there, and what it made durable.  n, d, v and e are
\* its candidate, as it is and on disk, its plan and its seal.
PlaceOK(r, n, v) ==
  /\ r.pc \in {"idle", "planned"} => r.cand = NoOne
  /\ r.pc = "planned" => r.plan \in Versions
  /\ r.pc \in StagingSteps =>
       /\ r.cand \in Candidates /\ n.place = "staging"
       /\ r.plan \in Versions /\ v = r.plan
  /\ r.pc \in MovedSteps => r.cand \in Candidates /\ n.place = "destination"
  /\ r.pc = "inspected" =>
       r.cand # NoOne /\ (r.cand \in Candidates => n.place = "destination")
  /\ r.pc \in TriedSteps => r.tries # 0

BuiltOK(r, n, e) ==
  /\ r.pc \in {"staged", "built"} => n.marker = "none"
  /\ r.pc \in {"built", "initialized", "synced", "audited"} =>
       n.content["private"] \in {r.plan, Altered}
  /\ r.pc \in {"initialized", "synced", "audited"} =>
       /\ n.content["files"] \in {r.target, Altered}
       /\ n.content["control"] \in {r.target, Altered}
  /\ r.pc = "audited" => r.target = r.plan
  /\ r.pc \in {"authorized", "marking"} /\ ~ disturbed =>
       Sound(r.cand) /\ n.content = e

DurableOK(r, n, d) ==
  /\ r.pc \in StagingSteps \ {"staged", "built", "initialized"} =>
       \A left \in d.content : Full(left)
  /\ r.pc \in {"marked", "claimed", "reviewed", "notMoved"} =>
       d.marker = {"exact"}
  /\ r.pc \in {"durable", "unlinked", "clean"} => d.place = {"destination"}
  /\ r.pc \in {"unlinked", "clean"} => n.marker = "none"
  /\ r.pc = "clean" => d.marker = {"none"}

StepOK(r) ==
  /\ r \in Process
  /\ PlaceOK(r, now[r.cand], planned[r.cand])
  /\ BuiltOK(r, now[r.cand], seal[r.cand])
  /\ DurableOK(r, now[r.cand], disk[r.cand])

\* A candidate in its staging directory is one command's.
OneBuilder ==
  \A p, q \in Procs :
    /\ proc[p].pc \in StagingSteps /\ proc[q].pc \in StagingSteps
    /\ proc[p].cand = proc[q].cand
    => p = q

Files == FilesTyped /\ (\A c \in Candidates : FileOK(c)) /\ OneOccupant
Running == (\A p \in Procs : StepOK(proc[p])) /\ OneBuilder

IInv ==
  /\ RestTyped /\ proc \in [Procs -> Process]
  /\ Files /\ Running /\ SuccessIsSettled

-----------------------------------------------------------------------------
(* Types and frames.                                                       *)

LEMMA Numbers ==
  /\ NoOne \notin Candidates /\ Stranger \notin Candidates /\ NoOne # Stranger
  /\ Missing \notin Versions /\ Altered \notin Versions /\ Missing # Altered
  /\ Versions \subseteq Values /\ Missing \in Values /\ Altered \in Values
  /\ 1 \in Versions
  /\ Attempts \in 0 .. (Attempts + 1) /\ Attempts # 0 /\ 0 \in 0 .. (Attempts + 1)
  /\ Attempts + 1 \in 0 .. (Attempts + 1) /\ Attempts + 1 # 0
BY CandidateAssumption, AttemptAssumption, BoundAssumption
   DEF Candidates, NoOne, Stranger, Missing, Altered, Versions, Values

\* The fields of a command.
LEMMA ProcessFields ==
  ASSUME NEW r \in Process
  PROVE  /\ r.pc \in Steps /\ r.cmd \in Commands
         /\ r.cand \in Candidates \cup {NoOne, Stranger}
         /\ r.plan \in Versions \cup {Missing} /\ r.target \in Values
         /\ r.seen \in MarkerStates /\ r.tries \in 0 .. (Attempts + 1)
BY DEF Process

LEMMA IdleOK == Idle \in Process /\ Idle.pc = "idle" /\ StepOK(Idle)
<1>1. Idle \in Process
  BY Numbers DEF Idle, Process, Steps, Commands, MarkerStates
<1>2. Idle.pc = "idle" /\ Idle.cand = NoOne
  BY DEF Idle
<1>3. \A n, v : PlaceOK(Idle, n, v)
  BY <1>2 DEF PlaceOK, StagingSteps, MovedSteps, TriedSteps
<1>4. \A n, e : BuiltOK(Idle, n, e)
  BY <1>2 DEF BuiltOK
<1>5. \A n, d : DurableOK(Idle, n, d)
  BY <1>2 DEF DurableOK, StagingSteps
<1> QED BY <1>1, <1>2, <1>3, <1>4, <1>5 DEF StepOK

\* An idle command is correct after every step too.
LEMMA IdleAfter ==
  ASSUME NEW r \in Process, r = Idle
  PROVE  StepOK(r)'
<1>1. r.pc = "idle" /\ r.cand = NoOne
  BY DEF Idle
<1>2. \A n, v : PlaceOK(r, n, v)
  BY <1>1 DEF PlaceOK, StagingSteps, MovedSteps, TriedSteps
<1>3. BuiltOK(r, now[r.cand], seal[r.cand])'
  BY <1>1 DEF BuiltOK
<1>4. \A n, d : DurableOK(r, n, d)
  BY <1>1 DEF DurableOK, StagingSteps
<1> QED BY <1>2, <1>3, <1>4 DEF StepOK

\* A command that has no candidate among those of an import stays correct
\* whatever becomes of them; any other one while its candidate is let alone.
LEMMA StepFrame ==
  ASSUME NEW x \in Process, StepOK(x), disturbed => disturbed',
         disturbed \in BOOLEAN, disturbed' \in BOOLEAN,
         x.cand \in Candidates =>
           /\ now'[x.cand] = now[x.cand] /\ disk'[x.cand] = disk[x.cand]
           /\ planned'[x.cand] = planned[x.cand] /\ seal'[x.cand] = seal[x.cand]
  PROVE  StepOK(x)'
<1>1. CASE x.cand \in Candidates
  <2> DEFINE c == x.cand
  <2>1. /\ now'[c] = now[c] /\ disk'[c] = disk[c]
        /\ planned'[c] = planned[c] /\ seal'[c] = seal[c]
    BY <1>1
  <2>2. PlaceOK(x, now'[c], planned'[c])
    BY <2>1 DEF StepOK
  <2>3. DurableOK(x, now'[c], disk'[c])
    BY <2>1 DEF StepOK
  <2>4. BuiltOK(x, now[c], seal[c]) /\ (Sound(c) => Sound(c)')
    BY <2>1 DEF StepOK, Sound, Manifest, TrackedEvidence, TreeEvidence, MainRef,
                GitControl, Content
  <2>5. BuiltOK(x, now[c], seal[c])'
    BY <2>1, <2>4 DEF BuiltOK
  <2> QED BY <2>2, <2>3, <2>5 DEF StepOK
<1>2. CASE x.cand \notin Candidates
  <2>1. x.pc \notin StagingSteps /\ x.pc \notin MovedSteps
    BY <1>2 DEF StepOK, PlaceOK
  <2>2. \A n, v : PlaceOK(x, n, v)
    BY <1>2, <2>1 DEF StepOK, PlaceOK
  <2>3. \A n, d : DurableOK(x, n, d)
    BY <2>1 DEF DurableOK, StagingSteps, MovedSteps
  <2>4. BuiltOK(x, now[x.cand], seal[x.cand])'
    BY <2>1 DEF BuiltOK, StagingSteps
  <2> QED BY <2>2, <2>3, <2>4 DEF StepOK
<1> QED BY <1>1, <1>2

LEMMA FileFrame ==
  ASSUME NEW c \in Candidates, FileOK(c), disturbed => disturbed',
         disturbed \in BOOLEAN, disturbed' \in BOOLEAN,
         now'[c] = now[c], disk'[c] = disk[c], planned'[c] = planned[c],
         seal'[c] = seal[c]
  PROVE  FileOK(c)'
<1>1. Reproduces(c) => Reproduces(c)'
  BY DEF Reproduces, ContentSeal, Sound, Manifest, TrackedEvidence, TreeEvidence,
         MainRef, GitControl, Content
<1>2. Unmade(c) => Unmade(c)'
  BY DEF Unmade
<1> QED BY <1>1, <1>2 DEF FileOK

\* Who is at the destination.
LEMMA AtDestination ==
  ASSUME OneOccupant, foreign \in BOOLEAN
  PROVE  /\ \A c \in Candidates : Occupant = c <=> now[c].place = "destination"
         /\ DestinationAbsent =>
              ~ foreign /\ \A c \in Candidates : now[c].place # "destination"
         /\ Occupant \in Candidates \cup {NoOne, Stranger}
<1>1. CASE foreign
  <2>1. Occupant = Stranger /\ \A c \in Candidates : now[c].place # "destination"
    BY <1>1 DEF Occupant, OneOccupant
  <2> QED BY <2>1, Numbers DEF DestinationAbsent
<1>2. CASE ~ foreign /\ \E c \in Candidates : now[c].place = "destination"
  <2>1. PICK c \in Candidates : now[c].place = "destination"
    BY <1>2
  <2>2. Occupant \in Candidates /\ now[Occupant].place = "destination"
    BY <1>2, <2>1 DEF Occupant
  <2> QED BY <2>2, Numbers DEF OneOccupant, DestinationAbsent
<1>3. CASE ~ foreign /\ ~ \E c \in Candidates : now[c].place = "destination"
  <2>1. Occupant = NoOne
    BY <1>3 DEF Occupant
  <2> QED BY <1>3, <2>1, Numbers
<1> QED BY <1>1, <1>2, <1>3

-----------------------------------------------------------------------------
(* Steps of a command, by what they change.                                *)

\* A command goes on to r; the others stay correct.
LEMMA RunningInv ==
  ASSUME proc \in [Procs -> Process], Running, NEW p \in Procs, NEW r \in Process,
         proc' = [proc EXCEPT ![p] = r], StepOK(r)',
         \A q \in Procs \ {p} : \A x \in Process : x = proc[q] => StepOK(x)',
         r.pc \in StagingSteps =>
           \A q \in Procs \ {p} :
             proc[q].pc \in StagingSteps => proc[q].cand # r.cand
  PROVE  proc' \in [Procs -> Process] /\ Running'
<1>1. /\ proc' \in [Procs -> Process] /\ proc'[p] = r
      /\ \A q \in Procs \ {p} : proc'[q] = proc[q] /\ proc[q] \in Process
  OBVIOUS
<1>2. \A q \in Procs : StepOK(proc[q])'
  <2>1. StepOK(proc[p])'
    BY <1>1
  <2>2. ASSUME NEW q \in Procs \ {p} PROVE StepOK(proc[q])'
    <3>1. PICK x \in Process : x = proc[q]
      BY <1>1
    <3>2. StepOK(x)' /\ proc'[q] = x
      BY <1>1, <3>1
    <3> QED BY <3>2
  <2> QED BY <2>1, <2>2
<1>3. OneBuilder'
  BY <1>1 DEF Running, OneBuilder
<1> QED BY <1>1, <1>2, <1>3 DEF Running

\* A step that touches no candidate.
Calm ==
  /\ UNCHANGED <<now, disk, planned, seal>>
  /\ disturbed => disturbed'

LEMMA CalmFiles ==
  ASSUME IInv, Calm, disturbed' \in BOOLEAN
  PROVE  /\ FilesTyped' /\ \A c \in Candidates : FileOK(c)'
         /\ foreign' = foreign => Files'
         /\ \A x \in Process : StepOK(x) => StepOK(x)'
<1>1. disturbed \in BOOLEAN /\ (disturbed => disturbed')
  BY DEF IInv, RestTyped, Calm
<1>2. FilesTyped'
  BY DEF IInv, Files, FilesTyped, Calm
<1>3. ASSUME NEW c \in Candidates PROVE FileOK(c)'
  BY <1>1, FileFrame DEF IInv, Files, Calm
<1>4. ASSUME NEW x \in Process, StepOK(x) PROVE StepOK(x)'
  BY <1>1, <1>4, StepFrame DEF Calm
<1>5. foreign' = foreign => OneOccupant'
  BY DEF OneOccupant, IInv, Files, Calm
<1> QED BY <1>2, <1>3, <1>4, <1>5 DEF Files

\* Nothing a power loss may take can undo a success.
Settled(c) == disk[c].place = {"destination"} /\ disk[c].marker = {"none"}

\* A step keeps what is true of the candidates and of every command.
Kept ==
  /\ Files'
  /\ \A x \in Process : StepOK(x) => StepOK(x)'
  /\ \A c \in Candidates : Settled(c) => Settled(c)'

\* A step that keeps all that and takes the command p to r, which is correct
\* after the step, or was before.
LEMMA KeptThenInv ==
  ASSUME IInv, NEW p \in Procs, NEW r \in Process, StepOK(r)',
         proc' = [proc EXCEPT ![p] = r], Kept,
         r.pc \in StagingSteps =>
           proc[p].pc \in StagingSteps /\ r.cand = proc[p].cand,
         RestTyped',
         \A c \in Candidates : told'[c] = "Complete" =>
           told[c] = "Complete" \/ Settled(c)
  PROVE  IInv'
<1>1. \A q \in Procs \ {p} : \A x \in Process : x = proc[q] => StepOK(x)'
  BY DEF Kept, IInv, Running
<1>2. r.pc \in StagingSteps =>
        \A q \in Procs \ {p} :
          proc[q].pc \in StagingSteps => proc[q].cand # r.cand
  BY DEF IInv, Running, OneBuilder
<1>3. proc' \in [Procs -> Process] /\ Running'
  BY <1>1, <1>2, RunningInv DEF IInv
<1>4. SuccessIsSettled'
  BY DEF SuccessIsSettled, Kept, Settled, IInv
<1> QED BY <1>1, <1>3, <1>4 DEF IInv, Kept

LEMMA KeptInv ==
  ASSUME IInv, NEW p \in Procs, NEW r \in Process, StepOK(r),
         proc' = [proc EXCEPT ![p] = r], Kept,
         r.pc \in StagingSteps =>
           proc[p].pc \in StagingSteps /\ r.cand = proc[p].cand,
         RestTyped',
         \A c \in Candidates : told'[c] = "Complete" =>
           told[c] = "Complete" \/ Settled(c)
  PROVE  IInv'
BY KeptThenInv DEF Kept

\* A step of a command that keeps all that, and the troubles it counts.
Quiet == UNCHANGED World /\ (Faulty \/ UNCHANGED counts) /\ Kept

LEMMA QuietTypes ==
  ASSUME IInv, Quiet,
         told' \in [Candidates -> Terminals],
         lock' \in [Candidates -> Procs \cup {NoProc}]
  PROVE  RestTyped'
<1>1. UNCHANGED <<source, foreign>> /\ disturbed' = disturbed
  BY DEF Quiet, World, Faulty, Harmless, counts
<1>2. troubles' \in 0 .. MaxTroubles
  BY BoundAssumption
     DEF IInv, RestTyped, Quiet, Faulty, Harmless, Trouble, counts
<1> QED BY <1>1, <1>2 DEF IInv, RestTyped

LEMMA QuietCalm ==
  ASSUME IInv, UNCHANGED <<World, Claim, now, disk>>, Faulty \/ UNCHANGED counts
  PROVE  Quiet
<1>1. /\ UNCHANGED <<source, foreign, planned, seal, now, disk>>
      /\ disturbed' = disturbed
  BY DEF World, Claim, Faulty, Harmless, counts
<1>2. Calm /\ disturbed' \in BOOLEAN
  BY <1>1 DEF Calm, IInv, RestTyped
<1>3. \A c \in Candidates : Settled(c) => Settled(c)'
  BY <1>1 DEF Settled
<1> QED BY <1>1, <1>2, <1>3, CalmFiles DEF Quiet, Kept

\* The command exits; only the last audit makes it report success.
LEMMA ExitInv ==
  ASSUME IInv, NEW p \in Procs, NEW t \in Terminals, Exit(p, t), Quiet,
         t = "Complete" => proc[p].pc = "clean"
  PROVE  IInv'
<1>1. /\ proc' = [proc EXCEPT ![p] = Idle]
      /\ lock' \in [Candidates -> Procs \cup {NoProc}]
      /\ told' \in [Candidates -> Terminals]
  BY DEF Exit, IInv, RestTyped
<1>2. ASSUME NEW c \in Candidates, told'[c] = "Complete", told[c] # "Complete"
      PROVE  Settled(c)
  <2>1. c = proc[p].cand /\ proc[p].pc = "clean"
    BY <1>2 DEF Exit
  <2> QED BY <2>1 DEF IInv, Running, StepOK, DurableOK, Settled
<1> QED BY <1>1, <1>2, IdleOK, QuietTypes, KeptInv DEF StagingSteps, Quiet

LEMMA FailInv ==
  ASSUME IInv, NEW p \in Procs, NEW kind, Fail(p, kind), Quiet
  PROVE  IInv'
<1>1. /\ ImportTerminal(kind) \in Terminals \ {"Complete"}
      /\ ReconcileTerminal(kind) \in Terminals \ {"Complete"}
  BY DEF ImportTerminal, ReconcileTerminal, Terminals
<1>2. PICK t \in Terminals \ {"Complete"} : Exit(p, t)
  BY <1>1 DEF Fail
<1> QED BY <1>2, ExitInv

LEMMA LeaveInv ==
  ASSUME IInv, NEW p \in Procs, Leave(p), Quiet
  PROVE  IInv'
<1>1. UNCHANGED <<lock, told>> /\ proc' = [proc EXCEPT ![p] = Idle]
  BY DEF Leave
<1>2. RestTyped'
  BY <1>1, QuietTypes DEF IInv, RestTyped
<1> QED BY <1>1, <1>2, IdleOK, KeptInv DEF StagingSteps, Quiet

\* The command goes on from one step to another without touching anything.
LEMMA OnInv ==
  ASSUME IInv, NEW p \in Procs, NEW r \in Process, StepOK(r),
         proc' = [proc EXCEPT ![p] = r], Quiet, told' = told,
         lock' \in [Candidates -> Procs \cup {NoProc}],
         r.pc \in StagingSteps =>
           proc[p].pc \in StagingSteps /\ r.cand = proc[p].cand
  PROVE  IInv'
<1>1. RestTyped'
  BY QuietTypes DEF IInv, RestTyped
<1> QED BY <1>1, KeptInv DEF Quiet

\* r is the command x at another step of the same work.
SameWork(x, r) ==
  /\ r.cmd = x.cmd /\ r.cand = x.cand /\ r.plan = x.plan /\ r.target = x.target

\* How a command goes on.
LEMMA OnwardGoto ==
  ASSUME proc \in [Procs -> Process], NEW p \in Procs, NEW step \in Steps,
         Goto(p, step)
  PROVE  \E r \in Process :
           /\ r.pc = step /\ r.tries = Attempts /\ SameWork(proc[p], r)
           /\ proc' = [proc EXCEPT ![p] = r]
<1> DEFINE r == [proc[p] EXCEPT !.pc = step, !.tries = Attempts]
<1>1. proc[p] \in Process
  OBVIOUS
<1>2. r \in Process /\ r.pc = step /\ r.tries = Attempts /\ SameWork(proc[p], r)
  BY <1>1, Numbers DEF Process, SameWork
<1>3. proc' = [proc EXCEPT ![p] = r]
  BY <1>1 DEF Goto, Again
<1> QED BY <1>2, <1>3

\* The same within a loop.
LEMMA OnwardStep ==
  ASSUME proc \in [Procs -> Process], NEW p \in Procs, NEW step \in Steps,
         proc' = [proc EXCEPT ![p].pc = step]
  PROVE  \E r \in Process :
           /\ r.pc = step /\ r.tries = proc[p].tries /\ SameWork(proc[p], r)
           /\ proc' = [proc EXCEPT ![p] = r]
<1> DEFINE r == [proc[p] EXCEPT !.pc = step]
<1>1. proc[p] \in Process
  OBVIOUS
<1>2. r \in Process /\ r.pc = step /\ r.tries = proc[p].tries /\ SameWork(proc[p], r)
  BY <1>1, Numbers DEF Process, SameWork
<1>3. proc' = [proc EXCEPT ![p] = r]
  BY <1>1 DEF Goto, Again
<1> QED BY <1>2, <1>3

\* The same at the same step.
LEMMA OnwardAgain ==
  ASSUME proc \in [Procs -> Process], NEW p \in Procs, Again(p),
         proc[p].tries - 1 \in 0 .. (Attempts + 1)
  PROVE  \E r \in Process :
           /\ r.pc = proc[p].pc /\ r.tries = proc[p].tries - 1 /\ SameWork(proc[p], r)
           /\ proc' = [proc EXCEPT ![p] = r]
<1> DEFINE r == [proc[p] EXCEPT !.tries = @ - 1]
<1>1. proc[p] \in Process
  OBVIOUS
<1>2. r \in Process /\ r.pc = proc[p].pc /\ r.tries = proc[p].tries - 1 /\ SameWork(proc[p], r)
  BY <1>1, Numbers DEF Process, SameWork
<1>3. proc' = [proc EXCEPT ![p] = r]
  BY <1>1 DEF Goto, Again
<1> QED BY <1>2, <1>3

\* Steps to which nothing new must be known.
EasySteps ==
  {<<"marked", "claimed">>, <<"claimed", "reviewed">>, <<"reviewed", "notMoved">>,
   <<"notMoved", "claimed">>, <<"moved", "published">>}

LEMMA StepOn ==
  ASSUME NEW x \in Process, StepOK(x), NEW r \in Process, SameWork(x, r),
         r.pc \in TriedSteps => r.tries # 0,
         r.pc = x.pc \/ <<x.pc, r.pc>> \in EasySteps
  PROVE  StepOK(r)
<1>1. /\ PlaceOK(x, now[r.cand], planned[r.cand])
      /\ BuiltOK(x, now[r.cand], seal[r.cand])
      /\ DurableOK(x, now[r.cand], disk[r.cand])
  BY DEF StepOK, SameWork
<1>2. PlaceOK(r, now[r.cand], planned[r.cand])
  BY <1>1 DEF PlaceOK, SameWork, EasySteps, StagingSteps, MovedSteps
<1>3. BuiltOK(r, now[r.cand], seal[r.cand])
  BY <1>1 DEF BuiltOK, SameWork, EasySteps
<1>4. DurableOK(r, now[r.cand], disk[r.cand])
  BY <1>1 DEF DurableOK, SameWork, EasySteps, StagingSteps
<1> QED BY <1>2, <1>3, <1>4 DEF StepOK

\* A loop that goes on has another try left.
LEMMA AgainInv ==
  ASSUME IInv, NEW p \in Procs, Again(p), ~ LastTry(p), proc[p].pc \in TriedSteps,
         Quiet, UNCHANGED <<lock, told>>
  PROVE  IInv'
<1>1. proc[p] \in Process /\ StepOK(proc[p]) /\ proc[p].tries # 0
  BY DEF IInv, Running, StepOK, PlaceOK
<1>2. proc[p].tries - 1 \in 0 .. (Attempts + 1) /\ proc[p].tries - 1 # 0
  BY <1>1, AttemptAssumption, ProcessFields DEF LastTry
<1>4. PICK r \in Process :
        /\ r.pc = proc[p].pc /\ r.tries = proc[p].tries - 1
        /\ SameWork(proc[p], r) /\ proc' = [proc EXCEPT ![p] = r]
  BY <1>1, <1>2, OnwardAgain DEF IInv
<1>5. StepOK(r)
  BY <1>1, <1>2, <1>4, StepOn
<1> QED BY <1>4, <1>5, OnInv DEF IInv, RestTyped, SameWork

\* A command goes on to a step at which nothing new must be known.
LEMMA EasyInv ==
  ASSUME IInv, NEW p \in Procs, NEW step \in Steps, <<proc[p].pc, step>> \in EasySteps,
         \/ Goto(p, step)
         \/ proc' = [proc EXCEPT ![p].pc = step] /\ proc[p].pc \in TriedSteps,
         Quiet, UNCHANGED <<lock, told>>
  PROVE  IInv'
<1>1. proc[p] \in Process /\ StepOK(proc[p])
  BY DEF IInv, Running
<1>2. proc[p].pc \in TriedSteps => proc[p].tries # 0
  BY <1>1 DEF StepOK, PlaceOK
<1>3. PICK r \in Process :
        /\ r.pc = step /\ r.tries # 0
        /\ SameWork(proc[p], r) /\ proc' = [proc EXCEPT ![p] = r]
  <2>1. CASE Goto(p, step)
    BY <2>1, Numbers, OnwardGoto DEF IInv
  <2>2. CASE proc' = [proc EXCEPT ![p].pc = step] /\ proc[p].pc \in TriedSteps
    BY <1>1, <1>2, <2>2, OnwardStep DEF IInv
  <2> QED BY <2>1, <2>2
<1>4. StepOK(r)
  BY <1>1, <1>3, StepOn
<1>5. r.pc \in StagingSteps => proc[p].pc \in StagingSteps
  BY <1>3 DEF EasySteps, StagingSteps
<1> QED BY <1>3, <1>4, <1>5, OnInv DEF IInv, RestTyped, SameWork

-----------------------------------------------------------------------------
(* The steps that touch no candidate.                                      *)

LEMMA PlanInv ==
  ASSUME IInv, NEW p \in Procs, Plan(p)
  PROVE  IInv'
<1> DEFINE r == [proc[p] EXCEPT !.pc = "planned", !.plan = source.head]
<1>1. proc[p] \in Process /\ StepOK(proc[p]) /\ proc[p].pc = "idle"
      /\ proc[p].cand = NoOne /\ source.head \in Versions
  BY DEF Plan, IInv, Running, StepOK, PlaceOK, RestTyped
<1>2. /\ r \in Process /\ r.pc = "planned" /\ r.cand = NoOne
      /\ r.plan = source.head
  BY <1>1 DEF Process, Steps
<1>3. proc' = [proc EXCEPT ![p] = r]
  BY DEF Plan, IInv
<1> HIDE DEF r
<1>4. StepOK(r)
  <2>1. PlaceOK(r, now[r.cand], planned[r.cand])
    BY <1>1, <1>2 DEF PlaceOK, StagingSteps, MovedSteps, TriedSteps
  <2>2. BuiltOK(r, now[r.cand], seal[r.cand])
    BY <1>2 DEF BuiltOK
  <2>3. DurableOK(r, now[r.cand], disk[r.cand])
    BY <1>2 DEF DurableOK, StagingSteps
  <2> QED BY <1>2, <2>1, <2>2, <2>3 DEF StepOK
<1>5. Quiet /\ UNCHANGED <<lock, told>>
  BY QuietCalm DEF Plan
<1> QED BY <1>2, <1>3, <1>4, <1>5, OnInv DEF IInv, RestTyped, StagingSteps

LEMMA InspectInv ==
  ASSUME IInv, NEW p \in Procs, Inspect(p)
  PROVE  IInv'
<1>1. PICK state \in {MarkerState(Occupant), "Indeterminate"} :
        /\ proc' = [proc EXCEPT ![p].pc = "inspected", ![p].cmd = "reconcile",
                                ![p].cand = Occupant, ![p].seen = state]
        /\ IF state = MarkerState(Occupant) THEN UNCHANGED counts ELSE Faulty
  BY DEF Inspect
<1> DEFINE r == [proc[p] EXCEPT !.pc = "inspected", !.cmd = "reconcile",
                                !.cand = Occupant, !.seen = state]
<1>2. proc[p] \in Process /\ Occupant \in Candidates \cup {NoOne, Stranger}
      /\ state \in MarkerStates
  BY AtDestination DEF IInv, Files, RestTyped, MarkerState, MarkerStates
<1>n. Occupant # NoOne
  BY DEF Inspect, DestinationAbsent
<1>3. r \in Process /\ r.pc = "inspected" /\ r.cand = Occupant
  BY <1>2 DEF Process, Steps, Commands
<1>4. proc' = [proc EXCEPT ![p] = r]
  BY <1>1 DEF IInv
<1> HIDE DEF r
<1>5. StepOK(r)
  <2>1. r.cand \in Candidates => now[r.cand].place = "destination"
    BY <1>3, AtDestination DEF IInv, Files, RestTyped
  <2>2. PlaceOK(r, now[r.cand], planned[r.cand])
    BY <1>3, <1>n, <2>1 DEF PlaceOK, StagingSteps, MovedSteps, TriedSteps
  <2>3. BuiltOK(r, now[r.cand], seal[r.cand])
    BY <1>3 DEF BuiltOK
  <2>4. DurableOK(r, now[r.cand], disk[r.cand])
    BY <1>3 DEF DurableOK, StagingSteps
  <2> QED BY <1>3, <2>2, <2>3, <2>4 DEF StepOK
<1>6. Quiet /\ UNCHANGED <<lock, told>>
  BY <1>1, QuietCalm DEF Inspect
<1> QED BY <1>3, <1>4, <1>5, <1>6, OnInv DEF IInv, RestTyped, StagingSteps

\* The audit of every entry shows that what the repository was made of is the
\* plan: the files are what it was made of, or altered.
LEMMA IndependentAuditInv ==
  ASSUME IInv, NEW p \in Procs, IndependentAudit(p)
  PROVE  IInv'
<1>1. /\ proc[p] \in Process /\ StepOK(proc[p]) /\ proc[p].pc = "synced"
      /\ now[proc[p].cand].content["files"] = proc[p].plan
      /\ proc' = [proc EXCEPT ![p].pc = "audited"]
  BY DEF IndependentAudit, IInv, Running, Content
<1>2. proc[p].target = proc[p].plan
  BY <1>1, Numbers DEF StepOK, PlaceOK, BuiltOK, StagingSteps
<1>3. PICK r \in Process :
        /\ r.pc = "audited" /\ SameWork(proc[p], r)
        /\ proc' = [proc EXCEPT ![p] = r]
  <2>1. PICK step \in Steps :
          step = "audited" /\ proc' = [proc EXCEPT ![p].pc = step]
    BY <1>1 DEF Steps
  <2>2. proc \in [Procs -> Process]
    BY DEF IInv
  <2> QED BY <2>1, <2>2, OnwardStep
<1>4. StepOK(r)
  <2>1. PlaceOK(r, now[r.cand], planned[r.cand])
    BY <1>1, <1>3 DEF StepOK, SameWork, PlaceOK, StagingSteps, MovedSteps, TriedSteps
  <2>2. BuiltOK(r, now[r.cand], seal[r.cand])
    BY <1>1, <1>2, <1>3 DEF StepOK, SameWork, BuiltOK
  <2>3. DurableOK(r, now[r.cand], disk[r.cand])
    BY <1>1, <1>3 DEF StepOK, SameWork, DurableOK, StagingSteps
  <2> QED BY <1>3, <2>1, <2>2, <2>3 DEF StepOK
<1>5. Quiet /\ UNCHANGED <<lock, told>>
  BY QuietCalm DEF IndependentAudit
<1> QED BY <1>1, <1>3, <1>4, <1>5, OnInv DEF IInv, RestTyped, StagingSteps, SameWork

\* A claim that is opened again is at the destination.
LEMMA OpenExistingInv ==
  ASSUME IInv, NEW p \in Procs, OpenExisting(p)
  PROVE  IInv'
<1>1. /\ proc[p] \in Process /\ StepOK(proc[p]) /\ proc[p].pc = "inspected"
      /\ MarkerState(proc[p].cand) = "V2Exact" /\ Goto(p, "published")
  BY DEF OpenExisting, Claimable, IInv, Running
<1>2. proc[p].cand \in Candidates /\ now[proc[p].cand].place = "destination"
  <2>1. proc[p].cand # NoOne /\ proc[p].cand # Stranger
    BY <1>1 DEF StepOK, PlaceOK, MarkerState
  <2> QED BY <1>1, <2>1, ProcessFields DEF StepOK, PlaceOK
<1>3. PICK r \in Process :
        /\ r.pc = "published" /\ r.tries # 0 /\ SameWork(proc[p], r)
        /\ proc' = [proc EXCEPT ![p] = r]
  BY <1>1, Numbers, OnwardGoto DEF IInv, Steps
<1>4. StepOK(r)
  <2>1. PlaceOK(r, now[r.cand], planned[r.cand])
    BY <1>2, <1>3 DEF SameWork, PlaceOK, StagingSteps, MovedSteps
  <2>2. BuiltOK(r, now[r.cand], seal[r.cand])
    BY <1>3 DEF BuiltOK
  <2>3. DurableOK(r, now[r.cand], disk[r.cand])
    BY <1>3 DEF DurableOK, StagingSteps
  <2> QED BY <1>3, <2>1, <2>2, <2>3 DEF StepOK
<1>5. Quiet /\ told' = told
  BY QuietCalm DEF OpenExisting
<1>6. lock' \in [Candidates -> Procs \cup {NoProc}]
  BY DEF OpenExisting, IInv, RestTyped
<1> QED BY <1>3, <1>4, <1>5, <1>6, OnInv DEF StagingSteps

\* Steps at which nothing new must be known.
LEMMA EasyStepsInv ==
  ASSUME IInv, NEW p \in Procs,
         AuditClaim(p) \/ ReviewMove(p) \/ NotMoved(p) \/ AuditMoved(p)
  PROVE  IInv'
<1>1. Quiet /\ UNCHANGED <<lock, told>>
  BY QuietCalm DEF AuditClaim, ReviewMove, NotMoved, AuditMoved
<1>2. CASE AuditClaim(p)
  BY <1>1, <1>2, EasyInv DEF AuditClaim, EasySteps, Steps
<1>3. CASE ReviewMove(p)
  BY <1>1, <1>3, EasyInv DEF ReviewMove, EasySteps, Steps, TriedSteps
<1>4. CASE NotMoved(p)
  BY <1>1, <1>4, EasyInv DEF NotMoved, EasySteps, Steps, TriedSteps
<1>5. CASE AuditMoved(p)
  BY <1>1, <1>5, EasyInv DEF AuditMoved, EasySteps, Steps
<1> QED BY <1>2, <1>3, <1>4, <1>5

LEMMA RetryMoveInv ==
  ASSUME IInv, NEW p \in Procs, RetryMove(p)
  PROVE  IInv'
<1>1. Quiet
  BY QuietCalm DEF RetryMove
<1>2. CASE LastTry(p)
  BY <1>1, <1>2, FailInv DEF RetryMove
<1>3. CASE ~ LastTry(p)
  <2>1. /\ proc[p] \in Process /\ StepOK(proc[p]) /\ proc[p].tries # 0
        /\ proc[p].pc = "notMoved"
    BY DEF RetryMove, IInv, Running, StepOK, PlaceOK, TriedSteps
  <2>2. proc[p].tries - 1 \in 0 .. (Attempts + 1) /\ proc[p].tries - 1 # 0
    BY <1>3, <2>1, AttemptAssumption, ProcessFields DEF LastTry
  <2>3. PICK r \in Process :
          /\ r.pc = "claimed" /\ r.tries # 0 /\ SameWork(proc[p], r)
          /\ proc' = [proc EXCEPT ![p] = r]
    <3> DEFINE r == [proc[p] EXCEPT !.pc = "claimed", !.tries = @ - 1]
    <3>1. r \in Process /\ r.pc = "claimed" /\ r.tries # 0 /\ SameWork(proc[p], r)
      BY <2>1, <2>2 DEF Process, SameWork, Steps
    <3>2. proc' = [proc EXCEPT ![p] = r]
      BY <1>3, <2>1 DEF RetryMove, IInv
    <3> QED BY <3>1, <3>2
  <2>4. StepOK(r)
    BY <2>1, <2>3, StepOn DEF EasySteps
  <2> QED BY <1>1, <1>3, <2>1, <2>3, <2>4, OnInv
          DEF RetryMove, IInv, RestTyped, SameWork, StagingSteps
<1> QED BY <1>2, <1>3

\* Steps at which the command gives up and touches nothing.
LEMMA GivenUpInv ==
  ASSUME IInv, NEW p \in Procs,
         \/ CreateStagingFails(p) \/ StagingFails(p) \/ AuthorizeFails(p)
         \/ MoveRefused(p) \/ ReviewFails(p) \/ Refuse(p)
         \/ OpenExistingFails(p) \/ Preview(p)
  PROVE  IInv'
<1>1. CASE CreateStagingFails(p)
  <2>1. Leave(p) /\ Quiet
    BY <1>1, QuietCalm DEF CreateStagingFails, Leave
  <2> QED BY <2>1, LeaveInv
<1>2. CASE StagingFails(p)
  <2>1. Exit(p, "StagingIncomplete") /\ Quiet
    BY <1>2, QuietCalm DEF StagingFails
  <2> QED BY <2>1, ExitInv DEF Terminals
<1>3. CASE AuthorizeFails(p)
  <2>1. Fail(p, "InitialAuthorityRejected") /\ Quiet
    BY <1>3, QuietCalm DEF AuthorizeFails
  <2> QED BY <2>1, FailInv
<1>4. CASE MoveRefused(p)
  <2>1. Fail(p, "DestinationExists") /\ Quiet
    BY <1>4, QuietCalm DEF MoveRefused
  <2> QED BY <2>1, FailInv
<1>5. CASE ReviewFails(p)
  <2>1. Fail(p, "InitialPublicationRejected") /\ Quiet
    BY <1>5, QuietCalm DEF ReviewFails
  <2> QED BY <2>1, FailInv
<1>6. CASE Refuse(p) \/ Preview(p)
  <2>1. Leave(p) /\ Quiet
    BY <1>6, QuietCalm DEF Refuse, Preview, Leave
  <2> QED BY <2>1, LeaveInv
<1>7. CASE OpenExistingFails(p)
  <2>1. Fail(p, "ExistingClaimRejected") /\ Quiet
    BY <1>7, QuietCalm DEF OpenExistingFails
  <2> QED BY <2>1, FailInv
<1> QED BY <1>1, <1>2, <1>3, <1>4, <1>5, <1>6, <1>7

\* The last audit, alone or repeated.
LEMMA CleanAuditInv ==
  ASSUME IInv, NEW p \in Procs, CleanAudit(p) \/ CleanAuditFails(p)
  PROVE  IInv'
<1>1. Quiet
  BY QuietCalm DEF CleanAudit, CleanAuditFails
<1>2. CASE CleanAudit(p)
  BY <1>1, <1>2, ExitInv DEF CleanAudit, Terminals
<1>3. CASE CleanAuditFails(p) /\ LastTry(p)
  BY <1>1, <1>3, FailInv DEF CleanAuditFails
<1>4. CASE CleanAuditFails(p) /\ ~ LastTry(p)
  BY <1>1, <1>4, AgainInv DEF CleanAuditFails, TriedSteps
<1> QED BY <1>2, <1>3, <1>4

\* A process that is killed.
LEMMA KillInv ==
  ASSUME IInv, NEW p \in Procs, Kill(p)
  PROVE  IInv'
<1>1. Quiet /\ told' = told /\ proc' = [proc EXCEPT ![p] = Idle]
  BY QuietCalm DEF Kill, Faulty
<1>2. lock' \in [Candidates -> Procs \cup {NoProc}]
  BY DEF Kill, IInv, RestTyped
<1> QED BY <1>1, <1>2, IdleOK, OnInv DEF StagingSteps

-----------------------------------------------------------------------------
(* The steps at the destination: the files of a candidate there change in  *)
(* ways that concern nobody else.                                          *)

\* What the names on disk may be after they were synchronized.
LEMMA NamesKept ==
  ASSUME IInv, FlushNames, UNCHANGED <<now, planned, seal, foreign>>,
         disturbed' = disturbed
  PROVE  Kept
<1>1. /\ FilesTyped /\ OneOccupant /\ disturbed \in BOOLEAN
      /\ \A c \in Candidates : FileOK(c)
  BY DEF IInv, Files, RestTyped
<1>2. ASSUME NEW c \in Candidates
      PROVE  /\ disk'[c].place = {now[c].place} /\ disk'[c].marker = disk[c].marker
             /\ disk'[c].content = disk[c].content /\ disk'[c] \in Disk
             /\ disk'[c] = [place |-> {now[c].place}, marker |-> disk[c].marker,
                            content |-> disk[c].content]
  <2>1. disk[c] \in Disk /\ now[c].place \in Places
    BY <1>1 DEF FilesTyped, Cand
  <2>2. disk'[c] = [disk[c] EXCEPT !.place = {now[c].place}]
    BY DEF FlushNames
  <2> QED BY <2>1, <2>2 DEF Disk
<1>3. FilesTyped'
  <2>1. disk' \in [Candidates -> Disk]
    BY <1>2 DEF FlushNames
  <2> QED BY <1>1, <2>1 DEF FilesTyped
<1>4. ASSUME NEW c \in Candidates PROVE FileOK(c)'
  <2>1. FileOK(c) /\ (Reproduces(c) => Reproduces(c)')
    BY <1>1 DEF Reproduces, ContentSeal, Sound, Manifest, TrackedEvidence,
                TreeEvidence, MainRef, GitControl, Content
  <2>2. Unmade(c) => Unmade(c)'
    BY <1>2 DEF Unmade, Lost
  <2>3. planned[c] = Missing => Unmade(c)'
    BY <2>1, <2>2 DEF FileOK
  <2>4. /\ now'[c].place \in disk'[c].place /\ now'[c].marker \in disk'[c].marker
        /\ now'[c].content \in disk'[c].content
        /\ "destination" \in disk'[c].place => now'[c].place = "destination"
        /\ "destination" \in disk'[c].place => disk'[c].place = {"destination"}
        /\ "destination" \in disk'[c].place => "destination" \in disk[c].place
    BY <1>2, <2>1 DEF FileOK
  <2>5. "destination" \in disk'[c].place => \A left \in disk'[c].content : Full(left)
    BY <1>2, <2>1, <2>4 DEF FileOK
  <2> QED BY <2>1, <2>3, <2>4, <2>5 DEF FileOK
<1>5. OneOccupant'
  BY <1>1 DEF OneOccupant
<1>6. ASSUME NEW x \in Process, StepOK(x) PROVE StepOK(x)'
  <2>1. CASE x.cand \in Candidates
    <3> DEFINE c == x.cand
    <3>1. /\ PlaceOK(x, now[c], planned[c]) /\ DurableOK(x, now[c], disk[c])
          /\ BuiltOK(x, now[c], seal[c])
      BY <1>6 DEF StepOK
    <3>2. DurableOK(x, now[c], disk'[c])
      <4>1. x.pc \in {"durable", "unlinked", "clean"} => disk'[c].place = {"destination"}
        BY <1>2, <2>1, <3>1 DEF PlaceOK, MovedSteps
      <4> QED BY <1>2, <2>1, <3>1, <4>1 DEF DurableOK
    <3>3. BuiltOK(x, now[c], seal[c])'
      <4>1. Sound(c) => Sound(c)'
        BY DEF Sound, Manifest, TrackedEvidence, TreeEvidence, MainRef, GitControl,
               Content
      <4> QED BY <3>1, <4>1 DEF BuiltOK
    <3> QED BY <3>1, <3>2, <3>3 DEF StepOK
  <2>2. CASE x.cand \notin Candidates
    BY <1>1, <1>6, <2>2, StepFrame
  <2> QED BY <2>1, <2>2
<1>7. ASSUME NEW c \in Candidates, Settled(c) PROVE Settled(c)'
  <2>1. now[c].place = "destination"
    BY <1>1, <1>7 DEF FileOK, Settled
  <2> QED BY <1>2, <1>7, <2>1 DEF Settled
<1> QED BY <1>3, <1>4, <1>5, <1>6, <1>7 DEF Kept, Files

\* The marker of a candidate whose move is durable: it disappears, or what
\* became of it is made durable.
LEMMA MarkerKept ==
  ASSUME IInv, NEW c \in Candidates, NEW m \in Markers, NEW left \in SUBSET Markers,
         now' = [now EXCEPT ![c].marker = m],
         disk' = [disk EXCEPT ![c].marker = left],
         m \in left, m \in {now[c].marker, "none"},
         disk[c].marker = {"none"} => left = {"none"},
         disk[c].place = {"destination"},
         UNCHANGED <<planned, seal, foreign>>, disturbed' = disturbed
  PROVE  Kept
<1>1. /\ FilesTyped /\ OneOccupant /\ disturbed \in BOOLEAN
      /\ \A d \in Candidates : FileOK(d)
  BY DEF IInv, Files, RestTyped
<1>2. now[c] \in Cand /\ disk[c] \in Disk
  BY <1>1 DEF FilesTyped
<1>3. /\ now'[c].place = now[c].place /\ now'[c].content = now[c].content
      /\ now'[c].marker = m /\ now'[c] \in Cand
      /\ \A d \in Candidates \ {c} : now'[d] = now[d]
      /\ now' \in [Candidates -> Cand]
  BY <1>1, <1>2 DEF FilesTyped, Cand
<1>4. /\ disk'[c].place = {"destination"} /\ disk'[c].content = disk[c].content
      /\ disk'[c].marker = left /\ disk'[c] \in Disk
      /\ \A d \in Candidates \ {c} : disk'[d] = disk[d]
      /\ disk' \in [Candidates -> Disk]
  BY <1>1, <1>2 DEF FilesTyped, Disk
<1>5. now[c].place = "destination" /\ planned[c] # Missing
  BY <1>1 DEF FileOK, Unmade
<1>6. FilesTyped'
  BY <1>1, <1>3, <1>4 DEF FilesTyped
<1>7. ASSUME NEW d \in Candidates PROVE FileOK(d)'
  <2>1. CASE d = c
    <3>1. FileOK(c) /\ (Reproduces(c) => Reproduces(c)')
      BY <1>1, <1>3 DEF Reproduces, ContentSeal, Sound, Manifest, TrackedEvidence,
                  TreeEvidence, MainRef, GitControl, Content
    <3>2. /\ now'[c].place \in disk'[c].place /\ now'[c].marker \in disk'[c].marker
          /\ now'[c].content \in disk'[c].content
          /\ now'[c].place = "destination" /\ disk'[c].place = {"destination"}
          /\ \A content \in disk'[c].content : Full(content)
      BY <1>3, <1>4, <1>5, <3>1 DEF FileOK
    <3>3. ~ disturbed /\ now'[c].marker = "exact" => Reproduces(c)'
      BY <1>3, <3>1 DEF FileOK
    <3>4. planned' = planned /\ seal' = seal /\ seal[c] \in {Nothing, Whole(planned[c])}
      BY <3>1 DEF FileOK
    <3> QED BY <1>5, <2>1, <3>2, <3>3, <3>4 DEF FileOK
  <2>2. CASE d # c
    BY <1>1, <1>3, <1>4, <2>2, FileFrame
  <2> QED BY <2>1, <2>2
<1>8. OneOccupant'
  <2>1. \A d \in Candidates : now'[d].place = now[d].place
    BY <1>3
  <2> QED BY <1>1, <2>1 DEF OneOccupant
<1>9. ASSUME NEW x \in Process, StepOK(x) PROVE StepOK(x)'
  <2>1. CASE x.cand = c
    <3>1. x.pc \notin StagingSteps
      BY <1>5, <1>9, <2>1 DEF StepOK, PlaceOK
    <3>2. PlaceOK(x, now'[c], planned'[c])
      BY <1>3, <1>9, <2>1, <3>1 DEF StepOK, PlaceOK
    <3>3. DurableOK(x, now'[c], disk'[c])
      <4>1. DurableOK(x, now[c], disk[c])
        BY <1>9, <2>1 DEF StepOK
      <4>2. x.pc \in {"unlinked", "clean"} => now'[c].marker = "none"
        BY <1>3, <4>1 DEF DurableOK
      <4>3. x.pc = "clean" => disk'[c].marker = {"none"}
        BY <1>4, <4>1 DEF DurableOK
      <4> QED BY <1>4, <3>1, <4>2, <4>3 DEF DurableOK, StagingSteps
    <3>4. BuiltOK(x, now[c], seal[c])'
      BY <3>1 DEF BuiltOK, StagingSteps
    <3> QED BY <2>1, <3>2, <3>3, <3>4 DEF StepOK
  <2>2. CASE x.cand # c
    BY <1>1, <1>3, <1>4, <1>9, <2>2, StepFrame
  <2> QED BY <2>1, <2>2
<1>10. ASSUME NEW d \in Candidates, Settled(d) PROVE Settled(d)'
  BY <1>4, <1>10 DEF Settled
<1> QED BY <1>6, <1>7, <1>8, <1>9, <1>10 DEF Kept, Files

\* The names are synchronized; what failed is tried again or given up.
LEMMA SyncPublishedInv ==
  ASSUME IInv, NEW p \in Procs, SyncPublished(p) \/ SyncPublishedFails(p)
  PROVE  IInv'
<1>1. CASE SyncPublished(p)
  <2>1. /\ proc[p] \in Process /\ StepOK(proc[p]) /\ proc[p].pc = "published"
        /\ Goto(p, "durable") /\ FlushNames
        /\ UNCHANGED <<source, foreign, planned, seal, now, lock, told>>
        /\ UNCHANGED counts /\ disturbed' = disturbed
    BY <1>1 DEF SyncPublished, IInv, Running, World, Claim, counts
  <2>2. PICK r \in Process :
          /\ r.pc = "durable" /\ r.tries # 0 /\ SameWork(proc[p], r)
          /\ proc' = [proc EXCEPT ![p] = r]
    BY <2>1, Numbers, OnwardGoto DEF IInv, Steps
  <2>3. Kept
    BY <2>1, NamesKept
  <2>4. r.cand \in Candidates /\ now[r.cand].place = "destination"
    BY <2>1, <2>2 DEF StepOK, PlaceOK, MovedSteps, SameWork
  <2>5. disk'[r.cand].place = {"destination"}
    <3>1. disk[r.cand] \in Disk
      BY <2>4 DEF IInv, Files, FilesTyped
    <3>2. disk'[r.cand] = [disk[r.cand] EXCEPT !.place = {"destination"}]
      BY <2>1, <2>4 DEF FlushNames
    <3> QED BY <3>1, <3>2 DEF Disk
  <2>6. StepOK(r)'
    <3>1. PlaceOK(r, now'[r.cand], planned'[r.cand])
      BY <2>1, <2>2, <2>4 DEF PlaceOK, StagingSteps, MovedSteps
    <3>2. BuiltOK(r, now[r.cand], seal[r.cand])'
      BY <2>2 DEF BuiltOK
    <3>3. DurableOK(r, now'[r.cand], disk'[r.cand])
      BY <2>2, <2>5 DEF DurableOK, StagingSteps
    <3> QED BY <2>2, <3>1, <3>2, <3>3 DEF StepOK
  <2>7. Quiet /\ RestTyped'
    BY <2>1, <2>3, QuietTypes DEF Quiet, World, IInv, RestTyped
  <2> QED BY <2>1, <2>2, <2>6, <2>7, KeptThenInv
          DEF StagingSteps, Quiet
<1>2. CASE SyncPublishedFails(p)
  <2>1. /\ proc[p].pc = "published" /\ UNCHANGED <<World, Claim, now>>
        /\ FlushNames \/ UNCHANGED disk
        /\ Faulty \/ UNCHANGED counts
    BY <1>2 DEF SyncPublishedFails
  <2>2. Quiet
    <3>1. CASE UNCHANGED disk
      BY <2>1, <3>1, QuietCalm
    <3>2. CASE FlushNames
      BY <2>1, <3>2, NamesKept DEF Quiet, World, Claim, Faulty, Harmless, counts
    <3> QED BY <2>1, <3>1, <3>2
  <2>3. \/ \E kind \in {"PublicationDurabilityIndeterminate",
                         "PublicationDurabilityRejected"} : Fail(p, kind)
        \/ Again(p) /\ ~ LastTry(p) /\ UNCHANGED <<lock, told>>
    BY <1>2 DEF SyncPublishedFails
  <2> QED BY <2>1, <2>2, <2>3, FailInv, AgainInv DEF TriedSteps
<1> QED BY <1>1, <1>2

\* The marker is unlinked, only when the move is durable.
LEMMA MarkerGone ==
  ASSUME IInv, NEW p \in Procs, proc[p].pc = "durable",
         Store(proc[p].cand, "marker", "none"),
         UNCHANGED <<World, Claim>>, disturbed' = disturbed
  PROVE  /\ Kept /\ proc[p].cand \in Candidates
         /\ now'[proc[p].cand].marker = "none"
         /\ now'[proc[p].cand].place = "destination"
         /\ disk'[proc[p].cand].place = {"destination"}
<1> DEFINE c == proc[p].cand
<1>1. /\ c \in Candidates /\ now[c].place = "destination"
      /\ disk[c].place = {"destination"}
  BY DEF IInv, Running, StepOK, PlaceOK, DurableOK, MovedSteps
<1>2. now[c] \in Cand /\ disk[c] \in Disk /\ now \in [Candidates -> Cand]
      /\ disk \in [Candidates -> Disk]
  BY <1>1 DEF IInv, Files, FilesTyped
<1>3. PICK m \in Markers : m = "none"
  BY DEF Markers
<1>4. PICK left \in SUBSET Markers : left = disk[c].marker \cup {m}
  BY <1>2 DEF Disk
<1>5. /\ now' = [now EXCEPT ![c].marker = m]
      /\ disk' = [disk EXCEPT ![c].marker = left]
  BY <1>3, <1>4 DEF Store
<1>6. /\ now'[c].marker = "none" /\ now'[c].place = "destination"
      /\ disk'[c].place = {"destination"}
  BY <1>1, <1>2, <1>3, <1>5 DEF Cand, Disk
<1>7. Kept
  <2>1. disk[c].marker = {"none"} => left = {"none"}
    BY <1>3, <1>4
  <2>2. m \in left /\ m \in {now[c].marker, "none"}
    BY <1>3, <1>4
  <2>3. UNCHANGED <<planned, seal, foreign>>
    BY DEF World, Claim
  <2> QED BY <1>1, <1>5, <2>1, <2>2, <2>3, MarkerKept
<1> QED BY <1>1, <1>6, <1>7

LEMMA UnlinkMarkerInv ==
  ASSUME IInv, NEW p \in Procs, UnlinkMarker(p) \/ UnlinkMarkerFails(p)
  PROVE  IInv'
<1>1. CASE UnlinkMarker(p)
  <2>1. /\ proc[p] \in Process /\ proc[p].pc = "durable"
        /\ Store(proc[p].cand, "marker", "none")
        /\ UNCHANGED <<World, Claim, lock, told, counts>> /\ disturbed' = disturbed
    BY <1>1 DEF UnlinkMarker, IInv, counts
  <2>2. PICK r \in Process :
          /\ r.pc = "unlinked" /\ r.tries # 0 /\ SameWork(proc[p], r)
          /\ proc' = [proc EXCEPT ![p] = r]
    <3> DEFINE r == [proc[p] EXCEPT !.pc = "unlinked", !.tries = Attempts + 1]
    <3>1. r \in Process /\ r.pc = "unlinked" /\ r.tries # 0 /\ SameWork(proc[p], r)
      BY <2>1, Numbers DEF Process, SameWork, Steps
    <3>2. proc' = [proc EXCEPT ![p] = r]
      BY <1>1, <2>1 DEF UnlinkMarker, IInv
    <3> QED BY <3>1, <3>2
  <2>4. /\ Kept /\ r.cand \in Candidates /\ now'[r.cand].marker = "none"
        /\ now'[r.cand].place = "destination"
        /\ disk'[r.cand].place = {"destination"}
    BY <2>1, <2>2, MarkerGone DEF SameWork
  <2>5. StepOK(r)'
    <3>1. PlaceOK(r, now'[r.cand], planned'[r.cand])
      BY <2>2, <2>4 DEF PlaceOK, StagingSteps, MovedSteps
    <3>2. BuiltOK(r, now[r.cand], seal[r.cand])'
      BY <2>2 DEF BuiltOK
    <3>3. DurableOK(r, now'[r.cand], disk'[r.cand])
      BY <2>2, <2>4 DEF DurableOK, StagingSteps
    <3> QED BY <2>2, <3>1, <3>2, <3>3 DEF StepOK
  <2>6. Quiet /\ RestTyped'
    BY <2>1, <2>4, QuietTypes DEF Quiet, IInv, RestTyped
  <2> QED BY <2>1, <2>2, <2>5, <2>6, KeptThenInv DEF StagingSteps, Quiet
<1>2. CASE UnlinkMarkerFails(p)
  <2>1. proc[p].pc = "durable" /\ UNCHANGED <<World, Claim>>
    BY <1>2 DEF UnlinkMarkerFails
  <2>2. \/ /\ Fail(p, "PublicationDurabilityRejected")
           /\ UNCHANGED <<now, disk>> /\ (Faulty \/ UNCHANGED counts)
        \/ /\ Fail(p, "PublicationMarkerRetained")
           /\ UNCHANGED <<now, disk>> /\ Faulty
        \/ /\ Again(p) /\ ~ LastTry(p) /\ UNCHANGED <<lock, told>>
           /\ UNCHANGED <<now, disk>> /\ Faulty
        \/ /\ Store(proc[p].cand, "marker", "none") /\ Faulty
           /\ Fail(p, "PublicationMarkerPostStateIndeterminate")
    BY <1>2 DEF UnlinkMarkerFails
  <2>3. CASE UNCHANGED <<now, disk>> /\ (Faulty \/ UNCHANGED counts)
    <3>1. Quiet
      BY <2>1, <2>3, QuietCalm
    <3>2. \/ \E kind \in {"PublicationDurabilityRejected", "PublicationMarkerRetained",
                          "PublicationMarkerPostStateIndeterminate"} : Fail(p, kind)
          \/ Again(p) /\ ~ LastTry(p) /\ UNCHANGED <<lock, told>>
      BY <2>2
    <3> QED BY <2>1, <3>1, <3>2, FailInv, AgainInv DEF TriedSteps
  <2>4. CASE /\ Store(proc[p].cand, "marker", "none") /\ Faulty
             /\ Fail(p, "PublicationMarkerPostStateIndeterminate")
    <3>1. Quiet
      BY <2>1, <2>4, MarkerGone DEF Quiet, Faulty, Harmless
    <3> QED BY <2>4, <3>1, FailInv
  <2> QED BY <2>2, <2>3, <2>4
<1> QED BY <1>1, <1>2

\* What became of the marker is made durable.
LEMMA MarkerFlushed ==
  ASSUME IInv, NEW p \in Procs, proc[p].pc = "unlinked",
         Flush(proc[p].cand, "marker"),
         UNCHANGED <<World, Claim, now>>, disturbed' = disturbed
  PROVE  /\ Kept /\ proc[p].cand \in Candidates
         /\ now'[proc[p].cand].marker = "none"
         /\ now'[proc[p].cand].place = "destination"
         /\ disk'[proc[p].cand].place = {"destination"}
         /\ disk'[proc[p].cand].marker = {"none"}
<1> DEFINE c == proc[p].cand
<1>1. /\ c \in Candidates /\ now[c].place = "destination"
      /\ disk[c].place = {"destination"} /\ now[c].marker = "none"
  BY DEF IInv, Running, StepOK, PlaceOK, DurableOK, MovedSteps
<1>2. now[c] \in Cand /\ disk[c] \in Disk /\ now \in [Candidates -> Cand]
      /\ disk \in [Candidates -> Disk]
  BY <1>1 DEF IInv, Files, FilesTyped
<1>3. disk' = [disk EXCEPT ![c].marker = {"none"}]
  BY <1>1 DEF Flush
<1>4. now' = now /\ now = [now EXCEPT ![c].marker = "none"]
  <2>1. now[c] = [now[c] EXCEPT !.marker = "none"]
    BY <1>1, <1>2 DEF Cand
  <2> QED BY <1>2, <2>1
<1>5. /\ now'[c].marker = "none" /\ now'[c].place = "destination"
      /\ disk'[c].place = {"destination"} /\ disk'[c].marker = {"none"}
  BY <1>1, <1>2, <1>3, <1>4 DEF Cand, Disk
<1>6. Kept
  <2>1. PICK m \in Markers : m = "none"
    BY DEF Markers
  <2>2. PICK left \in SUBSET Markers : left = {"none"}
    BY DEF Markers
  <2>3. /\ now' = [now EXCEPT ![c].marker = m]
        /\ disk' = [disk EXCEPT ![c].marker = left]
    BY <1>3, <1>4, <2>1, <2>2
  <2>4. UNCHANGED <<planned, seal, foreign>> /\ m \in left
    BY <2>1, <2>2 DEF World, Claim
  <2> QED BY <1>1, <2>1, <2>2, <2>3, <2>4, MarkerKept
<1> QED BY <1>1, <1>5, <1>6

LEMMA SyncUnlinkedInv ==
  ASSUME IInv, NEW p \in Procs, SyncUnlinked(p) \/ SyncUnlinkedFails(p)
  PROVE  IInv'
<1>1. CASE SyncUnlinked(p)
  <2>1. /\ proc[p] \in Process /\ proc[p].pc = "unlinked"
        /\ Flush(proc[p].cand, "marker") /\ Goto(p, "clean")
        /\ UNCHANGED <<World, Claim, now, lock, told, counts>>
        /\ disturbed' = disturbed
    BY <1>1 DEF SyncUnlinked, IInv, counts
  <2>2. PICK r \in Process :
          /\ r.pc = "clean" /\ r.tries # 0 /\ SameWork(proc[p], r)
          /\ proc' = [proc EXCEPT ![p] = r]
    BY <2>1, Numbers, OnwardGoto DEF IInv, Steps
  <2>3. /\ Kept /\ r.cand \in Candidates /\ now'[r.cand].marker = "none"
        /\ now'[r.cand].place = "destination"
        /\ disk'[r.cand].place = {"destination"}
        /\ disk'[r.cand].marker = {"none"}
    BY <2>1, <2>2, MarkerFlushed DEF SameWork
  <2>4. StepOK(r)'
    <3>1. PlaceOK(r, now'[r.cand], planned'[r.cand])
      BY <2>2, <2>3 DEF PlaceOK, StagingSteps, MovedSteps
    <3>2. BuiltOK(r, now[r.cand], seal[r.cand])'
      BY <2>2 DEF BuiltOK
    <3>3. DurableOK(r, now'[r.cand], disk'[r.cand])
      BY <2>2, <2>3 DEF DurableOK, StagingSteps
    <3> QED BY <2>2, <3>1, <3>2, <3>3 DEF StepOK
  <2>5. Quiet /\ RestTyped'
    BY <2>1, <2>3, QuietTypes DEF Quiet, IInv, RestTyped
  <2> QED BY <2>1, <2>2, <2>4, <2>5, KeptThenInv DEF StagingSteps, Quiet
<1>2. CASE SyncUnlinkedFails(p)
  <2>1. /\ proc[p].pc = "unlinked" /\ UNCHANGED <<World, Claim, now>> /\ Faulty
        /\ Flush(proc[p].cand, "marker") \/ UNCHANGED disk
    BY <1>2 DEF SyncUnlinkedFails
  <2>2. Quiet
    <3>1. CASE UNCHANGED disk
      BY <2>1, <3>1, QuietCalm
    <3>2. CASE Flush(proc[p].cand, "marker")
      BY <2>1, <3>2, MarkerFlushed DEF Quiet, Faulty, Harmless
    <3> QED BY <2>1, <3>1, <3>2
  <2>3. \/ \E kind \in {"PostUnlinkIndeterminate"} : Fail(p, kind)
        \/ Again(p) /\ ~ LastTry(p) /\ UNCHANGED <<lock, told>>
    BY <1>2 DEF SyncUnlinkedFails
  <2> QED BY <2>1, <2>2, <2>3, FailInv, AgainInv DEF TriedSteps
<1> QED BY <1>1, <1>2

-----------------------------------------------------------------------------
(* The steps before the move: a candidate changes that is one command's,   *)
(* or nobody's yet.                                                        *)

\* c is nobody's yet, or in the staging directory of p.
OwnedBy(p, c) ==
  \/ planned[c] = Missing
  \/ proc[p].pc \in StagingSteps /\ proc[p].cand = c

\* Nobody else works on a candidate that p owns, and it is not published.
LEMMA OwnedAlone ==
  ASSUME IInv, NEW p \in Procs, NEW c \in Candidates, OwnedBy(p, c)
  PROVE  /\ now[c].place # "destination" /\ ~ Settled(c)
         /\ "destination" \notin disk[c].place
         /\ \A q \in Procs \ {p} : proc[q].cand # c
<1>1. FileOK(c) /\ OneBuilder /\ \A q \in Procs : StepOK(proc[q])
  BY DEF IInv, Files, Running
<1>2. now[c].place # "destination"
  <2>1. CASE planned[c] = Missing
    BY <1>1, <2>1 DEF FileOK, Unmade, Lost
  <2>2. CASE proc[p].pc \in StagingSteps /\ proc[p].cand = c
    BY <1>1, <2>2 DEF StepOK, PlaceOK
  <2> QED BY <2>1, <2>2 DEF OwnedBy
<1>3. "destination" \notin disk[c].place
  BY <1>1, <1>2 DEF FileOK
<1>4. ~ Settled(c)
  BY <1>3 DEF Settled
<1>5. ASSUME NEW q \in Procs \ {p}, proc[q].cand = c PROVE FALSE
  <2>1. /\ StepOK(proc[q]) /\ proc[q].pc \in Steps
        /\ PlaceOK(proc[q], now[c], planned[c])
    BY <1>1, <1>5, ProcessFields DEF StepOK
  <2>2. proc[q].pc \notin MovedSteps /\ proc[q].pc # "inspected"
    BY <1>2, <1>5, <2>1 DEF PlaceOK
  <2>3. proc[q].pc \notin {"idle", "planned"}
    BY <1>5, <2>1, Numbers DEF PlaceOK
  <2>4. proc[q].pc \in StagingSteps
    BY <2>1, <2>2, <2>3 DEF Steps, StagingSteps, MovedSteps
  <2>5. planned[c] # Missing
    BY <2>1, <2>4, Numbers DEF PlaceOK
  <2> QED BY <1>1, <1>5, <2>4, <2>5 DEF OwnedBy, OneBuilder
<1> QED BY <1>2, <1>3, <1>4, <1>5

\* Only c changes.
OnlyOn(c) ==
  \A d \in Candidates \ {c} :
    /\ now'[d] = now[d] /\ disk'[d] = disk[d]
    /\ planned'[d] = planned[d] /\ seal'[d] = seal[d]

LEMMA BuilderInv ==
  ASSUME IInv, NEW p \in Procs, NEW c \in Candidates, NEW r \in Process,
         OwnedBy(p, c), OnlyOn(c), proc' = [proc EXCEPT ![p] = r],
         FilesTyped', RestTyped', FileOK(c)', StepOK(r)',
         foreign' = foreign, disturbed' = disturbed,
         now'[c].place = "destination" => DestinationAbsent,
         r.pc \in StagingSteps => r.cand = c,
         \A d \in Candidates : told'[d] = "Complete" => told[d] = "Complete"
  PROVE  IInv'
<1>1. /\ OneOccupant /\ foreign \in BOOLEAN /\ disturbed \in BOOLEAN
      /\ proc \in [Procs -> Process] /\ Running
      /\ \A d \in Candidates : FileOK(d)
  BY DEF IInv, Files, RestTyped
<1>2. /\ now[c].place # "destination" /\ ~ Settled(c)
      /\ \A q \in Procs \ {p} : proc[q].cand # c
  BY OwnedAlone
<1>3. ASSUME NEW d \in Candidates PROVE FileOK(d)'
  <2>1. CASE d = c
    BY <2>1
  <2>2. CASE d # c
    BY <1>1, <2>2, FileFrame DEF OnlyOn
  <2> QED BY <2>1, <2>2
<1>4. OneOccupant'
  <2>1. \A d \in Candidates \ {c} : now'[d] = now[d]
    BY DEF OnlyOn
  <2>2. CASE now'[c].place = "destination"
    <3>1. ~ foreign /\ \A d \in Candidates : now[d].place # "destination"
      BY <1>1, <2>2, AtDestination
    <3> QED BY <2>1, <3>1 DEF OneOccupant
  <2>3. CASE now'[c].place # "destination"
    BY <1>1, <2>1, <2>3 DEF OneOccupant
  <2> QED BY <2>2, <2>3
<1>5. \A q \in Procs \ {p} : \A x \in Process : x = proc[q] => StepOK(x)'
  <2>1. SUFFICES ASSUME NEW q \in Procs \ {p}, NEW x \in Process, x = proc[q]
                 PROVE  StepOK(x)'
    OBVIOUS
  <2>2. StepOK(x) /\ x.cand # c
    BY <1>1, <1>2, <2>1 DEF Running
  <2> QED BY <1>1, <2>2, StepFrame DEF OnlyOn
<1>6. r.pc \in StagingSteps =>
        \A q \in Procs \ {p} :
          proc[q].pc \in StagingSteps => proc[q].cand # r.cand
  BY <1>2
<1>7. proc' \in [Procs -> Process] /\ Running'
  BY <1>1, <1>5, <1>6, RunningInv
<1>8. SuccessIsSettled'
  BY <1>2 DEF SuccessIsSettled, Settled, OnlyOn, IInv
<1> QED BY <1>3, <1>4, <1>7, <1>8 DEF IInv, Files

\* Candidate c becomes n, and on disk d.
Becomes(c, n, d) ==
  now' = [now EXCEPT ![c] = n] /\ disk' = [disk EXCEPT ![c] = d]

\* What Store makes of each field, as a candidate and a disk.
LEMMA StoredPlace ==
  ASSUME FilesTyped, NEW c \in Candidates, NEW v \in Places, Store(c, "place", v)
  PROVE  \E n \in Cand, d \in Disk :
           /\ now' = [now EXCEPT ![c] = n] /\ disk' = [disk EXCEPT ![c] = d]
           /\ n.place = v /\ n.marker = now[c].marker /\ n.content = now[c].content
           /\ d.place = disk[c].place \cup {v} /\ d.marker = disk[c].marker
           /\ d.content = disk[c].content
<1> DEFINE n == [now[c] EXCEPT !.place = v]
           d == [disk[c] EXCEPT !.place = @ \cup {v}]
<1>1. now[c] \in Cand /\ disk[c] \in Disk
  BY DEF FilesTyped
<1>2. n \in Cand /\ n.place = v /\ n.marker = now[c].marker /\ n.content = now[c].content
  BY <1>1 DEF Cand
<1>3. /\ d \in Disk /\ d.place = disk[c].place \cup {v} /\ d.marker = disk[c].marker
      /\ d.content = disk[c].content
  BY <1>1 DEF Disk
<1>4. now' = [now EXCEPT ![c] = n] /\ disk' = [disk EXCEPT ![c] = d]
  BY DEF Store, FilesTyped
<1> QED BY <1>2, <1>3, <1>4

LEMMA StoredMarker ==
  ASSUME FilesTyped, NEW c \in Candidates, NEW v \in Markers, Store(c, "marker", v)
  PROVE  \E n \in Cand, d \in Disk :
           /\ now' = [now EXCEPT ![c] = n] /\ disk' = [disk EXCEPT ![c] = d]
           /\ n.place = now[c].place /\ n.marker = v /\ n.content = now[c].content
           /\ d.place = disk[c].place /\ d.marker = disk[c].marker \cup {v}
           /\ d.content = disk[c].content
<1> DEFINE n == [now[c] EXCEPT !.marker = v]
           d == [disk[c] EXCEPT !.marker = @ \cup {v}]
<1>1. now[c] \in Cand /\ disk[c] \in Disk
  BY DEF FilesTyped
<1>2. n \in Cand /\ n.place = now[c].place /\ n.marker = v /\ n.content = now[c].content
  BY <1>1 DEF Cand
<1>3. /\ d \in Disk /\ d.place = disk[c].place /\ d.marker = disk[c].marker \cup {v}
      /\ d.content = disk[c].content
  BY <1>1 DEF Disk
<1>4. now' = [now EXCEPT ![c] = n] /\ disk' = [disk EXCEPT ![c] = d]
  BY DEF Store, FilesTyped
<1> QED BY <1>2, <1>3, <1>4

LEMMA StoredContent ==
  ASSUME FilesTyped, NEW c \in Candidates, NEW v \in Contents, Store(c, "content", v)
  PROVE  \E n \in Cand, d \in Disk :
           /\ now' = [now EXCEPT ![c] = n] /\ disk' = [disk EXCEPT ![c] = d]
           /\ n.place = now[c].place /\ n.marker = now[c].marker /\ n.content = v
           /\ d.place = disk[c].place /\ d.marker = disk[c].marker
           /\ d.content = disk[c].content \cup {v}
<1> DEFINE n == [now[c] EXCEPT !.content = v]
           d == [disk[c] EXCEPT !.content = @ \cup {v}]
<1>1. now[c] \in Cand /\ disk[c] \in Disk
  BY DEF FilesTyped
<1>2. n \in Cand /\ n.place = now[c].place /\ n.marker = now[c].marker /\ n.content = v
  BY <1>1 DEF Cand
<1>3. /\ d \in Disk /\ d.place = disk[c].place /\ d.marker = disk[c].marker
      /\ d.content = disk[c].content \cup {v}
  BY <1>1 DEF Disk
<1>4. now' = [now EXCEPT ![c] = n] /\ disk' = [disk EXCEPT ![c] = d]
  BY DEF Store, FilesTyped
<1> QED BY <1>2, <1>3, <1>4

\* What is known of the candidate that p builds.
LEMMA Building ==
  ASSUME IInv, NEW p \in Procs, proc[p].pc \in StagingSteps, NEW c, c = proc[p].cand
  PROVE  /\ c \in Candidates /\ OwnedBy(p, c) /\ FileOK(c) /\ FilesTyped
         /\ now[c] \in Cand /\ disk[c] \in Disk /\ now[c].place = "staging"
         /\ "destination" \notin disk[c].place
         /\ planned[c] = proc[p].plan /\ planned[c] \in Versions
         /\ planned[c] # Missing
         /\ proc[p] \in Process /\ StepOK(proc[p])
         /\ BuiltOK(proc[p], now[c], seal[c])
         /\ DurableOK(proc[p], now[c], disk[c])
<1>1. StepOK(proc[p]) /\ proc[p] \in Process /\ FilesTyped
  BY DEF IInv, Running, Files
<1>2. /\ c \in Candidates /\ now[c].place = "staging"
      /\ planned[c] = proc[p].plan /\ planned[c] \in Versions
  BY <1>1 DEF StepOK, PlaceOK
<1>3. OwnedBy(p, c) /\ planned[c] # Missing
  BY <1>2, Numbers DEF OwnedBy
<1>4. FileOK(c) /\ "destination" \notin disk[c].place
  BY <1>2, <1>3, OwnedAlone DEF IInv, Files
<1> QED BY <1>1, <1>2, <1>3, <1>4 DEF StepOK, FilesTyped

\* A directory is made for a candidate that is nobody's.
LEMMA LeastUnused ==
  ASSUME Unused # {}
  PROVE  (CHOOSE u \in Unused : \A w \in Unused : u <= w) \in Unused
<1> DEFINE R == {ss \in Nat \X Nat : ss[1] < ss[2]}
<1>1. Unused \subseteq Nat
  BY CandidateAssumption DEF Unused, Candidates
<1>2. IsWellFoundedOn(R, Nat)
  BY NatLessThanWellFounded, Zenon DEF OpToRel
<1>3. \A u, w \in Nat : w < u => <<w, u>> \in R
  <2>1. \A u, w \in Nat : <<w, u>> \in Nat \X Nat
    OBVIOUS
  <2> QED BY <2>1
<1>4. \E u \in Unused : \A w \in Unused : ~ (<<w, u>> \in R)
  <2> HIDE DEF R
  <2> QED BY <1>1, <1>2, WFMin
<1>5. \E u \in Unused : \A w \in Unused : u <= w
  <2> HIDE DEF R
  <2>1. \A u, w \in Unused : ~ (w < u) => u <= w
    BY <1>1
  <2> QED BY <1>1, <1>3, <1>4, <2>1
<1> QED BY <1>5

LEMMA CreateStagingInv ==
  ASSUME IInv, NEW p \in Procs, CreateStaging(p)
  PROVE  IInv'
<1>1. PICK c \in Unused :
        /\ Store(c, "place", "staging")
        /\ planned' = [planned EXCEPT ![c] = proc[p].plan]
        /\ proc' = [proc EXCEPT ![p].pc = "staged", ![p].cand = c]
  BY LeastUnused DEF CreateStaging
<1>2. /\ proc[p] \in Process /\ proc[p].plan \in Versions /\ FilesTyped
      /\ c \in Candidates /\ planned[c] = Missing /\ Unmade(c)
      /\ UNCHANGED <<source, foreign, seal, lock, told, troubles, disturbed>>
  BY <1>1 DEF CreateStaging, IInv, Running, StepOK, PlaceOK, Unused, World, counts,
             Files, FileOK
<1>3. PICK n \in Cand, d \in Disk :
        /\ now' = [now EXCEPT ![c] = n] /\ disk' = [disk EXCEPT ![c] = d]
        /\ n.place = "staging" /\ n.marker = now[c].marker /\ n.content = now[c].content
        /\ d.place = disk[c].place \cup {"staging"} /\ d.marker = disk[c].marker
        /\ d.content = disk[c].content
  BY <1>1, <1>2, StoredPlace DEF Places
<1>4. PICK r \in Process :
        /\ r.pc = "staged" /\ r.cand = c /\ r.plan = proc[p].plan
        /\ proc' = [proc EXCEPT ![p] = r]
  <2> DEFINE r == [proc[p] EXCEPT !.pc = "staged", !.cand = c]
  <2>1. r \in Process /\ r.pc = "staged" /\ r.cand = c /\ r.plan = proc[p].plan
    BY <1>2 DEF Process, Steps
  <2>2. proc' = [proc EXCEPT ![p] = r]
    BY <1>1 DEF IInv
  <2> QED BY <2>1, <2>2
<1>5. /\ FilesTyped' /\ OnlyOn(c) /\ now'[c] = n /\ disk'[c] = d
      /\ planned'[c] = proc[p].plan /\ seal'[c] = seal[c]
  BY <1>1, <1>2, <1>3 DEF FilesTyped, OnlyOn
<1>6. /\ n.marker = "none" /\ n.content = Nothing /\ d.place = {"none", "staging"}
      /\ d.marker = {"none"} /\ d.content = {Nothing} /\ seal[c] = Nothing
  BY <1>2, <1>3 DEF Unmade, Lost
<1>7. FileOK(c)'
  BY <1>2, <1>3, <1>5, <1>6, Numbers DEF FileOK
<1>8. StepOK(r)'
  <2>1. PlaceOK(r, now'[c], planned'[c])
    BY <1>2, <1>3, <1>4, <1>5 DEF PlaceOK, MovedSteps, TriedSteps
  <2>2. BuiltOK(r, now[c], seal[c])'
    BY <1>4, <1>5, <1>6 DEF BuiltOK
  <2>3. DurableOK(r, now'[c], disk'[c])
    BY <1>4 DEF DurableOK, StagingSteps
  <2> QED BY <1>4, <2>1, <2>2, <2>3 DEF StepOK
<1>9. RestTyped'
  BY <1>2 DEF IInv, RestTyped
<1>10. now'[c].place # "destination" /\ OwnedBy(p, c)
  BY <1>2, <1>3, <1>5 DEF OwnedBy
<1> QED BY <1>2, <1>4, <1>5, <1>7, <1>8, <1>9, <1>10, BuilderInv

\* A candidate in its staging directory without a marker of this import.
LEMMA StagedFile ==
  ASSUME NEW c \in Candidates, FileOK(c), planned[c] # Missing,
         "destination" \notin disk'[c].place,
         now'[c].place \in disk'[c].place, now'[c].marker \in disk'[c].marker,
         now'[c].content \in disk'[c].content, now'[c].marker # "exact",
         planned'[c] = planned[c], seal'[c] = seal[c]
  PROVE  FileOK(c)'
BY DEF FileOK

LEMMA BuildVaultInv ==
  ASSUME IInv, NEW p \in Procs, BuildVault(p)
  PROVE  IInv'
<1>1. PICK c : c = proc[p].cand
  OBVIOUS
<1>2. /\ proc[p].pc = "staged" /\ proc' = [proc EXCEPT ![p].pc = "built"]
      /\ Store(c, "content", With(c, {"files", "private"}, proc[p].plan))
      /\ UNCHANGED <<source, foreign, planned, seal, lock, told, troubles, disturbed>>
  BY <1>1 DEF BuildVault, World, Claim, counts
<1>3. proc[p].pc \in StagingSteps
  BY <1>2 DEF StagingSteps
<1>4. /\ c \in Candidates /\ OwnedBy(p, c) /\ FileOK(c) /\ FilesTyped
      /\ now[c] \in Cand /\ now[c].place = "staging"
      /\ "destination" \notin disk[c].place
      /\ planned[c] = proc[p].plan /\ planned[c] \in Versions
      /\ planned[c] # Missing /\ BuiltOK(proc[p], now[c], seal[c])
  BY <1>1, <1>3, Building
<1>5. PICK v \in Contents :
        /\ v["private"] = proc[p].plan /\ Store(c, "content", v)
  <2>1. now[c].content \in Contents /\ proc[p].plan \in Values
    BY <1>4, Numbers DEF Cand
  <2>2. PICK parts \in SUBSET Parts : parts = {"files", "private"}
    BY DEF Parts
  <2>3. PICK v : v = With(c, parts, proc[p].plan)
    OBVIOUS
  <2>4. v \in Contents /\ \A part \in parts : v[part] = proc[p].plan
    BY <2>1, <2>3 DEF With, Content, Contents
  <2>5. Store(c, "content", v)
    BY <1>2, <2>2, <2>3
  <2> QED BY <2>2, <2>4, <2>5
<1>6. PICK n \in Cand, d \in Disk :
        /\ now' = [now EXCEPT ![c] = n] /\ disk' = [disk EXCEPT ![c] = d]
        /\ n.place = now[c].place /\ n.marker = now[c].marker /\ n.content = v
        /\ d.place = disk[c].place /\ d.marker = disk[c].marker
        /\ d.content = disk[c].content \cup {v}
  BY <1>4, <1>5, StoredContent
<1>7. PICK r \in Process :
        /\ r.pc = "built" /\ SameWork(proc[p], r) /\ proc' = [proc EXCEPT ![p] = r]
  <2>1. PICK step \in Steps :
          step = "built" /\ proc' = [proc EXCEPT ![p].pc = step]
    BY <1>2 DEF Steps
  <2>2. proc \in [Procs -> Process]
    BY DEF IInv
  <2> QED BY <2>1, <2>2, OnwardStep
<1>8. FilesTyped' /\ OnlyOn(c) /\ now'[c] = n /\ disk'[c] = d
  BY <1>2, <1>4, <1>6 DEF FilesTyped, OnlyOn
<1>9. now[c].marker = "none" /\ r.cand = c /\ r.plan = proc[p].plan
  BY <1>1, <1>2, <1>4, <1>7 DEF BuiltOK, SameWork
<1>10. FileOK(c)'
  <2>1. /\ n.place \in d.place /\ n.marker \in d.marker /\ n.content \in d.content
        /\ "destination" \notin d.place /\ n.marker # "exact"
    BY <1>4, <1>6, <1>9 DEF FileOK
  <2> QED BY <1>2, <1>4, <1>8, <2>1, StagedFile
<1>11. StepOK(r)'
  <2>1. PlaceOK(r, now'[c], planned'[c])
    BY <1>2, <1>4, <1>6, <1>7, <1>8, <1>9 DEF PlaceOK, MovedSteps, TriedSteps
  <2>2. BuiltOK(r, now[c], seal[c])'
    BY <1>5, <1>6, <1>7, <1>8, <1>9 DEF BuiltOK
  <2>3. DurableOK(r, now'[c], disk'[c])
    BY <1>7 DEF DurableOK, StagingSteps
  <2> QED BY <1>9, <2>1, <2>2, <2>3 DEF StepOK
<1>12. RestTyped'
  BY <1>2 DEF IInv, RestTyped
<1>13. now'[c].place # "destination"
  BY <1>4, <1>6, <1>8
<1> QED BY <1>2, <1>4, <1>7, <1>8, <1>9, <1>10, <1>11, <1>12, <1>13, BuilderInv

LEMMA InitTargetInv ==
  ASSUME IInv, NEW p \in Procs, InitTarget(p)
  PROVE  IInv'
<1>1. PICK c : c = proc[p].cand
  OBVIOUS
<1>m. PICK made : made = now[c].content["files"]
  OBVIOUS
<1>2. /\ proc[p].pc = "built"
      /\ proc' = [proc EXCEPT ![p].pc = "initialized", ![p].target = made]
      /\ Store(c, "content", With(c, {"objects", "index", "ref", "control"}, made))
      /\ UNCHANGED <<source, foreign, planned, seal, lock, told, troubles, disturbed>>
  BY <1>1, <1>m DEF InitTarget, World, Claim, counts, Content
<1>3. proc[p].pc \in StagingSteps
  BY <1>2 DEF StagingSteps
<1>4. /\ c \in Candidates /\ OwnedBy(p, c) /\ FileOK(c) /\ FilesTyped
      /\ now[c] \in Cand /\ now[c].place = "staging"
      /\ "destination" \notin disk[c].place
      /\ planned[c] = proc[p].plan /\ planned[c] \in Versions
      /\ planned[c] # Missing /\ BuiltOK(proc[p], now[c], seal[c])
      /\ proc[p] \in Process
  BY <1>1, <1>3, Building
<1>c. now[c].content \in Contents /\ made \in Values
  BY <1>4, <1>m DEF Cand, Contents, Parts
<1>5. PICK v \in Contents :
        /\ v["files"] = made /\ v["control"] = made
        /\ v["private"] = now[c].content["private"] /\ Store(c, "content", v)
  <2>1. PICK parts \in SUBSET Parts : parts = {"objects", "index", "ref", "control"}
    BY DEF Parts
  <2>2. "control" \in parts /\ "files" \in Parts \ parts /\ "private" \in Parts \ parts
    BY <2>1 DEF Parts
  <2>3. PICK v : v = With(c, parts, made)
    OBVIOUS
  <2>4. /\ v \in Contents /\ \A part \in parts : v[part] = made
        /\ \A part \in Parts \ parts : v[part] = now[c].content[part]
    BY <1>c, <2>3 DEF With, Content, Contents
  <2>5. Store(c, "content", v)
    BY <1>2, <2>1, <2>3
  <2> QED BY <1>m, <2>2, <2>4, <2>5
<1>6. PICK n \in Cand, d \in Disk :
        /\ now' = [now EXCEPT ![c] = n] /\ disk' = [disk EXCEPT ![c] = d]
        /\ n.place = now[c].place /\ n.marker = now[c].marker /\ n.content = v
        /\ d.place = disk[c].place /\ d.marker = disk[c].marker
        /\ d.content = disk[c].content \cup {v}
  BY <1>4, <1>5, StoredContent
<1>7. PICK r \in Process :
        /\ r.pc = "initialized" /\ r.cand = c /\ r.plan = proc[p].plan
        /\ r.target = made /\ proc' = [proc EXCEPT ![p] = r]
  <2> DEFINE r == [proc[p] EXCEPT !.pc = "initialized", !.target = made]
  <2>1. /\ r \in Process /\ r.pc = "initialized" /\ r.cand = c
        /\ r.plan = proc[p].plan /\ r.target = made
    BY <1>1, <1>4, <1>c DEF Process, Steps
  <2>2. proc' = [proc EXCEPT ![p] = r]
    BY <1>2 DEF IInv
  <2> QED BY <2>1, <2>2
<1>8. FilesTyped' /\ OnlyOn(c) /\ now'[c] = n /\ disk'[c] = d
  BY <1>2, <1>4, <1>6 DEF FilesTyped, OnlyOn
<1>9. now[c].marker = "none" /\ v["private"] \in {r.plan, Altered}
  BY <1>2, <1>4, <1>5, <1>7 DEF BuiltOK
<1>10. FileOK(c)'
  <2>1. /\ n.place \in d.place /\ n.marker \in d.marker /\ n.content \in d.content
        /\ "destination" \notin d.place /\ n.marker # "exact"
    BY <1>4, <1>6, <1>9 DEF FileOK
  <2> QED BY <1>2, <1>4, <1>8, <2>1, StagedFile
<1>11. StepOK(r)'
  <2>1. PlaceOK(r, now'[c], planned'[c])
    BY <1>2, <1>4, <1>6, <1>7, <1>8 DEF PlaceOK, MovedSteps, TriedSteps
  <2>2. BuiltOK(r, now[c], seal[c])'
    BY <1>5, <1>6, <1>7, <1>8, <1>9 DEF BuiltOK
  <2>3. DurableOK(r, now'[c], disk'[c])
    BY <1>7 DEF DurableOK, StagingSteps
  <2> QED BY <1>7, <2>1, <2>2, <2>3 DEF StepOK
<1>12. RestTyped'
  BY <1>2 DEF IInv, RestTyped
<1>13. now'[c].place # "destination"
  BY <1>4, <1>6, <1>8
<1> QED BY <1>2, <1>4, <1>7, <1>8, <1>10, <1>11, <1>12, <1>13, BuilderInv

\* Every audit looks at the content alone.
LEMMA SoundKept ==
  ASSUME NEW c, now'[c].content = now[c].content
  PROVE  Sound(c) <=> Sound(c)'
BY DEF Sound, Manifest, TrackedEvidence, TreeEvidence, MainRef, GitControl, Content

LEMMA SyncTargetInv ==
  ASSUME IInv, NEW p \in Procs, SyncTarget(p)
  PROVE  IInv'
<1>1. PICK c : c = proc[p].cand
  OBVIOUS
<1>2. /\ proc[p].pc = "initialized" /\ proc' = [proc EXCEPT ![p].pc = "synced"]
      /\ Flush(c, "content") /\ Sound(c)
      /\ UNCHANGED <<source, foreign, planned, seal, now, lock, told, troubles, disturbed>>
  BY <1>1 DEF SyncTarget, TargetAudit, World, Claim, counts
<1>3. proc[p].pc \in StagingSteps
  BY <1>2 DEF StagingSteps
<1>4. /\ c \in Candidates /\ OwnedBy(p, c) /\ FileOK(c) /\ FilesTyped
      /\ now[c] \in Cand /\ disk[c] \in Disk /\ now[c].place = "staging"
      /\ "destination" \notin disk[c].place
      /\ planned[c] = proc[p].plan /\ planned[c] \in Versions
      /\ planned[c] # Missing /\ BuiltOK(proc[p], now[c], seal[c])
  BY <1>1, <1>3, Building
<1>5. /\ disk'[c] = [place |-> disk[c].place, marker |-> disk[c].marker,
                     content |-> {now[c].content}]
      /\ disk'[c] \in Disk
  <2>1. disk' = [disk EXCEPT ![c].content = {now[c].content}]
    BY <1>2 DEF Flush
  <2>2. disk'[c] = [disk[c] EXCEPT !.content = {now[c].content}]
    BY <1>4, <2>1 DEF FilesTyped
  <2>3. now[c].content \in Contents
    BY <1>4 DEF Cand
  <2> QED BY <1>4, <2>2, <2>3 DEF Disk
<1>6. FilesTyped' /\ OnlyOn(c)
  BY <1>2, <1>4, <1>5 DEF Flush, FilesTyped, OnlyOn
<1>7. PICK r \in Process :
        /\ r.pc = "synced" /\ SameWork(proc[p], r) /\ proc' = [proc EXCEPT ![p] = r]
  <2>1. PICK step \in Steps :
          step = "synced" /\ proc' = [proc EXCEPT ![p].pc = step]
    BY <1>2 DEF Steps
  <2>2. proc \in [Procs -> Process]
    BY DEF IInv
  <2> QED BY <2>1, <2>2, OnwardStep
<1>8. r.cand = c /\ r.plan = proc[p].plan /\ r.target = proc[p].target
  BY <1>1, <1>7 DEF SameWork
<1>9. FileOK(c)'
  <2>1. now[c].marker = "exact" /\ ~ disturbed => Reproduces(c)'
    BY <1>2, <1>4, SoundKept DEF FileOK, Reproduces, ContentSeal, Content
  <2> QED BY <1>2, <1>4, <1>5, <2>1 DEF FileOK
<1>10. StepOK(r)'
  <2>1. PlaceOK(r, now'[c], planned'[c])
    BY <1>2, <1>4, <1>7, <1>8 DEF PlaceOK, MovedSteps, TriedSteps
  <2>2. BuiltOK(r, now[c], seal[c])'
    BY <1>2, <1>4, <1>7, <1>8 DEF BuiltOK
  <2>3. DurableOK(r, now'[c], disk'[c])
    BY <1>2, <1>5, <1>7 DEF DurableOK, Sound, Manifest, Full, Content
  <2> QED BY <1>8, <2>1, <2>2, <2>3 DEF StepOK
<1>11. RestTyped'
  BY <1>2 DEF IInv, RestTyped
<1>12. now'[c].place # "destination"
  BY <1>2, <1>4
<1> QED BY <1>2, <1>4, <1>6, <1>7, <1>8, <1>9, <1>10, <1>11, <1>12, BuilderInv

\* What the audits found at the time of the seal is the plan, part by part.
LEMMA SealIsPlan ==
  ASSUME NEW content \in Contents, NEW v \in Versions,
         \A part \in Parts : content[part] = v
  PROVE  content = Whole(v)
BY DEF Contents, Whole

LEMMA AuthorizeInv ==
  ASSUME IInv, NEW p \in Procs, Authorize(p)
  PROVE  IInv'
<1>1. PICK c : c = proc[p].cand
  OBVIOUS
<1>2. /\ proc[p].pc = "audited" /\ Goto(p, "authorized")
      /\ TargetAudit(p, c) /\ VaultConfig(p, c)
      /\ lock' = [lock EXCEPT ![c] = p]
      /\ seal' = [seal EXCEPT ![c] = now[c].content]
      /\ UNCHANGED <<source, foreign, planned, now, disk, told, troubles, disturbed>>
  BY <1>1 DEF Authorize, World, counts, ContentSeal, Content
<1>3. proc[p].pc \in StagingSteps
  BY <1>2 DEF StagingSteps
<1>4. /\ c \in Candidates /\ OwnedBy(p, c) /\ FileOK(c) /\ FilesTyped
      /\ now[c] \in Cand /\ now[c].place = "staging"
      /\ "destination" \notin disk[c].place
      /\ planned[c] = proc[p].plan /\ planned[c] \in Versions
      /\ planned[c] # Missing /\ BuiltOK(proc[p], now[c], seal[c])
      /\ DurableOK(proc[p], now[c], disk[c])
  BY <1>1, <1>3, Building
<1>5. Sound(c) /\ now[c].content = Whole(planned[c])
  <2> DEFINE content == now[c].content
             v == proc[p].plan
  <2>1. /\ Sound(c) /\ content["objects"] = proc[p].target
        /\ content["files"] = proc[p].target
    BY <1>2 DEF TargetAudit, VaultConfig, Content
  <2>2. proc[p].target = v /\ content["private"] \in {v, Altered}
        /\ content["control"] \in {v, Altered}
    BY <1>2, <1>4 DEF BuiltOK
  <2>3. /\ content["private"] = v /\ content["control"] = v
        /\ content["files"] = v /\ content["index"] = v /\ content["objects"] = v
        /\ content["ref"] = v
    BY <2>1, <2>2 DEF Sound, Manifest, GitControl, MainRef, TreeEvidence,
                      TrackedEvidence, Content
  <2>4. \A part \in Parts : content[part] = v
    BY <2>3 DEF Parts
  <2>5. content \in Contents
    BY <1>4 DEF Cand
  <2> QED BY <1>4, <2>1, <2>4, <2>5, SealIsPlan
<1>6. /\ seal' \in [Candidates -> Contents] /\ seal'[c] = now[c].content
      /\ \A d \in Candidates \ {c} : seal'[d] = seal[d]
  BY <1>2, <1>4 DEF FilesTyped, Cand
<1>7. FilesTyped' /\ OnlyOn(c)
  BY <1>2, <1>4, <1>6 DEF FilesTyped, OnlyOn
<1>8. PICK r \in Process :
        /\ r.pc = "authorized" /\ SameWork(proc[p], r) /\ proc' = [proc EXCEPT ![p] = r]
  <2>1. PICK step \in Steps : step = "authorized" /\ Goto(p, step)
    BY <1>2 DEF Steps
  <2>2. proc \in [Procs -> Process]
    BY DEF IInv
  <2> QED BY <2>1, <2>2, OnwardGoto
<1>9. r.cand = c /\ r.plan = proc[p].plan
  BY <1>1, <1>8 DEF SameWork
<1>10. FileOK(c)'
  <2>1. Reproduces(c)'
    BY <1>2, <1>5, <1>6, SoundKept DEF Reproduces, ContentSeal, Content
  <2>2. seal'[c] \in {Nothing, Whole(planned'[c])}
    BY <1>2, <1>5, <1>6
  <2> QED BY <1>2, <1>4, <2>1, <2>2 DEF FileOK
<1>11. StepOK(r)'
  <2>1. PlaceOK(r, now'[c], planned'[c])
    BY <1>2, <1>4, <1>8, <1>9 DEF PlaceOK, MovedSteps, TriedSteps
  <2>2. Sound(r.cand)'
    BY <1>2, <1>5, <1>9, SoundKept
  <2>3. BuiltOK(r, now[c], seal[c])'
    BY <1>2, <1>6, <1>8, <2>2 DEF BuiltOK
  <2>4. DurableOK(r, now'[c], disk'[c])
    BY <1>2, <1>4, <1>8 DEF DurableOK, StagingSteps
  <2> QED BY <1>9, <2>1, <2>3, <2>4 DEF StepOK
<1>12. RestTyped'
  BY <1>2, <1>4 DEF IInv, RestTyped
<1>13. now'[c].place # "destination"
  BY <1>2, <1>4
<1> QED BY <1>2, <1>4, <1>7, <1>8, <1>9, <1>10, <1>11, <1>12, <1>13, BuilderInv

LEMMA CreateMarkerInv ==
  ASSUME IInv, NEW p \in Procs, CreateMarker(p)
  PROVE  IInv'
<1>1. PICK c : c = proc[p].cand
  OBVIOUS
<1>2. /\ proc[p].pc = "authorized" /\ Goto(p, "marking")
      /\ Store(c, "marker", "empty")
      /\ UNCHANGED <<source, foreign, planned, seal, lock, told, troubles, disturbed>>
  BY <1>1 DEF CreateMarker, World, Claim, counts
<1>3. proc[p].pc \in StagingSteps
  BY <1>2 DEF StagingSteps
<1>4. /\ c \in Candidates /\ OwnedBy(p, c) /\ FileOK(c) /\ FilesTyped
      /\ now[c] \in Cand /\ now[c].place = "staging"
      /\ "destination" \notin disk[c].place
      /\ planned[c] = proc[p].plan /\ planned[c] \in Versions
      /\ planned[c] # Missing /\ BuiltOK(proc[p], now[c], seal[c])
      /\ DurableOK(proc[p], now[c], disk[c])
  BY <1>1, <1>3, Building
<1>5. PICK n \in Cand, d \in Disk :
        /\ now' = [now EXCEPT ![c] = n] /\ disk' = [disk EXCEPT ![c] = d]
        /\ n.place = now[c].place /\ n.marker = "empty" /\ n.content = now[c].content
        /\ d.place = disk[c].place /\ d.marker = disk[c].marker \cup {"empty"}
        /\ d.content = disk[c].content
  BY <1>2, <1>4, StoredMarker DEF Markers
<1>6. FilesTyped' /\ OnlyOn(c) /\ now'[c] = n /\ disk'[c] = d
  BY <1>2, <1>4, <1>5 DEF FilesTyped, OnlyOn
<1>7. PICK r \in Process :
        /\ r.pc = "marking" /\ SameWork(proc[p], r) /\ proc' = [proc EXCEPT ![p] = r]
  <2>1. PICK step \in Steps : step = "marking" /\ Goto(p, step)
    BY <1>2 DEF Steps
  <2>2. proc \in [Procs -> Process]
    BY DEF IInv
  <2> QED BY <2>1, <2>2, OnwardGoto
<1>8. r.cand = c /\ r.plan = proc[p].plan
  BY <1>1, <1>7 DEF SameWork
<1>9. FileOK(c)'
  <2>1. /\ n.place \in d.place /\ n.marker \in d.marker /\ n.content \in d.content
        /\ "destination" \notin d.place /\ n.marker # "exact"
    BY <1>4, <1>5 DEF FileOK
  <2> QED BY <1>2, <1>4, <1>6, <2>1, StagedFile
<1>10. StepOK(r)'
  <2>1. PlaceOK(r, now'[c], planned'[c])
    BY <1>2, <1>4, <1>5, <1>6, <1>7, <1>8 DEF PlaceOK, MovedSteps, TriedSteps
  <2>2. BuiltOK(r, now[c], seal[c])'
    BY <1>1, <1>2, <1>4, <1>5, <1>6, <1>7, <1>8, SoundKept DEF BuiltOK
  <2>3. DurableOK(r, now'[c], disk'[c])
    BY <1>2, <1>4, <1>5, <1>6, <1>7 DEF DurableOK, StagingSteps
  <2> QED BY <1>8, <2>1, <2>2, <2>3 DEF StepOK
<1>11. RestTyped'
  BY <1>2 DEF IInv, RestTyped
<1>12. now'[c].place # "destination"
  BY <1>4, <1>5, <1>6
<1> QED BY <1>2, <1>4, <1>6, <1>7, <1>8, <1>9, <1>10, <1>11, <1>12, BuilderInv

\* The canonical marker is there, and may or may not be the only one that a
\* power loss leaves: the claim agrees with its seal.
LEMMA Marked ==
  ASSUME IInv, NEW p \in Procs, proc[p].pc = "marking", NEW c, c = proc[p].cand,
         NEW n \in Cand, NEW d \in Disk,
         Becomes(c, n, d), n.place = now[c].place, n.marker = "exact", n.content = now[c].content,
         d.place = disk[c].place, n.marker \in d.marker, d.content = disk[c].content,
         UNCHANGED <<planned, seal, disturbed>>
  PROVE  /\ FilesTyped' /\ OnlyOn(c) /\ FileOK(c)' /\ now'[c] = n /\ disk'[c] = d
         /\ c \in Candidates /\ OwnedBy(p, c) /\ n.place = "staging"
         /\ planned'[c] = proc[p].plan /\ proc[p].plan \in Versions
         /\ \A left \in d.content : Full(left)
<1>1. proc[p].pc \in StagingSteps
  BY DEF StagingSteps
<1>2. /\ c \in Candidates /\ OwnedBy(p, c) /\ FileOK(c) /\ FilesTyped
      /\ now[c] \in Cand /\ now[c].place = "staging"
      /\ "destination" \notin disk[c].place
      /\ planned[c] = proc[p].plan /\ planned[c] \in Versions
      /\ planned[c] # Missing /\ BuiltOK(proc[p], now[c], seal[c])
      /\ DurableOK(proc[p], now[c], disk[c])
  BY <1>1, Building
<1>3. FilesTyped' /\ OnlyOn(c) /\ now'[c] = n /\ disk'[c] = d
  BY <1>2 DEF FilesTyped, OnlyOn, Becomes
<1>4. ~ disturbed => Reproduces(c)'
  <2>1. ~ disturbed => Sound(c) /\ now[c].content = seal[c]
    BY <1>2 DEF BuiltOK
  <2>2. ~ disturbed => Sound(c)'
    BY <1>3, <2>1, SoundKept
  <2> QED BY <1>3, <2>1, <2>2 DEF Reproduces, ContentSeal, Content
<1>5. FileOK(c)'
  BY <1>2, <1>3, <1>4 DEF FileOK
<1>6. \A left \in d.content : Full(left)
  BY <1>2 DEF DurableOK, StagingSteps
<1> QED BY <1>2, <1>3, <1>5, <1>6

LEMMA SealMarkerInv ==
  ASSUME IInv, NEW p \in Procs, SealMarker(p)
  PROVE  IInv'
<1>1. PICK c : c = proc[p].cand
  OBVIOUS
<1>2. /\ proc[p].pc = "marking" /\ Goto(p, "marked")
      /\ now' = [now EXCEPT ![c].marker = "exact"]
      /\ disk' = [disk EXCEPT ![c].marker = {"exact"}]
      /\ UNCHANGED <<source, foreign, planned, seal, lock, told, troubles, disturbed>>
  BY <1>1 DEF SealMarker, World, Claim, counts
<1>3. proc[p].pc \in StagingSteps
  BY <1>2 DEF StagingSteps
<1>4. c \in Candidates /\ FilesTyped /\ now[c] \in Cand /\ disk[c] \in Disk
  BY <1>1, <1>3, Building
<1>5. PICK n \in Cand, d \in Disk :
        /\ now' = [now EXCEPT ![c] = n] /\ disk' = [disk EXCEPT ![c] = d]
        /\ n.place = now[c].place /\ n.marker = "exact" /\ n.content = now[c].content
        /\ d.place = disk[c].place /\ d.marker = {"exact"}
        /\ d.content = disk[c].content
  <2> DEFINE n == [now[c] EXCEPT !.marker = "exact"]
             d == [disk[c] EXCEPT !.marker = {"exact"}]
  <2>1. n \in Cand /\ n.place = now[c].place /\ n.marker = "exact" /\ n.content = now[c].content
    BY <1>4 DEF Cand, Markers
  <2>2. /\ d \in Disk /\ d.place = disk[c].place /\ d.marker = {"exact"}
        /\ d.content = disk[c].content
    BY <1>4 DEF Disk, Markers
  <2>3. now' = [now EXCEPT ![c] = n] /\ disk' = [disk EXCEPT ![c] = d]
    BY <1>2, <1>4 DEF FilesTyped
  <2> QED BY <2>1, <2>2, <2>3
<1>6. /\ FilesTyped' /\ OnlyOn(c) /\ FileOK(c)' /\ now'[c] = n /\ disk'[c] = d
      /\ OwnedBy(p, c) /\ n.place = "staging"
      /\ planned'[c] = proc[p].plan /\ proc[p].plan \in Versions
      /\ \A left \in d.content : Full(left)
  <2>1. /\ n.marker \in d.marker /\ UNCHANGED <<planned, seal, disturbed>>
        /\ Becomes(c, n, d)
    BY <1>2, <1>5 DEF Becomes
  <2> QED BY <1>1, <1>2, <1>5, <2>1, Marked
<1>7. PICK r \in Process :
        /\ r.pc = "marked" /\ SameWork(proc[p], r) /\ proc' = [proc EXCEPT ![p] = r]
  <2>1. PICK step \in Steps : step = "marked" /\ Goto(p, step)
    BY <1>2 DEF Steps
  <2>2. proc \in [Procs -> Process]
    BY DEF IInv
  <2> QED BY <2>1, <2>2, OnwardGoto
<1>8. r.cand = c /\ r.plan = proc[p].plan
  BY <1>1, <1>7 DEF SameWork
<1>9. StepOK(r)'
  <2>1. PlaceOK(r, now'[c], planned'[c])
    BY <1>4, <1>6, <1>7, <1>8 DEF PlaceOK, MovedSteps, TriedSteps
  <2>2. BuiltOK(r, now[c], seal[c])'
    BY <1>7 DEF BuiltOK
  <2>3. DurableOK(r, now'[c], disk'[c])
    BY <1>5, <1>6, <1>7 DEF DurableOK
  <2> QED BY <1>8, <2>1, <2>2, <2>3 DEF StepOK
<1>10. RestTyped'
  BY <1>2 DEF IInv, RestTyped
<1>11. now'[c].place # "destination"
  BY <1>6
<1> QED BY <1>2, <1>4, <1>6, <1>7, <1>8, <1>9, <1>10, <1>11, BuilderInv

\* A command that gives up: its terminal is not success.
LEMMA FailTells ==
  ASSUME RestTyped, NEW p \in Procs, NEW kind, Fail(p, kind)
  PROVE  /\ proc' = [proc EXCEPT ![p] = Idle]
         /\ lock' \in [Candidates -> Procs \cup {NoProc}]
         /\ told' \in [Candidates -> Terminals]
         /\ \A c \in Candidates : told'[c] = "Complete" => told[c] = "Complete"
<1>1. /\ ImportTerminal(kind) \in Terminals \ {"Complete"}
      /\ ReconcileTerminal(kind) \in Terminals \ {"Complete"}
  BY DEF ImportTerminal, ReconcileTerminal, Terminals
<1>2. PICK t \in Terminals \ {"Complete"} : Exit(p, t)
  BY <1>1 DEF Fail
<1> QED BY <1>2 DEF Exit, RestTyped

LEMMA ClaimFailsInv ==
  ASSUME IInv, NEW p \in Procs, ClaimFails(p)
  PROVE  IInv'
<1>1. PICK c : c = proc[p].cand
  OBVIOUS
<1>2. Fail(p, "InitialClaimRejected") /\ UNCHANGED <<World, Claim>>
  BY DEF ClaimFails
<1>3. \/ UNCHANGED <<now, disk>> /\ (Faulty \/ UNCHANGED counts)
      \/ proc[p].pc = "marking" /\ Faulty /\ Store(c, "marker", "exact")
  BY <1>1 DEF ClaimFails
<1>4. CASE UNCHANGED <<now, disk>> /\ (Faulty \/ UNCHANGED counts)
  <2>1. Quiet
    BY <1>2, <1>4, QuietCalm
  <2> QED BY <1>2, <2>1, FailInv
<1>5. CASE proc[p].pc = "marking" /\ Faulty /\ Store(c, "marker", "exact")
  <2>1. proc[p].pc \in StagingSteps
    BY <1>5 DEF StagingSteps
  <2>2. c \in Candidates /\ FilesTyped
    BY <1>1, <2>1, Building
  <2>3. PICK n \in Cand, d \in Disk :
          /\ now' = [now EXCEPT ![c] = n] /\ disk' = [disk EXCEPT ![c] = d]
          /\ n.place = now[c].place /\ n.marker = "exact" /\ n.content = now[c].content
          /\ d.place = disk[c].place /\ d.marker = disk[c].marker \cup {"exact"}
          /\ d.content = disk[c].content
    BY <1>5, <2>2, StoredMarker DEF Markers
  <2>4. UNCHANGED <<source, foreign, planned, seal, disturbed>>
    BY <1>2, <1>5 DEF World, Claim, Faulty, Harmless
  <2>5. /\ FilesTyped' /\ OnlyOn(c) /\ FileOK(c)' /\ now'[c] = n
        /\ OwnedBy(p, c) /\ n.place = "staging"
    <3>1. /\ n.marker \in d.marker /\ UNCHANGED <<planned, seal, disturbed>>
          /\ Becomes(c, n, d)
      BY <2>3, <2>4 DEF Becomes
    <3>2. proc[p].pc = "marking"
      BY <1>5
    <3> QED BY <1>1, <2>3, <3>1, <3>2, Marked
  <2>6. /\ proc' = [proc EXCEPT ![p] = Idle]
        /\ lock' \in [Candidates -> Procs \cup {NoProc}]
        /\ told' \in [Candidates -> Terminals]
        /\ \A e \in Candidates : told'[e] = "Complete" => told[e] = "Complete"
    BY <1>2, FailTells DEF IInv
  <2>7. RestTyped'
    BY <1>5, <2>4, <2>6, BoundAssumption DEF IInv, RestTyped, Faulty, Harmless, Trouble
  <2>8. PICK r \in Process : r = Idle
    BY IdleOK
  <2>9. StepOK(r)' /\ r.pc = "idle" /\ proc' = [proc EXCEPT ![p] = r]
    BY <2>6, <2>8, IdleAfter DEF Idle
  <2>10. now'[c].place # "destination" /\ r.pc \notin StagingSteps
    BY <2>5, <2>9 DEF StagingSteps
  <2> QED BY <2>2, <2>4, <2>5, <2>6, <2>7, <2>9, <2>10, BuilderInv
<1> QED BY <1>3, <1>4, <1>5

\* The move: what it publishes is whole on disk, and its claim is durable.
LEMMA Moved ==
  ASSUME IInv, NEW p \in Procs, proc[p].pc = "reviewed", NEW c, c = proc[p].cand,
         NEW n \in Cand, NEW d \in Disk,
         Becomes(c, n, d), n.place = "destination", n.marker = now[c].marker,
         n.content = now[c].content, n.place \in d.place,
         d.marker = disk[c].marker, d.content = disk[c].content,
         UNCHANGED <<planned, seal, disturbed>>
  PROVE  /\ FilesTyped' /\ OnlyOn(c) /\ FileOK(c)' /\ now'[c] = n
         /\ c \in Candidates /\ OwnedBy(p, c)
<1>1. proc[p].pc \in StagingSteps
  BY DEF StagingSteps
<1>2. /\ c \in Candidates /\ OwnedBy(p, c) /\ FileOK(c) /\ FilesTyped
      /\ now[c] \in Cand /\ planned[c] # Missing
      /\ DurableOK(proc[p], now[c], disk[c])
  BY <1>1, Building
<1>3. FilesTyped' /\ OnlyOn(c) /\ now'[c] = n /\ disk'[c] = d
  BY <1>2 DEF FilesTyped, OnlyOn, Becomes
<1>4. disk[c].marker = {"exact"} /\ \A left \in disk[c].content : Full(left)
  BY <1>2 DEF DurableOK, StagingSteps
<1>5. ~ disturbed /\ now'[c].marker = "exact" => Reproduces(c)'
  <2>1. Reproduces(c) => Reproduces(c)'
    BY <1>3, SoundKept DEF Reproduces, ContentSeal, Content
  <2> QED BY <1>2, <1>3, <2>1 DEF FileOK
<1>6. FileOK(c)'
  BY <1>2, <1>3, <1>4, <1>5 DEF FileOK
<1> QED BY <1>2, <1>3, <1>6

LEMMA MoveInv ==
  ASSUME IInv, NEW p \in Procs, Move(p)
  PROVE  IInv'
<1>1. PICK c : c = proc[p].cand
  OBVIOUS
<1>r. PICK r \in Process :
        /\ r.pc = "moved" /\ SameWork(proc[p], r) /\ proc' = [proc EXCEPT ![p] = r]
  <2>1. PICK step \in Steps :
          step = "moved" /\ proc' = [proc EXCEPT ![p].pc = step]
    BY DEF Move, Steps
  <2>2. proc \in [Procs -> Process]
    BY DEF IInv
  <2> QED BY <2>1, <2>2, OnwardStep
<1>2. PICK left \in {disk[c].place \cup {"destination"}, {"destination"}} :
        /\ proc[p].pc = "reviewed" /\ proc' = [proc EXCEPT ![p].pc = "moved"]
        /\ now' = [now EXCEPT ![c].place = "destination"]
        /\ disk' = [disk EXCEPT ![c].place = left]
        /\ UNCHANGED <<source, foreign, planned, seal, lock, told, troubles, disturbed>>
        /\ DestinationAbsent
  BY <1>1 DEF Move, World, Claim, counts
<1>3. proc[p].pc \in StagingSteps
  BY <1>2 DEF StagingSteps
<1>4. c \in Candidates /\ FilesTyped /\ now[c] \in Cand /\ disk[c] \in Disk
  BY <1>1, <1>3, Building
<1>5. PICK n \in Cand, d \in Disk :
        /\ Becomes(c, n, d)
        /\ n.place = "destination" /\ n.marker = now[c].marker
        /\ n.content = now[c].content
        /\ d.place = left /\ d.marker = disk[c].marker /\ d.content = disk[c].content
  <2> DEFINE n == [now[c] EXCEPT !.place = "destination"]
             d == [disk[c] EXCEPT !.place = left]
  <2>1. /\ n \in Cand /\ n.place = "destination" /\ n.marker = now[c].marker
        /\ n.content = now[c].content
    BY <1>4 DEF Cand, Places
  <2>2. left \in SUBSET Places
    BY <1>4 DEF Disk, Places
  <2>3. /\ d \in Disk /\ d.place = left /\ d.marker = disk[c].marker
        /\ d.content = disk[c].content
    BY <1>4, <2>2 DEF Disk
  <2>4. Becomes(c, n, d)
    BY <1>2, <1>4 DEF FilesTyped, Becomes
  <2> QED BY <2>1, <2>3, <2>4
<1>6. /\ FilesTyped' /\ OnlyOn(c) /\ FileOK(c)' /\ now'[c] = n /\ OwnedBy(p, c)
  <2>1. n.place \in d.place /\ UNCHANGED <<planned, seal, disturbed>>
    BY <1>2, <1>5
  <2>2. proc[p].pc = "reviewed"
    BY <1>2
  <2> QED BY <1>1, <1>5, <2>1, <2>2, Moved
<1>8. r.cand = c
  BY <1>1, <1>r DEF SameWork
<1>9. StepOK(r)'
  <2>1. PlaceOK(r, now'[c], planned'[c])
    BY <1>4, <1>5, <1>6, <1>r, <1>8 DEF PlaceOK, StagingSteps, TriedSteps
  <2>2. BuiltOK(r, now[c], seal[c])'
    BY <1>r DEF BuiltOK
  <2>3. DurableOK(r, now'[c], disk'[c])
    BY <1>r DEF DurableOK, StagingSteps
  <2> QED BY <1>8, <2>1, <2>2, <2>3 DEF StepOK
<1>10. RestTyped'
  BY <1>2 DEF IInv, RestTyped
<1> QED BY <1>2, <1>4, <1>6, <1>r, <1>8, <1>9, <1>10, BuilderInv

LEMMA MoveUnknownInv ==
  ASSUME IInv, NEW p \in Procs, MoveUnknown(p)
  PROVE  IInv'
<1>1. PICK c : c = proc[p].cand
  OBVIOUS
<1>2. /\ proc[p].pc = "reviewed" /\ DestinationAbsent /\ Faulty
      /\ Store(c, "place", "destination")
      /\ Fail(p, "PublicationIndeterminate")
      /\ UNCHANGED <<source, foreign, planned, seal, disturbed>>
  BY <1>1 DEF MoveUnknown, World, Claim, Faulty, Harmless
<1>3. proc[p].pc \in StagingSteps
  BY <1>2 DEF StagingSteps
<1>4. c \in Candidates /\ FilesTyped
  BY <1>1, <1>3, Building
<1>5. PICK n \in Cand, d \in Disk :
        /\ now' = [now EXCEPT ![c] = n] /\ disk' = [disk EXCEPT ![c] = d]
        /\ n.place = "destination" /\ n.marker = now[c].marker
        /\ n.content = now[c].content
        /\ d.place = disk[c].place \cup {"destination"} /\ d.marker = disk[c].marker
        /\ d.content = disk[c].content
  BY <1>2, <1>4, StoredPlace DEF Places
<1>6. /\ FilesTyped' /\ OnlyOn(c) /\ FileOK(c)' /\ OwnedBy(p, c)
  <2>1. /\ n.place \in d.place /\ UNCHANGED <<planned, seal, disturbed>>
        /\ Becomes(c, n, d)
    BY <1>2, <1>5 DEF Becomes
  <2>2. proc[p].pc = "reviewed"
    BY <1>2
  <2> QED BY <1>1, <1>5, <2>1, <2>2, Moved
<1>7. /\ proc' = [proc EXCEPT ![p] = Idle]
      /\ lock' \in [Candidates -> Procs \cup {NoProc}]
      /\ told' \in [Candidates -> Terminals]
      /\ \A e \in Candidates : told'[e] = "Complete" => told[e] = "Complete"
  BY <1>2, FailTells DEF IInv
<1>8. RestTyped'
  BY <1>2, <1>7, BoundAssumption DEF IInv, RestTyped, Faulty, Harmless, Trouble
<1>9. PICK r \in Process : r = Idle
  BY IdleOK
<1>10. StepOK(r)' /\ r.pc = "idle" /\ proc' = [proc EXCEPT ![p] = r]
  BY <1>7, <1>9, IdleAfter DEF Idle
<1>11. r.pc \notin StagingSteps
  BY <1>10 DEF StagingSteps
<1> QED BY <1>2, <1>4, <1>6, <1>7, <1>8, <1>10, <1>11, BuilderInv

-----------------------------------------------------------------------------
(* The world.                                                              *)

\* Nothing that a command or a candidate depends on changes.
LEMMA EditSourceInv ==
  ASSUME IInv, EditSource
  PROVE  IInv'
<1>1. UNCHANGED <<foreign, planned, seal, now, disk, lock, proc, told, troubles, disturbed>>
  BY DEF EditSource, Claim, counts
<1>2. source' \in [head : Versions, index : Versions, files : Versions]
  <2>1. source \in [head : Versions, index : Versions, files : Versions]
    BY DEF IInv, RestTyped
  <2>2. CASE source.files \in 1 .. MaxEdits /\ source' = [source EXCEPT !.files = @ + 1]
    <3>1. source.files + 1 \in Versions
      BY <2>2, BoundAssumption DEF Versions
    <3> QED BY <2>1, <2>2, <3>1
  <2>3. CASE source' = [source EXCEPT !.index = source.files]
    BY <2>1, <2>3
  <2>4. CASE source' = [source EXCEPT !.head = source.index]
    BY <2>1, <2>4
  <2> QED BY <2>2, <2>3, <2>4 DEF EditSource
<1>3. RestTyped'
  BY <1>1, <1>2 DEF IInv, RestTyped
<1>4. Calm
  BY <1>1 DEF Calm
<1>5. /\ Files' /\ \A x \in Process : StepOK(x) => StepOK(x)'
  BY <1>1, <1>4, CalmFiles DEF IInv, RestTyped
<1>6. Running'
  BY <1>1, <1>5 DEF IInv, Running, OneBuilder
<1>7. SuccessIsSettled'
  BY <1>1 DEF IInv, SuccessIsSettled
<1> QED BY <1>1, <1>3, <1>5, <1>6, <1>7 DEF IInv

LEMMA MakeForeignInv ==
  ASSUME IInv, MakeForeign
  PROVE  IInv'
<1>1. /\ UNCHANGED <<source, planned, seal, now, disk, lock, proc, told, disturbed>>
      /\ foreign' = TRUE /\ DestinationAbsent /\ troubles' \in 0 .. MaxTroubles
  BY BoundAssumption DEF MakeForeign, Claim, Harmless, Trouble, IInv, RestTyped
<1>2. RestTyped'
  BY <1>1 DEF IInv, RestTyped
<1>3. Calm
  BY <1>1 DEF Calm
<1>4. /\ FilesTyped' /\ \A c \in Candidates : FileOK(c)'
      /\ \A x \in Process : StepOK(x) => StepOK(x)'
  BY <1>1, <1>3, CalmFiles DEF IInv, RestTyped
<1>5. OneOccupant'
  <2>1. \A c \in Candidates : now[c].place # "destination"
    BY <1>1, AtDestination DEF IInv, Files, RestTyped
  <2> QED BY <1>1, <2>1 DEF OneOccupant
<1>6. Running'
  BY <1>1, <1>4 DEF IInv, Running, OneBuilder
<1>7. SuccessIsSettled'
  BY <1>1 DEF IInv, SuccessIsSettled
<1> QED BY <1>1, <1>2, <1>4, <1>5, <1>6, <1>7 DEF IInv, Files

\* Another content takes the place of that of candidate c.
LEMMA ContentInv ==
  ASSUME IInv, NEW c \in Candidates, NEW n \in Cand, NEW d \in Disk,
         Becomes(c, n, d), n.place = now[c].place, n.marker = now[c].marker,
         d.place = disk[c].place, d.marker = disk[c].marker,
         UNCHANGED <<planned, seal, foreign, proc, told>>, RestTyped',
         disturbed => disturbed', FileOK(c)',
         \A x \in Process : x.cand = c /\ StepOK(x) => StepOK(x)'
  PROVE  IInv'
<1>1. /\ FilesTyped /\ OneOccupant /\ disturbed \in BOOLEAN /\ disturbed' \in BOOLEAN
      /\ \A e \in Candidates : FileOK(e)
  BY DEF IInv, Files, RestTyped
<1>2. FilesTyped' /\ OnlyOn(c) /\ now'[c] = n /\ disk'[c] = d
  BY <1>1 DEF FilesTyped, OnlyOn, Becomes
<1>3. ASSUME NEW e \in Candidates PROVE FileOK(e)'
  <2>1. CASE e = c
    BY <2>1
  <2>2. CASE e # c
    BY <1>1, <1>2, <2>2, FileFrame DEF OnlyOn
  <2> QED BY <2>1, <2>2
<1>4. /\ \A e \in Candidates : now'[e].place = now[e].place
      /\ \A e \in Candidates : /\ disk'[e].place = disk[e].place
                               /\ disk'[e].marker = disk[e].marker
  BY <1>2 DEF OnlyOn
<1>5. OneOccupant' /\ SuccessIsSettled'
  BY <1>1, <1>4 DEF OneOccupant, SuccessIsSettled, IInv
<1>6. ASSUME NEW x \in Process, StepOK(x) PROVE StepOK(x)'
  <2>1. CASE x.cand = c
    BY <1>6, <2>1
  <2>2. CASE x.cand # c
    BY <1>1, <1>2, <1>6, <2>2, StepFrame DEF OnlyOn
  <2> QED BY <2>1, <2>2
<1>7. Running'
  BY <1>6 DEF IInv, Running, OneBuilder
<1> QED BY <1>2, <1>3, <1>5, <1>7 DEF IInv, Files

\* A part that another program alters is not missing, and whatever depends on
\* the content counts on no more as soon as something was disturbed.
LEMMA AlterInv ==
  ASSUME IInv, NEW c \in Candidates, Alter(c)
  PROVE  IInv'
<1>1. PICK part \in Parts : Store(c, "content", With(c, {part}, Altered))
  BY DEF Alter
<1>2. /\ UNCHANGED <<source, foreign, planned, seal, lock, proc, told>>
      /\ disturbed' = TRUE /\ troubles' \in 0 .. MaxTroubles /\ now[c].place # "none"
  BY BoundAssumption
     DEF Alter, World, Claim, Disturbing, Trouble, IInv, RestTyped
<1>3. /\ FilesTyped /\ FileOK(c) /\ now[c] \in Cand /\ now[c].content \in Contents
      /\ now[c].content \in disk[c].content
  BY DEF IInv, Files, FilesTyped, Cand, FileOK
<1>4. PICK v : v = With(c, {part}, Altered)
  OBVIOUS
<1>5. /\ v \in Contents /\ v[part] = Altered
      /\ \A other \in Parts : v[other] \in {now[c].content[other], Altered}
  BY <1>3, <1>4, Numbers DEF With, Content, Contents
<1>6. PICK n \in Cand, d \in Disk :
        /\ now' = [now EXCEPT ![c] = n] /\ disk' = [disk EXCEPT ![c] = d]
        /\ n.place = now[c].place /\ n.marker = now[c].marker /\ n.content = v
        /\ d.place = disk[c].place /\ d.marker = disk[c].marker
        /\ d.content = disk[c].content \cup {v}
  BY <1>1, <1>3, <1>4, <1>5, StoredContent
<1>7. /\ Becomes(c, n, d) /\ now'[c] = n /\ disk'[c] = d
  BY <1>3, <1>6 DEF Becomes, FilesTyped
<1>8. (\A left \in disk[c].content : Full(left)) => \A left \in d.content : Full(left)
  BY <1>3, <1>5, <1>6, Numbers DEF Full
<1>9. planned[c] # Missing
  BY <1>2, <1>3 DEF FileOK, Unmade, Lost
<1>10. FileOK(c)'
  BY <1>2, <1>3, <1>6, <1>7, <1>8, <1>9 DEF FileOK
<1>11. ASSUME NEW x \in Process, x.cand = c, StepOK(x) PROVE StepOK(x)'
  <2>1. /\ PlaceOK(x, now[c], planned[c]) /\ BuiltOK(x, now[c], seal[c])
        /\ DurableOK(x, now[c], disk[c])
    BY <1>11 DEF StepOK
  <2>2. PlaceOK(x, now'[c], planned'[c])
    BY <1>2, <1>6, <1>7, <2>1 DEF PlaceOK
  <2>3. BuiltOK(x, now[c], seal[c])'
    BY <1>2, <1>5, <1>6, <1>7, <2>1 DEF BuiltOK, Parts
  <2>4. DurableOK(x, now'[c], disk'[c])
    BY <1>6, <1>7, <1>8, <2>1 DEF DurableOK
  <2> QED BY <1>11, <2>2, <2>3, <2>4 DEF StepOK
<1>12. RestTyped'
  BY <1>2 DEF IInv, RestTyped
<1> QED BY <1>2, <1>6, <1>7, <1>10, <1>11, <1>12, ContentInv

\* A document is written to a vault without a marker, which no command builds.
LEMMA WriteDocumentInv ==
  ASSUME IInv, NEW c \in Candidates, WriteDocument(c)
  PROVE  IInv'
<1>1. /\ UNCHANGED <<source, foreign, planned, seal, lock, proc, told, disturbed>>
      /\ troubles' \in 0 .. MaxTroubles
      /\ Occupant = c /\ MarkerState(c) = "Absent" /\ Manifest(c)
      /\ now' = [now EXCEPT ![c].content["files"] = Altered]
      /\ disk' = [disk EXCEPT ![c].content = {now'[c].content}]
  BY BoundAssumption
     DEF WriteDocument, World, Claim, Harmless, Trouble, IInv, RestTyped
<1>2. /\ FilesTyped /\ FileOK(c) /\ now[c] \in Cand /\ disk[c] \in Disk
      /\ now[c].content \in Contents
  BY DEF IInv, Files, FilesTyped, Cand
<1>3. now[c].place = "destination" /\ now[c].marker = "none"
  <2>1. now[c].place = "destination"
    BY <1>1, AtDestination DEF IInv, Files, RestTyped
  <2>2. now[c].marker = "none"
    BY <1>1, Numbers DEF MarkerState
  <2> QED BY <2>1, <2>2
<1>4. PICK v \in Contents :
        /\ v = [now[c].content EXCEPT !["files"] = Altered] /\ Full(v)
  <2>1. [now[c].content EXCEPT !["files"] = Altered] \in Contents
    BY <1>2, Numbers DEF Contents
  <2>2. Full([now[c].content EXCEPT !["files"] = Altered])
    BY <1>1, <1>2, Numbers DEF Full, Manifest, Content, Contents
  <2> QED BY <2>1, <2>2
<1>5. PICK n \in Cand : n = [now[c] EXCEPT !.content = v]
  BY <1>2 DEF Cand
<1>6. PICK d \in Disk : d = [disk[c] EXCEPT !.content = {v}]
  BY <1>2 DEF Disk
<1>7. /\ n.place = now[c].place /\ n.marker = now[c].marker /\ n.content = v
      /\ d.place = disk[c].place /\ d.marker = disk[c].marker /\ d.content = {v}
  BY <1>2, <1>5, <1>6 DEF Cand, Disk
<1>8. now' = [now EXCEPT ![c] = n] /\ now'[c] = n
  BY <1>1, <1>2, <1>4, <1>5 DEF FilesTyped
<1>9. disk' = [disk EXCEPT ![c] = d] /\ disk'[c] = d
  BY <1>1, <1>2, <1>6, <1>7, <1>8 DEF FilesTyped
<1>10. planned[c] # Missing
  BY <1>2, <1>3 DEF FileOK, Unmade, Lost
<1>11. FileOK(c)'
  BY <1>1, <1>2, <1>3, <1>4, <1>7, <1>8, <1>9, <1>10 DEF FileOK
<1>12. ASSUME NEW x \in Process, x.cand = c, StepOK(x) PROVE StepOK(x)'
  <2>1. x.pc \notin StagingSteps
    BY <1>3, <1>12 DEF StepOK, PlaceOK
  <2>2. PlaceOK(x, now'[c], planned'[c])
    BY <1>1, <1>7, <1>8, <1>12 DEF StepOK, PlaceOK
  <2>3. BuiltOK(x, now[c], seal[c])'
    BY <2>1 DEF BuiltOK, StagingSteps
  <2>4. DurableOK(x, now'[c], disk'[c])
    BY <1>7, <1>8, <1>9, <1>12, <2>1 DEF StepOK, DurableOK, StagingSteps
  <2> QED BY <1>12, <2>2, <2>3, <2>4 DEF StepOK
<1>13. RestTyped'
  BY <1>1 DEF IInv, RestTyped
<1>14. Becomes(c, n, d)
  BY <1>8, <1>9 DEF Becomes
<1> QED BY <1>1, <1>7, <1>11, <1>12, <1>13, <1>14, ContentInv

\* A survivor of a power loss.
LEMMA SurvivorOf ==
  ASSUME FilesTyped, NEW c \in Candidates, NEW s \in Survivors(c)
  PROVE  /\ s \in Cand /\ s.place \in disk[c].place
         /\ s.place = "none" => s = Lost
         /\ s.place # "none" =>
              s.marker \in disk[c].marker /\ s.content \in disk[c].content
<1>1. disk[c] \in Disk
  BY DEF FilesTyped
<1>2. Lost \in Cand /\ Lost.place = "none"
  BY Numbers DEF Lost, Cand, Places, Markers, Nothing, Whole, Contents
<1>3. CASE s \in [place : disk[c].place, marker : disk[c].marker,
                  content : disk[c].content] /\ s.place # "none"
  BY <1>1, <1>3 DEF Disk, Cand
<1>4. CASE s = Lost /\ "none" \in disk[c].place
  BY <1>2, <1>4
<1> QED BY <1>3, <1>4 DEF Survivors

LEMMA LosePowerInv ==
  ASSUME IInv, LosePower
  PROVE  IInv'
<1>1. /\ UNCHANGED <<source, foreign, planned, seal, told>>
      /\ disturbed' = TRUE /\ troubles' \in 0 .. MaxTroubles
      /\ proc' = [p \in Procs |-> Idle]
      /\ lock' = [c \in Candidates |-> NoProc]
  BY BoundAssumption
     DEF LosePower, World, Claim, Disturbing, Trouble, IInv, RestTyped
<1>2. PICK after \in [Candidates -> UNION {Survivors(c) : c \in Candidates}] :
        /\ \A c \in Candidates : after[c] \in Survivors(c)
        /\ now' = after
        /\ disk' = [c \in Candidates |->
                      [place |-> {after[c].place}, marker |-> {after[c].marker},
                       content |-> {after[c].content}]]
  BY DEF LosePower
<1>3. FilesTyped /\ OneOccupant /\ \A c \in Candidates : FileOK(c)
  BY DEF IInv, Files
<1>4. ASSUME NEW c \in Candidates
      PROVE  /\ now'[c] = after[c] /\ after[c] \in Cand
             /\ after[c].place \in disk[c].place
             /\ after[c].place = "none" => after[c] = Lost
             /\ after[c].place # "none" =>
                  /\ after[c].marker \in disk[c].marker
                  /\ after[c].content \in disk[c].content
             /\ disk'[c] = [place |-> {after[c].place}, marker |-> {after[c].marker},
                            content |-> {after[c].content}]
             /\ disk'[c] \in Disk
  <2>1. PICK s \in Survivors(c) : s = after[c]
    BY <1>2
  <2>2. /\ s \in Cand /\ s.place \in disk[c].place
        /\ s.place = "none" => s = Lost
        /\ s.place # "none" =>
             s.marker \in disk[c].marker /\ s.content \in disk[c].content
    BY <1>3, <2>1, SurvivorOf
  <2>3. disk'[c] = [place |-> {s.place}, marker |-> {s.marker},
                    content |-> {s.content}]
    BY <1>2, <2>1
  <2>4. disk'[c] \in Disk
    BY <2>2, <2>3 DEF Disk, Cand
  <2> QED BY <1>2, <2>1, <2>2, <2>3, <2>4
<1>5. FilesTyped'
  <2>1. now' \in [Candidates -> Cand]
    BY <1>2, <1>4
  <2>2. disk' \in [Candidates -> Disk]
    BY <1>2, <1>4
  <2> QED BY <1>1, <1>3, <2>1, <2>2 DEF FilesTyped
<1>6. ASSUME NEW c \in Candidates PROVE FileOK(c)'
  <2>1. PICK s : /\ s = after[c] /\ now'[c] = s
                 /\ disk'[c] = [place |-> {s.place}, marker |-> {s.marker},
                                content |-> {s.content}]
    BY <1>4
  <2>s. /\ disk'[c].place = {now'[c].place} /\ disk'[c].marker = {now'[c].marker}
        /\ disk'[c].content = {now'[c].content}
    BY <2>1
  <2>2. FileOK(c)
    BY <1>3
  <2>3. now'[c].place = "destination" => Full(now'[c].content)
    BY <1>4, <2>2 DEF FileOK
  <2>4. planned[c] = Missing => Unmade(c)'
    <3>0. planned[c] = Missing => disk[c].place = {"none"} /\ seal[c] = Nothing
      BY <2>2 DEF FileOK, Unmade
    <3>1. planned[c] = Missing => after[c] = Lost /\ seal[c] = Nothing
      BY <1>4, <3>0
    <3>l. Lost.place = "none" /\ Lost.marker = "none" /\ Lost.content = Nothing
      BY DEF Lost
    <3>2. planned[c] = Missing =>
            disk'[c] = [place |-> {"none"}, marker |-> {"none"}, content |-> {Nothing}]
      BY <2>1, <3>1, <3>l
    <3> QED BY <1>1, <2>1, <3>1, <3>2 DEF Unmade
  <2> QED BY <1>1, <2>s, <2>2, <2>3, <2>4 DEF FileOK
<1>7. OneOccupant'
  <2>1. ASSUME NEW c \in Candidates, now'[c].place = "destination"
        PROVE  now[c].place = "destination"
    <3>1. "destination" \in disk[c].place
      BY <1>4, <2>1
    <3>2. FileOK(c)
      BY <1>3
    <3> QED BY <3>1, <3>2 DEF FileOK
  <2> QED BY <1>1, <1>3, <2>1 DEF OneOccupant
<1>8. SuccessIsSettled'
  <2>1. SUFFICES ASSUME NEW c \in Candidates, told[c] = "Complete"
                 PROVE  disk'[c].place = {"destination"} /\ disk'[c].marker = {"none"}
    BY <1>1 DEF SuccessIsSettled
  <2>2. disk[c].place = {"destination"} /\ disk[c].marker = {"none"}
    BY <2>1 DEF IInv, SuccessIsSettled
  <2>3. PICK s : /\ s = after[c]
                 /\ disk'[c] = [place |-> {s.place}, marker |-> {s.marker},
                                content |-> {s.content}]
    BY <1>4
  <2>4. s.place = "destination" /\ s.marker = "none"
    BY <1>4, <2>2, <2>3
  <2> QED BY <2>3, <2>4
<1>9. Running' /\ proc' \in [Procs -> Process]
  <2>1. PICK r \in Process : r = Idle
    BY IdleOK
  <2>2. StepOK(r)' /\ r.pc \notin StagingSteps
    BY <2>1, IdleAfter DEF Idle, StagingSteps
  <2>3. \A p \in Procs : proc'[p] = r
    BY <1>1, <2>1
  <2>4. \A p \in Procs : StepOK(proc[p])'
    BY <2>2, <2>3
  <2>5. OneBuilder'
    BY <2>2, <2>3 DEF OneBuilder
  <2> QED BY <1>1, <2>1, <2>4, <2>5 DEF Running
<1>10. RestTyped'
  BY <1>1 DEF IInv, RestTyped
<1> QED BY <1>5, <1>6, <1>7, <1>8, <1>9, <1>10 DEF IInv, Files

-----------------------------------------------------------------------------
(* The invariant, and what follows from it.                                *)

LEMMA InitInv ==
  ASSUME Init
  PROVE  IInv
<1>1. /\ source = [head |-> 1, index |-> 1, files |-> 1]
      /\ now = [c \in Candidates |-> Lost]
      /\ disk = [c \in Candidates |->
                   [place |-> {"none"}, marker |-> {"none"}, content |-> {Nothing}]]
      /\ planned = [c \in Candidates |-> Missing]
      /\ seal = [c \in Candidates |-> Nothing]
      /\ lock = [c \in Candidates |-> NoProc] /\ foreign = FALSE
      /\ proc = [p \in Procs |-> Idle]
      /\ told = [c \in Candidates |-> "Nothing"]
      /\ troubles = 0 /\ disturbed = FALSE
  BY DEF Init, Lost
<1>2. Nothing \in Contents
  BY Numbers DEF Nothing, Whole, Contents
<1>3. /\ Lost \in Cand /\ Lost.place = "none" /\ Lost.marker = "none"
      /\ Lost.content = Nothing
  BY <1>2 DEF Lost, Cand, Places, Markers
<1>4. [place |-> {"none"}, marker |-> {"none"}, content |-> {Nothing}] \in Disk
  BY <1>2 DEF Disk, Places, Markers
<1>5. FilesTyped
  BY <1>1, <1>2, <1>3, <1>4 DEF FilesTyped
<1>6. RestTyped
  <2>1. source \in [head : Versions, index : Versions, files : Versions]
    BY <1>1, Numbers
  <2>2. lock \in [Candidates -> Procs \cup {NoProc}]
    BY <1>1
  <2>3. told \in [Candidates -> Terminals]
    BY <1>1 DEF Terminals
  <2>4. troubles \in 0 .. MaxTroubles
    BY <1>1, BoundAssumption
  <2> QED BY <1>1, <2>1, <2>2, <2>3, <2>4 DEF RestTyped
<1>7. \A c \in Candidates : FileOK(c)
  BY <1>1, <1>3 DEF FileOK, Unmade
<1>8. OneOccupant
  BY <1>1, <1>3 DEF OneOccupant
<1>9. Running /\ proc \in [Procs -> Process]
  BY <1>1, IdleOK DEF Running, OneBuilder, StagingSteps
<1>10. SuccessIsSettled
  BY <1>1 DEF SuccessIsSettled
<1> QED BY <1>5, <1>6, <1>7, <1>8, <1>9, <1>10 DEF IInv, Files

LEMMA CommandInv ==
  ASSUME IInv, NEW p \in Procs, Command(p)
  PROVE  IInv'
<1>1. CASE \/ Plan(p) \/ Inspect(p) \/ CreateStaging(p) \/ CreateStagingFails(p)
           \/ BuildVault(p) \/ InitTarget(p) \/ SyncTarget(p) \/ IndependentAudit(p)
           \/ StagingFails(p) \/ Authorize(p) \/ AuthorizeFails(p)
  BY <1>1, PlanInv, InspectInv, CreateStagingInv, GivenUpInv, BuildVaultInv,
     InitTargetInv, SyncTargetInv, IndependentAuditInv, AuthorizeInv
<1>2. CASE \/ CreateMarker(p) \/ SealMarker(p) \/ AuditClaim(p) \/ ClaimFails(p)
           \/ ReviewMove(p) \/ Move(p) \/ MoveUnknown(p) \/ MoveRefused(p)
           \/ NotMoved(p) \/ RetryMove(p) \/ AuditMoved(p) \/ ReviewFails(p)
  BY <1>2, CreateMarkerInv, SealMarkerInv, EasyStepsInv, ClaimFailsInv, MoveInv,
     MoveUnknownInv, GivenUpInv, RetryMoveInv
<1>3. CASE \/ SyncPublished(p) \/ SyncPublishedFails(p)
           \/ UnlinkMarker(p) \/ UnlinkMarkerFails(p)
           \/ SyncUnlinked(p) \/ SyncUnlinkedFails(p)
           \/ CleanAudit(p) \/ CleanAuditFails(p)
           \/ Refuse(p) \/ OpenExisting(p) \/ OpenExistingFails(p) \/ Preview(p)
  BY <1>3, SyncPublishedInv, UnlinkMarkerInv, SyncUnlinkedInv, CleanAuditInv,
     GivenUpInv, OpenExistingInv
<1> QED BY <1>1, <1>2, <1>3 DEF Command

LEMMA StutterInv ==
  ASSUME IInv, UNCHANGED vars
  PROVE  IInv'
<1>1. /\ UNCHANGED <<source, now, disk, planned, seal, lock, foreign, proc, told>>
      /\ UNCHANGED <<troubles, disturbed>>
  BY DEF vars, counts
<1>2. Calm
  BY <1>1 DEF Calm
<1>3. Files' /\ \A x \in Process : StepOK(x) => StepOK(x)'
  BY <1>1, <1>2, CalmFiles DEF IInv, RestTyped
<1>4. Running' /\ SuccessIsSettled'
  BY <1>1, <1>3 DEF IInv, Running, OneBuilder, SuccessIsSettled
<1> QED BY <1>1, <1>3, <1>4 DEF IInv, RestTyped

LEMMA NextInv ==
  ASSUME IInv, [Next]_vars
  PROVE  IInv'
<1>1. ASSUME NEW p \in Procs, Command(p) \/ Kill(p) PROVE IInv'
  BY <1>1, CommandInv, KillInv
<1>2. ASSUME NEW c \in Candidates, Alter(c) \/ WriteDocument(c) PROVE IInv'
  BY <1>2, AlterInv, WriteDocumentInv
<1>3. CASE EditSource \/ MakeForeign \/ LosePower
  BY <1>3, EditSourceInv, MakeForeignInv, LosePowerInv
<1>4. CASE UNCHANGED vars
  BY <1>4, StutterInv
<1> QED BY <1>1, <1>2, <1>3, <1>4 DEF Next

\* Every reachable state satisfies the inductive invariant.
THEOREM InvariantHolds == Spec => []IInv
<1>1. Init => IInv
  BY InitInv
<1>2. IInv /\ [Next]_vars => IInv'
  BY NextInv
<1> QED BY <1>1, <1>2, PTL DEF Spec

\* Every variable keeps its type, for every number of commands and candidates.
THEOREM TypeCorrect == Spec => []TypeOK
<1>1. IInv => TypeOK
  <2> SUFFICES ASSUME IInv PROVE TypeOK
    OBVIOUS
  <2>1. /\ now \in [Candidates ->
                     [place : Places, marker : Markers, content : Contents]]
        /\ planned \in [Candidates -> Versions \cup {Missing}]
        /\ seal \in [Candidates -> Contents]
    BY DEF IInv, Files, FilesTyped, Cand
  <2>2. \A c \in Candidates :
          /\ disk[c].place \subseteq Places /\ disk[c].marker \subseteq Markers
          /\ disk[c].content \subseteq Contents
    BY DEF IInv, Files, FilesTyped, Disk
  <2>3. proc \in [Procs ->
          [pc : Steps, cmd : Commands, cand : Candidates \cup {NoOne, Stranger},
           plan : Versions \cup {Missing}, target : Values, seen : MarkerStates,
           tries : 0 .. (Attempts + 1)]]
    BY DEF IInv, Process
  <2>4. RestTyped
    BY DEF IInv
  <2> QED BY <2>1, <2>2, <2>3, <2>4 DEF TypeOK, RestTyped
<1> QED BY <1>1, InvariantHolds, PTL

\* What a power loss may leave at the destination is a whole candidate, and as
\* long as it may undo or redo the move, one with its canonical marker: the
\* directory is synchronized before the rename, the marker unlinked after the
\* sync of the directory that names it, whatever failed or ran in between.
THEOREM LossLeavesWhole == Spec => []LossLeavesWholeClaim
<1>1. IInv => LossLeavesWholeClaim
  BY DEF IInv, Files, FileOK, Full, LossLeavesWholeClaim, PublishedWhole,
         ClaimOutlivesMove
<1> QED BY <1>1, InvariantHolds, PTL

\* A command reports success only when its move and the unlink of its marker
\* are durable, and nothing that happens afterwards takes that back.
THEOREM SuccessSettled == Spec => []SuccessIsSettled
<1>1. IInv => SuccessIsSettled
  BY DEF IInv
<1> QED BY <1>1, InvariantHolds, PTL

\* As long as the power did not fail and no other program changed a candidate,
\* every claim at the destination is one that a later command settles: no kill,
\* no failing operation and no document written by inex itself comes between.
THEOREM ClaimsSettle == Spec => []ClaimsCanBeSettled
<1>1. IInv => ClaimsCanBeSettled
  BY DEF IInv, Files, FileOK, ClaimsCanBeSettled
<1> QED BY <1>1, InvariantHolds, PTL

\* Only the last audit makes a command report success.
LEMMA OnlyAuditsSucceed ==
  ASSUME IInv, [Next]_vars, NEW c \in Candidates,
         told'[c] = "Complete", told[c] # "Complete"
  PROVE  \E p \in Procs : CleanAudit(p) /\ c = proc[p].cand
<1>1. told' # told
  OBVIOUS
<1>2. ASSUME NEW p \in Procs, NEW kind, Fail(p, kind) PROVE FALSE
  BY <1>2, FailTells DEF IInv
<1>3. PICK p \in Procs : Command(p)
  BY <1>1 DEF Next, vars, Kill, Alter, WriteDocument, EditSource, MakeForeign, LosePower
<1>4. \/ CleanAudit(p) \/ Exit(p, "StagingIncomplete") \/ \E kind : Fail(p, kind)
  <2>1. ~ (\/ Plan(p) \/ Inspect(p) \/ CreateStaging(p) \/ CreateStagingFails(p)
           \/ BuildVault(p) \/ InitTarget(p) \/ SyncTarget(p) \/ IndependentAudit(p)
           \/ Authorize(p) \/ Refuse(p) \/ OpenExisting(p) \/ Preview(p))
    BY <1>1 DEF Plan, Inspect, CreateStaging, CreateStagingFails, BuildVault,
                InitTarget, SyncTarget, IndependentAudit, Authorize, Refuse,
                OpenExisting, Preview, Leave
  <2>2. ~ (\/ CreateMarker(p) \/ SealMarker(p) \/ AuditClaim(p) \/ ReviewMove(p)
           \/ Move(p) \/ NotMoved(p) \/ AuditMoved(p) \/ SyncPublished(p)
           \/ UnlinkMarker(p) \/ SyncUnlinked(p))
    BY <1>1 DEF CreateMarker, SealMarker, AuditClaim, ReviewMove, Move, NotMoved,
                AuditMoved, SyncPublished, UnlinkMarker, SyncUnlinked
  <2>3. CASE StagingFails(p)
    BY <2>3 DEF StagingFails
  <2>4. CASE \/ AuthorizeFails(p) \/ ClaimFails(p) \/ MoveUnknown(p) \/ MoveRefused(p)
             \/ ReviewFails(p) \/ OpenExistingFails(p)
    BY <2>4 DEF AuthorizeFails, ClaimFails, MoveUnknown, MoveRefused, ReviewFails,
                OpenExistingFails
  <2>5. CASE RetryMove(p) \/ SyncPublishedFails(p)
    BY <1>1, <2>5 DEF RetryMove, SyncPublishedFails
  <2>6. CASE UnlinkMarkerFails(p)
    BY <1>1, <2>6 DEF UnlinkMarkerFails
  <2>7. CASE SyncUnlinkedFails(p) \/ CleanAuditFails(p)
    BY <1>1, <2>7 DEF SyncUnlinkedFails, CleanAuditFails
  <2> QED BY <1>3, <2>1, <2>2, <2>3, <2>4, <2>5, <2>6, <2>7 DEF Command
<1>5. ~ Exit(p, "StagingIncomplete")
  BY DEF Exit
<1>6. CleanAudit(p) /\ Exit(p, "Complete")
  BY <1>2, <1>4, <1>5 DEF CleanAudit
<1>7. c = proc[p].cand
  BY <1>6 DEF Exit
<1> QED BY <1>6, <1>7

\* Success means that the destination holds what was read from the clean source,
\* part by part, whichever command settled the claim and whatever happened to
\* the candidate between the audits.
THEOREM ImportedAsPlanned == Spec => SettledAsImported
<1>1. ASSUME IInv, [Next]_vars
      PROVE  [\A c \in Candidates :
                told'[c] = "Complete" /\ told[c] # "Complete" =>
                  now'[c].content = Whole(planned[c])]_vars
  <2>1. SUFFICES ASSUME NEW c \in Candidates,
                        told'[c] = "Complete", told[c] # "Complete"
                 PROVE  now'[c].content = Whole(planned[c])
    OBVIOUS
  <2>2. PICK p \in Procs : CleanAudit(p) /\ c = proc[p].cand
    BY <1>1, <2>1, OnlyAuditsSucceed
  <2>3. Reproduces(c) /\ now' = now
    BY <2>2 DEF CleanAudit
  <2>4. seal[c] \in {Nothing, Whole(planned[c])} /\ now[c].content = seal[c]
    BY <1>1, <2>3 DEF IInv, Files, FileOK, Reproduces, ContentSeal, Content
  <2>5. now[c].content # Nothing
    BY <2>3 DEF Reproduces, Sound, Manifest, Content, Nothing, Whole, Parts
  <2> QED BY <2>3, <2>4, <2>5
<1>2. IInv /\ [Next]_vars =>
        [\A c \in Candidates :
           told'[c] = "Complete" /\ told[c] # "Complete" =>
             now'[c].content = Whole(planned[c])]_vars
  BY <1>1
<1> QED BY <1>2, InvariantHolds, PTL DEF Spec, SettledAsImported

==============================================================================
