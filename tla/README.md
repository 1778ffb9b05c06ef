# A verification of Inex in TLA+

Inex keeps an encrypted Markdown journal in an ordinary Git repository. Several
programs work on one vault at once: `inexd` daemons, each serving one editor,
`inex` commands, the Git merge driver, and Git itself, which knows nothing of
the others. They share files, an advisory lock and `.git/index.lock`. This
directory models that program, checks the models with TLC and proves what it can
with TLAPS. `PROJECT.json` lists the runs, the theorems, the lines of code that
each definition stands for, and the hazards that the properties are aimed at.

## Inventory

| Part | State | Operations | Hard behaviour | What makes it correct | Here |
|---|---|---|---|---|---|
| Ciphertext store: `inex-core/src/atomic.rs` | directory entries of documents, staging files and the rename journal; the mutation lock | conditional write, delete, two-phase rename, recovery | crash between any two system calls, `rename` that fails after it succeeded, unsynchronized directories | no lost update, no half rename, nothing acknowledged is lost | `VaultStore`, `AtomicVault` |
| Vault metadata: `vault.rs`, `umbra_keyslot.rs`, `umbra_config.rs` | `vault.json`, the Umbra key slot, the tag catalog; each session's copy | create, open, add and remove slots, enable and initialize Umbra, change its password, edit tags | changes prepared from old copies | no credential, key, feature or tag is lost | `VaultMetadata` |
| Documents: `vault.rs`, `handler.rs` | versions at paths; what each client displays; search indexes | open, save, create, rename, delete, convert, annotate, search, merge | reads without the lock; Git changes the files under everybody | an edit applies to the text its client saw; search tells the truth | `VaultDocuments` |
| Daemon: `session.rs`, `handler.rs`, `server.rs` | the session, document and asset handles, export confirmations, keys and indexes | every RPC method, idle expiry, end of input | the idle clock runs out in the middle of a handler | capabilities die once; plaintext and keys go with the session | `DaemonSession` |
| Git merge: `inex-git/src/lib.rs`, `candidate_bundle_v5.rs` | bundle, staged index, marker or candidate in `.git/index.lock`, journal, receipt, index, worktree | merge, recover, cleanup | a transaction over two directories that Git and editors also write | nobody's index entry or edit is lost; every half-finished state is recognized | `GitMergeV5` |
| Git merge, contents (`lib.rs`) | none: a function of the conflicted index | preflight, classify, three-way merge, checks before a commit | renames of one branch and of both, two stages of one path with two identities | a merge that passes the preflight can be committed and keeps both sides | `MergePlan` |
| Git merge, legacy v1 to v4 (`lib.rs`) | older journals, pre-lock reservations, receipts | recovery only | as the merge, with weaker evidence | all or nothing; the user's later work is kept | `LegacyRecovery` |
| Repository import, publication: `inex-git/src/repository_import*`, `publication.rs`, `inex-cli/src/repository_import.rs` | candidate directory, marker v2, destination | create, publish, reconcile | kill or power loss between marker, move and unlink; a second import | a destination is attributed to the right import, or to none | `ImportPublication` |
| Repository import, evidence: `candidate_{git,manifest,worktree,control,seal,fresh_audit}.rs` | inventories and digests | collect, compare | a candidate altered between two audits | exact equality | what is compared with what is in `ImportPublication`; walks, parsing and hashing are not |
| Copy import: `inex-cli/src/import.rs`; plaintext export: `plaintext_export.rs` | staging directory, seal, marker | fill, audit, move, clean up | unknown outcome of the move | the directory is where the user asked, whole, or nowhere | `PlainPublication`; the export's confirmation is in `DaemonSession` |
| Umbra rendering: `umbra_render.rs` | slots of one document | project, classify a selection, annotate, edit, remove | offsets in one projection that change the text of another | exact round trip, nothing private in the Outer projection | `UmbraProjection` |
| Search index: `search.rs` | texts, postings, sizes | replace, remove, match, cut, show | limits reached half way, folds that change lengths | a match is found wherever a chunk ends; a snippet shows it | `TextSearch` |
| Daemon transport: `framing.rs`, `server.rs` (reader); decoders of the three clients | the bytes of an unfinished frame | read, decode | a pipe that cuts anywhere, damaged streams | the same answers whatever the cuts | `Framing` |
| Paths and tree: `path.rs`, `tree.rs` | none | normalize, fold, map to files and back, walk, check before adding | names that differ by case or composition | no two paths collide; what is created is listed | `LogicalPaths`, `StreamedFold` |
| VS Code: `customEditor.ts`, `controller.ts` | text, revision, etag, web page, epoch, session | edit, save, revert, backup, convert, annotate, lock, rename, delete | every `await` is a place where something else happens | a save never marks newer text as saved | `CustomEditor` |
| VS Code sidecar: `sidecar.ts`, `rpc.ts` | pending calls, session | call, answer, time out, lose the session | late answers | an answer reaches its own call | its order of calls and its end in `CustomEditor`, its decoder in `Framing` |
| Sublime Text: `Inex.py`, `inex_core.py`, `inex_rpc.py` | views, drafts on disk, sidecar, queue of a worker thread | unlock, open, type, draft, save, close, lock | two threads | the status line tells the truth; every edit gets a draft | `SublimeDocuments`, its decoder in `Framing` |
| Neovim: `rpc.lua` and commands | pending calls | the calls of the other clients, one at a time | none of its own | | its decoder in `Framing` |
| CLI: `lib.rs`, `args.rs`, `verify.rs`, `password.rs`, `query.rs` | none | one command per process | those of the operations it calls | | not modelled |
| Formats, keys, cryptography: `format.rs`, `crypto.rs`, `sodium.rs`, `vault_config.rs` | none | encode, derive, authenticate | none | assumed | not modelled |
| Driver installation, history reads (`inex-git/src/lib.rs`), `raw_index.rs` | none | edit `.gitattributes`, parse | sequential | functions of their input | not modelled |
| Release scripts; editor helpers for display | none | build, audit, drill; format | none | | not modelled |

How the parts interact. An editor talks to its daemon over a pipe, one frame per
request. The daemon's single dispatcher thread calls the vault; the vault reads
without a lock and commits through the ciphertext store, which takes
`.vault-local/mutation.lock` (`VaultMutationGuard`) for each mutation. The merge
takes the same guard, and in addition `.git/index.lock`, the only lock that Git
respects. Git writes documents and index without the guard. So the store's
atomicity is what the modules of vault metadata, documents and merge build on,
and each of them assumes no more of it than `AtomicVault` states.

## Modules

Three kinds of module. State machines have variables, actions and runs. Modules
of operators (the last eight below) hold the algorithms that keep no state: each is the
algorithm of the code next to a reference definition, with named assumptions
that say how they agree, which TLC evaluates over all inputs within bounds. An
`MC` module defines the instance and the symmetry of a run, and extends the
operator modules that are evaluated with it. A `Proofs` module beside each state
machine holds the theorems.

`VaultStore` models the store one system call at a time. A directory entry has a
visible value and a set of values that it may have on disk: a change adds one,
an fsync leaves only the visible one, a power loss picks any. `pc` is the
position of each process inside `write_locked`, `delete_locked`, `rebind_locked`
and `recover_pending_rebind_locked`. `AtomicVault` is what callers are promised:
documents change in single steps, and a power loss may only fall back to a state
that was not acknowledged. `VaultStore` refines it (`ImplementsAtomicVault`,
with a refinement mapping that reads the rename journal as recovery would).

`DaemonSession` models `SessionStore` and every handler that calls it, one
store call at a time, because a handler decrypts or walks a tree between two
calls and the session may expire meanwhile. The client sends any request with
any capability that it was ever told.

`VaultMetadata` and `VaultDocuments` model the operations of vault sessions of
any number of processes. An action is the part of an operation around one access
to shared files; a commit is one conditional write. Git's checkouts and merges
are actions of `VaultDocuments`.

`GitMergeV5` models `inex merge` and `inex git recover`. One set of files is a
record; `vis` is the visible one and `disk` the set of those that a power loss
may leave. A move changes the entries of one or two directories at once
(`Change`), an fsync of a directory removes from `disk` what it excludes
(`Synced`). The classification of a state (`StableOnly`, `PublishReady`,
`MarkerNoJournal`, `JournalReady`, `CandidateInLock`, `ExactFinal`, the cleanup
`Chain`) is that of `inspect_v5_prejournal_state`,
`inspect_v5_postjournal_state` and `inspect_held_v5_cleanup_state`, and writer
and recovery are one set of actions, as in the code. Git's lock and index
updates and the saves of editors are actions of their own.

`ImportPublication` models `inex import-repository` from the plan of the source
to the clean audit, and the reconciliation that the same command does at a
destination that exists. A candidate is a directory with the parts that the
audits compare (manifest, tracked files, commit, seal and so on), each part
being the version of the source it was made from or "damaged". `now` is what a
reader sees, `disk` what a power loss may leave. Kills, failing operations,
damage, a foreign directory and a written document are actions of others.

`CustomEditor` models one document in VS Code. The extension host has one
thread, so an action is what runs between two awaits; operations that wait are
records in a set, the page is a second actor behind two queues, and inexd answers in
order. A text is the set of changes it contains: what the document began with, what the
user typed, and what other clients wrote (`Theirs`). "This save lost their change"
is then a statement about sets. The sidecar's part is the end of a session:
it can end at any moment, and all calls that wait are rejected.

`SublimeDocuments` models the views that one path has in Sublime Text: a main
thread that runs the user's commands and callbacks, and a worker thread that
runs jobs in order and waits for inexd. The draft file of a path is shared by
all its views and outlives the session. `crossed` is a history variable: it
records that two drafts of the path were on their way at once.

`LogicalPaths` has the profile of names, both mappings between names and files,
the walk, and the checks before a name is added; `StreamedFold` the case fold
that streams, against the fold of the whole name. `MergePlan` makes the conflicted
index that Git leaves for every history of two branches of `MaxCommitEdits`
operations, and merges it. `UmbraProjection` has both projections of a private
document and the changes of its slots, compared with a text whose private parts
are marked. `TextSearch` has limits, matchers, positions and snippets. `Framing`
has the frame reader of the daemon and the decoders of the clients on
streams cut anywhere. `LegacyRecovery` kills the writers of v1 to v4
journals after each of their changes, and the recovery as well, up to
`MaxRecoveries` times. `PlainPublication` runs the steps of a copy import and of
a plaintext export under every schedule of foreign changes, one failing
operation and a kill.

## Runs

| Run | Asks | Bounds |
|---|---|---|
| `store_faults` | With processes killed, calls failing and the power lost, is an update lost, a refused request visible, something acknowledged gone? Does the store implement `AtomicVault`, and does every operation end? | 2 processes, 2 documents in 2 directories, 2 operations, 2 faults, 1 kill, 2 losses |
| `store_wedge` | A finding, see below | 2 operations, 1 kill, 1 loss |
| `daemon` | May a dead capability, another session or a refused request have any effect, does plaintext stay with its session and key, and does an idle session end? | 4 capabilities, 1 path, 2 document handles, idle time 2, assets of 2 bytes |
| `metadata` | May sessions with old copies lose a slot, a feature, a key or a tag? | 2 sessions, 3 slot identifiers of which 2 fit, 3 writes |
| `documents` | Does an edit apply to what its client saw, and stay private and flagged? Does an index that answers tell the truth? | 2 sessions of which 1 searches, 2 paths, 3 versions |
| `merge_kill` | Does every killed merge finish, and keep others' entries and edits? | 4 kinds of conflict, 2 processes, 3 runs, Git, an editor, a fault and a kill once each |
| `merge_power` | The same in every order in which directories reach the disk; is the index lock ever left to nobody? | 3 runs, 2 losses, Git and an editor once |
| `merge_unsynced` | A finding, see below | 3 runs, 1 failing fsync, 1 loss |
| `import` | What may a power loss leave at the destination? Is success final, and may inex itself spoil the claim that reconciliation needs? | 2 processes, 2 candidates, 1 edit of the source, 2 troubles of any kind, 2 attempts |
| `editor` | Is text lost, marked as saved or shown without a session, when two operations of the editor wait at once? | 2 inputs, 2 operations, 1 other client's commit, 1 restart of the page, 2 sessions |
| `editor_reload` | A finding, see below | 2 inputs, 1 restart of the page |
| `sublime` | Does the status line tell the truth, is a restored draft ever written unasked, does every edit get its draft? | 2 views, 1 edit, 2 saves, 1 other client's commit, 2 sidecars |

The assumptions of the operator modules, evaluated before the run that hosts them:

| Module | With | Bounds | Says |
|---|---|---|---|
| `LogicalPaths` | `metadata` | names of 4 tokens, paths of 3 names, walks of depth 2 | a name survives both mappings; what a walk lists is portable and free of collisions; what a session may create is listed (`CreatedIsListed` names the exceptions) |
| `StreamedFold` | `metadata` | names of 4 characters of every kind | streaming and whole fold agree, folding twice changes nothing |
| `MergePlan` | `metadata` | histories of 3 operations | a preflight that passes is enough (`PreflightIsEnough` names the exception), the merged vault is sound, both sides' lines are in it, a rename meets a save |
| `UmbraProjection` | `documents` | texts of up to 3 letters, 2 slots | projections show exactly what they should, selections are classified, annotating and removing are inverse |
| `TextSearch` | `documents` | texts of 4 characters | an index stays in its limits, both matchers find the same, positions and snippets are of the text |
| `Framing` | `daemon` | bodies of 3 bytes, streams of two frames with one symbol changed, cut anywhere | frames are read back, cuts decide nothing, all four readers agree |
| `LegacyRecovery` | the three merge runs | 3 recoveries, 2 changes by the user | recovery refuses only the states it names, is all or nothing, keeps later work, and `verify` tells that it is pending |
| `PlainPublication` | `import` | 2 foreign changes, one failure, one kill | nothing is replaced, what is at the destination was audited, answers are true |

Why the bounds are enough. Every step between two failures is an action of its
own, so one failure already reaches each place; a second one reaches the
recovery from the first. Two processes suffice for a race over one guard, and a
third operation or run is the one that finds what the first two left. Documents
and slots: two paths give rename and re-creation at the same path, three slots
with room for two give the full table. `VaultDocuments` starts on an empty vault or
on one that holds a container; both sessions open that or the first version
written, and two more writes let each of them, or Git, commit while the
other holds a prepared update; a run with four versions and no index gave no
other answer. The daemon's run has one path, two handles on it and room for a
capability of a second session after each kind of the first; what distinguishes
paths is covered by the proof. An import meets a second one, an edited source
between plan and audit, and two troubles of any two kinds; four troubles of one
process and one candidate gave no other answer. The code tries an unlink three
times, the run twice: the counter is compared with zero only. In the editor two
inputs and two operations are what it takes for an answer to be older than the
text and for one wait to overtake another. In Sublime Text two views share one
draft and two saves overtake a draft; an instance with two edits and one save,
without liveness, gave no other answer. The runs that check liveness use no
symmetry. Deadlock is not checked where the bounds, or the users, let the system
stop; the daemon's run checks it.

Fairness. `VaultStore`: a process that runs is scheduled
(weak fairness of the steps of each process; nobody has to start an operation),
and a lock that is free is eventually got because `flock` wakes its waiters.
`DaemonSession`: weak fairness of the dispatcher, whose `recv_timeout` returns
within a second even if the client is silent. `SublimeDocuments`: weak fairness
of the worker thread, of the main thread's callbacks and of its timers, which
Sublime's `set_timeout_async` and `set_timeout` run in order; a password prompt waits
for the user without a time limit, but no edit can wait for it. The other modules
state no liveness. Users, clients, Git, editors, faults, kills and power losses
are never fair.

## Findings

Shown by a run that must fail:

- `store_wedge`: a rename of a document whose last write was never
  synchronized can, after a power loss, leave a journal that recovery refuses,
  against the comment on `atomic_rebind_ciphertext`.
- `merge_unsynced`: a run that resumes from a visible but unsynchronized marker
  makes the journal durable before the marker's directory, so a power loss can
  leave a state that recovery does not recognize; `docs/spec/git-merge-v1.md`
  promises that an unconfirmed barrier retains a recognizable one. Both need a
  failure followed by a power loss; power-cut evidence is listed as missing by
  `docs/operations-and-recovery.md`. Without an earlier failure, `merge_power`
  shows that no order of the directories loses a merge.
- `editor_reload`: a VS Code tab that is hidden and shown again after an edit stays
  empty: the restarted page counts its edits from 0 and its `ready` message is
  refused as old, against `docs/editor-security.md`.

Met while modelling. Properties and assumptions are stated so that these cases
are named, not hidden.

- VS Code. With `StaleBackup = TRUE`, `SaveKeepsOthers` fails: a recovery draft with
  an old base is backed up under the document's new etag (`customEditor.ts:954`), so
  after a second crash it opens as if it were based on the current version, and a
  plain save replaces the other client's change, although `customEditor.ts:589`
  tells the user that such a save asks first. TLC shows it in 19 states from
  `BackupLeft` with one input, one other client's commit, 4 operations (opening,
  backup, opening, save), 2 pages and 2 sessions. With `Overlap = TRUE` it also
  fails: a revert that adopts the current version while a save waits for the page
  makes the save send the new etag with the old base. Text that a user types while a
  conversion waits is replaced by its result. With an operation started,
  `PageShowsModel` also fails by a snapshot that arrives after its request timed
  out; a blank page follows too when editing is thawed after a failed mutation
  (`customEditor.ts:443`).
- Sublime Text. A draft that the status line calls saved may not be on disk, so
  that a later close, which then writes none, loses the text
  (`editors/sublime/README.md`: closing attempts a final draft): two quick opens of
  one path give two views one draft file, since `Inex.py:912` looks for an open view
  only before the read; a save overtakes a slow draft, whose `drafted` callback then removes
  the draft written after it; or closing the survivors writes a draft that a late
  callback removes. `StatusIsTrue` holds when no two drafts cross
  (`crossed`). Locking computes the list of unsaved documents once, before its
  saves: text typed into another document meanwhile is closed with the lock.
- Repository import. An audit that fails after the move is answered like one
  before it, "retained" and "not-published", although the candidate is at the
  destination with its marker (`candidate_transaction.rs:578`, against
  `docs/operations-and-recovery.md:138`). After three troubles a marker whose unlink
  was not synchronized can come back with a document written since: every write is
  then refused and reconciliation cannot settle it; `ClaimsCanBeSettled` excludes
  it by `disturbed`.
- Copy import and export. The export gives a move that did not happen and one of
  unknown outcome the same error, so plaintext may be at the destination after a
  plain failure (`docs/spec/plaintext-export-v1.md` promises a warning). A
  foreign directory swapped in after the last check is moved and reported as
  indeterminate. A listing that omits a parent directory would make the export's
  audit reject its own tree.
- Merge. A conflict whose stages have different identities passes the preflight and
  is refused once its bundle is published (`lib.rs:7679`); later runs resume it and are
  refused again. A vault with any asset is refused by `merge` and `recover`, which
  walk with the documents-only profile (`lib.rs:2210`, `lib.rs:4413`). Two branches
  that rename one document differently merge in Git without a conflict and leave
  its identity twice, which refuses every later merge.
- Legacy merges. A partial private file, a candidate without a matching receipt, a
  `candidate.lock`, the journal staging of v1 to v3 and an old Git lock are refused,
  for an audit by hand. A v4 journal that was written but not published is
  recovered by `inex git recover`, while `inex verify` reports an error
  (`lib.rs:2171`, `lib.rs:6571`).
- Paths. `mkdir .INEX` and directories deeper than the walk's limit are accepted, and
  every later walk fails; `mkdir .inex` is accepted and never listed.
- Umbra. A selection of one plain range and one range inside a block is classified
  as inside a slot; `docs/prd-umbra-mode.md:24` says that mixed selections fail.
- Search. With a snippet limit of one byte and a match between CR and LF,
  `make_snippet` slices from an end before its start, and panics.
- Framing. A client that fails on a chunk discards the valid answers in it.

## Proofs

TLAPS proves, for every value of the constants that satisfies the assumptions
that the modules name (`NameAssumption`, `BoundAssumption`, `ConstantAssumption` and
so on: bounds are numbers, a "no value" is none of the values), in one module per
component:

- `VaultStoreProofs`: `TypeCorrect`, `Settled`, `RenameKeepsContent`,
  `UpdatesAreRequested`, `SyncedMeansDurable`, `RefusalsLeaveNoTrace`, `DiskHolds`
  and, from it, `Implements`, the refinement of `AtomicVault`; without power loss,
  `KillsNeverWedge`. Every safety property of the run.
- `DaemonSessionProofs`: `TypeCorrect`, `SessionOwnsAll`, `LinkGuardsSession`,
  `AssetOrIndex`, `PrivateGoesWithKey`, `PlaintextIsConfined` (the two before it
  together), `StreamIsAsset`, `OneSession`, `CapabilitiesDieOnce`, `HolderExtends`,
  `HandlesDieByName`, `ConfirmedOnce`.
- `VaultMetadataProofs`: `TypeCorrect`, `CredentialsAreKept`, `AcceptedCopies`,
  `UmbraKeyIsOne`, `TagsAreKept`: every property of the run.
- `VaultDocumentsProofs`: `TypeCorrect`, `IdentitiesAreUnique`, `SearchIsTrue`,
  `EditsAreOfTheShown`, `UmbraIsKept`, `FlagIsKept`: every property of the run.
- `ImportPublicationProofs`: `TypeCorrect`, `LossLeavesWhole`, `SuccessSettled`,
  `ClaimsSettle`, `ImportedAsPlanned`.
- `CustomEditorProofs`: `TypeCorrect`, `CleanDocumentIsWritten`,
  `PlaintextGoesWithSession`, `DocumentTakenWhenSaved`, for both values of `Overlap` and
  of `StaleBackup`; `OthersAreKept` when both are `FALSE`: every property of the run.
- `SublimeDocumentsProofs`: `TypeCorrect`, `StatusTold`, `PlaintextIsOfSession`,
  `OverwritesAreConfirmed`.
- `GitMergeV5Proofs`: `TypeCorrect`, `GitChangesAreKept`, `EditsAreKept`,
  `AcknowledgedMerges`, `LockHasOwner`; without power losses `KillsRecover`; without
  kills and failing syncs `LossRecovers`; with either of the two conditions
  `RefusalsAreCaused`: every property of both runs.

Each is an induction: the properties are not inductive alone, and the invariant
`IInv` of each module says what a step relies on that others could have changed.
TLC checked each `IInv` on the component's run before it was proved.

- Store. Only the holder of the lock is past `Acquire`; what its check has
  established stays true until the move because nobody else can write; and
  `IInv` says which entries have a single value on disk at each step of a rename.
  With it every action property is a statement about one step. `KillsNeverWedge`
  is a second, separate induction: it says nothing after a power loss, since
  `store_wedge` refutes it there. `Implements` rests on a third one, `DiskInv`,
  about what may be on disk: an etag is made once, so a journal that is on disk but
  no longer visible can never again find both of its envelopes (`Inert`), and a
  rename moves its envelope only when its journal is the one possible value on disk.
  The steps of the store then fall into four kinds. Most are a `Settle` of the
  abstract vault: no new world appears (`QuietSettles`, `JournalSettles` for a journal
  that comes or goes, `RetireSettles` for the source of a committed rename). The
  move of a write and a removal are `Change`, the move of a rename is `Rename`: each
  new world is an old one, or an old one with the step applied to it (`ChangeStep`,
  `RenameStep`). A power loss is `PowerLoss` (`LossStep`). Power losses and kills
  are not bounded in this theorem.
- Daemon. A handler keeps a capability in a local variable while the session may end.
  `IInv` has seven parts: the link and the session (`LinkInv`), what a handler in
  progress holds (`HolderInv`), that every live capability was generated by the
  active session and no later than `caps` (`OwnerInv`), the asset's stream
  (`AssetInv`, `StreamInv`), what depends on K_umbra (`KeyInv`), and spent
  confirmations (`SpentInv`). One lemma per part and group of actions.
- Metadata. A session's copy has the slots of its etag, and at least its Umbra
  feature: the copy is of a later read only after vault.create, and in between only
  the feature may have changed (`CopyInv`). What an operation carries from its
  first access to its second is what the first one wrote (`StepInv`), and a key is
  that of the key slot or none. So a write under the current etag keeps what it
  did not mean to change, although it writes a whole copy.
- Documents. A plain document has the body that a session shows under the same etag
  (`ShownOK`); an operation between its accesses knows the version it read only
  as long as the etag is the same, which is what its commit asks. Identities are
  numbers of past writes and no two paths hold the same one.
- Import. Each position of a command says what it knows of its candidate: whole
  in staging, whole with a marker, at the destination on some possible disk or on all
  of them. A loss of power picks one of the possible disks, so that
  `LossLeavesWhole` is a statement about all of them. That the versions on disk only
  grow is what ties a success to its plan.
- Custom editor. A document that is not dirty has the text of the version of its etag,
  and one without a usable session is empty (`DocOK`); an answer says what the
  version of its etag holds, whoever commits after it (`CallsOK`); an operation has at
  most one call under way and the pipe keeps the order (`OneCall`); a projection
  that arrives after K_umbra went is followed in the pipe by the answer of
  `lockUmbra`, which wipes it (`KeyOK`).
  `OthersAreKept` rests on a second induction, `KeepsInv`. That the model's own text
  contains the version of its etag is false between messages: an edit sent before a
  revert may arrive after it, and only the page's answer to the next save repairs
  it. So the invariant is about what the page will show when it has received all that is
  on its way (`QueueFits`), about snapshots that somebody still waits for (`AnswersFit`),
  about writes that are not answered yet (`WritesFit`) and about backups and their
  base (`BackupOK`): each holds the same changes of others as the version of
  the document's etag, or a text that did not grow out of the document at all, which
  is the blank page of `editor_reload`. It needs the two restrictions, although the
  code has neither: without them the property is false, see the findings.
- Sublime Text. A queued job and a queued callback say which version of which view they
  carry and of which sidecar; a view has at most one opening under way; the
  worker closes a sidecar before anything of the next one is queued. Unless
  drafts crossed (`crossed`), what `drafted` is about to report is the draft on disk.

- Git merge. `DiskInv` is about every possible disk: versions were counted, a marker
  or a candidate has its bundle. `PlanInv` is about a planned merge: its result is
  in no file, and no other plan has it. `HolderInv` says, step by step, what the
  holder of the guard knows of the visible files, and `OwnInv` that what it is
  about to report as done is what it planned. `SeenInv` gives the files that recovery
  may find one of five shapes, and says which steps wait for an fsync. A change
  of files is seen through `Moved`: a disk after it is one from before it, or
  has what is now visible in the changed directories. `Calm` in `Seen` is the
  limit that `merge_unsynced` shows: what a power loss leaves is claimed to be
  recoverable only when no sync failed and no run was killed before it, while
  `GitChangesAreKept`, `EditsAreKept`, `AcknowledgedMerges` and `LockHasOwner` need
  no condition.

Stated without a run's property are the type theorems, `Settled` (a mutation starts only
on a vault without staging files or an interrupted rename), `LinkGuardsSession`,
`OneSession`, the parts of `PlaintextIsConfined`, `HolderExtends`,
`HandlesDieByName`, `LockHasOwner` (half of `LossLeavesMerge`), and the
`InvariantHolds` of the two editors and of the merge.

Only checked by TLC:

- liveness (`OperationTerminates`, `IdleSessionEnds`, `EditReachesDisk`) and whatever
  needs ENABLED;
- the operator modules. They compute by folds and recursion over data, which the
  installed provers cannot do by induction; TLC evaluates them over bounded inputs.

## Abstractions

- Envelopes, etags and random values. An etag is the number of the write, since
  every envelope has a fresh nonce; `vault.json` is deterministic and stands for
  its own etag; random capabilities never repeat.
- `VaultStore`: a failing `rename` takes effect or not; staging directories of the
  rename journal are part of `InstallJournal`; retiring a deleted file to a
  tombstone, which Windows does, is not modelled; nor is an external writer
  between the locked check and the move, which the code documents as outside the
  cooperative domain.
- `DaemonSession`: one client and one connection; the order of document handles,
  the calibration of key derivation and the texts of answers are left out.
- `VaultDocuments`: assets, directories and drafts are left out; a document's text
  is a member of a small set; Git writes fresh versions only, so a checkout never
  brings back an earlier envelope bit for bit.
- `VaultMetadata`: passwords are the slots that they open; the catalog's profiles are
  treated like its tags.
- `GitMergeV5`: a move is atomic, also between directories, and the changes of
  one directory reach the disk in order; a move that reports an error but took
  effect is a failed fsync; scratch files that a kill leaves are not named by any
  state; Git writes the index under its lock, and of the worktree only editors'
  saves are modelled; the conflict's kind is given. "Undisturbed" leaves out what
  the code refuses on purpose: a foreign index lock, drift of the index, edits of
  the merged document.
- `ImportPublication`: a part of a candidate is a version number or damage; a second
  rejection of a clean audit, a marker replaced by a twin and a stranger at a staging
  name are left out; the two audits have the same parts.
- `CustomEditor`: one document, each operation once at a time. `Overlap` says whether a
  revert may run beside an operation that asks the page, `StaleBackup` whether a recovery
  draft that is out of date is backed up again. The code prevents neither; the
  runs take `FALSE`, see the findings. Assets, links and the tree view are left out.
- `SublimeDocuments`: removing a draft file succeeds; handles' close calls, the
  Umbra projections, renaming and deleting are left out; idle timers and the
  security gate are a lock at any time; timers of earlier edits do nothing, as
  in the code.
- `MergePlan`: Git's own merge of trees and the library that merges texts are modelled from how
  they are used; a document has two lines; attributes, object formats and file
  modes are left out.
- `LegacyRecovery`: kills only, no power loss and no failing call; the abort
  path of the old writers is left out.
- `PlainPublication`: the mutation lock, permissions and the scan of the source
  are left out; damage is an entry added or bytes altered.
- `UmbraProjection`, `TextSearch`, `Framing`, `LogicalPaths`: symbols and tokens stand
  for the bytes and names that the code tells apart.

## Not modelled

Cryptography, encodings and the parser of Git's index are functions of their input:
nothing interleaves with them, and what they compute is out of a model checker's
reach byte by byte. The Git driver's installation is an idempotent edit of two
files. The command line calls operations that the modules have. Release scripts and
the display helpers of the editors hold no state of a vault. The proofs of identity
of held files (inode, link count, owner) are replaced by the fact that they
establish. The tests, most of them in the same files as the code they test, are
two fifths of the repository's Rust and are not modelled.
