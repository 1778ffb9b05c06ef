---------------------------- MODULE SublimeDocuments ---------------------------
(***************************************************************************)
(* The documents of the Sublime Text client (editors/sublime/Inex.py and   *)
(* inex_core.py) at one path of a vault: opening with the recovery of a    *)
(* draft, typing, encrypted drafts, saving, closing, locking and the loss  *)
(* of a session.                                                           *)
(*                                                                         *)
(* Two threads work on them.  What sublime.set_timeout_async was given     *)
(* runs in order on one worker thread, which calls inexd and waits; what   *)
(* sublime.set_timeout was given, and everything the user does, runs on    *)
(* the main thread.  An action is what one thread does between two places  *)
(* where the other can tell.  A text is a number, given out with every     *)
(* edit; the etag of a version is its position.                            *)
(***************************************************************************)
EXTENDS Integers, Sequences, SequencesExt

CONSTANTS
  MaxViews,        \* bound: times the document is opened
  MaxTyped,        \* bound: edits of the user
  MaxSaves,        \* bound: saves asked for
  MaxOthers,       \* bound: versions committed by other clients
  MaxClients       \* bound: sidecars started

ASSUME SublimeAssumption ==
  /\ {MaxTyped, MaxSaves, MaxOthers} \subseteq Nat
  /\ {MaxViews, MaxClients} \subseteq Nat \ {0}

VARIABLES
  written,     \* the texts of all versions the vault held
  draft,       \* the file of the encrypted draft, which has one name for the path
  live,        \* the InexRpcClients that have a session
  runtime,     \* _client, _generation and _unlock_in_progress
  docs,        \* the ManagedDocument of each view, and _registry
  pending,     \* _pending_plaintext: the plaintext of documents not yet open
  panels,      \* the quick panels that wait for the user
  jobs, at,    \* what the worker was given, and where it is in the first
  callbacks,   \* what the worker gave to the main thread
  crossed,     \* history: see Crosses
  spent        \* how much of each bound is used

vars == <<written, draft, live, runtime, docs, pending, panels, jobs, at,
          callbacks, crossed, spent>>

Views == 1 .. MaxViews
Texts == 0 .. MaxTyped + MaxOthers

NoDraft == [text |-> -1, base |-> 0, seen |-> 0]
NoOwner == [client |-> 0, gen |-> 0, text |-> -1, etag |-> 0, found |-> NoDraft]
NoView  == [is |-> "new", text |-> -1, version |-> 0, saved |-> 0, drafted |-> 0,
            etag |-> 0, base |-> 0, confirm |-> FALSE, readonly |-> FALSE,
            timers |-> 0, gen |-> 0, seen |-> 0]
Gone    == [NoView EXCEPT !.is = "closed"]

\* Every variable has its type.
TypeOK ==
  /\ written \in Seq(Texts) /\ live \subseteq 1 .. MaxClients
  /\ draft.text \in Texts \cup {-1} /\ {draft.base, draft.seen} \subseteq 0 .. Len(written)
  /\ runtime.client \in 0 .. MaxClients /\ runtime.unlocking \in BOOLEAN
  /\ \A v \in Views :
       /\ docs[v].is \in {"new", "opening", "open", "closed"}
       /\ docs[v].saved <= docs[v].version /\ docs[v].drafted <= docs[v].version
       /\ {docs[v].etag, pending[v].etag} \subseteq 0 .. Len(written)
  /\ \A p \in panels : p.view \in Views /\ p.asks \in {"recovery", "overwrite"}
  /\ at \in {"start", "opened", "found", "locked"} /\ crossed \in BOOLEAN

\* The vault is unlocked and holds the document.
Init ==
  /\ written = <<0>> /\ draft = NoDraft /\ live = {1}
  /\ runtime = [client |-> 1, generation |-> 1, unlocking |-> FALSE]
  /\ docs = [v \in Views |-> NoView] /\ pending = [v \in Views |-> NoOwner]
  /\ panels = {} /\ jobs = <<>> /\ at = "start" /\ callbacks = <<>>
  /\ crossed = FALSE
  /\ spent = [views |-> 0, typed |-> 0, saves |-> 0, others |-> 0, clients |-> 1]

Latest == Len(written)
Dirty(d) == d.version # d.saved
Open(v) == docs[v].is = "open"
Highest(a, b) == IF a > b THEN a ELSE b

\* _runtime_snapshot agrees with what an operation began with; and
\* _current_client, which also wants the client to have a session.
Same(o) == runtime.client = o.client /\ runtime.generation = o.gen
Current(gen) == runtime.generation = gen /\ runtime.client \in live

Count(what) == spent' = [spent EXCEPT ![what] = @ + 1]
NewText == spent.typed + spent.others + 1
Give(job) == jobs' = Append(jobs, job)
Post(callback) == callbacks' = Append(callbacks, callback)

\* Two views of one path share its draft, and so do two drafts of one view: the
\* history variable is set when a view is opened while another one is still
\* being opened, when a draft is taken before the callback of an earlier one
\* of the view has run, and when a view is flushed and stays open although
\* the timer or the draft of its last edit is still to come.
Drafting(v) ==
  \E i \in DOMAIN jobs : jobs[i].kind = "draft" /\ jobs[i].view = v
DraftCalledBack(v) ==
  \E i \in DOMAIN callbacks : callbacks[i].kind = "drafted" /\ callbacks[i].view = v
Crosses(v) == crossed' = (crossed \/ Drafting(v) \/ DraftCalledBack(v))

-----------------------------------------------------------------------------
(* The session.                                                            *)

BeginUnlock ==
  /\ ~runtime.unlocking /\ runtime.client \notin live
  /\ spent.clients < MaxClients /\ Count("clients")
  /\ runtime' = [runtime EXCEPT !.unlocking = TRUE]
  /\ Give([kind |-> "unlock", client |-> spent.clients + 1, gen |-> runtime.generation])
  /\ UNCHANGED <<written, draft, live, docs, pending, panels, at, callbacks, crossed>>

\* The password is asked for and a sidecar started; either may fail.
WorkUnlock(j) ==
  /\ j.kind = "unlock" /\ jobs' = Tail(jobs)
  /\ \/ live' = live \cup {j.client} /\ Post(j)
     \/ UNCHANGED live /\ Post([j EXCEPT !.client = 0])
  /\ UNCHANGED <<written, draft, runtime, docs, pending, panels, at, crossed, spent>>

\* _finish_unlock and _unlock_failed: a client that comes too late, or beside
\* another one, is disposed of.
FinishUnlock(c) ==
  /\ c.kind = "unlock" /\ callbacks' = Tail(callbacks)
  /\ LET wanted == runtime.generation = c.gen /\ runtime.unlocking
         installed == wanted /\ c.client # 0 /\ runtime.client = 0
     IN /\ runtime' = [client |-> IF installed THEN c.client ELSE runtime.client,
                       generation |-> runtime.generation + IF installed THEN 1 ELSE 0,
                       unlocking |-> runtime.unlocking /\ runtime.generation # c.gen]
        /\ live' = IF installed THEN live ELSE live \ {c.client}
  /\ UNCHANGED <<written, draft, docs, pending, panels, jobs, at, crossed, spent>>

\* Everything that shows or holds plaintext goes; the worker shuts the client
\* down after what it was given before.
LockViews ==
  /\ runtime' = [client |-> 0, generation |-> runtime.generation + 1, unlocking |-> FALSE]
  /\ pending' = [v \in Views |-> NoOwner] /\ panels' = {}
  /\ docs' = [v \in Views |-> IF Open(v) THEN Gone ELSE docs[v]]
  /\ jobs' = IF runtime.client = 0 THEN jobs
             ELSE Append(jobs, [kind |-> "shutdown", client |-> runtime.client])

\* The user, the idle deadline or the security gate locks the vault.
PerformLock ==
  /\ runtime.client # 0 \/ runtime.unlocking
  /\ LockViews
  /\ UNCHANGED <<written, draft, live, at, callbacks, crossed, spent>>

WorkShutdown(j) ==
  /\ j.kind = "shutdown" /\ jobs' = Tail(jobs) /\ live' = live \ {j.client}
  /\ UNCHANGED <<written, draft, runtime, docs, pending, panels, at, callbacks,
                 crossed, spent>>

\* The sidecar ends, breaks the protocol, times out or forgets the session.
LoseSession(c) ==
  /\ c \in live /\ live' = live \ {c} /\ Post([kind |-> "lost", client |-> c])
  /\ UNCHANGED <<written, draft, runtime, docs, pending, panels, jobs, at, crossed, spent>>

SessionLost(c) ==
  /\ c.kind = "lost" /\ callbacks' = Tail(callbacks)
  /\ IF c.client = runtime.client THEN LockViews
     ELSE UNCHANGED <<runtime, docs, pending, panels, jobs>>
  /\ UNCHANGED <<written, draft, live, at, crossed, spent>>

-----------------------------------------------------------------------------
(* Opening a document.                                                     *)

\* _open_document looks for an open view of the path before it asks inexd,
\* and not again afterwards.
OpenDocument ==
  /\ \A v \in Views : ~Open(v)
  /\ runtime.client # 0 /\ spent.views < MaxViews /\ Count("views")
  /\ crossed' = (crossed \/ \E v \in Views : docs[v].is = "opening")
  /\ LET v == spent.views + 1
     IN /\ docs' = [docs EXCEPT ![v].is = "opening"]
        /\ Give([kind |-> "open", view |-> v, found |-> NoDraft,
                  client |-> runtime.client, gen |-> runtime.generation])
  /\ UNCHANGED <<written, draft, live, runtime, pending, panels, at, callbacks>>

Abandon(v) == docs' = [docs EXCEPT ![v] = Gone] /\ pending' = [pending EXCEPT ![v] = NoOwner]

\* The worker is done with its first job, which came to nothing.
WorkAbandons(v) ==
  /\ Abandon(v) /\ jobs' = Tail(jobs) /\ at' = "start" /\ UNCHANGED callbacks

WorkOpen(j) ==
  /\ j.kind = "open" /\ at = "start"
  /\ IF j.client \in live
     THEN /\ pending' = [pending EXCEPT ![j.view] =
               [client |-> j.client, gen |-> j.gen, text |-> Last(written),
                etag |-> Latest, found |-> NoDraft]]
          /\ at' = "opened" /\ UNCHANGED <<docs, jobs, callbacks>>
     ELSE WorkAbandons(j.view)
  /\ UNCHANGED <<written, draft, live, runtime, panels, crossed, spent>>

\* Mutant: the session is not compared again once inexd has answered.
WorkReadDraftUnchecked(j) ==
  /\ j.kind = "open" /\ at = "opened"
  /\ \/ /\ draft = NoDraft
        /\ Post([kind |-> "opened", view |-> j.view])
        /\ jobs' = Tail(jobs) /\ at' = "start" /\ UNCHANGED <<docs, pending>>
     \/ /\ draft # NoDraft
        /\ jobs' = <<[j EXCEPT !.found = draft]>> \o Tail(jobs)
        /\ at' = "found" /\ UNCHANGED <<docs, pending, callbacks>>
  /\ UNCHANGED <<written, draft, live, runtime, panels, crossed, spent>>
WorkReadDraft(j) ==
  /\ j.kind = "open" /\ at = "opened"
  /\ \/ ~Same(j) /\ WorkAbandons(j.view)
     \/ /\ Same(j) /\ draft = NoDraft
        /\ Post([kind |-> "opened", view |-> j.view])
        /\ jobs' = Tail(jobs) /\ at' = "start" /\ UNCHANGED <<docs, pending>>
     \/ /\ Same(j) /\ draft # NoDraft
        /\ jobs' = <<[j EXCEPT !.found = draft]>> \o Tail(jobs)
        /\ at' = "found" /\ UNCHANGED <<docs, pending, callbacks>>
  /\ UNCHANGED <<written, draft, live, runtime, panels, crossed, spent>>

\* draft.decrypt, and add_buffer, which refuses once the owner was drained.
WorkDecryptDraft(j) ==
  /\ j.kind = "open" /\ at = "found"
  /\ IF j.client \in live /\ pending[j.view] # NoOwner /\ Same(j)
     THEN /\ pending' = [pending EXCEPT ![j.view].found = j.found]
          /\ Post([kind |-> "offer", view |-> j.view])
          /\ jobs' = Tail(jobs) /\ at' = "start" /\ UNCHANGED docs
     ELSE WorkAbandons(j.view)
  /\ UNCHANGED <<written, draft, live, runtime, panels, crossed, spent>>

\* The ManagedDocument that finish_open registers.
NewDocument(o) ==
  [NoView EXCEPT !.is = "open", !.text = o.text, !.etag = o.etag, !.base = o.etag,
                 !.drafted = -1, !.gen = o.gen, !.seen = o.etag]
\* Mutant: a restored draft is saved without asking.
RecoveredUnasked(o) ==
  [NewDocument(o) EXCEPT !.text = o.found.text, !.base = o.found.base,
                         !.version = 1, !.drafted = 1, !.seen = o.found.seen]
Recovered(o) ==
  [NewDocument(o) EXCEPT !.text = o.found.text, !.base = o.found.base,
                         !.version = 1, !.drafted = 1,
                         !.confirm = o.found.base # o.etag, !.seen = o.found.seen]

\* The pending plaintext of v becomes document d, if the session is the same.
FinishOpen(v, d) ==
  IF pending[v] # NoOwner /\ Same(pending[v]) /\ runtime.client \in live
  THEN docs' = [docs EXCEPT ![v] = d] /\ pending' = [pending EXCEPT ![v] = NoOwner]
  ELSE Abandon(v)

FinishPendingOpen(c) ==
  /\ c.kind = "opened" /\ callbacks' = Tail(callbacks)
  /\ FinishOpen(c.view, NewDocument(pending[c.view]))
  /\ UNCHANGED <<written, draft, live, runtime, panels, jobs, at, crossed, spent>>

OfferRecovery(c) ==
  /\ c.kind = "offer" /\ callbacks' = Tail(callbacks)
  /\ IF pending[c.view] # NoOwner /\ Same(pending[c.view]) /\ runtime.client \in live
     THEN /\ panels' = panels \cup {[asks |-> "recovery", view |-> c.view]}
          /\ UNCHANGED <<docs, pending>>
     ELSE Abandon(c.view) /\ UNCHANGED panels
  /\ UNCHANGED <<written, draft, live, runtime, jobs, at, crossed, spent>>

\* The draft is restored as unsaved text, discarded, or left alone.
ChooseRecovery(p) ==
  /\ p.asks = "recovery" /\ panels' = panels \ {p}
  /\ LET usable == Same(pending[p.view]) /\ runtime.client \in live
     IN \/ FinishOpen(p.view, Recovered(pending[p.view])) /\ UNCHANGED draft
        \/ /\ FinishOpen(p.view, NewDocument(pending[p.view]))
           /\ draft' = IF usable THEN NoDraft ELSE draft
        \/ Abandon(p.view) /\ UNCHANGED draft
  /\ UNCHANGED <<written, live, runtime, jobs, at, callbacks, crossed, spent>>

-----------------------------------------------------------------------------
(* Typing, and the encrypted draft.                                        *)

\* on_modified; the timers of an earlier version do nothing when they end.
Type(v) ==
  /\ Open(v) /\ ~docs[v].readonly /\ spent.typed < MaxTyped /\ Count("typed")
  /\ docs' = [docs EXCEPT ![v].text = NewText, ![v].version = @ + 1, ![v].timers = 1]
  /\ UNCHANGED <<written, draft, live, runtime, pending, panels, jobs, at, callbacks, crossed>>

Snapshot(v) ==
  [kind |-> "draft", view |-> v, client |-> runtime.client, gen |-> runtime.generation,
   version |-> docs[v].version, text |-> docs[v].text, base |-> docs[v].base,
   seen |-> docs[v].seen]

\* The debounce of _schedule_draft ends: begin.
BeginDraft(v) ==
  /\ Open(v) /\ docs[v].timers > 0
  /\ docs' = [docs EXCEPT ![v].timers = @ - 1]
  /\ Give(Snapshot(v)) /\ Crosses(v)
  /\ UNCHANGED <<written, draft, live, runtime, pending, panels, at, callbacks, spent>>

File(s) == [text |-> s.text, base |-> s.base, seen |-> s.seen]

\* _write_draft_snapshot takes draft_lock and looks whether the snapshot is
\* the document's.
WorkLockDraft(j) ==
  /\ j.kind = "draft" /\ at = "start"
  /\ IF Open(j.view) /\ docs[j.view].version = j.version
     THEN at' = "locked" /\ UNCHANGED jobs
     ELSE at' = at /\ jobs' = Tail(jobs)
  /\ UNCHANGED <<written, draft, live, runtime, docs, pending, panels, callbacks,
                 crossed, spent>>

\* draft.encrypt and the atomic replacement of the file, either of which may fail.
WorkWriteDraft(j) ==
  /\ j.kind = "draft" /\ at = "locked" /\ at' = "start" /\ jobs' = Tail(jobs)
  /\ \/ /\ j.client \in live /\ draft' = File(j)
        /\ Post([kind |-> "drafted", view |-> j.view, gen |-> j.gen,
                 version |-> j.version, base |-> j.base])
     \/ UNCHANGED draft /\ Post([kind |-> "draftFailed", view |-> j.view])
  /\ UNCHANGED <<written, live, runtime, docs, pending, panels, crossed, spent>>

\* A draft that was taken before a save was acknowledged is removed.
Superseded(d, c) == d.base # c.base \/ ~Dirty(d)

Drafted(c) ==
  /\ c.kind = "drafted" /\ callbacks' = Tail(callbacks)
  /\ IF Current(c.gen) /\ Open(c.view)
     THEN IF Superseded(docs[c.view], c)
          THEN draft' = NoDraft /\ UNCHANGED docs
          ELSE docs' = [docs EXCEPT ![c.view].drafted = Highest(@, c.version)] /\ UNCHANGED draft
     ELSE UNCHANGED <<draft, docs>>
  /\ UNCHANGED <<written, live, runtime, pending, panels, jobs, at, crossed, spent>>

DraftFailed(c) ==
  /\ c.kind = "draftFailed" /\ callbacks' = Tail(callbacks)
  /\ docs' = IF Open(c.view) THEN [docs EXCEPT ![c.view].readonly = TRUE] ELSE docs
  /\ UNCHANGED <<written, draft, live, runtime, pending, panels, jobs, at, crossed, spent>>

\* _flush_final_draft writes the draft on the main thread, after the worker
\* has given draft_lock back; it may fail, with a message.
NeedsFlush(d) == Dirty(d) /\ d.drafted < d.version
Flushed(v) ==
  /\ ~(at = "locked" /\ Head(jobs).view = v)
  /\ runtime.client \in live /\ draft' = File(docs[v])

\* Commands that close several views flush all of them, and a view may stay.
FlushSurvivor(v) ==
  /\ Open(v) /\ NeedsFlush(docs[v]) /\ Flushed(v) /\ crossed' = TRUE
  /\ docs' = [docs EXCEPT ![v].drafted = docs[v].version]
  /\ UNCHANGED <<written, live, runtime, pending, panels, jobs, at, callbacks, spent>>

Close(v) ==
  /\ Open(v) /\ docs' = [docs EXCEPT ![v] = Gone]
  /\ panels' = {p \in panels : p.view # v}
  /\ \/ NeedsFlush(docs[v]) /\ Flushed(v)
     \/ UNCHANGED draft
  /\ UNCHANGED <<written, live, runtime, pending, jobs, at, callbacks, crossed, spent>>

-----------------------------------------------------------------------------
(* Saving.                                                                 *)

GiveSave(v, confirmed) ==
  Give([kind |-> "save", view |-> v, client |-> runtime.client,
        gen |-> runtime.generation, version |-> docs[v].version, text |-> docs[v].text,
        etag |-> docs[v].etag, seen |-> docs[v].seen, confirmed |-> confirmed])

\* A restored draft with another base needs a confirmation.
Save(v) ==
  /\ Open(v) /\ runtime.client # 0 /\ spent.saves < MaxSaves /\ Count("saves")
  /\ \/ ~docs[v].confirm /\ GiveSave(v, FALSE) /\ UNCHANGED panels
     \/ /\ docs[v].confirm /\ UNCHANGED jobs
        /\ panels' = panels \cup {[asks |-> "overwrite", view |-> v]}
  /\ UNCHANGED <<written, draft, live, runtime, docs, pending, at, callbacks, crossed>>

ConfirmOverwrite(p) ==
  /\ p.asks = "overwrite" /\ panels' = panels \ {p}
  /\ \/ GiveSave(p.view, TRUE)
     \/ UNCHANGED jobs
  /\ UNCHANGED <<written, draft, live, runtime, docs, pending, at, callbacks, crossed, spent>>

\* file.write: refused if the etag is another one; its answer may be lost,
\* and the session with it.
WorkSave(j) ==
  /\ j.kind = "save" /\ jobs' = Tail(jobs)
  /\ IF j.client \in live /\ j.etag = Latest
     THEN /\ written' = Append(written, j.text)
          /\ \/ /\ Post([kind |-> "saved", view |-> j.view, gen |-> j.gen,
                         version |-> j.version, etag |-> Latest + 1])
                /\ UNCHANGED live
             \/ Post([kind |-> "lost", client |-> j.client]) /\ live' = live \ {j.client}
     ELSE UNCHANGED <<written, callbacks, live>>
  /\ UNCHANGED <<draft, runtime, docs, pending, panels, at, crossed, spent>>

\* mark_saved and mark_drafted.  Mutant: whatever was typed since is marked too.
MarkSavedAll(d, c) ==
  [d EXCEPT !.etag = c.etag, !.base = c.etag, !.seen = c.etag, !.saved = d.version,
            !.confirm = FALSE, !.drafted = Highest(@, c.version)]
MarkSaved(d, c) ==
  LET all == c.version = d.version
  IN [d EXCEPT !.etag = c.etag, !.base = c.etag, !.seen = c.etag,
               !.saved = IF all THEN c.version ELSE @,
               !.confirm = @ /\ ~all,
               !.drafted = Highest(@, c.version)]

\* With nothing left unsaved the draft is removed, else a new one is due.
\* Mutant: the new one is not.
SavedOnce(c) ==
  /\ c.kind = "saved" /\ callbacks' = Tail(callbacks)
  /\ IF Open(c.view) /\ Current(c.gen)
     THEN LET d == MarkSaved(docs[c.view], c)
          IN /\ docs' = [docs EXCEPT ![c.view] = d]
             /\ draft' = IF Dirty(d) THEN draft ELSE NoDraft
     ELSE UNCHANGED <<docs, draft>>
  /\ UNCHANGED <<written, live, runtime, pending, panels, jobs, at, crossed, spent>>
Saved(c) ==
  /\ c.kind = "saved" /\ callbacks' = Tail(callbacks)
  /\ IF Open(c.view) /\ Current(c.gen)
     THEN LET d == MarkSaved(docs[c.view], c)
          IN /\ docs' = [docs EXCEPT ![c.view] = [d EXCEPT !.timers = @ + IF Dirty(d) THEN 1 ELSE 0]]
             /\ draft' = IF Dirty(d) THEN draft ELSE NoDraft
     ELSE UNCHANGED <<docs, draft>>
  /\ UNCHANGED <<written, live, runtime, pending, panels, jobs, at, crossed, spent>>

\* Another client of the vault commits a text of its own.
OtherCommits ==
  /\ spent.others < MaxOthers /\ Count("others")
  /\ written' = Append(written, NewText)
  /\ UNCHANGED <<draft, live, runtime, docs, pending, panels, jobs, at, callbacks, crossed>>

-----------------------------------------------------------------------------
User ==
  \/ BeginUnlock \/ PerformLock \/ OpenDocument
  \/ \E p \in panels : ChooseRecovery(p) \/ ConfirmOverwrite(p)
  \/ \E v \in Views : Type(v) \/ FlushSurvivor(v) \/ Close(v) \/ Save(v)

Worker ==
  /\ jobs # <<>>
  /\ LET j == Head(jobs)
     IN \/ WorkUnlock(j) \/ WorkShutdown(j) \/ WorkOpen(j) \/ WorkReadDraft(j)
        \/ WorkDecryptDraft(j) \/ WorkLockDraft(j) \/ WorkWriteDraft(j) \/ WorkSave(j)

Callback ==
  /\ callbacks # <<>>
  /\ LET c == Head(callbacks)
     IN \/ FinishUnlock(c) \/ SessionLost(c) \/ FinishPendingOpen(c) \/ OfferRecovery(c)
        \/ Drafted(c) \/ DraftFailed(c) \/ Saved(c)

Timer == \E v \in Views : BeginDraft(v)

Next ==
  \/ User \/ Worker \/ Callback \/ Timer \/ OtherCommits
  \/ \E c \in live : LoseSession(c)

\* The threads of Sublime Text run what they were given.
Spec == Init /\ [][Next]_vars /\ WF_vars(Worker) /\ WF_vars(Callback) /\ WF_vars(Timer)

-----------------------------------------------------------------------------
(* Properties.                                                             *)

\* The status line of _update_document_ui tells the truth.  "ciphertext saved":
\* the view shows what the vault holds under its etag, however saves, edits
\* and lost answers interleave.  "encrypted draft saved": the draft is on disk,
\* where a close or a crash of the editor leaves it, unless drafts crossed.
StatusIsTrue ==
  \A v \in Views : Open(v) =>
    /\ ~Dirty(docs[v]) => docs[v].text = written[docs[v].etag]
    /\ Dirty(docs[v]) /\ ~NeedsFlush(docs[v]) /\ ~crossed => draft.text = docs[v].text

\* What a save replaces is the version its text grew out of, through any number
\* of drafts, closings and restorations, or the user confirmed to overwrite it.
OverwriteConfirmed ==
  [][jobs # <<>> /\ Head(jobs).kind = "save" /\ jobs' = Tail(jobs) /\ written' # written
       => Head(jobs).seen = Latest \/ Head(jobs).confirmed]_vars

\* Plaintext in a view or waiting to be shown belongs to the session that is
\* installed, except for what the worker is just about to give up.
PlaintextOfSession ==
  \A v \in Views :
    /\ Open(v) => runtime.client # 0 /\ docs[v].gen = runtime.generation
    /\ pending[v] # NoOwner => \/ Same(pending[v])
                               \/ at = "opened" /\ Head(jobs).view = v

\* An edit gets its draft or is saved, or the view is closed or stops taking
\* edits: a draft that a save overtook is replaced by a new one.
EditReachesDisk ==
  \A v \in Views :
    Open(v) /\ NeedsFlush(docs[v])
      ~> ~Open(v) \/ ~NeedsFlush(docs[v]) \/ docs[v].readonly

=============================================================================
