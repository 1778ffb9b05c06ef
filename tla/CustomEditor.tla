------------------------------ MODULE CustomEditor -----------------------------
(***************************************************************************)
(* The VS Code custom editor (editors/vscode/src/customEditor.ts) on one   *)
(* document: the model that the extension host owns, the web page the user *)
(* types into, the commands that save, revert, back up, convert, annotate, *)
(* rename, delete and lock, and the session of the vault (controller.ts).  *)
(*                                                                         *)
(* The host has one thread: an action is what runs between two awaits.     *)
(* The host and the page exchange messages over two queues, and calls to   *)
(* one inexd are answered in order.  A text is the set of the changes it   *)
(* contains: 0 is what the document began with, then what the user typed,  *)
(* then what other clients wrote.  The etag of a version is its position.  *)
(***************************************************************************)
EXTENDS Integers, Sequences, SequencesExt

CONSTANTS
  Overlap,     \* whether a revert may run while another operation asks the page
  StaleBackup, \* whether a recovery draft that is out of date is backed up again
  MaxTyped,    \* bound: inputs of the user
  MaxOthers,   \* bound: versions committed by other clients
  MaxPages,    \* bound: times the page is started
  MaxStarted,  \* bound: operations started
  MaxSessions  \* bound: times the vault is unlocked

ASSUME EditorAssumption ==
  /\ {Overlap, StaleBackup} \subseteq BOOLEAN
  /\ {MaxTyped, MaxOthers, MaxPages, MaxStarted} \subseteq Nat
  /\ MaxSessions \in Nat \ {0}

VARIABLES
  versions,  \* every version the vault held
  session,   \* the controller's session: its state and its generation
  umbra,     \* whether inexd holds K_umbra
  doc,       \* the InexDocument
  page,      \* the page of its panel
  toHost, toPage,  \* messages under way
  ops,       \* where each operation of the extension is
  calls,     \* the calls to the inexd of each session, answered or not
  draft,     \* the encrypted backup
  spent      \* how much of each bound is used

vars == <<versions, session, umbra, doc, page, toHost, toPage, ops, calls,
          draft, spent>>

Generations == 1 .. MaxSessions
Mutation == {"rename", "delete"}
AskPage == {"save", "backup", "convert", "lock"} \cup Mutation
Op == AskPage \cup {"open", "revert", "annotate", "lockUmbra"}

\* Awaiting a snapshot of the page.
Flushing == {"flush", "saveFlush", "flushAgain"}
Steps == {"idle", "asking", "closing", "called"} \cup Flushing

Idle == [at |-> "idle", session |-> 0, doc |-> 0, ask |-> 0, rev |-> 0,
         etag |-> 0, text |-> {}]
NoDraft == [base |-> 0, text |-> {}]
Down == [up |-> FALSE, text |-> {}, epoch |-> 0, timer |-> FALSE, locked |-> FALSE]
Closed(gen, of) ==
  [is |-> "closed", text |-> {}, revision |-> 0, saved |-> 0, etag |-> 0, umbra |-> FALSE,
   stale |-> FALSE, epoch |-> 0, asked |-> 0, gen |-> gen, session |-> of]

\* Every variable has its type.
Texts == SUBSET (0 .. MaxTyped + MaxOthers)
TypeOK ==
  /\ \A v \in Range(versions) : v.text \in Texts /\ v.kind \in {"plain", "umbra", "gone"}
  /\ session.is \in {"unlocked", "locked", "expired"} /\ session.gen \in Generations
  /\ umbra \in BOOLEAN
  /\ doc.is \in {"closed", "open", "frozen", "locked"} /\ doc.text \in Texts
  /\ doc.etag \in 0 .. Len(versions) /\ doc.saved \in -1 .. doc.revision
  /\ page.text \in Texts /\ {page.up, page.timer, page.locked} \subseteq BOOLEAN
  /\ \A o \in Op : ops[o].at \in Steps /\ ops[o].text \in Texts
  /\ draft.text \in Texts /\ draft.base \in 0 .. Len(versions)

\* A vault is unlocked and its document open and shown; or an earlier host
\* died and left the backup of a document, whose file may have changed since.
OpenAtFirst ==
  /\ versions = <<[text |-> {0}, kind |-> "plain"]>>
  /\ doc = [Closed(1, 1) EXCEPT !.is = "open", !.text = {0}, !.etag = 1]
  /\ page = [Down EXCEPT !.up = TRUE, !.text = {0}] /\ draft = NoDraft
  /\ spent = [typed |-> 0, others |-> 0, pages |-> 0, started |-> 0]

BackupLeft ==
  /\ MaxTyped > 0 /\ \E others \in 0 .. MaxOthers, kind \in {"plain", "umbra"} :
       /\ versions = <<[text |-> {0}, kind |-> "plain"]>> \o
                     [i \in 1 .. others |-> [text |-> {0} \cup (MaxTyped + 1 .. MaxTyped + i),
                                               kind |-> kind]]
       /\ spent = [typed |-> 1, others |-> others, pages |-> 0, started |-> 0]
  /\ doc = Closed(1, 1) /\ page = Down
  /\ draft = [base |-> 1, text |-> {0, 1}]

Init ==
  /\ OpenAtFirst \/ BackupLeft
  /\ session = [is |-> "unlocked", gen |-> 1] /\ umbra = TRUE
  /\ toHost = <<>> /\ toPage = <<>>
  /\ ops = [o \in Op |-> Idle] /\ calls = [g \in Generations |-> <<>>]

Latest == Last(versions)
Dirty(d) == d.revision # d.saved

\* requireCurrentDocumentSession, and requireUsable of the document that
\* operation o was called with.
Current(o) == session.is = "unlocked" /\ session.gen = ops[o].session
Usable(o) == doc.is = "open" /\ doc.gen = ops[o].doc

NewTyped == spent.typed + 1
NewTheirs == MaxTyped + spent.others + 1
Count(what) == spent' = [spent EXCEPT ![what] = @ + 1]

-----------------------------------------------------------------------------
(* The page.                                                               *)

\* The html of the panel is set, or its tab is shown again: the script starts
\* with an empty editor and epoch 0 and says so.
StartPage ==
  /\ spent.pages < MaxPages /\ Count("pages")
  /\ page' = [Down EXCEPT !.up = TRUE]
  /\ toHost' = Append(toHost, [type |-> "ready", epoch |-> 0, text |-> {}, ask |-> 0])
  /\ toPage' = <<>>

\* A hidden tab loses its page (retainContextWhenHidden is false), and starts
\* it anew when it is shown.
Hide ==
  /\ page.up /\ spent.pages < MaxPages /\ page' = Down /\ toPage' = <<>>
  /\ UNCHANGED <<versions, session, umbra, doc, toHost, ops, calls, draft, spent>>

Show ==
  /\ doc.is = "open" /\ ~page.up /\ StartPage
  /\ UNCHANGED <<versions, session, umbra, doc, ops, calls, draft>>

Type ==
  /\ page.up /\ ~page.locked /\ spent.typed < MaxTyped
  /\ page' = [page EXCEPT !.text = @ \cup {NewTyped}, !.epoch = @ + 1, !.timer = TRUE]
  /\ Count("typed")
  /\ UNCHANGED <<versions, session, umbra, doc, toHost, toPage, ops, calls, draft>>

Post(type, ask) ==
  toHost' = Append(toHost, [type |-> type, epoch |-> page.epoch,
                            text |-> page.text, ask |-> ask])

\* 150 ms after an input the whole text is sent.
SendEdit ==
  /\ page.timer /\ page' = [page EXCEPT !.timer = FALSE] /\ Post("edit", 0)
  /\ UNCHANGED <<versions, session, umbra, doc, toPage, ops, calls, draft, spent>>

\* The page receives a text to show, or the request for a snapshot.
PageReceives ==
  /\ page.up /\ toPage # <<>> /\ toPage' = Tail(toPage)
  /\ LET m == Head(toPage) IN
     \/ /\ m.type = "content"
        /\ page' = [page EXCEPT !.text = m.text, !.locked = m.locked, !.timer = FALSE]
        /\ UNCHANGED toHost
     \/ /\ m.type = "snapshotRequest"
        /\ page' = [page EXCEPT !.timer = FALSE] /\ Post("snapshot", m.ask)
  /\ UNCHANGED <<versions, session, umbra, doc, ops, calls, draft, spent>>

-----------------------------------------------------------------------------
(* The document.                                                           *)

\* applyEditorEdit.
Edited(d, text) ==
  IF text = d.text THEN d
  ELSE [d EXCEPT !.text = text, !.revision = @ + 1]

\* document.send: a message to a hidden page is not delivered.
Content(d) == [type |-> "content", text |-> d.text, locked |-> d.umbra, ask |-> 0]
Send(d) == toPage' = IF page.up THEN Append(toPage, Content(d)) ELSE toPage

\* replaceFromCiphertext, replaceFromUmbraProjection.
Replaced(d, r) ==
  [d EXCEPT !.text = r.text, !.etag = r.etag, !.umbra = r.umbra,
            !.revision = @ + 1, !.saved = d.revision + 1, !.stale = FALSE]

\* Mutant: the pages keep showing the text of before.
ReplaceUnseen(r) == doc' = Replaced(doc, r) /\ UNCHANGED toPage
Replace(r) == doc' = Replaced(doc, r) /\ Send(doc')

\* acceptSave: the revision that was written is saved, not the one that the
\* user has typed on to.  Mutant: the latter.
SavedAsItIs(d, r, etag) == [d EXCEPT !.etag = etag, !.saved = d.revision, !.stale = FALSE]
Saved(d, r, etag) == [d EXCEPT !.etag = etag, !.saved = r.rev, !.stale = FALSE]

\* The editor's part of an end of the session: wipeForLock empties the model,
\* replaces the page and rejects the requests for snapshots; a quick pick
\* that waits for the user closes.
Wiped(d) == IF d.is \in {"open", "frozen"}
            THEN [d EXCEPT !.is = "locked", !.text = {}, !.umbra = FALSE] ELSE d
WipeForLock ==
  /\ doc' = Wiped(doc) /\ page' = Down /\ toPage' = <<>>

Rejected(o) == ops[o].at \in Flushing \cup {"asking", "closing"}

\* The panel closes: VS Code disposes of the document, and forgets its backup.
Dispose ==
  /\ doc' = Closed(doc.gen, doc.session)
  /\ page' = Down /\ toHost' = <<>> /\ toPage' = <<>> /\ draft' = NoDraft

-----------------------------------------------------------------------------
(* Operations: starting, asking the page, calling inexd.                   *)

Set(o, r) == ops' = [ops EXCEPT ![o] = r]
End(o) == Set(o, Idle)

Starts(o) ==
  /\ ops[o].at = "idle" /\ spent.started < MaxStarted /\ Count("started")
  /\ \/ Overlap
     \/ /\ o = "revert" => \A p \in AskPage : ops[p].at = "idle"
        /\ o \in AskPage => ops["revert"].at = "idle"
  /\ StaleBackup \/ (o = "backup" => ~doc.stale)

Entered(o) == [Idle EXCEPT !.session = session.gen, !.doc = doc.gen]

\* What inexd does with a call.  It sees nothing of the editor, so a call is
\* served when it is made: other clients' commits before or after it stand
\* for those that come between.  Every commit is conditional on the etag.
HasKey(g) == umbra \/ g # session.gen
Allowed(method, g, etag, text) ==
  /\ method \in {"write", "read", "convert"} => Latest.kind = "plain"
  /\ method = "open" => Latest.kind = "plain" \/ (Latest.kind = "umbra" /\ HasKey(g))
  /\ method \in {"project", "annotate"} => Latest.kind = "umbra" /\ HasKey(g)
  /\ method = "convert" => HasKey(g)
  /\ method = "annotate" => text = Latest.text
  /\ method \in {"write", "convert", "annotate"} \cup Mutation => etag = Len(versions)

Commits(method, text) ==
  CASE method = "write" -> <<[text |-> text, kind |-> "plain"]>>
    [] method = "convert" -> <<[Latest EXCEPT !.kind = "umbra"]>>
    [] method \in {"annotate", "rename"} -> <<Latest>>
    [] method = "delete" -> <<[text |-> {}, kind |-> "gone"]>>
    [] OTHER -> <<>>

\* A call, by its answer: refused, or failed without a change; or with the
\* etag, text and kind that are then current.
Call(o, r, queue, method, etag, text) ==
  /\ Set(o, [r EXCEPT !.at = "called"])
  /\ \/ /\ UNCHANGED <<versions, umbra>>
        /\ calls' = [calls EXCEPT ![r.session] =
             Append(queue, [op |-> o, method |-> method, ok |-> FALSE,
                            etag |-> 0, text |-> {}, umbra |-> FALSE])]
     \/ /\ Allowed(method, r.session, etag, text)
        /\ versions' = versions \o Commits(method, text)
        /\ umbra' = (umbra /\ ~(method = "lockUmbra" /\ r.session = session.gen))
        /\ calls' = [calls EXCEPT ![r.session] =
             Append(queue, [op |-> o, method |-> method, ok |-> TRUE,
                            etag |-> IF method \in {"release", "decrypt"} THEN etag
                                     ELSE Len(versions'),
                            text |-> Last(versions').text,
                            umbra |-> Last(versions').kind = "umbra"])]

\* A call, and one that follows the answer of the one before.
Calls(o, r, method, etag, text) == Call(o, r, calls[r.session], method, etag, text)
CallsNext(o, r, method, etag, text) == Call(o, r, Tail(calls[r.session]), method, etag, text)

\* flushWebview: the request has a number of its own.
Flushes(o, r, at, d) ==
  /\ page.up /\ doc' = [d EXCEPT !.asked = @ + 1]
  /\ toPage' = Append(toPage, [type |-> "snapshotRequest", ask |-> d.asked + 1,
                               text |-> {}, locked |-> FALSE])
  /\ Set(o, [r EXCEPT !.at = at, !.ask = d.asked + 1])

-----------------------------------------------------------------------------
(* The host receives what the page posted.                                 *)

\* acceptEditEpoch: a message of an older epoch is ignored.
Accepted(m) == m.epoch >= doc.epoch
AtEpoch(m) == [doc EXCEPT !.epoch = m.epoch]

\* A message that is ignored, or that a document which is not usable refuses.
Ignore ==
  /\ toHost # <<>> /\ toHost' = Tail(toHost)
  /\ LET m == Head(toHost) IN
     \/ ~Accepted(m) /\ UNCHANGED doc
     \/ /\ Accepted(m) /\ doc' = AtEpoch(m)
        /\ \/ doc.is # "open"
           \/ m.type = "snapshot" /\ (\A o \in Op : ops[o].at \in Flushing => ops[o].ask # m.ask)
  /\ UNCHANGED <<versions, session, umbra, page, toPage, ops, calls, draft, spent>>

ReceiveReady ==
  /\ toHost # <<>> /\ toHost' = Tail(toHost)
  /\ LET m == Head(toHost) IN
     /\ m.type = "ready" /\ Accepted(m) /\ doc.is = "open"
     /\ doc' = AtEpoch(m) /\ Send(doc)
  /\ UNCHANGED <<versions, session, umbra, page, ops, calls, draft, spent>>

ReceiveEdit ==
  /\ toHost # <<>> /\ toHost' = Tail(toHost)
  /\ LET m == Head(toHost) IN
     /\ m.type = "edit" /\ Accepted(m) /\ doc.is = "open"
     /\ doc' = Edited(AtEpoch(m), m.text)
  /\ UNCHANGED <<versions, session, umbra, page, toPage, ops, calls, draft, spent>>

\* A rename or a delete closes the document only if the page, asked again
\* after a save, has nothing new.  Mutant: the save is taken to be enough.
MayFreezeOnceSaved(r, d) == ~Dirty(d) \/ r.at = "flushAgain"
MayFreeze(r, d) == ~Dirty(d)

\* A snapshot that somebody waits for is applied, and the operation goes on
\* in the same turn with the document as it then is.  "save" stands for
\* saveCustomDocument, which a conversion, a rename and a lock call as well:
\* it sends the text with the etag that the document has now.
Synchronized(o, r, d) ==
  \/ /\ r.at = "saveFlush" /\ doc' = d
     /\ Calls(o, [r EXCEPT !.rev = d.revision], "write", d.etag, d.text)
     /\ UNCHANGED <<session, page, toPage>>
  \/ /\ o = "backup" /\ doc' = d
     /\ Calls(o, [r EXCEPT !.etag = d.etag, !.text = d.text], "draft", d.etag, d.text)
     /\ UNCHANGED <<session, page, toPage>>
  \/ /\ o = "convert" /\ r.at = "flush" /\ Dirty(d) /\ Flushes(o, r, "saveFlush", d)
     /\ UNCHANGED <<versions, umbra, session, page, calls>>
  \/ /\ o = "convert" /\ r.at = "flush" /\ ~Dirty(d) /\ doc' = d
     /\ Calls(o, r, "release", d.etag, {}) /\ UNCHANGED <<session, page, toPage>>
  \/ /\ o \in Mutation /\ r.at # "saveFlush" /\ MayFreeze(r, d)  \* freezeForMutation
     /\ doc' = [d EXCEPT !.is = "frozen"] /\ page' = Down /\ toPage' = <<>>
     /\ ops' = [p \in Op |-> IF p = o THEN [r EXCEPT !.at = "closing", !.etag = d.etag]
                            ELSE IF ops[p].at \in Flushing THEN Idle ELSE ops[p]]
     /\ UNCHANGED <<versions, umbra, session, calls>>
  \/ /\ o \in {"rename", "lock"} /\ r.at = "flush" /\ Dirty(d)
     /\ doc' = d /\ Set(o, [r EXCEPT !.at = "asking"])
     /\ UNCHANGED <<versions, umbra, session, page, toPage, calls>>
  \/ /\ o = "lock" /\ r.at = "flush" /\ ~Dirty(d)
     /\ session' = [session EXCEPT !.is = "locked"]
     /\ doc' = Wiped(d) /\ page' = Down /\ toPage' = <<>>
     /\ ops' = [p \in Op |-> IF p = o \/ Rejected(p) THEN Idle ELSE ops[p]]
     /\ UNCHANGED <<versions, umbra, calls>>
  \/ \* Unsaved edits: a delete, and a rename after its save, give up.
     /\ o = "delete" \/ r.at = "flushAgain"
     /\ ~MayFreeze(r, d) /\ doc' = d /\ End(o)
     /\ UNCHANGED <<versions, umbra, session, page, toPage, calls>>

ReceiveSnapshot ==
  /\ toHost # <<>> /\ toHost' = Tail(toHost)
  /\ LET m == Head(toHost) IN
     /\ m.type = "snapshot" /\ Accepted(m) /\ doc.is = "open"
     /\ \E o \in Op :
          /\ ops[o].at \in Flushing /\ ops[o].ask = m.ask
          /\ Synchronized(o, ops[o], Edited(AtEpoch(m), m.text))
  /\ UNCHANGED <<draft, spent>>

\* The page answered not within 5 s, or the message was not delivered.
FlushFails(o) ==
  /\ ops[o].at \in Flushing /\ End(o)
  /\ UNCHANGED <<versions, session, umbra, doc, page, toHost, toPage, calls, draft, spent>>

-----------------------------------------------------------------------------
(* Commands of the user and of VS Code.                                    *)

\* openCustomDocument.
StartOpen ==
  /\ doc.is = "closed" /\ session.is = "unlocked" /\ Starts("open")
  /\ Calls("open", Entered("open"), "open", 0, {})
  /\ UNCHANGED <<session, doc, page, toHost, toPage, draft>>

\* Operations that begin by asking the page for its text.  A projection has
\* no edits to save, and a draft with an old base is saved on confirmation.
StartFlush(o) ==
  /\ doc.is = "open" /\ Starts(o)
  /\ o \in {"save", "convert"} => ~doc.umbra
  /\ o \in AskPage
  /\ Flushes(o, Entered(o), IF o = "save" THEN "saveFlush" ELSE "flush", doc)
  /\ UNCHANGED <<versions, session, umbra, page, toHost, calls, draft>>

\* Operations that call inexd at once.
StartCall(o) ==
  /\ doc.is = "open" /\ Starts(o)
  /\ \/ o = "revert"
        /\ Calls(o, Entered(o), IF doc.umbra THEN "project" ELSE "read", 0, {})
     \/ /\ o = "annotate" /\ doc.umbra
        /\ Calls(o, Entered(o), "annotate", doc.etag, doc.text)
  /\ UNCHANGED <<session, doc, page, toHost, toPage, draft>>

StartLockUmbra ==
  /\ session.is = "unlocked" /\ Starts("lockUmbra")
  /\ Calls("lockUmbra", Entered("lockUmbra"), "lockUmbra", 0, {})
  /\ UNCHANGED <<session, doc, page, toHost, toPage, draft>>

\* The user answers: save, give up, or (to a lock) discard the edits.
SaveFirst(o) ==
  /\ ops[o].at = "asking" /\ Current(o) /\ Usable(o) /\ ~doc.umbra
  /\ Flushes(o, ops[o], "saveFlush", doc)
  /\ UNCHANGED <<versions, session, umbra, page, toHost, calls, draft, spent>>

GiveUp(o) ==
  /\ ops[o].at = "asking" /\ End(o)
  /\ UNCHANGED <<versions, session, umbra, doc, page, toHost, toPage, calls, draft, spent>>

\* closeDirtyEditorsForDiscard.
Discard ==
  /\ ops["lock"].at = "asking" /\ Current("lock") /\ Usable("lock") /\ Dispose
  /\ session' = [session EXCEPT !.is = "locked"]
  /\ ops' = [p \in Op |-> IF Rejected(p) THEN Idle ELSE ops[p]]
  /\ UNCHANGED <<versions, umbra, calls, spent>>

\* closeDocumentForMutation: VS Code closes the tab and the source is renamed
\* or deleted; or it refuses, and the page is started again.
CloseForMutation(o) ==
  /\ o \in Mutation /\ ops[o].at = "closing" /\ doc.is = "frozen" /\ Current(o)
  /\ \/ Dispose /\ Calls(o, ops[o], o, ops[o].etag, {}) /\ UNCHANGED spent
     \/ /\ doc' = [doc EXCEPT !.is = "open"] /\ StartPage /\ End(o)
        /\ UNCHANGED <<versions, umbra, calls, draft>>
  /\ UNCHANGED session

\* The user closes the tab, having saved or discarded what is unsaved.
CloseTab ==
  /\ doc.is \in {"open", "locked"} /\ Dispose
  /\ ops' = [p \in Op |-> IF Rejected(p) THEN Idle ELSE ops[p]]
  /\ UNCHANGED <<versions, session, umbra, calls, spent>>

\* A lock with no document open has nothing to ask.
LockClosed ==
  /\ doc.is = "closed" /\ session.is = "unlocked" /\ session' = [session EXCEPT !.is = "locked"]
  /\ UNCHANGED <<versions, umbra, doc, page, toHost, toPage, ops, calls, draft, spent>>

\* The idle deadline passes, or the sidecar fails: invalidateSession disposes
\* of it, which rejects the calls that wait for an answer.
Expire ==
  /\ session.is = "unlocked" /\ session' = [session EXCEPT !.is = "expired"]
  /\ WipeForLock /\ ops' = [o \in Op |-> IF Current(o) THEN Idle ELSE ops[o]]
  /\ calls' = [calls EXCEPT ![session.gen] = <<>>]
  /\ UNCHANGED <<versions, umbra, toHost, draft, spent>>

Unlock ==
  /\ session.is # "unlocked" /\ session.gen < MaxSessions
  /\ session' = [is |-> "unlocked", gen |-> session.gen + 1] /\ umbra' \in BOOLEAN
  /\ UNCHANGED <<versions, doc, page, toHost, toPage, ops, calls, draft, spent>>

\* The extension host dies; the backup that VS Code keeps is left.  (Without
\* a backup what is left is an initial state.)
Crash ==
  /\ doc.is # "closed" /\ draft # NoDraft
  /\ doc' = Closed(doc.gen, doc.session)
  /\ page' = Down /\ toHost' = <<>> /\ toPage' = <<>>
  /\ ops' = [o \in Op |-> Idle] /\ calls' = [g \in Generations |-> <<>>]
  /\ session' = [session EXCEPT !.is = "expired"]
  /\ UNCHANGED <<versions, umbra, draft, spent>>

OtherCommits ==
  /\ spent.others < MaxOthers /\ Latest.kind # "gone" /\ Count("others")
  /\ versions' = Append(versions, [Latest EXCEPT !.text = @ \cup {NewTheirs}])
  /\ UNCHANGED <<session, umbra, doc, page, toHost, toPage, ops, calls, draft>>

-----------------------------------------------------------------------------
(* The host goes on when an answer arrives: first it checks the session.   *)

\* The answer at the head of the queue of session g.
Answer(g, methods) ==
  /\ calls[g] # <<>> /\ Head(calls[g]).method \in methods
Taken(g) == calls' = [calls EXCEPT ![g] = Tail(@)]
\* Mutant: the session is not checked again.
GoodAnswer(c) == c.ok
Good(c) == c.ok /\ Current(c.op)

\* An answer that is an error, that comes after the session has ended or
\* that its document cannot adopt any more ends the operation.
Drop(g) ==
  /\ calls[g] # <<>>
  /\ LET c == Head(calls[g]) IN
     /\ \/ ~Good(c)
        \/ c.method \in {"write", "read", "project", "annotate"} /\ ~Usable(c.op)
        \/ c.method \in Mutation
     /\ End(c.op) /\ Taken(g)
     /\ IF c.method = "lockUmbra" /\ doc.umbra
        THEN WipeForLock ELSE UNCHANGED <<doc, page, toPage>>
  /\ UNCHANGED <<versions, session, umbra, toHost, draft, spent>>

\* The write is on disk: a save ends; a conversion goes on if nothing was
\* typed meanwhile; a rename asks the page again; a lock checks and locks.
SaveAnswered(g) ==
  /\ Answer(g, {"write"})
  /\ LET c == Head(calls[g])
         o == c.op IN
     /\ Good(c) /\ Usable(o)
     /\ LET d == Saved(doc, ops[o], c.etag) IN
        /\ draft' = IF Dirty(d) THEN draft ELSE NoDraft
        /\ \/ /\ o = "save" \/ (o \in {"convert", "lock"} /\ Dirty(d))
              /\ doc' = d /\ End(o) /\ Taken(g) /\ UNCHANGED <<versions, umbra, session, page, toPage>>
           \/ /\ o = "convert" /\ ~Dirty(d) /\ doc' = d
              /\ CallsNext(o, ops[o], "release", d.etag, {}) /\ UNCHANGED <<session, page, toPage>>
           \/ /\ o = "rename" /\ Taken(g) /\ Flushes(o, ops[o], "flushAgain", d)
              /\ UNCHANGED <<versions, umbra, session, page>>
           \/ /\ o = "lock" /\ ~Dirty(d) /\ Taken(g) /\ UNCHANGED <<versions, umbra>>
              /\ session' = [session EXCEPT !.is = "locked"]
              /\ doc' = Wiped(d) /\ page' = Down /\ toPage' = <<>>
              /\ ops' = [p \in Op |-> IF p = o \/ Rejected(p) THEN Idle ELSE ops[p]]
  /\ UNCHANGED <<toHost, spent>>

\* A revert, a conversion or an annotation adopts what was read.
Adopt(g) ==
  /\ Answer(g, {"read", "project", "annotate"})
  /\ LET c == Head(calls[g]) IN
     /\ Good(c) /\ Usable(c.op) /\ Replace(c) /\ End(c.op) /\ Taken(g)
     /\ draft' = IF c.op = "revert" THEN NoDraft ELSE draft
  /\ UNCHANGED <<versions, session, umbra, page, toHost, spent>>

BackedUp(g) ==
  /\ Answer(g, {"draft"})
  /\ LET c == Head(calls[g]) IN
     /\ Good(c) /\ End(c.op) /\ Taken(g)
     /\ draft' = [base |-> ops[c.op].etag, text |-> ops[c.op].text]
  /\ UNCHANGED <<versions, session, umbra, doc, page, toHost, toPage, spent>>

\* The conversion: the plain handle is closed, the document converted under
\* the etag it has by then, and its projection read.
ConvertOn(g) ==
  /\ Answer(g, {"release", "convert"})
  /\ LET c == Head(calls[g])
         o == c.op IN
     /\ Good(c)
     /\ IF c.method = "release"
        THEN CallsNext(o, ops[o], "convert", IF Usable(o) THEN doc.etag ELSE c.etag, {})
        ELSE CallsNext(o, ops[o], "project", 0, {})
  /\ UNCHANGED <<session, doc, page, toHost, toPage, draft, spent>>

\* ensureOpenAllowed, and a document of this session joins the live set: with
\* what was read, or with a draft, which a later save writes over a newer
\* version than its base only on the user's word.
Attach(text, etag, isUmbra, restored, stale) ==
  doc' = [is |-> "open", text |-> text, revision |-> 0, saved |-> IF restored THEN -1 ELSE 0,
          etag |-> etag, umbra |-> isUmbra, stale |-> stale, epoch |-> 0, asked |-> 0,
          gen |-> doc.gen + 1, session |-> session.gen]

Opened(g) ==
  /\ Answer(g, {"open", "decrypt"})
  /\ LET c == Head(calls[g])
         o == c.op IN
     /\ Good(c)
     /\ \/ /\ c.method = "open" /\ draft = NoDraft
           /\ Attach(c.text, c.etag, c.umbra, FALSE, FALSE)
           /\ StartPage /\ End(o) /\ Taken(g) /\ UNCHANGED <<versions, umbra>>
        \/ /\ c.method = "open" /\ draft # NoDraft /\ ~c.umbra
           /\ CallsNext(o, ops[o], "decrypt", c.etag, {})
           /\ UNCHANGED <<doc, page, toHost, toPage, spent>>
        \/ /\ c.method = "open" /\ draft # NoDraft /\ c.umbra /\ End(o) /\ Taken(g)
           /\ UNCHANGED <<versions, umbra, doc, page, toHost, toPage, spent>>
        \/ /\ c.method = "decrypt" /\ End(o) /\ Taken(g) /\ UNCHANGED <<versions, umbra>>
           /\ \/ Attach(draft.text, c.etag, FALSE, TRUE, draft.base # c.etag) /\ StartPage
              \/ draft.base # c.etag /\ UNCHANGED <<doc, page, toHost, toPage, spent>>
  /\ UNCHANGED <<session, draft>>

LockedUmbra(g) ==
  /\ Answer(g, {"lockUmbra"})
  /\ LET c == Head(calls[g]) IN
     /\ Good(c) /\ End(c.op) /\ Taken(g)
     /\ IF doc.umbra THEN WipeForLock ELSE UNCHANGED <<doc, page, toPage>>
  /\ UNCHANGED <<versions, session, umbra, toHost, draft, spent>>

Next ==
  \/ Hide \/ Show \/ Type \/ SendEdit \/ PageReceives
  \/ Ignore \/ ReceiveReady \/ ReceiveEdit \/ ReceiveSnapshot
  \/ StartOpen \/ StartLockUmbra \/ Discard \/ CloseTab \/ LockClosed
  \/ Expire \/ Unlock \/ Crash \/ OtherCommits
  \/ \E o \in Op : \/ FlushFails(o) \/ StartFlush(o) \/ StartCall(o)
                   \/ SaveFirst(o) \/ GiveUp(o) \/ CloseForMutation(o)
  \/ \E g \in Generations :
       \/ Drop(g) \/ SaveAnswered(g) \/ Adopt(g)
       \/ BackedUp(g) \/ ConvertOn(g) \/ Opened(g) \/ LockedUmbra(g)

Spec == Init /\ [][Next]_vars

-----------------------------------------------------------------------------
(* Properties.                                                             *)

\* A document that is not marked unsaved shows what the vault holds under its
\* etag: text typed while a save waits for inexd is not marked saved by it,
\* whatever the order of edits, snapshots, saves, reverts and conversions.
CleanIsWritten ==
  doc.is \in {"open", "frozen"} /\ ~Dirty(doc)
    => /\ doc.text = versions[doc.etag].text
       /\ doc.umbra = (versions[doc.etag].kind = "umbra")

\* The editor loses no change of another client: what it commits contains what
\* they had written into the version that it replaces, unless the user let a
\* draft with an old base replace it.  (A text that did not grow out of the
\* document, whose mark is 0, is the subject of PageShowsModel.)
Theirs(text) == text \ (0 .. MaxTyped)
SaveKeepsOthers ==
  [][Len(versions') > Len(versions) /\ 0 \in Latest.text \cap Last(versions').text
       => Theirs(Latest.text) \subseteq Last(versions').text \/ doc.stale]_vars

\* With the session, every plaintext goes: none in the model, in the page or
\* on its way, although answers to calls of the session still arrive; and
\* with K_umbra the projections.
PlaintextOnlyUnlocked ==
  /\ session.is # "unlocked" \/ doc.session # session.gen
       => doc.text = {} /\ ~page.up /\ toPage = <<>>
  /\ doc.is = "open" /\ doc.umbra => umbra \/ ops["lockUmbra"].at # "idle"

\* A rename, a delete or a lock takes a document away only when nothing in it
\* is unsaved: whatever was typed since the question was asked, or while the
\* save that the user asked for was under way, is asked for again or kept.
TakenOnlyWhenSaved ==
  [][doc.is = "open" /\ (doc'.is = "frozen" \/ (doc'.is = "locked" /\ session'.is = "locked"))
       => \/ doc.revision = doc.saved
          \/ ops["lock"].at = "called" /\ doc.revision = ops["lock"].rev]_vars

\* editor-security.md: a page is not retained when it is hidden, and the model
\* of the extension, not what a page kept, is authoritative: once no message is
\* under way and nothing typed waits to be sent, the page shows the model.
PageShowsModel ==
  doc.is = "open" /\ page.up /\ ~page.timer /\ toHost = <<>> /\ toPage = <<>>
    => page.text = doc.text
=============================================================================
