------------------------- MODULE SublimeDocumentsProofs ------------------------
(***************************************************************************)
(* Proofs about the documents of the Sublime Text client, for any number   *)
(* of views, edits, saves, other clients' commits and sidecars.            *)
(***************************************************************************)
EXTENDS SublimeDocuments, TLAPS

-----------------------------------------------------------------------------
(* Types.                                                                  *)

Clients == 0 .. MaxClients
Drafts == [text : Texts \cup {-1}, base : Nat, seen : Nat]
Owners ==
  [client : Clients, gen : Nat, text : Texts \cup {-1}, etag : Nat, found : Drafts]
Document ==
  [is : {"new", "opening", "open", "closed"}, text : Texts \cup {-1},
   version : Nat, saved : Nat, drafted : Nat \cup {-1}, etag : Nat, base : Nat,
   confirm : BOOLEAN, readonly : BOOLEAN, timers : Nat, gen : Nat, seen : Nat]

Jobs ==
  [kind : {"unlock"}, client : 1 .. MaxClients, gen : Nat]
    \cup [kind : {"shutdown"}, client : Clients]
    \cup [kind : {"open"}, view : Views, found : Drafts, client : Clients, gen : Nat]
    \cup [kind : {"draft"}, view : Views, client : Clients, gen : Nat,
          version : Nat, text : Texts, base : Nat, seen : Nat]
    \cup [kind : {"save"}, view : Views, client : Clients, gen : Nat,
          version : Nat, text : Texts \cup {-1}, etag : Nat, seen : Nat,
          confirmed : BOOLEAN]

Calls ==
  [kind : {"unlock"}, client : Clients, gen : Nat]
    \cup [kind : {"lost"}, client : Clients]
    \cup [kind : {"opened", "offer", "draftFailed"}, view : Views]
    \cup [kind : {"drafted"}, view : Views, gen : Nat, version : Nat, base : Nat]
    \cup [kind : {"saved"}, view : Views, gen : Nat, version : Nat, etag : Nat]

Items == Jobs \cup Calls

Typed ==
  /\ written \in Seq(Texts) /\ Len(written) > 0
  /\ draft \in Drafts /\ live \subseteq 1 .. MaxClients
  /\ runtime \in [client : Clients, generation : Nat, unlocking : BOOLEAN]
  /\ docs \in [Views -> Document] /\ pending \in [Views -> Owners]
  /\ panels \subseteq [asks : {"recovery", "overwrite"}, view : Views]
  /\ jobs \in Seq(Jobs) /\ callbacks \in Seq(Calls)
  /\ at \in {"start", "opened", "found", "locked"} /\ crossed \in BOOLEAN
  /\ spent \in [views : 0 .. MaxViews, typed : 0 .. MaxTyped, saves : 0 .. MaxSaves,
                others : 0 .. MaxOthers, clients : 1 .. MaxClients]

-----------------------------------------------------------------------------
(* The inductive invariant.                                                *)

Alive(v) == docs[v].is \in {"opening", "open"}

\* An open document: of the session that is installed, based on a version of
\* the vault, and what its status line says.
DocOK(v) ==
  LET d == docs[v] IN
  /\ d.saved <= d.version /\ d.drafted <= d.version /\ d.base <= Latest
  /\ ~Open(v) => d.etag = 0
  /\ Open(v) =>
       /\ runtime.client # 0 /\ d.gen = runtime.generation
       /\ d.etag \in 1 .. Latest /\ d.text \in Texts
       /\ d.base = d.seen /\ (~d.confirm => d.base = d.etag)
       /\ ~Dirty(d) => d.text = written[d.etag]
       /\ ~crossed /\ Dirty(d) /\ d.drafted = d.version => draft.text = d.text

\* Views that were not used yet.
FreshOK(v) == docs[v].is = "new" <=> v > spent.views

DocsOK == \A v \in Views : DocOK(v) /\ FreshOK(v)

\* Plaintext that is not yet shown.
PendingOK(v) ==
  pending[v] # NoOwner =>
    /\ docs[v].is = "opening" /\ pending[v].client # 0
    /\ Same(pending[v]) \/ (at = "opened" /\ Head(jobs).view = v)
    /\ pending[v].etag \in 1 .. Latest /\ pending[v].text = written[pending[v].etag]
    /\ pending[v].found.base = pending[v].found.seen
    /\ pending[v].found.base <= Latest

PendingsOK == \A v \in Views : PendingOK(v)

DraftOK ==
  /\ draft.base = draft.seen /\ draft.base <= Latest
  /\ draft = NoDraft \/ draft.text \in Texts

AtOK ==
  /\ at # "start" => jobs # <<>>
  /\ at \in {"opened", "found"} => Head(jobs).kind = "open"
  /\ at = "opened" => LET o == pending[Head(jobs).view] IN
       o # NoOwner => o.client = Head(jobs).client /\ o.gen = Head(jobs).gen
  /\ at = "found" => Head(jobs).found.text \in Texts
  /\ at = "found" /\ ~crossed => Head(jobs).found = draft
  /\ at = "locked" => Head(jobs).kind = "draft"

\* A draft on its way, as a job or as a callback, while no drafts cross: if it
\* is not of the last edit, the last edit has none yet; if it is, and that has
\* one already, it is of the same base.
DraftOnItsWay(x) ==
  LET d == docs[x.view] IN
  Dirty(d) => /\ x.version < d.version => d.drafted < d.version
              /\ x.version = d.version /\ d.drafted = d.version => x.base = d.base

\* A save on its way, likewise.
SaveOnItsWay(x) ==
  LET d == docs[x.view] IN
  Dirty(d) /\ x.version < d.version => d.drafted < d.version

\* The draft that a view may restore is the one on disk.
Offered(v) ==
  pending[v] # NoOwner =>
    /\ pending[v].found.text \in Texts
    /\ ~crossed => pending[v].found = draft

PanelOK(p) ==
  /\ docs[p.view].is # "new"
  /\ p.asks = "recovery" => Offered(p.view)
  /\ p.asks = "overwrite" => docs[p.view].is \in {"open", "closed"}

PanelsOK == \A p \in panels : PanelOK(p)

OpenJobOK(j) ==
  /\ docs[j.view].is = "opening" /\ j.client # 0
  /\ j.found.base = j.found.seen /\ j.found.base <= Latest
  /\ \A p \in panels : p.asks = "recovery" => p.view # j.view

DraftJobOK(j) ==
  /\ docs[j.view].is \in {"open", "closed"} /\ j.base = j.seen /\ j.base <= Latest
  /\ Open(j.view) =>
       /\ j.version <= docs[j.view].version
       /\ j.version = docs[j.view].version => j.text = docs[j.view].text
       /\ ~crossed => DraftOnItsWay(j)

SaveJobOK(j) ==
  /\ docs[j.view].is \in {"open", "closed"}
  /\ j.confirmed \/ j.seen = j.etag
  /\ j.etag = 0 \/ j.text \in Texts
  /\ Open(j.view) =>
       LET d == docs[j.view] IN
       /\ j.etag <= d.etag /\ j.version <= d.version
       /\ j.version = d.version => j.text = d.text
       /\ j.etag = d.etag => d.saved <= j.version
       /\ ~crossed => SaveOnItsWay(j)

DraftedOK(c) ==
  /\ docs[c.view].is \in {"open", "closed"}
  /\ Open(c.view) =>
       LET d == docs[c.view] IN
       /\ c.version <= d.version
       /\ ~crossed =>
            /\ DraftOnItsWay(c)
            /\ c.version = d.version /\ Dirty(d) => draft.text = d.text

SavedOK(c) ==
  /\ docs[c.view].is \in {"open", "closed"} /\ c.etag <= Latest
  /\ Open(c.view) =>
       LET d == docs[c.view] IN
       /\ d.etag < c.etag
       /\ d.saved <= c.version /\ c.version <= d.version
       /\ c.version = d.version => d.text = written[c.etag]
       /\ ~crossed => SaveOnItsWay(c)

\* What is true of a job, and of a callback.
ItemOK(x) ==
  /\ x.kind = "open" => OpenJobOK(x)
  /\ x.kind = "draft" => DraftJobOK(x)
  /\ x.kind = "save" => SaveJobOK(x)
  /\ x.kind \in {"opened", "offer"} => docs[x.view].is # "new"
  /\ x.kind = "offer" => Offered(x.view)
  /\ x.kind = "draftFailed" => docs[x.view].is \in {"open", "closed"}
  /\ x.kind = "drafted" => DraftedOK(x)
  /\ x.kind = "saved" => SavedOK(x)

\* What is true of a job or callback a and one that comes after it.
IsDraft(x) == x.kind \in {"draft", "drafted"}
IsSave(x) == x.kind \in {"save", "saved"}
InOrder(a, b) ==
  /\ IsDraft(a) /\ IsSave(b) /\ a.view = b.view /\ Open(a.view) =>
       a.version <= b.version
  /\ IsDraft(a) /\ IsDraft(b) /\ a.view = b.view /\ Open(a.view) => crossed
  /\ a.kind = "saved" /\ b.kind = "saved" /\ a.view = b.view => ~Open(a.view)
  /\ a.kind \in {"open", "opened", "offer"} /\ b.kind = "open" => a.view # b.view
  /\ a.kind = "open" /\ b.kind = "draft" /\ a.view # b.view => crossed

Earlier(s, a, b) == \E i, k \in DOMAIN s : i < k /\ a = s[i] /\ b = s[k]

Queue == Range(jobs) \cup Range(callbacks)
Before(a, b) ==
  \/ Earlier(jobs, a, b) \/ Earlier(callbacks, a, b)
  \/ a \in Range(callbacks) /\ b \in Range(jobs)

ItemsOK == \A x \in Queue : ItemOK(x)
OrderOK == \A a, b \in Queue : Before(a, b) => InOrder(a, b)

\* While no drafts cross, one view is alive, and drafts of earlier ones are
\* written before the worker has opened it.
OneAlive ==
  ~crossed => \A v, w \in Views : Alive(v) /\ Alive(w) => v = w

EarlierDrafts ==
  ~crossed =>
    \A v \in Views, x \in Queue :
      Alive(v) /\ x.kind = "draft" /\ x.view # v =>
        \E y \in Queue : y.kind = "open" /\ y.view = v

IInv ==
  /\ Typed /\ DocsOK /\ PendingsOK /\ PanelsOK /\ DraftOK /\ AtOK
  /\ ItemsOK /\ OrderOK /\ OneAlive /\ EarlierDrafts

-----------------------------------------------------------------------------
(* Queues.                                                                 *)

LEMMA Ranges ==
  ASSUME NEW S, NEW s \in Seq(S)
  PROVE  /\ \A x : x \in Range(s) <=> \E i \in DOMAIN s : x = s[i]
         /\ Range(s) \subseteq S
  BY DEF Range

LEMMA Appended ==
  ASSUME NEW S, NEW s \in Seq(S), NEW x \in S
  PROVE  /\ Append(s, x) \in Seq(S) /\ Append(s, x) # <<>>
         /\ s # <<>> => Head(Append(s, x)) = Head(s)
         /\ Range(Append(s, x)) = Range(s) \cup {x}
         /\ \A a, b : Earlier(Append(s, x), a, b) =>
              Earlier(s, a, b) \/ (a \in Range(s) /\ b = x)
<1> DEFINE t == Append(s, x)
<1>1. /\ t \in Seq(S) /\ Len(t) = Len(s) + 1 /\ Len(s) \in Nat
      /\ DOMAIN s = 1 .. Len(s) /\ DOMAIN t = 1 .. Len(s) + 1
      /\ \A i \in 1 .. Len(s) : t[i] = s[i]
      /\ t[Len(s) + 1] = x
  OBVIOUS
<1>2. s # <<>> => Head(t) = Head(s)
  OBVIOUS
<1>3. t # <<>>
  BY <1>1
<1> HIDE DEF t
<1>4. \A i \in DOMAIN t : i = Len(s) + 1 \/ (i \in DOMAIN s /\ t[i] = s[i])
  BY <1>1
<1>5. \A i \in DOMAIN s : i \in DOMAIN t /\ i # Len(s) + 1 /\ t[i] = s[i]
  BY <1>1
<1>6. Len(s) + 1 \in DOMAIN t
  BY <1>1
<1>7. ASSUME NEW y PROVE y \in Range(t) <=> y \in Range(s) \cup {x}
  <2>1. y \in Range(t) => y \in Range(s) \cup {x}
    BY <1>1, <1>4, Ranges
  <2>2. y \in Range(s) => y \in Range(t)
    BY <1>1, <1>5, Ranges
  <2>3. x \in Range(t)
    BY <1>1, <1>6, Ranges
  <2> QED BY <2>1, <2>2, <2>3
<1>8. Range(t) = Range(s) \cup {x}
  BY <1>7
<1>9. ASSUME NEW a, NEW b, Earlier(t, a, b)
      PROVE  Earlier(s, a, b) \/ (a \in Range(s) /\ b = x)
  <2>1. PICK i, k \in DOMAIN t : i < k /\ a = t[i] /\ b = t[k]
    BY <1>9 DEF Earlier
  <2>2. i # Len(s) + 1
    BY <2>1, <1>1
  <2>3. i \in DOMAIN s /\ a = s[i]
    BY <2>1, <2>2, <1>4
  <2>4. a \in Range(s)
    BY <2>3, Ranges
  <2>5. CASE k = Len(s) + 1
    BY <2>1, <2>4, <2>5, <1>1
  <2>6. CASE k \in DOMAIN s /\ b = s[k]
    BY <2>1, <2>3, <2>6 DEF Earlier
  <2> QED BY <2>1, <2>5, <2>6, <1>4
<1> QED BY <1>1, <1>2, <1>3, <1>8, <1>9 DEF t

LEMMA Tailed ==
  ASSUME NEW S, NEW s \in Seq(S), s # <<>>
  PROVE  /\ Tail(s) \in Seq(S) /\ Head(s) \in S /\ Head(s) \in Range(s)
         /\ \A y : y \in Range(s) <=> y \in Range(Tail(s)) \/ y = Head(s)
         /\ \A a, b : Earlier(Tail(s), a, b) => Earlier(s, a, b)
         /\ \A y \in Range(Tail(s)) : Earlier(s, Head(s), y)
<1> DEFINE t == Tail(s)
           h == Head(s)
<1>1. /\ t \in Seq(S) /\ Len(t) = Len(s) - 1 /\ h \in S
      /\ DOMAIN s = 1 .. Len(s) /\ DOMAIN t = 1 .. Len(s) - 1
      /\ \A i \in 1 .. Len(s) - 1 : t[i] = s[i + 1]
      /\ h = s[1] /\ 1 \in DOMAIN s /\ Len(s) \in Nat \ {0}
  OBVIOUS
<1> HIDE DEF t, h
<1>2. \A i \in DOMAIN t : i + 1 \in DOMAIN s /\ 1 < i + 1 /\ t[i] = s[i + 1]
  BY <1>1
<1>3. \A i \in DOMAIN s : i = 1 \/ (i - 1 \in DOMAIN t /\ t[i - 1] = s[i])
  BY <1>1
<1>4. h \in Range(s)
  BY <1>1, Ranges
<1>5. ASSUME NEW y PROVE y \in Range(s) <=> y \in Range(t) \/ y = h
  <2>1. y \in Range(t) => y \in Range(s)
    BY <1>1, <1>2, Ranges
  <2>2. y \in Range(s) => y \in Range(t) \/ y = h
    BY <1>1, <1>3, Ranges
  <2> QED BY <2>1, <2>2, <1>4
<1>6. ASSUME NEW a, NEW b, Earlier(t, a, b)
      PROVE  Earlier(s, a, b)
  <2>1. PICK i, k \in DOMAIN t : i < k /\ a = t[i] /\ b = t[k]
    BY <1>6 DEF Earlier
  <2>2. i + 1 \in DOMAIN s /\ k + 1 \in DOMAIN s /\ i + 1 < k + 1
    BY <2>1, <1>1, <1>2
  <2> QED BY <2>1, <2>2, <1>2 DEF Earlier
<1>7. ASSUME NEW y \in Range(t)
      PROVE  Earlier(s, h, y)
  <2>1. PICK i \in DOMAIN t : y = t[i]
    BY <1>1, Ranges
  <2> QED BY <2>1, <1>1, <1>2 DEF Earlier
<1> QED BY <1>1, <1>4, <1>5, <1>6, <1>7 DEF t, h

LEMMA Replaced ==
  ASSUME NEW S, NEW s \in Seq(S), s # <<>>, NEW x \in S
  PROVE  LET t == <<x>> \o Tail(s)
         IN  /\ t \in Seq(S) /\ t # <<>> /\ Head(t) = x
             /\ \A y \in Range(t) : y = x \/ (y \in Range(s) /\ Earlier(s, Head(s), y))
             /\ \A y \in Range(s) : y \in Range(t) \/ y = Head(s)
             /\ \A a, b : Earlier(t, a, b) =>
                  Earlier(s, a, b) \/ (a = x /\ Earlier(s, Head(s), b))
<1> DEFINE t == <<x>> \o Tail(s)
           h == Head(s)
<1>1. /\ t \in Seq(S) /\ Len(t) = Len(s) /\ DOMAIN s = 1 .. Len(s)
      /\ DOMAIN t = 1 .. Len(s) /\ h = s[1] /\ t[1] = x /\ Len(s) \in Nat \ {0}
  OBVIOUS
<1>2. \A i \in DOMAIN s : i # 1 => t[i] = s[i]
  OBVIOUS
<1>3. t # <<>> /\ Head(t) = x
  BY <1>1
<1> HIDE DEF t, h
<1>4. ASSUME NEW y \in Range(t)
      PROVE  y = x \/ (y \in Range(s) /\ Earlier(s, h, y))
  <2>1. PICK i \in DOMAIN t : y = t[i]
    BY <1>1, Ranges
  <2>2. CASE i = 1
    BY <2>1, <2>2, <1>1
  <2>3. CASE i # 1
    <3>1. i \in DOMAIN s /\ y = s[i] /\ 1 \in DOMAIN s /\ 1 < i
      BY <2>1, <2>3, <1>1, <1>2
    <3> QED BY <3>1, <1>1, Ranges DEF Earlier
  <2> QED BY <2>2, <2>3
<1>5. \A y \in Range(s) : y \in Range(t) \/ y = h
  BY <1>1, <1>2, Ranges
<1>6. ASSUME NEW a, NEW b, Earlier(t, a, b)
      PROVE  Earlier(s, a, b) \/ (a = x /\ Earlier(s, h, b))
  <2>1. PICK i, k \in DOMAIN t : i < k /\ a = t[i] /\ b = t[k]
    BY <1>6 DEF Earlier
  <2>2. i \in DOMAIN s /\ k \in DOMAIN s /\ k # 1 /\ b = s[k] /\ 1 \in DOMAIN s
    BY <2>1, <1>1, <1>2
  <2>3. CASE i = 1
    BY <2>1, <2>2, <2>3, <1>1 DEF Earlier
  <2>4. CASE i # 1
    <3>1. a = s[i]
      BY <2>1, <2>2, <2>4, <1>2
    <3> QED BY <2>1, <2>2, <3>1 DEF Earlier
  <2> QED BY <2>3, <2>4
<1> QED BY <1>1, <1>3, <1>4, <1>5, <1>6 DEF t, h

LEMMA Queues ==
  ASSUME Typed
  PROVE  /\ Queue \subseteq Items
         /\ jobs # <<>> => Head(jobs) \in Queue /\ Head(jobs) \in Jobs
         /\ callbacks # <<>> => Head(callbacks) \in Queue /\ Head(callbacks) \in Calls
         /\ \A z \in Queue : z \in Range(jobs) \/ z \in Calls
         /\ \A a, b : Before(a, b) => a \in Queue /\ b \in Queue
         /\ jobs # <<>> => \A z \in Queue : z \in Jobs \/ Before(z, Head(jobs))
         /\ \A z, y \in Queue : z \in Jobs \/ y \in Calls \/ Before(z, y)
<1>1. jobs \in Seq(Jobs) /\ callbacks \in Seq(Calls)
  BY DEF Typed
<1>2. Queue \subseteq Items /\ \A z \in Queue : z \in Range(jobs) \/ z \in Calls
  BY <1>1, Ranges DEF Queue, Items
<1>3. jobs # <<>> => Head(jobs) \in Queue /\ Head(jobs) \in Jobs
  BY <1>1, Tailed DEF Queue
<1>4. callbacks # <<>> => Head(callbacks) \in Queue /\ Head(callbacks) \in Calls
  BY <1>1, Tailed DEF Queue
<1>5. \A a, b : Earlier(jobs, a, b) => a \in Range(jobs) /\ b \in Range(jobs)
  BY <1>1, Ranges DEF Earlier
<1>6. \A a, b : Earlier(callbacks, a, b) => a \in Range(callbacks) /\ b \in Range(callbacks)
  BY <1>1, Ranges DEF Earlier
<1>7. jobs # <<>> => \A z \in Queue : z \in Jobs \/ Before(z, Head(jobs))
  BY <1>1, Ranges, Tailed DEF Queue, Before
<1>8. \A z, y \in Queue : z \in Jobs \/ y \in Calls \/ Before(z, y)
  BY <1>1, Ranges DEF Queue, Before
<1> QED BY <1>2, <1>3, <1>4, <1>5, <1>6, <1>7, <1>8 DEF Queue, Before

\* A job is given.
LEMMA QueueGiven ==
  ASSUME Typed, NEW x \in Jobs, jobs' = Append(jobs, x), callbacks' = callbacks
  PROVE  /\ Queue' = Queue \cup {x}
         /\ \A a, b : Before(a, b)' => Before(a, b) \/ (a \in Queue /\ b = x)
<1>1. jobs \in Seq(Jobs)
  BY DEF Typed
<1> QED BY <1>1, Appended DEF Queue, Before

\* The worker is done with a job.
LEMMA QueueDone ==
  ASSUME Typed, jobs # <<>>, jobs' = Tail(jobs), callbacks' = callbacks
  PROVE  /\ Queue' \subseteq Queue
         /\ \A z \in Queue : z \in Queue' \/ z = Head(jobs)
         /\ \A a, b : Before(a, b)' => Before(a, b)
         /\ \A z \in Queue' : z \in Calls \/ Before(Head(jobs), z)
<1>1. jobs \in Seq(Jobs) /\ callbacks \in Seq(Calls)
  BY DEF Typed
<1> QED BY <1>1, Tailed, Ranges DEF Queue, Before
\* The worker is done with a job and calls back.
LEMMA QueueAnswered ==
  ASSUME Typed, jobs # <<>>, jobs' = Tail(jobs),
         NEW y \in Calls, callbacks' = Append(callbacks, y)
  PROVE  /\ Queue' \subseteq Queue \cup {y}
         /\ \A z \in Queue : z \in Queue' \/ z = Head(jobs)
         /\ \A a, b : Before(a, b)' =>
              \/ Before(a, b)
              \/ a \in Queue /\ Before(a, Head(jobs)) /\ b = y
              \/ b \in Queue /\ Before(Head(jobs), b) /\ a = y
         /\ \A z \in Queue' : z \in Calls \/ Before(Head(jobs), z)
<1>1. jobs \in Seq(Jobs) /\ callbacks \in Seq(Calls)
  BY DEF Typed
<1>2. Range(jobs') \subseteq Range(jobs) /\ Head(jobs) \in Range(jobs)
  BY <1>1, Tailed
<1>3. Range(callbacks') = Range(callbacks) \cup {y}
  BY <1>1, Appended
<1>4. Queue' \subseteq Queue \cup {y}
  BY <1>2, <1>3 DEF Queue
<1>5. \A z \in Queue : z \in Queue' \/ z = Head(jobs)
  BY <1>1, <1>3, Tailed DEF Queue
<1>6. \A z \in Range(jobs') : Before(Head(jobs), z)
  BY <1>1, Tailed DEF Before
<1>7. \A z \in Queue' : z \in Calls \/ Before(Head(jobs), z)
  BY <1>1, <1>3, <1>6, Ranges DEF Queue
<1>8. ASSUME NEW a, NEW b, Before(a, b)'
      PROVE  \/ Before(a, b)
             \/ a \in Queue /\ Before(a, Head(jobs)) /\ b = y
             \/ b \in Queue /\ Before(Head(jobs), b) /\ a = y
  <2>1. CASE Earlier(jobs', a, b)
    BY <2>1, <1>1, Tailed DEF Before
  <2>2. CASE Earlier(callbacks', a, b)
    <3>1. Earlier(callbacks, a, b) \/ (a \in Range(callbacks) /\ b = y)
      BY <2>2, <1>1, Appended
    <3> QED BY <3>1, <1>2 DEF Before, Queue
  <2>3. CASE a \in Range(callbacks') /\ b \in Range(jobs')
    <3>1. b \in Queue /\ Before(Head(jobs), b)
      BY <2>3, <1>2, <1>6 DEF Queue
    <3>2. a \in Range(callbacks) \/ a = y
      BY <2>3, <1>3
    <3> QED BY <2>3, <3>1, <3>2, <1>2 DEF Before
  <2> QED BY <1>8, <2>1, <2>2, <2>3 DEF Before
<1> QED BY <1>4, <1>5, <1>7, <1>8

\* The main thread is done with a callback.
LEMMA QueueCalled ==
  ASSUME Typed, callbacks # <<>>, callbacks' = Tail(callbacks), jobs' = jobs
  PROVE  /\ Queue' \subseteq Queue
         /\ \A z \in Queue : z \in Queue' \/ z = Head(callbacks)
         /\ \A a, b : Before(a, b)' => Before(a, b)
         /\ \A z \in Queue' : Before(Head(callbacks), z)
<1>1. callbacks \in Seq(Calls)
  BY DEF Typed
<1> QED BY <1>1, Tailed DEF Queue, Before

\* A callback is given out of turn.
LEMMA QueuePosted ==
  ASSUME Typed, jobs' = jobs, NEW y \in Calls, callbacks' = Append(callbacks, y)
  PROVE  /\ Queue' = Queue \cup {y}
         /\ \A a, b : Before(a, b)' => Before(a, b) \/ a = y \/ b = y
<1>1. callbacks \in Seq(Calls)
  BY DEF Typed
<1> QED BY <1>1, Appended DEF Queue, Before

\* The main thread is done with a callback, and gives a job.
LEMMA QueueShut ==
  ASSUME Typed, callbacks # <<>>, callbacks' = Tail(callbacks),
         NEW x \in Jobs, jobs' = Append(jobs, x)
  PROVE  /\ Queue' \subseteq Queue \cup {x}
         /\ \A z \in Queue : z \in Queue' \/ z = Head(callbacks)
         /\ \A a, b : Before(a, b)' => Before(a, b) \/ b = x
         /\ \A z \in Queue' : z = x \/ Before(Head(callbacks), z)
<1>1. callbacks \in Seq(Calls) /\ jobs \in Seq(Jobs)
  BY DEF Typed
<1>2. /\ Range(callbacks') \subseteq Range(callbacks)
      /\ \A a, b : Earlier(callbacks', a, b) => Earlier(callbacks, a, b)
      /\ \A z \in Range(callbacks') : Earlier(callbacks, Head(callbacks), z)
      /\ \A z \in Range(callbacks) : z \in Range(callbacks') \/ z = Head(callbacks)
      /\ Head(callbacks) \in Range(callbacks)
  BY <1>1, Tailed
<1>3. /\ Range(jobs') = Range(jobs) \cup {x}
      /\ \A a, b : Earlier(jobs', a, b) => Earlier(jobs, a, b) \/ b = x
  BY <1>1, Appended
<1> QED BY <1>2, <1>3 DEF Queue, Before

\* The worker goes on with its first job.
LEMMA QueueReplaced ==
  ASSUME Typed, jobs # <<>>, NEW x \in Jobs, jobs' = <<x>> \o Tail(jobs),
         callbacks' = callbacks
  PROVE  /\ Queue' \subseteq Queue \cup {x}
         /\ x \in Queue' /\ Head(jobs') = x /\ jobs' # <<>>
         /\ \A z \in Queue : z \in Queue' \/ z = Head(jobs)
         /\ \A a, b : Before(a, b)' =>
              \/ Before(a, b)
              \/ a \in Queue /\ Before(a, Head(jobs)) /\ b = x
              \/ b \in Queue /\ Before(Head(jobs), b) /\ a = x
         /\ \A z \in Queue' : z = x \/ z \in Calls \/ Before(Head(jobs), z)
<1>1. callbacks \in Seq(Calls) /\ jobs \in Seq(Jobs)
  BY DEF Typed
<1> DEFINE t == <<x>> \o Tail(jobs)
<1>2. /\ t \in Seq(Jobs) /\ t # <<>> /\ Head(t) = x
      /\ \A y \in Range(t) : y = x \/ (y \in Range(jobs) /\ Earlier(jobs, Head(jobs), y))
      /\ \A y \in Range(jobs) : y \in Range(t) \/ y = Head(jobs)
      /\ \A a, b : Earlier(t, a, b) =>
           Earlier(jobs, a, b) \/ (a = x /\ Earlier(jobs, Head(jobs), b))
  BY <1>1, Replaced
<1>3. Head(jobs) \in Range(jobs)
  BY <1>1, Tailed
<1>4. x \in Range(t)
  BY <1>2, Tailed
<1>5. \A a, b : Earlier(jobs, a, b) => b \in Range(jobs)
  BY <1>1, Ranges DEF Earlier
<1> HIDE DEF t
<1>6. jobs' = t
  BY DEF t
<1>7. Range(callbacks) \subseteq Calls
  BY <1>1, Ranges
<1> QED BY <1>2, <1>3, <1>4, <1>5, <1>6, <1>7 DEF Queue, Before
-----------------------------------------------------------------------------
(* What is in the queues stays true when views are only closed.            *)

LEMMA Fields ==
  ASSUME NEW x \in Items
  PROVE  /\ IsDraft(x) => x.view \in Views /\ x.version \in Nat /\ x.base \in Nat
         /\ IsSave(x) => x.view \in Views /\ x.version \in Nat /\ x.etag \in Nat
         /\ x.kind \in {"open", "opened", "offer", "draftFailed"} => x.view \in Views
         /\ x.kind = "open" => x.found \in Drafts
         /\ x.kind = "draft" => x.text \in Texts
         /\ x \in Calls => x.kind \notin {"open", "draft", "save"}
         /\ x \in Jobs => x.kind \notin {"opened", "offer", "draftFailed", "drafted", "saved"}
BY DEF Items, Jobs, Calls, IsDraft, IsSave

\* The queues hold what was true of them, as far as it is still there.
Stable == \A x \in Items : x \in Queue /\ x \in Queue' => ItemOK(x)'
OrderKept == \A a, b \in Items : a \in Queue /\ b \in Queue /\ InOrder(a, b) => InOrder(a, b)'

\* A step in which views are closed at most.
Closings ==
  /\ crossed' = crossed
  /\ draft' = draft \/ crossed \/ \A v \in Views : ~Alive(v)'
  /\ Latest <= Latest' /\ \A e \in 1 .. Latest : written'[e] = written[e]
  /\ \A v \in Views : docs'[v] = docs[v] \/ (docs[v].is # "new" /\ docs'[v] = Gone)
  /\ \A v \in Views : pending'[v] = pending[v] \/ pending'[v] = NoOwner
  /\ \A p \in panels' :
       \/ p \in panels
       \/ p.asks = "overwrite" /\ Open(p.view) /\ docs' = docs
       \/ /\ PanelOK(p) /\ UNCHANGED <<docs, draft, pending>>
          /\ \A x \in Queue : x \in Queue' /\ x.kind = "open" => x.view # p.view
  /\ spent'.views = spent.views

SessionKept ==
  runtime'.client = runtime.client /\ runtime'.generation = runtime.generation

LEMMA Bounds ==
  /\ MaxTyped \in Nat /\ MaxSaves \in Nat /\ MaxOthers \in Nat
  /\ MaxViews \in Nat \ {0} /\ MaxClients \in Nat \ {0}
BY SublimeAssumption

LEMMA Counted ==
  ASSUME Typed
  PROVE  /\ spent.views \in 0 .. MaxViews /\ spent.typed \in 0 .. MaxTyped
         /\ spent.saves \in 0 .. MaxSaves /\ spent.others \in 0 .. MaxOthers
         /\ spent.clients \in 1 .. MaxClients
<1>1. spent \in [views : 0 .. MaxViews, typed : 0 .. MaxTyped, saves : 0 .. MaxSaves,
                 others : 0 .. MaxOthers, clients : 1 .. MaxClients]
  BY DEF Typed
<1> QED BY <1>1

LEMMA Defaults ==
  /\ 0 \in Clients /\ NoDraft \in Drafts /\ NoOwner \in Owners
  /\ NoView \in Document /\ Gone \in Document
<1>1. 0 \in Clients
  BY Bounds DEF Clients
<1>2. NoDraft \in Drafts
  BY DEF NoDraft, Drafts
<1>3. NoOwner \in Owners
  BY <1>1, <1>2 DEF NoOwner, Owners
<1>4. NoView \in Document
  BY DEF NoView, Document
<1>5. Gone \in Document
  BY <1>4 DEF Gone, Document
<1> QED BY <1>1, <1>2, <1>3, <1>4, <1>5

LEMMA Versions ==
  ASSUME Typed
  PROVE  Latest \in Nat \ {0} /\ \A e \in 1 .. Latest : written[e] \in Texts
BY DEF Typed, Latest

LEMMA VersionsAfter ==
  ASSUME Typed'
  PROVE  Latest' \in Nat \ {0}
BY DEF Typed, Latest

LEMMA GoneIs ==
  /\ Gone.is = "closed" /\ Gone.version = 0 /\ Gone.saved = 0 /\ Gone.drafted = 0
  /\ Gone.base = 0 /\ Gone.etag = 0
BY DEF Gone, NoView

LEMMA ClosingDocs ==
  ASSUME Typed, Typed', DocsOK, Closings,
         SessionKept \/ \A v \in Views : ~Open(v)'
  PROVE  DocsOK'
<1> SUFFICES ASSUME NEW v \in Views PROVE DocOK(v)' /\ FreshOK(v)'
  BY DEF DocsOK
<1>1. Latest \in Nat /\ Latest' \in Nat /\ docs[v] \in Document
  <2>1. Latest \in Nat /\ Latest' \in Nat
    BY Versions, VersionsAfter
  <2>2. docs[v] \in Document
    BY DEF Typed
  <2> QED BY <2>1, <2>2
<1>2. DocOK(v) /\ FreshOK(v)
  BY DEF DocsOK
<1>3. CASE docs'[v] = Gone /\ docs[v].is # "new"
  <2>1. DocOK(v)'
    BY <1>1, <1>3, GoneIs DEF DocOK, Open
  <2>2. FreshOK(v)'
    BY <1>2, <1>3, GoneIs DEF FreshOK, Closings
  <2> QED BY <2>1, <2>2
<1>4. CASE docs'[v] = docs[v]
  <2>1. FreshOK(v)'
    BY <1>2, <1>4 DEF FreshOK, Closings
  <2>2. /\ docs[v].base <= Latest'
        /\ docs[v].etag \in 1 .. Latest => /\ docs[v].etag \in 1 .. Latest'
                                           /\ written'[docs[v].etag] = written[docs[v].etag]
    BY <1>1, <1>2 DEF Document, Closings, DocOK
  <2>3. DocOK(v)'
    <3>1. CASE ~Open(v)
      BY <1>2, <1>4, <2>2, <3>1 DEF DocOK, Open
    <3>2. CASE Open(v)
      <4>1. Open(v)' /\ SessionKept
        BY <1>4, <3>2 DEF Open
      <4>2. draft' = draft \/ crossed
        BY <4>1 DEF Closings, Alive, Open
      <4> QED BY <1>2, <1>4, <2>2, <3>2, <4>1, <4>2 DEF DocOK, Open, SessionKept, Closings
    <3> QED BY <3>1, <3>2
  <2> QED BY <2>1, <2>3
<1> QED BY <1>3, <1>4 DEF Closings

LEMMA ClosingItems ==
  ASSUME Typed, Typed', DocsOK, ItemsOK, PendingsOK', Closings,
         \A x \in Items :
           x \in Queue /\ x \in Queue' /\ x.kind = "open" => docs'[x.view] = docs[x.view]
  PROVE  Stable
<1> SUFFICES ASSUME NEW x \in Items, x \in Queue, x \in Queue' PROVE ItemOK(x)'
  BY DEF Stable
<1>1. Latest \in Nat /\ Latest' \in Nat /\ Latest <= Latest'
  BY DEF Typed, Latest, Closings
<1>2. ItemOK(x)
  BY DEF ItemsOK
<1> DEFINE v == x.view
<1>3. ASSUME v \in Views
      PROVE  /\ docs'[v] = docs[v] \/ docs'[v] = Gone
             /\ docs'[v].is \in {docs[v].is, "closed"}
             /\ Open(v)' => Open(v) /\ docs'[v] = docs[v] /\ (draft' = draft \/ crossed)
  BY <1>3, GoneIs DEF Closings, Open, Alive
<1>4. x.kind = "open" => OpenJobOK(x)'
  <2> SUFFICES ASSUME x.kind = "open" PROVE OpenJobOK(x)'
    OBVIOUS
  <2>1. OpenJobOK(x) /\ docs'[v] = docs[v] /\ x.found.base \in Nat
    BY <1>2, Fields DEF ItemOK, Drafts
  <2> QED BY <1>1, <2>1 DEF OpenJobOK, Closings
<1>5. x.kind = "draft" => DraftJobOK(x)'
  <2> SUFFICES ASSUME x.kind = "draft" PROVE DraftJobOK(x)'
    OBVIOUS
  <2>1. DraftJobOK(x) /\ v \in Views /\ x.base \in Nat
    BY <1>2, Fields DEF ItemOK, IsDraft
  <2>2. crossed' = crossed
    BY DEF Closings
  <2> QED BY <1>1, <1>3, <2>1, <2>2 DEF DraftJobOK, DraftOnItsWay
<1>6. x.kind = "save" => SaveJobOK(x)'
  <2> SUFFICES ASSUME x.kind = "save" PROVE SaveJobOK(x)'
    OBVIOUS
  <2>1. SaveJobOK(x) /\ v \in Views
    BY <1>2, Fields DEF ItemOK, IsSave
  <2>2. crossed' = crossed
    BY DEF Closings
  <2> QED BY <1>3, <2>1, <2>2 DEF SaveJobOK, SaveOnItsWay
<1>7. x.kind \in {"opened", "offer"} => docs'[v].is # "new"
  BY <1>2, <1>3, Fields DEF ItemOK
<1>8. x.kind = "offer" => Offered(v)'
  <2> SUFFICES ASSUME x.kind = "offer", pending'[v] # NoOwner
               PROVE  /\ pending'[v].found.text \in Texts
                      /\ ~crossed' => pending'[v].found = draft'
    BY DEF Offered
  <2>1. v \in Views /\ Offered(v)
    BY <1>2, Fields DEF ItemOK
  <2>2. pending'[v] = pending[v] /\ docs'[v].is = "opening"
    BY <2>1 DEF Closings, PendingsOK, PendingOK
  <2>3. draft' = draft \/ crossed
    BY <2>1, <2>2 DEF Closings, Alive
  <2> QED BY <2>1, <2>2, <2>3 DEF Offered, Closings
<1>9. x.kind = "draftFailed" => docs'[v].is \in {"open", "closed"}
  BY <1>2, <1>3, Fields DEF ItemOK
<1>10. x.kind = "drafted" => DraftedOK(x)'
  <2> SUFFICES ASSUME x.kind = "drafted" PROVE DraftedOK(x)'
    OBVIOUS
  <2>1. DraftedOK(x) /\ v \in Views
    BY <1>2, Fields DEF ItemOK, IsDraft
  <2>2. crossed' = crossed
    BY DEF Closings
  <2> QED BY <1>3, <2>1, <2>2 DEF DraftedOK, DraftOnItsWay
<1>11. x.kind = "saved" => SavedOK(x)'
  <2> SUFFICES ASSUME x.kind = "saved" PROVE SavedOK(x)'
    OBVIOUS
  <2>1. SavedOK(x) /\ v \in Views /\ x.etag \in Nat /\ docs[v] \in Document
    BY <1>2, Fields DEF ItemOK, IsSave, Typed
  <2>2. Open(v) => x.etag \in 1 .. Latest
    BY <2>1, <1>1 DEF SavedOK, Document
  <2>3. Open(v) => written'[x.etag] = written[x.etag]
    BY <2>2 DEF Closings
  <2>4. crossed' = crossed
    BY DEF Closings
  <2> QED BY <1>1, <1>3, <2>1, <2>3, <2>4 DEF SavedOK, SaveOnItsWay
<1> QED BY <1>4, <1>5, <1>6, <1>7, <1>8, <1>9, <1>10, <1>11 DEF ItemOK

LEMMA OrderStays ==
  ASSUME crossed => crossed',
         \A x \in Items :
           x \in Queue /\ (IsDraft(x) \/ IsSave(x)) /\ Open(x.view)' => Open(x.view)
  PROVE  OrderKept
BY DEF OrderKept, InOrder, IsSave

LEMMA ClosingOrder ==
  ASSUME Closings
  PROVE  OrderKept
<1>1. \A v \in Views : Open(v)' => Open(v)
  BY GoneIs DEF Closings, Open
<1>2. \A x \in Items : IsDraft(x) \/ IsSave(x) => x.view \in Views
  BY Fields
<1> QED BY <1>1, <1>2, OrderStays DEF Closings

LEMMA ClosingPanels ==
  ASSUME Typed, Typed', PanelsOK, PendingsOK', Closings
  PROVE  PanelsOK'
<1> SUFFICES ASSUME NEW p \in panels' PROVE PanelOK(p)'
  BY DEF PanelsOK
<1>1. p.view \in Views
  BY DEF Typed
<1>2. CASE p \in panels
  <2>1. PanelOK(p)
    BY <1>2 DEF PanelsOK
  <2>2. docs'[p.view].is \in {docs[p.view].is, "closed"}
    BY <1>1, GoneIs DEF Closings
  <2>3. p.asks = "recovery" => Offered(p.view)'
    <3> SUFFICES ASSUME p.asks = "recovery", pending'[p.view] # NoOwner
                 PROVE  /\ pending'[p.view].found.text \in Texts
                        /\ ~crossed' => pending'[p.view].found = draft'
      BY DEF Offered
    <3>1. pending'[p.view] = pending[p.view] /\ docs'[p.view].is = "opening"
      BY <1>1 DEF Closings, PendingsOK, PendingOK
    <3>2. draft' = draft \/ crossed
      BY <1>1, <3>1 DEF Closings, Alive
    <3> QED BY <2>1, <3>1, <3>2 DEF PanelOK, Offered, Closings
  <2> QED BY <2>1, <2>2, <2>3 DEF PanelOK
<1>3. CASE p.asks = "overwrite" /\ Open(p.view) /\ docs' = docs
  BY <1>3 DEF PanelOK, Open
<1>4. CASE PanelOK(p) /\ UNCHANGED <<docs, draft, pending>>
  BY <1>4 DEF PanelOK, Offered, Closings
<1> QED BY <1>2, <1>3, <1>4 DEF Closings

LEMMA ClosingAlive ==
  ASSUME OneAlive, Closings
  PROVE  OneAlive' /\ \A v \in Views : Alive(v)' => Alive(v)
<1>1. \A v \in Views : Alive(v)' => Alive(v)
  BY GoneIs DEF Closings, Alive
<1> QED BY <1>1 DEF OneAlive, Closings

LEMMA EarlierStays ==
  ASSUME EarlierDrafts, OrderOK, crossed => crossed',
         \A v \in Views : Alive(v)' => Alive(v),
         \A x \in Queue' : x.kind = "draft" => x \in Queue,
         \A y \in Queue : y.kind = "open" =>
           y \in Queue' \/ \A x \in Queue' : x.kind = "draft" => Before(y, x)
  PROVE  EarlierDrafts'
<1> SUFFICES ASSUME ~crossed', NEW v \in Views, NEW x \in Queue',
                    Alive(v)', x.kind = "draft", x.view # v
             PROVE  \E y \in Queue' : y.kind = "open" /\ y.view = v
  BY DEF EarlierDrafts
<1>1. PICK y \in Queue : y.kind = "open" /\ y.view = v
  BY DEF EarlierDrafts
<1>2. CASE y \in Queue'
  BY <1>1, <1>2
<1>3. CASE Before(y, x)
  <2>1. InOrder(y, x)
    BY <1>3 DEF OrderOK
  <2> QED BY <1>1, <2>1 DEF InOrder
<1> QED BY <1>1, <1>2, <1>3
LEMMA OrderStep ==
  ASSUME Typed, OrderOK, OrderKept,
         \A a, b \in Queue' : Before(a, b)' => Before(a, b) \/ InOrder(a, b)'
  PROVE  OrderOK'
<1> SUFFICES ASSUME NEW a \in Queue', NEW b \in Queue', Before(a, b)'
             PROVE  InOrder(a, b)'
  BY DEF OrderOK
<1>1. CASE Before(a, b)
  <2>1. a \in Queue /\ b \in Queue /\ a \in Items /\ b \in Items
    BY <1>1, Queues
  <2>2. InOrder(a, b)
    BY <1>1, <2>1 DEF OrderOK
  <2> QED BY <2>1, <2>2 DEF OrderKept
<1> QED BY <1>1

LEMMA QueuesAfter ==
  ASSUME Typed'
  PROVE  /\ Queue' \subseteq Items
         /\ jobs' # <<>> => Head(jobs') \in Queue' /\ Head(jobs') \in Jobs
<1>1. jobs' \in Seq(Jobs) /\ callbacks' \in Seq(Calls)
  BY DEF Typed
<1>2. jobs' # <<>> => Head(jobs') \in Range(jobs') /\ Head(jobs') \in Jobs
  BY <1>1, Tailed
<1>3. Range(jobs') \subseteq Jobs /\ Range(callbacks') \subseteq Calls
  BY <1>1, Ranges
<1> QED BY <1>2, <1>3 DEF Queue, Items

LEMMA ItemsStep ==
  ASSUME Typed', Stable, \A x \in Queue' : x \in Queue \/ ItemOK(x)'
  PROVE  ItemsOK'
BY QueuesAfter DEF ItemsOK, Stable

LEMMA AtStays ==
  ASSUME Typed', AtOK, PendingsOK, ItemsOK', Closings, at' = at,
         at # "start" => jobs' # <<>> /\ Head(jobs') = Head(jobs)
  PROVE  AtOK'
<1>1. CASE at = "start"
  BY <1>1 DEF AtOK
<1>2. CASE at # "start"
  <2> PICK h \in Items : h = Head(jobs) /\ h = Head(jobs') /\ h \in Queue'
    BY <1>2, QueuesAfter DEF Items
  <2>1. CASE at = "locked"
    BY <1>2, <2>1 DEF AtOK
  <2>2. CASE at \in {"opened", "found"}
    <3>1. h.kind = "open" /\ h.view \in Views
      BY <2>2, Fields DEF AtOK
    <3>2. ItemOK(h)'
      BY DEF ItemsOK
    <3>3. docs'[h.view].is = "opening"
      BY <3>1, <3>2 DEF ItemOK, OpenJobOK
    <3>4. draft' = draft \/ crossed
      BY <3>1, <3>3 DEF Closings, Alive
    <3>5. pending'[h.view] = pending[h.view] \/ pending'[h.view] = NoOwner
      BY <3>1 DEF Closings
    <3>6. /\ at = "opened" => LET o == pending'[h.view] IN
               o # NoOwner => o.client = h.client /\ o.gen = h.gen
          /\ at = "found" => h.found.text \in Texts
          /\ at = "found" /\ ~crossed' => h.found = draft'
      BY <3>4, <3>5 DEF AtOK, Closings
    <3> QED BY <1>2, <2>2, <3>1, <3>6 DEF AtOK
  <2> QED BY <1>2, <2>1, <2>2 DEF AtOK, Typed
<1> QED BY <1>1, <1>2

LEMMA PendingsStay ==
  ASSUME Typed, Typed', PendingsOK, Closings,
         \A v \in Views : pending'[v] # NoOwner =>
           /\ docs'[v] = docs[v]
           /\ Same(pending[v])' \/ (at' = "opened" /\ Head(jobs').view = v)
  PROVE  PendingsOK'
<1> SUFFICES ASSUME NEW v \in Views, pending'[v] # NoOwner PROVE PendingOK(v)'
  BY DEF PendingsOK, PendingOK
<1>1. pending'[v] = pending[v] /\ docs'[v] = docs[v] /\ PendingOK(v)
  BY DEF Closings, PendingsOK
<1> PICK o \in Owners : o = pending[v] /\ o = pending'[v]
  BY <1>1 DEF Typed
<1>2. /\ Latest \in Nat /\ Latest' \in Nat /\ Latest <= Latest'
      /\ o.etag \in Nat /\ o.found.base \in Nat
  <2>1. Latest \in Nat /\ Latest' \in Nat
    BY Versions, VersionsAfter
  <2>2. Latest <= Latest'
    BY DEF Closings
  <2> QED BY <2>1, <2>2 DEF Owners, Drafts
<1>3. o.etag \in 1 .. Latest' /\ written'[o.etag] = written[o.etag]
      /\ o.found.base <= Latest'
  BY <1>1, <1>2 DEF PendingOK, Closings
<1>4. Same(pending[v])' \/ (at' = "opened" /\ Head(jobs').view = v)
  OBVIOUS
<1> QED BY <1>1, <1>3, <1>4 DEF PendingOK

\* A step in which views are closed at most, and items come to the queues.
LEMMA ClosingStep ==
  ASSUME IInv, Typed', Closings, DraftOK',
         SessionKept \/ \A v \in Views : ~Open(v)',
         \A v \in Views : pending'[v] # NoOwner =>
           /\ docs'[v] = docs[v]
           /\ Same(pending[v])' \/ (at' = "opened" /\ Head(jobs').view = v),
         \A x \in Items :
           x \in Queue /\ x \in Queue' /\ x.kind = "open" => docs'[x.view] = docs[x.view],
         \/ at' = at /\ (at # "start" => jobs' # <<>> /\ Head(jobs') = Head(jobs))
         \/ AtOK',
         \A x \in Queue' : x \in Queue \/ (ItemOK(x)' /\ x.kind # "draft"),
         \A a, b \in Queue' : Before(a, b)' => Before(a, b) \/ InOrder(a, b)',
         \A y \in Queue : y.kind = "open" =>
           y \in Queue' \/ \A x \in Queue' : x.kind = "draft" => Before(y, x)
  PROVE  IInv'
<1>1. /\ Typed /\ DocsOK /\ PendingsOK /\ PanelsOK /\ AtOK
      /\ ItemsOK /\ OrderOK /\ OneAlive /\ EarlierDrafts
  BY DEF IInv
<1>2. DocsOK'
  BY <1>1, ClosingDocs
<1>3. PendingsOK'
  BY <1>1, PendingsStay
<1>4. PanelsOK'
  BY <1>1, <1>3, ClosingPanels
<1>5. Stable
  BY <1>1, <1>3, ClosingItems
<1>6. ItemsOK'
  BY <1>5, ItemsStep
<1>7. OrderOK'
  <2>1. OrderKept
    BY ClosingOrder
  <2> QED BY <1>1, <2>1, OrderStep
<1>8. OneAlive' /\ \A v \in Views : Alive(v)' => Alive(v)
  BY <1>1, ClosingAlive
<1>9. EarlierDrafts'
  <2>1. crossed => crossed'
    BY DEF Closings
  <2>2. \A x \in Queue' : x.kind = "draft" => x \in Queue
    OBVIOUS
  <2> QED BY <1>1, <1>8, <2>1, <2>2, EarlierStays
<1>10. AtOK'
  BY <1>1, <1>6, AtStays
<1> QED BY <1>2, <1>3, <1>4, <1>6, <1>7, <1>8, <1>9, <1>10 DEF IInv
-----------------------------------------------------------------------------
(* The session.                                                            *)

\* A step that touches the session, the draft lock and the queues at most.
Quiet ==
  /\ UNCHANGED <<written, draft, docs, pending, panels, crossed>>
  /\ spent'.views = spent.views /\ SessionKept

\* What the worker and the main thread say of the session is true in any state.
Trivial(x) == x.kind \in {"unlock", "shutdown", "lost"}

LEMMA Trivially ==
  ASSUME NEW x, Trivial(x)
  PROVE  /\ ItemOK(x) /\ x.kind # "draft"
         /\ \A a : InOrder(a, x) /\ InOrder(x, a)
BY DEF Trivial, ItemOK, InOrder, IsDraft, IsSave

LEMMA TriviallyAfter ==
  ASSUME NEW x, Trivial(x)
  PROVE  /\ ItemOK(x)' /\ x.kind # "draft"
         /\ \A a : InOrder(a, x)' /\ InOrder(x, a)'
BY DEF Trivial, ItemOK, InOrder, IsDraft, IsSave

LEMMA QuietStep ==
  ASSUME IInv, Typed', Quiet,
         at = "opened" => at' = at /\ Head(jobs').view = Head(jobs).view,
         \/ at' = at /\ (at # "start" => jobs' # <<>> /\ Head(jobs') = Head(jobs))
         \/ AtOK',
         \A x \in Queue' : x \in Queue \/ (ItemOK(x)' /\ x.kind # "draft"),
         \A a, b \in Queue' : Before(a, b)' => Before(a, b) \/ InOrder(a, b)',
         \A y \in Queue : y.kind = "open" =>
           y \in Queue' \/ \A x \in Queue' : x.kind = "draft" => Before(y, x)
  PROVE  IInv'
<1>1. Typed /\ DraftOK /\ PendingsOK
  BY DEF IInv
<1>2. Closings
  BY <1>1, Versions DEF Quiet, Closings, Latest
<1>3. DraftOK'
  BY <1>1 DEF DraftOK, Quiet, Latest
<1>4. \A v \in Views : pending'[v] # NoOwner =>
        /\ docs'[v] = docs[v]
        /\ Same(pending[v])' \/ (at' = "opened" /\ Head(jobs').view = v)
  BY <1>1 DEF PendingsOK, PendingOK, Quiet, SessionKept, Same
<1>5. \A x \in Items :
        x \in Queue /\ x \in Queue' /\ x.kind = "open" => docs'[x.view] = docs[x.view]
  BY DEF Quiet
<1>6. SessionKept
  BY DEF Quiet
<1> QED BY <1>2, <1>3, <1>4, <1>5, <1>6, ClosingStep

LEMMA BeginUnlockStep ==
  ASSUME IInv, BeginUnlock
  PROVE  IInv'
<1>1. Typed
  BY DEF IInv
<1>2. spent.clients \in 1 .. MaxClients /\ spent.clients + 1 \in 1 .. MaxClients
  <2>1. spent.clients \in 1 .. MaxClients /\ MaxClients \in Nat
    BY <1>1, Bounds, Counted
  <2> QED BY <2>1 DEF BeginUnlock
<1>3. runtime.generation \in Nat
  BY <1>1 DEF Typed
<1>4. PICK x \in Jobs :
        x = [kind |-> "unlock", client |-> spent.clients + 1, gen |-> runtime.generation]
  BY <1>2, <1>3 DEF Jobs
<1>5. jobs' = Append(jobs, x) /\ callbacks' = callbacks /\ Trivial(x)
  BY <1>4 DEF BeginUnlock, Give, Trivial
<1>6. jobs' \in Seq(Jobs) /\ (jobs # <<>> => jobs' # <<>> /\ Head(jobs') = Head(jobs))
  BY <1>1, <1>5, Appended DEF Typed
<1>7. /\ spent' \in [views : 0 .. MaxViews, typed : 0 .. MaxTyped, saves : 0 .. MaxSaves,
                     others : 0 .. MaxOthers, clients : 1 .. MaxClients]
      /\ spent'.views = spent.views
  <2>1. spent' = [spent EXCEPT !.clients = spent.clients + 1]
    BY DEF BeginUnlock, Count
  <2>2. spent \in [views : 0 .. MaxViews, typed : 0 .. MaxTyped, saves : 0 .. MaxSaves,
                   others : 0 .. MaxOthers, clients : 1 .. MaxClients]
    BY <1>1 DEF Typed
  <2> QED BY <1>2, <2>1, <2>2
<1>8. Typed'
  <2>1. runtime' \in [client : Clients, generation : Nat, unlocking : BOOLEAN]
    BY <1>1 DEF BeginUnlock, Typed
  <2> QED BY <1>1, <1>6, <1>7, <2>1 DEF BeginUnlock, Typed
<1>9. Quiet
  <2>1. SessionKept
    BY <1>1 DEF BeginUnlock, SessionKept, Typed
  <2> QED BY <1>7, <2>1 DEF BeginUnlock, Quiet
<1>10. /\ Queue' = Queue \cup {x}
       /\ \A a, b : Before(a, b)' => Before(a, b) \/ (a \in Queue /\ b = x)
  BY <1>1, <1>5, QueueGiven
<1>11. at' = at /\ (at # "start" => jobs' # <<>> /\ Head(jobs') = Head(jobs))
  <2>1. AtOK
    BY DEF IInv
  <2> QED BY <1>6, <2>1 DEF BeginUnlock, AtOK
<1>12. ItemOK(x)' /\ x.kind # "draft" /\ \A a : InOrder(a, x)'
  BY <1>5, TriviallyAfter
<1> QED BY <1>8, <1>9, <1>10, <1>11, <1>12, QuietStep

LEMMA WorkUnlockStep ==
  ASSUME IInv, jobs # <<>>, NEW j, j = Head(jobs), WorkUnlock(j)
  PROVE  IInv'
<1>1. Typed /\ j.kind = "unlock" /\ jobs' = Tail(jobs)
  BY DEF IInv, WorkUnlock
<1>2. j \in [kind : {"unlock"}, client : 1 .. MaxClients, gen : Nat]
  BY <1>1, Queues DEF Jobs
<1>3. PICK y \in Calls : callbacks' = Append(callbacks, y) /\ Trivial(y)
  <2>1. j \in Calls /\ [j EXCEPT !.client = 0] \in Calls
    <3>1. MaxClients \in Nat
      BY SublimeAssumption
    <3>2. /\ j \in [kind : {"unlock"}, client : Clients, gen : Nat]
          /\ [j EXCEPT !.client = 0] \in [kind : {"unlock"}, client : Clients, gen : Nat]
      BY <1>2, <3>1 DEF Clients
    <3> QED BY <3>2 DEF Calls
  <2>2. Trivial(j) /\ Trivial([j EXCEPT !.client = 0])
    BY <1>2 DEF Trivial
  <2> QED BY <2>1, <2>2 DEF WorkUnlock, Post
<1>4. jobs' \in Seq(Jobs) /\ callbacks' \in Seq(Calls)
  BY <1>1, <1>3, Appended, Tailed DEF Typed
<1>5. Typed'
  <2>1. live' \subseteq 1 .. MaxClients
    BY <1>1, <1>2 DEF WorkUnlock, Typed
  <2> QED BY <1>1, <1>4, <2>1 DEF WorkUnlock, Typed
<1>6. Quiet
  BY DEF WorkUnlock, Quiet, SessionKept
<1>7. at = "start"
  BY <1>1 DEF IInv, AtOK, Typed
<1>8. AtOK'
  BY <1>7 DEF WorkUnlock, AtOK
<1>9. /\ Queue' \subseteq Queue \cup {y}
      /\ \A z \in Queue : z \in Queue' \/ z = Head(jobs)
      /\ \A a, b : Before(a, b)' =>
           \/ Before(a, b)
           \/ a \in Queue /\ Before(a, Head(jobs)) /\ b = y
           \/ b \in Queue /\ Before(Head(jobs), b) /\ a = y
  BY <1>1, <1>3, QueueAnswered
<1>10. ItemOK(y)' /\ y.kind # "draft" /\ \A a : InOrder(a, y)' /\ InOrder(y, a)'
  BY <1>3, TriviallyAfter
<1> QED BY <1>1, <1>5, <1>6, <1>7, <1>8, <1>9, <1>10, QuietStep
LEMMA WorkShutdownStep ==
  ASSUME IInv, jobs # <<>>, NEW j, j = Head(jobs), WorkShutdown(j)
  PROVE  IInv'
<1>1. Typed /\ j.kind = "shutdown" /\ jobs' = Tail(jobs) /\ callbacks' = callbacks
  BY DEF IInv, WorkShutdown
<1>2. Typed'
  <2>1. jobs' \in Seq(Jobs)
    BY <1>1, Tailed DEF Typed
  <2> QED BY <1>1, <2>1 DEF WorkShutdown, Typed
<1>3. Quiet
  BY DEF WorkShutdown, Quiet, SessionKept
<1>4. at = "start"
  BY <1>1 DEF IInv, AtOK, Typed
<1>5. AtOK'
  BY <1>4 DEF WorkShutdown, AtOK
<1>6. /\ Queue' \subseteq Queue
      /\ \A z \in Queue : z \in Queue' \/ z = Head(jobs)
      /\ \A a, b : Before(a, b)' => Before(a, b)
  BY <1>1, QueueDone
<1> QED BY <1>1, <1>2, <1>3, <1>4, <1>5, <1>6, QuietStep

LEMMA LoseSessionStep ==
  ASSUME IInv, NEW c \in live, LoseSession(c)
  PROVE  IInv'
<1>1. Typed /\ jobs' = jobs
  BY DEF IInv, LoseSession
<1>2. PICK y \in Calls : y = [kind |-> "lost", client |-> c]
  <2>1. c \in Clients
    BY <1>1, Bounds DEF Typed, Clients
  <2> QED BY <2>1 DEF Calls
<1>3. callbacks' = Append(callbacks, y) /\ Trivial(y)
  BY <1>2 DEF LoseSession, Post, Trivial
<1>4. Typed'
  <2>1. callbacks' \in Seq(Calls)
    BY <1>1, <1>3, Appended DEF Typed
  <2> QED BY <1>1, <2>1 DEF LoseSession, Typed
<1>5. Quiet
  BY DEF LoseSession, Quiet, SessionKept
<1>6. at' = at /\ (at # "start" => jobs' # <<>> /\ Head(jobs') = Head(jobs))
  BY <1>1 DEF LoseSession, IInv, AtOK
<1>7. /\ Queue' = Queue \cup {y}
      /\ \A a, b : Before(a, b)' => Before(a, b) \/ a = y \/ b = y
  BY <1>1, <1>3, QueuePosted
<1>8. ItemOK(y)' /\ y.kind # "draft" /\ \A a : InOrder(a, y)' /\ InOrder(y, a)'
  BY <1>3, TriviallyAfter
<1> QED BY <1>4, <1>5, <1>6, <1>7, <1>8, QuietStep

\* While no client is installed, no view is open, and none waits for its text
\* but the one that the worker just asked for.
LEMMA NoClient ==
  ASSUME IInv, runtime.client = 0
  PROVE  \A v \in Views : /\ ~Open(v)
                          /\ pending[v] # NoOwner => at = "opened" /\ Head(jobs).view = v
BY DEF IInv, DocsOK, DocOK, PendingsOK, PendingOK, Same

LEMMA FinishUnlockStep ==
  ASSUME IInv, callbacks # <<>>, NEW c, c = Head(callbacks), FinishUnlock(c)
  PROVE  IInv'
<1>1. /\ Typed /\ c.kind = "unlock" /\ callbacks' = Tail(callbacks) /\ jobs' = jobs
      /\ DraftOK /\ PendingsOK
  BY DEF IInv, FinishUnlock
<1>2. c \in [kind : {"unlock"}, client : Clients, gen : Nat]
  BY <1>1, Queues DEF Calls
<1>3. Typed'
  <2>1. callbacks' \in Seq(Calls)
    BY <1>1, Tailed DEF Typed
  <2>2. runtime' \in [client : Clients, generation : Nat, unlocking : BOOLEAN]
    BY <1>1, <1>2 DEF FinishUnlock, Typed
  <2>3. live' \subseteq 1 .. MaxClients
    BY <1>1 DEF FinishUnlock, Typed
  <2> QED BY <1>1, <2>1, <2>2, <2>3 DEF FinishUnlock, Typed
<1>4. Closings
  BY <1>1, Versions DEF FinishUnlock, Closings, Latest
<1>5. DraftOK'
  BY <1>1 DEF DraftOK, FinishUnlock, Latest
<1>6. SessionKept \/ runtime.client = 0
  BY <1>1 DEF FinishUnlock, SessionKept, Typed
<1>7. SessionKept \/ \A v \in Views : ~Open(v)'
  BY <1>6, NoClient DEF FinishUnlock, Open
<1>8. \A v \in Views : pending'[v] # NoOwner =>
        /\ docs'[v] = docs[v]
        /\ Same(pending[v])' \/ (at' = "opened" /\ Head(jobs').view = v)
  <2>1. CASE SessionKept
    BY <1>1, <2>1 DEF FinishUnlock, PendingsOK, PendingOK, SessionKept, Same
  <2>2. CASE runtime.client = 0
    BY <1>1, <2>2, NoClient DEF FinishUnlock
  <2> QED BY <1>6, <2>1, <2>2
<1>9. \A x \in Items :
        x \in Queue /\ x \in Queue' /\ x.kind = "open" => docs'[x.view] = docs[x.view]
  BY DEF FinishUnlock
<1>10. at' = at /\ (at # "start" => jobs' # <<>> /\ Head(jobs') = Head(jobs))
  BY <1>1 DEF FinishUnlock, IInv, AtOK
<1>11. /\ Queue' \subseteq Queue
       /\ \A z \in Queue : z \in Queue' \/ z = Head(callbacks)
       /\ \A a, b : Before(a, b)' => Before(a, b)
  BY <1>1, QueueCalled
<1> QED BY <1>1, <1>3, <1>4, <1>5, <1>7, <1>8, <1>9, <1>10, <1>11, ClosingStep

LEMMA Locking ==
  ASSUME IInv, LockViews, UNCHANGED <<written, draft, crossed, spent, at>>
  PROVE  /\ Closings /\ DraftOK'
         /\ \A v \in Views : ~Open(v)' /\ pending'[v] = NoOwner
         /\ \A x \in Items : x \in Queue /\ x.kind = "open" => docs'[x.view] = docs[x.view]
<1>1. Typed /\ DraftOK /\ ItemsOK
  BY DEF IInv
<1>2. \A v \in Views : docs'[v] = IF Open(v) THEN Gone ELSE docs[v]
  BY DEF LockViews
<1>3. Closings
  BY <1>1, <1>2, Versions DEF LockViews, Closings, Latest, Open
<1>4. DraftOK'
  BY <1>1 DEF DraftOK, Latest
<1>5. \A v \in Views : ~Open(v)' /\ pending'[v] = NoOwner
  BY <1>2, GoneIs DEF LockViews, Open
<1>6. ASSUME NEW x \in Items, x \in Queue, x.kind = "open"
      PROVE  docs'[x.view] = docs[x.view]
  BY <1>1, <1>2, <1>6, Fields DEF ItemsOK, ItemOK, OpenJobOK, Open
<1> QED BY <1>3, <1>4, <1>5, <1>6

LEMMA LockingTyped ==
  ASSUME Typed, LockViews, UNCHANGED <<written, draft, crossed, spent, at>>,
         live' = live, jobs' \in Seq(Jobs), callbacks' \in Seq(Calls)
  PROVE  Typed'
<1>1. docs' \in [Views -> Document] /\ pending' \in [Views -> Owners]
  BY Defaults DEF LockViews, Typed
<1>2. runtime' \in [client : Clients, generation : Nat, unlocking : BOOLEAN]
  <2>1. runtime.generation + 1 \in Nat
    BY DEF Typed
  <2> QED BY <2>1, Defaults DEF LockViews
<1> QED BY <1>1, <1>2 DEF LockViews, Typed

LEMMA ShutdownJob ==
  ASSUME Typed
  PROVE  \E x \in Jobs : x = [kind |-> "shutdown", client |-> runtime.client] /\ Trivial(x)
<1>1. runtime.client \in Clients
  BY DEF Typed
<1>2. PICK x \in [kind : {"shutdown"}, client : Clients] :
        x = [kind |-> "shutdown", client |-> runtime.client]
  BY <1>1
<1>3. x \in Jobs
  BY DEF Jobs
<1>4. Trivial(x)
  BY DEF Trivial
<1> QED BY <1>2, <1>3, <1>4

LEMMA PerformLockStep ==
  ASSUME IInv, PerformLock
  PROVE  IInv'
<1>1. Typed /\ LockViews /\ callbacks' = callbacks /\ live' = live
      /\ UNCHANGED <<written, draft, crossed, spent, at>>
  BY DEF IInv, PerformLock
<1>2. PICK x \in Jobs : x = [kind |-> "shutdown", client |-> runtime.client] /\ Trivial(x)
  BY <1>1, ShutdownJob
<1>3. jobs' = jobs \/ jobs' = Append(jobs, x)
  BY <1>1, <1>2 DEF LockViews
<1>4. jobs' \in Seq(Jobs) /\ (jobs # <<>> => jobs' # <<>> /\ Head(jobs') = Head(jobs))
  <2>1. jobs \in Seq(Jobs)
    BY <1>1 DEF Typed
  <2> QED BY <1>3, <2>1, Appended
<1>5. Typed'
  <2>1. callbacks' \in Seq(Calls)
    BY <1>1 DEF Typed
  <2> QED BY <1>1, <1>4, <2>1, LockingTyped
<1>6. at' = at /\ (at # "start" => jobs' # <<>> /\ Head(jobs') = Head(jobs))
  <2>1. AtOK
    BY DEF IInv
  <2> QED BY <1>1, <1>4, <2>1 DEF AtOK
<1>7. /\ Queue \subseteq Queue' /\ Queue' \subseteq Queue \cup {x}
      /\ \A a, b : Before(a, b)' => Before(a, b) \/ b = x
  <2>1. CASE jobs' = jobs
    BY <1>1, <2>1 DEF Queue, Before
  <2>2. CASE jobs' = Append(jobs, x)
    BY <1>1, <2>2, QueueGiven
  <2> QED BY <1>3, <2>1, <2>2
<1>8. ItemOK(x)' /\ x.kind # "draft" /\ \A a : InOrder(a, x)'
  BY <1>2, TriviallyAfter
<1>9. /\ Closings /\ DraftOK'
      /\ \A v \in Views : ~Open(v)' /\ pending'[v] = NoOwner
      /\ \A y \in Items : y \in Queue /\ y.kind = "open" => docs'[y.view] = docs[y.view]
  BY <1>1, Locking
<1> QED BY <1>5, <1>6, <1>7, <1>8, <1>9, ClosingStep

LEMMA SessionLostStep ==
  ASSUME IInv, callbacks # <<>>, NEW c, c = Head(callbacks), SessionLost(c)
  PROVE  IInv'
<1>1. /\ Typed /\ c.kind = "lost" /\ callbacks' = Tail(callbacks) /\ live' = live
      /\ UNCHANGED <<written, draft, crossed, spent, at>>
  BY DEF IInv, SessionLost
<1>2. callbacks' \in Seq(Calls)
  BY <1>1, Tailed DEF Typed
<1>3. AtOK
  BY DEF IInv
<1>4. CASE ~LockViews
  <2>1. UNCHANGED <<runtime, docs, pending, panels, jobs>>
    BY <1>4 DEF SessionLost
  <2>2. Typed'
    BY <1>1, <1>2, <2>1 DEF Typed
  <2>3. Quiet
    BY <1>1, <2>1 DEF Quiet, SessionKept
  <2>4. at' = at /\ (at # "start" => jobs' # <<>> /\ Head(jobs') = Head(jobs))
    BY <1>1, <1>3, <2>1 DEF AtOK
  <2>5. /\ Queue' \subseteq Queue
        /\ \A z \in Queue : z \in Queue' \/ z = Head(callbacks)
        /\ \A a, b : Before(a, b)' => Before(a, b)
    BY <1>1, <2>1, QueueCalled
  <2> QED BY <1>1, <2>2, <2>3, <2>4, <2>5, QuietStep
<1>5. CASE LockViews
  <2>1. PICK x \in Jobs : x = [kind |-> "shutdown", client |-> runtime.client] /\ Trivial(x)
    BY <1>1, ShutdownJob
  <2>2. jobs' = jobs \/ jobs' = Append(jobs, x)
    BY <1>5, <2>1 DEF LockViews
  <2>3. jobs' \in Seq(Jobs) /\ (jobs # <<>> => jobs' # <<>> /\ Head(jobs') = Head(jobs))
    <3>1. jobs \in Seq(Jobs)
      BY <1>1 DEF Typed
    <3> QED BY <2>2, <3>1, Appended
  <2>4. Typed'
    BY <1>1, <1>2, <1>5, <2>3, LockingTyped
  <2>5. at' = at /\ (at # "start" => jobs' # <<>> /\ Head(jobs') = Head(jobs))
    BY <1>1, <1>3, <2>3 DEF AtOK
  <2>6. /\ Queue' \subseteq Queue \cup {x}
        /\ \A z \in Queue : z \in Queue' \/ z = Head(callbacks)
        /\ \A a, b : Before(a, b)' => Before(a, b) \/ b = x
    <3>1. CASE jobs' = jobs
      BY <1>1, <3>1, QueueCalled
    <3>2. CASE jobs' = Append(jobs, x)
      BY <1>1, <3>2, QueueShut
    <3> QED BY <2>2, <3>1, <3>2
  <2>7. ItemOK(x)' /\ x.kind # "draft" /\ \A a : InOrder(a, x)'
    BY <2>1, TriviallyAfter
  <2>8. /\ Closings /\ DraftOK'
        /\ \A v \in Views : ~Open(v)' /\ pending'[v] = NoOwner
        /\ \A y \in Items : y \in Queue /\ y.kind = "open" => docs'[y.view] = docs[y.view]
    BY <1>1, <1>5, Locking
  <2> QED BY <1>1, <2>4, <2>5, <2>6, <2>7, <2>8, ClosingStep
<1> QED BY <1>4, <1>5
-----------------------------------------------------------------------------
(* Opening a document.                                                     *)

LEMMA Abandoning ==
  ASSUME IInv, NEW v \in Views, Abandon(v), docs[v].is # "new",
         UNCHANGED <<written, draft, live, runtime, crossed, spent>>,
         panels' \subseteq panels
  PROVE  /\ Closings /\ DraftOK' /\ SessionKept
         /\ docs' \in [Views -> Document] /\ pending' \in [Views -> Owners]
         /\ \A w \in Views : w # v => docs'[w] = docs[w] /\ pending'[w] = pending[w]
         /\ pending'[v] = NoOwner
<1>1. Typed /\ DraftOK
  BY DEF IInv
<1>2. docs \in [Views -> Document] /\ pending \in [Views -> Owners]
  BY <1>1 DEF Typed
<1>3. \A w \in Views : /\ docs'[w] = IF w = v THEN Gone ELSE docs[w]
                       /\ pending'[w] = IF w = v THEN NoOwner ELSE pending[w]
  BY <1>2 DEF Abandon
<1>4. docs' \in [Views -> Document] /\ pending' \in [Views -> Owners]
  BY <1>2, Defaults DEF Abandon
<1>5. Closings
  BY <1>1, <1>3, Versions DEF Closings, Latest
<1>6. DraftOK'
  BY <1>1 DEF DraftOK, Latest
<1> QED BY <1>3, <1>4, <1>5, <1>6 DEF SessionKept

LEMMA WorkAbandonsStep ==
  ASSUME IInv, jobs # <<>>, NEW j, j = Head(jobs), j.kind = "open",
         WorkAbandons(j.view),
         UNCHANGED <<written, draft, live, runtime, panels, crossed, spent>>
  PROVE  IInv'
<1>1. /\ Typed /\ PendingsOK /\ j \in Queue /\ j \in Items
      /\ j.view \in Views /\ docs[j.view].is # "new"
  <2>1. Typed /\ PendingsOK /\ ItemsOK
    BY DEF IInv
  <2>2. j \in Queue /\ j \in Items
    BY <2>1, Queues
  <2>3. OpenJobOK(j)
    BY <2>1, <2>2 DEF ItemsOK, ItemOK
  <2> QED BY <2>1, <2>2, <2>3, Fields DEF OpenJobOK
<1>2. jobs' = Tail(jobs) /\ at' = "start" /\ callbacks' = callbacks /\ Abandon(j.view)
  BY DEF WorkAbandons
<1>3. /\ Closings /\ DraftOK' /\ SessionKept
      /\ docs' \in [Views -> Document] /\ pending' \in [Views -> Owners]
      /\ \A w \in Views : w # j.view => docs'[w] = docs[w] /\ pending'[w] = pending[w]
      /\ pending'[j.view] = NoOwner
  BY <1>1, <1>2, Abandoning
<1>4. Typed'
  <2>1. jobs' \in Seq(Jobs)
    BY <1>1, <1>2, Tailed DEF Typed
  <2> QED BY <1>1, <1>2, <1>3, <2>1 DEF Typed
<1>5. /\ Queue' \subseteq Queue
      /\ \A z \in Queue : z \in Queue' \/ z = Head(jobs)
      /\ \A a, b : Before(a, b)' => Before(a, b)
      /\ \A z \in Queue' : z \in Calls \/ Before(Head(jobs), z)
  BY <1>1, <1>2, QueueDone
<1>6. ASSUME NEW x \in Items, x \in Queue, x \in Queue', x.kind = "open"
      PROVE  docs'[x.view] = docs[x.view]
  <2>1. InOrder(j, x)
    BY <1>1, <1>5, <1>6, Fields DEF IInv, OrderOK
  <2>2. x.view # j.view /\ x.view \in Views
    BY <1>6, <2>1, Fields DEF InOrder
  <2> QED BY <2>2, <1>3
<1>7. \A w \in Views : pending'[w] # NoOwner =>
        /\ docs'[w] = docs[w]
        /\ Same(pending[w])' \/ (at' = "opened" /\ Head(jobs').view = w)
  BY <1>1, <1>3 DEF PendingsOK, PendingOK, SessionKept, Same
<1>8. AtOK'
  BY <1>2 DEF AtOK
<1>9. \A y \in Queue : y.kind = "open" =>
        y \in Queue' \/ \A x \in Queue' : x.kind = "draft" => Before(y, x)
  <2>1. \A x \in Queue' : x.kind = "draft" => x \notin Calls
    BY <1>1, <1>5, Queues, Fields
  <2> QED BY <1>5, <2>1
<1> QED BY <1>3, <1>4, <1>5, <1>6, <1>7, <1>8, <1>9, ClosingStep

LEMMA CallAbandonsStep ==
  ASSUME IInv, callbacks # <<>>, NEW c, c = Head(callbacks),
         c.kind \in {"opened", "offer"},
         callbacks' = Tail(callbacks), Abandon(c.view),
         UNCHANGED <<written, draft, live, runtime, panels, jobs, at, crossed, spent>>
  PROVE  IInv'
<1>1. /\ Typed /\ PendingsOK /\ AtOK /\ c \in Queue /\ c \in Items
      /\ c.view \in Views /\ docs[c.view].is # "new"
  <2>1. Typed /\ PendingsOK /\ ItemsOK /\ AtOK
    BY DEF IInv
  <2>2. c \in Queue /\ c \in Items
    BY <2>1, Queues
  <2> QED BY <2>1, <2>2, Fields DEF ItemsOK, ItemOK
<1>2. /\ Closings /\ DraftOK' /\ SessionKept
      /\ docs' \in [Views -> Document] /\ pending' \in [Views -> Owners]
      /\ \A w \in Views : w # c.view => docs'[w] = docs[w] /\ pending'[w] = pending[w]
      /\ pending'[c.view] = NoOwner
  BY <1>1, Abandoning
<1>3. Typed'
  <2>1. callbacks' \in Seq(Calls)
    BY <1>1, Tailed DEF Typed
  <2> QED BY <1>1, <1>2, <2>1 DEF Typed
<1>4. /\ Queue' \subseteq Queue
      /\ \A z \in Queue : z \in Queue' \/ z = Head(callbacks)
      /\ \A a, b : Before(a, b)' => Before(a, b)
      /\ \A z \in Queue' : Before(Head(callbacks), z)
  BY <1>1, QueueCalled
<1>5. ASSUME NEW x \in Items, x \in Queue, x \in Queue', x.kind = "open"
      PROVE  docs'[x.view] = docs[x.view]
  <2>1. InOrder(c, x)
    BY <1>1, <1>4, <1>5 DEF IInv, OrderOK
  <2>2. x.view # c.view /\ x.view \in Views
    BY <1>5, <2>1, Fields DEF InOrder
  <2> QED BY <2>2, <1>2
<1>6. \A w \in Views : pending'[w] # NoOwner =>
        /\ docs'[w] = docs[w]
        /\ Same(pending[w])' \/ (at' = "opened" /\ Head(jobs').view = w)
  BY <1>1, <1>2 DEF PendingsOK, PendingOK, SessionKept, Same
<1>7. at' = at /\ (at # "start" => jobs' # <<>> /\ Head(jobs') = Head(jobs))
  BY <1>1 DEF AtOK
<1>8. \A y \in Queue : y.kind = "open" => y \in Queue'
  BY <1>1, <1>4
<1> QED BY <1>2, <1>3, <1>4, <1>5, <1>6, <1>7, <1>8, ClosingStep
\* A job or callback is about a view that was used.
LEMMA UsedViews ==
  ASSUME Typed, ItemsOK, NEW x \in Queue, ~Trivial(x)
  PROVE  x.view \in Views /\ docs[x.view].is # "new"
<1>1. x \in Items /\ ItemOK(x)
  BY Queues DEF ItemsOK
<1>2. x.kind \in {"open", "opened", "offer", "draftFailed", "draft", "drafted", "save", "saved"}
  BY <1>1 DEF Items, Jobs, Calls, Trivial
<1> QED BY <1>1, <1>2, Fields
        DEF ItemOK, OpenJobOK, DraftJobOK, SaveJobOK, DraftedOK, SavedOK, IsDraft, IsSave

\* Views that are used, and all that tells what a view may do, are as before.
LEMMA OpeningItems ==
  ASSUME Typed, ItemsOK, crossed => crossed', UNCHANGED <<written, draft, pending, panels>>,
         \A v \in Views : docs[v].is # "new" => docs'[v] = docs[v]
  PROVE  Stable /\ OrderKept
<1>1. ASSUME NEW x \in Items, x \in Queue
      PROVE  ItemOK(x)'
  <2>1. CASE Trivial(x)
    BY <2>1, TriviallyAfter
  <2>2. CASE ~Trivial(x)
    <3>1. docs'[x.view] = docs[x.view] /\ ItemOK(x)
      BY <2>2, <1>1, UsedViews DEF ItemsOK
    <3>2. Latest' = Latest
      BY DEF Latest
    <3>3. OpenJobOK(x) => OpenJobOK(x)'
      BY <3>1, <3>2 DEF OpenJobOK
    <3>4. DraftJobOK(x) => DraftJobOK(x)'
      BY <3>1, <3>2 DEF DraftJobOK, DraftOnItsWay, Open
    <3>5. SaveJobOK(x) => SaveJobOK(x)'
      BY <3>1, <3>2 DEF SaveJobOK, SaveOnItsWay, Open
    <3>6. DraftedOK(x) => DraftedOK(x)'
      BY <3>1, <3>2 DEF DraftedOK, DraftOnItsWay, Open
    <3>7. SavedOK(x) => SavedOK(x)'
      BY <3>1, <3>2 DEF SavedOK, SaveOnItsWay, Open
    <3>8. Offered(x.view) => Offered(x.view)'
      BY DEF Offered
    <3> QED BY <3>1, <3>3, <3>4, <3>5, <3>6, <3>7, <3>8 DEF ItemOK
  <2> QED BY <2>1, <2>2
<1>2. ASSUME NEW x \in Items, x \in Queue, IsDraft(x) \/ IsSave(x), Open(x.view)'
      PROVE  Open(x.view)
  <2>1. ~Trivial(x)
    BY <1>2 DEF Trivial, IsDraft, IsSave
  <2> QED BY <1>2, <2>1, UsedViews DEF Open
<1> QED BY <1>1, <1>2, OrderStays DEF Stable

LEMMA OpenDocumentStep ==
  ASSUME IInv, OpenDocument
  PROVE  IInv'
<1>1. /\ Typed /\ DocsOK /\ PendingsOK /\ PanelsOK /\ DraftOK /\ AtOK
      /\ ItemsOK /\ OrderOK /\ OneAlive
  BY DEF IInv
<1>2. PICK v \in Views : v = spent.views + 1
  <2>1. spent.views \in 0 .. MaxViews /\ MaxViews \in Nat
    BY <1>1, Bounds, Counted
  <2> QED BY <2>1 DEF OpenDocument, Views
<1>3. spent.views \in Nat /\ spent'.views = v
  <2>1. spent.views \in Nat
    BY <1>1, Counted
  <2>2. spent' = [spent EXCEPT !.views = spent.views + 1]
    BY DEF OpenDocument, Count
  <2> QED BY <1>1, <1>2, <2>1, <2>2 DEF Typed
<1>4. docs[v].is = "new"
  BY <1>1, <1>2, <1>3 DEF DocsOK, FreshOK
<1>5. /\ docs' \in [Views -> Document]
      /\ \A w \in Views : w # v => docs'[w] = docs[w]
      /\ docs'[v].is = "opening" /\ docs'[v].saved = docs[v].saved
      /\ docs'[v].version = docs[v].version /\ docs'[v].drafted = docs[v].drafted
      /\ docs'[v].base = docs[v].base /\ docs'[v].etag = docs[v].etag
  <2>1. docs' = [docs EXCEPT ![v] = [docs[v] EXCEPT !.is = "opening"]]
    BY <1>2 DEF OpenDocument
  <2>2. docs \in [Views -> Document] /\ docs[v] \in Document
    BY <1>1 DEF Typed
  <2>3. [docs[v] EXCEPT !.is = "opening"] \in Document
    BY <2>2 DEF Document
  <2>4. docs'[v] = [docs[v] EXCEPT !.is = "opening"]
    BY <2>1, <2>2
  <2>5. docs' \in [Views -> Document] /\ \A w \in Views : w # v => docs'[w] = docs[w]
    BY <2>1, <2>2, <2>3
  <2> QED BY <2>2, <2>4, <2>5 DEF Document
<1>6. PICK x \in Jobs : x = [kind |-> "open", view |-> v, found |-> NoDraft,
                             client |-> runtime.client, gen |-> runtime.generation]
  <2>1. runtime.client \in Clients /\ runtime.generation \in Nat
    BY <1>1 DEF Typed
  <2>2. [kind |-> "open", view |-> v, found |-> NoDraft,
         client |-> runtime.client, gen |-> runtime.generation]
          \in [kind : {"open"}, view : Views, found : Drafts, client : Clients, gen : Nat]
    BY <2>1, Defaults
  <2> QED BY <2>2 DEF Jobs
<1>7. jobs' = Append(jobs, x) /\ callbacks' = callbacks
  BY <1>2, <1>6 DEF OpenDocument, Give
<1>8. jobs' \in Seq(Jobs) /\ (jobs # <<>> => jobs' # <<>> /\ Head(jobs') = Head(jobs))
  BY <1>1, <1>7, Appended DEF Typed
<1>9. Typed'
  <2>1. spent' \in [views : 0 .. MaxViews, typed : 0 .. MaxTyped, saves : 0 .. MaxSaves,
                    others : 0 .. MaxOthers, clients : 1 .. MaxClients]
    <3>1. spent' = [spent EXCEPT !.views = spent.views + 1]
      BY DEF OpenDocument, Count
    <3>2. spent.views + 1 \in 0 .. MaxViews
      BY <1>2, Bounds DEF Views
    <3>3. spent \in [views : 0 .. MaxViews, typed : 0 .. MaxTyped, saves : 0 .. MaxSaves,
                     others : 0 .. MaxOthers, clients : 1 .. MaxClients]
      BY <1>1 DEF Typed
    <3> QED BY <3>1, <3>2, <3>3
  <2>2. crossed' \in BOOLEAN
    BY DEF OpenDocument
  <2> QED BY <1>1, <1>5, <1>8, <2>1, <2>2 DEF OpenDocument, Typed
<1>10. crossed => crossed'
  BY DEF OpenDocument
<1>11. DocsOK'
  <2> SUFFICES ASSUME NEW w \in Views PROVE DocOK(w)' /\ FreshOK(w)'
    BY DEF DocsOK
  <2>1. DocOK(w) /\ FreshOK(w) /\ w \in Nat /\ v \in Nat /\ Latest' = Latest
    BY <1>1 DEF DocsOK, Views, OpenDocument, Latest
  <2>2. CASE w = v
    BY <1>2, <1>3, <1>4, <1>5, <2>1, <2>2 DEF DocOK, FreshOK, Open
  <2>3. CASE w # v
    <3>1. FreshOK(w)'
      BY <1>2, <1>3, <1>5, <2>1, <2>3 DEF FreshOK
    <3>2. docs'[w] = docs[w]
      BY <1>5, <2>3
    <3> QED BY <1>10, <2>1, <3>1, <3>2 DEF DocOK, Open, OpenDocument
  <2> QED BY <2>2, <2>3
<1>12. AtOK'
  BY <1>1, <1>8, <1>10 DEF AtOK, OpenDocument
<1>13. PendingsOK'
  <2> SUFFICES ASSUME NEW w \in Views, pending'[w] # NoOwner PROVE PendingOK(w)'
    BY DEF PendingsOK, PendingOK
  <2>1. PendingOK(w) /\ pending'[w] = pending[w] /\ Latest' = Latest
    BY <1>1 DEF PendingsOK, OpenDocument, Latest
  <2>2. docs'[w] = docs[w]
    BY <1>4, <1>5, <2>1 DEF PendingOK
  <2>3. at = "opened" => Head(jobs') = Head(jobs)
    BY <1>1, <1>8 DEF AtOK
  <2> QED BY <2>1, <2>2, <2>3 DEF PendingOK, Same, OpenDocument
<1>14. PanelsOK'
  <2> SUFFICES ASSUME NEW p \in panels PROVE PanelOK(p)'
    BY DEF PanelsOK, OpenDocument
  <2>1. PanelOK(p) /\ p.view \in Views
    BY <1>1 DEF PanelsOK, Typed
  <2>2. docs'[p.view] = docs[p.view]
    BY <1>4, <1>5, <2>1 DEF PanelOK
  <2> QED BY <1>10, <2>1, <2>2 DEF PanelOK, Offered, OpenDocument
<1>15. DraftOK'
  BY <1>1 DEF DraftOK, OpenDocument, Latest
<1>16. /\ Queue' = Queue \cup {x}
       /\ \A a, b : Before(a, b)' => Before(a, b) \/ (a \in Queue /\ b = x)
  BY <1>1, <1>7, QueueGiven
<1>17. Stable /\ OrderKept
  <2>1. UNCHANGED <<written, draft, pending, panels>>
    BY DEF OpenDocument
  <2>2. \A w \in Views : docs[w].is # "new" => docs'[w] = docs[w]
    BY <1>4, <1>5
  <2> QED BY <1>1, <1>10, <2>1, <2>2, OpeningItems
<1>18. ItemsOK'
  <2>1. OpenJobOK(x)'
    <3>1. x.client # 0 /\ x.view = v /\ x.found = NoDraft
      BY <1>6 DEF OpenDocument
    <3>2. \A p \in panels' : p.view # v
      BY <1>1, <1>4 DEF PanelsOK, PanelOK, OpenDocument
    <3> QED BY <1>5, <3>1, <3>2, <1>9, VersionsAfter DEF OpenJobOK, NoDraft
  <2>2. ItemOK(x)'
    BY <1>6, <2>1 DEF ItemOK
  <2> QED BY <1>9, <1>16, <1>17, <2>2, ItemsStep
<1>19. OrderOK'
  <2>1. ASSUME NEW a \in Queue PROVE InOrder(a, x)'
    <3>1. ~Trivial(a) => a.view # v
      BY <1>1, <1>4, UsedViews
    <3> QED BY <1>6, <3>1 DEF InOrder, Trivial, IsDraft, IsSave
  <2> QED BY <1>1, <1>16, <1>17, <2>1, OrderStep
<1>20. \A w \in Views : ~crossed' /\ Alive(w)' => w = v
  BY <1>5 DEF OpenDocument, Alive, Open
<1>21. OneAlive'
  BY <1>20 DEF OneAlive
<1>22. EarlierDrafts'
  BY <1>6, <1>16, <1>20 DEF EarlierDrafts
<1> QED BY <1>9, <1>11, <1>12, <1>13, <1>14, <1>15, <1>18, <1>19, <1>21, <1>22 DEF IInv
\* The plaintext that waits for one view is replaced.
LEMMA WaitingItems ==
  ASSUME Typed, ItemsOK, NEW v \in Views,
         UNCHANGED <<written, docs, draft, panels, crossed>>,
         \A w \in Views : w # v => pending'[w] = pending[w],
         \A x \in Queue : x.kind = "offer" /\ x.view = v => Offered(v)'
  PROVE  Stable /\ OrderKept
<1>1. ASSUME NEW x \in Items, x \in Queue
      PROVE  ItemOK(x)'
  <2>1. ItemOK(x) /\ Latest' = Latest
    BY <1>1 DEF ItemsOK, Latest
  <2>2. x.kind = "offer" => Offered(x.view)'
    <3>1. CASE x.kind = "offer" /\ x.view # v
      <4>1. x.view \in Views
        BY <3>1, Fields
      <4> QED BY <2>1, <3>1, <4>1 DEF ItemOK, Offered
    <3>2. CASE x.kind = "offer" /\ x.view = v
      BY <1>1, <3>2
    <3> QED BY <3>1, <3>2
  <2>3. OpenJobOK(x) => OpenJobOK(x)'
    BY <2>1 DEF OpenJobOK
  <2>4. DraftJobOK(x) => DraftJobOK(x)'
    BY <2>1 DEF DraftJobOK, DraftOnItsWay, Open
  <2>5. SaveJobOK(x) => SaveJobOK(x)'
    BY <2>1 DEF SaveJobOK, SaveOnItsWay, Open
  <2>6. DraftedOK(x) => DraftedOK(x)'
    BY <2>1 DEF DraftedOK, DraftOnItsWay, Open
  <2>7. SavedOK(x) => SavedOK(x)'
    BY <2>1 DEF SavedOK, SaveOnItsWay, Open
  <2> QED BY <2>1, <2>2, <2>3, <2>4, <2>5, <2>6, <2>7 DEF ItemOK
<1>2. OrderKept
  BY OrderStays DEF Open
<1> QED BY <1>1, <1>2 DEF Stable

\* The invariant is about the text that waits, and only one part of it about
\* which draft was found.
LEMMA WaitingState ==
  ASSUME IInv, Typed', UNCHANGED <<written, docs, draft, crossed, runtime>>,
         spent'.views = spent.views
  PROVE  DocsOK' /\ DraftOK' /\ OneAlive' /\ \A w \in Views : Alive(w)' => Alive(w)
<1>1. Latest' = Latest
  BY DEF Latest
<1>2. DocsOK'
  BY <1>1 DEF IInv, DocsOK, DocOK, FreshOK, Open
<1>3. DraftOK'
  BY <1>1 DEF IInv, DraftOK
<1>4. OneAlive'
  BY DEF IInv, OneAlive, Alive
<1> QED BY <1>2, <1>3, <1>4 DEF Alive

LEMMA WorkOpenStep ==
  ASSUME IInv, jobs # <<>>, NEW j, j = Head(jobs), WorkOpen(j)
  PROVE  IInv'
<1>1. /\ Typed /\ DocsOK /\ PendingsOK /\ PanelsOK /\ DraftOK /\ AtOK
      /\ ItemsOK /\ OrderOK /\ OneAlive /\ EarlierDrafts
  BY DEF IInv
<1>2. j \in Queue /\ j \in Jobs /\ j \in Items /\ j.kind = "open" /\ at = "start"
  BY <1>1, Queues DEF WorkOpen
<1>3. j.view \in Views /\ OpenJobOK(j)
  BY <1>1, <1>2, Fields DEF ItemsOK, ItemOK
<1>4. CASE j.client \notin live
  BY <1>2, <1>4, WorkAbandonsStep DEF WorkOpen
<1>5. CASE j.client \in live
  <2>1. /\ UNCHANGED <<docs, jobs, callbacks, written, draft, live, runtime, panels,
                       crossed, spent>>
        /\ at' = "opened"
    BY <1>5 DEF WorkOpen
  <2>2. PICK o \in Owners :
          o = [client |-> j.client, gen |-> j.gen, text |-> Last(written),
               etag |-> Latest, found |-> NoDraft]
    <3>1. j \in [kind : {"open"}, view : Views, found : Drafts, client : Clients, gen : Nat]
      BY <1>2 DEF Jobs
    <3>2. Last(written) \in Texts /\ Latest \in Nat
      BY <1>1, Versions DEF Last, Latest
    <3> QED BY <3>1, <3>2, Defaults DEF Owners
  <2>3. pending' = [pending EXCEPT ![j.view] = o]
    BY <1>5, <2>2 DEF WorkOpen
  <2>4. /\ pending' \in [Views -> Owners] /\ pending'[j.view] = o
        /\ \A w \in Views : w # j.view => pending'[w] = pending[w]
    BY <1>1, <1>3, <2>3 DEF Typed
  <2>5. Typed'
    BY <1>1, <2>1, <2>4 DEF Typed
  <2>6. DocsOK' /\ DraftOK' /\ OneAlive' /\ \A w \in Views : Alive(w)' => Alive(w)
    BY <2>1, <2>5, WaitingState
  <2>7. PendingsOK'
    <3> SUFFICES ASSUME NEW w \in Views, pending'[w] # NoOwner PROVE PendingOK(w)'
      BY DEF PendingsOK, PendingOK
    <3>1. CASE w = j.view
      <4>1. docs[w].is = "opening" /\ j.client # 0
        BY <1>3, <3>1 DEF OpenJobOK
      <4>2. o.etag \in 1 .. Latest /\ o.text = written[o.etag] /\ o.client # 0
        BY <1>1, <2>2, <4>1, Versions DEF Last, Latest
      <4>3. o.found.base = 0 /\ o.found.seen = 0
        BY <2>2 DEF NoDraft
      <4>4. at' = "opened" /\ Head(jobs').view = w
        BY <2>1, <3>1
      <4>5. Latest' = Latest /\ Latest \in Nat
        BY <1>1, <2>1, Versions DEF Latest
      <4> QED BY <2>1, <2>4, <3>1, <4>1, <4>2, <4>3, <4>4, <4>5 DEF PendingOK
    <3>2. CASE w # j.view
      <4>1. pending'[w] = pending[w] /\ PendingOK(w) /\ Same(pending[w])
        BY <1>1, <1>2, <2>4, <3>2 DEF PendingsOK, PendingOK
      <4> QED BY <2>1, <4>1 DEF PendingOK, Same, Latest
    <3> QED BY <3>1, <3>2
  <2>8. PanelsOK'
    <3> SUFFICES ASSUME NEW p \in panels PROVE PanelOK(p)'
      BY <2>1 DEF PanelsOK
    <3>1. PanelOK(p) /\ p.view \in Views /\ (p.asks = "recovery" => p.view # j.view)
      BY <1>1, <1>3 DEF PanelsOK, Typed, OpenJobOK
    <3> QED BY <2>1, <2>4, <3>1 DEF PanelOK, Offered
  <2>9. AtOK'
    <3>1. Head(jobs').kind = "open" /\ jobs' # <<>> /\ Head(jobs') = j
      BY <1>2, <2>1
    <3>2. o.client = j.client /\ o.gen = j.gen
      BY <2>2
    <3> QED BY <2>1, <2>4, <3>1, <3>2 DEF AtOK
  <2>10. ASSUME NEW x \in Queue, x.kind = "offer"
         PROVE  x.view # j.view
    <3>1. Before(x, j)
      BY <1>1, <2>10, Queues, Fields
    <3> QED BY <1>1, <1>2, <2>10, <3>1 DEF OrderOK, InOrder
  <2>11. Stable /\ OrderKept
    <3>1. UNCHANGED <<written, docs, draft, panels, crossed>>
      BY <2>1
    <3> QED BY <1>1, <1>3, <2>4, <2>10, <3>1, WaitingItems
  <2>12. Queue' = Queue /\ \A a, b : Before(a, b)' => Before(a, b)
    BY <2>1 DEF Queue, Before
  <2>13. ItemsOK' /\ OrderOK'
    BY <1>1, <2>5, <2>11, <2>12, ItemsStep, OrderStep
  <2>14. EarlierDrafts'
    BY <1>1, <2>1, <2>6, <2>12 DEF EarlierDrafts
  <2> QED BY <2>5, <2>6, <2>7, <2>8, <2>9, <2>13, <2>14 DEF IInv
<1> QED BY <1>4, <1>5

LEMMA WorkReadDraftStep ==
  ASSUME IInv, jobs # <<>>, NEW j, j = Head(jobs), WorkReadDraft(j)
  PROVE  IInv'
<1>1. /\ Typed /\ DocsOK /\ PendingsOK /\ PanelsOK /\ DraftOK /\ AtOK
      /\ ItemsOK /\ OrderOK /\ OneAlive /\ EarlierDrafts
  BY DEF IInv
<1>2. j \in Queue /\ j \in Jobs /\ j \in Items /\ j.kind = "open" /\ at = "opened"
  BY <1>1, Queues DEF WorkReadDraft
<1>3. j.view \in Views /\ OpenJobOK(j)
  BY <1>1, <1>2, Fields DEF ItemsOK, ItemOK
<1>4. CASE ~Same(j)
  BY <1>2, <1>4, WorkAbandonsStep DEF WorkReadDraft
<1>5. CASE Same(j)
  <2>1. UNCHANGED <<docs, pending, written, draft, live, runtime, panels, crossed, spent>>
    BY <1>5 DEF WorkReadDraft
  <2>2. Closings /\ SessionKept
    BY <1>1, <2>1, Versions DEF Closings, SessionKept, Latest
  <2>3. DraftOK'
    BY <1>1, <2>1 DEF DraftOK, Latest
  <2>4. \A v \in Views : pending'[v] # NoOwner => docs'[v] = docs[v] /\ Same(pending[v])'
    <3>1. ASSUME NEW v \in Views, pending[v] # NoOwner PROVE Same(pending[v])
      BY <1>1, <1>2, <1>5, <3>1 DEF PendingsOK, PendingOK, AtOK, Same
    <3> QED BY <2>1, <3>1 DEF Same
  <2>5. \A x \in Items :
          x \in Queue /\ x \in Queue' /\ x.kind = "open" => docs'[x.view] = docs[x.view]
    BY <2>1
  <2>6. \A x \in Queue : x.kind = "draft" => x \notin Calls
    BY <1>1, Queues, Fields
  <2>7. ASSUME NEW z \in Queue, Before(z, j)
        PROVE  z.kind \in {"open", "opened", "offer"} => z.view # j.view
    BY <1>1, <1>2, <2>7 DEF OrderOK, InOrder
  <2>8. ASSUME NEW z \in Queue, Before(j, z)
        PROVE  /\ z.kind = "open" => z.view # j.view
               /\ z.kind = "draft" /\ z.view # j.view => crossed
    BY <1>1, <1>2, <2>8 DEF OrderOK, InOrder
  <2>9. CASE draft = NoDraft
    <3>1. PICK y \in Calls : y = [kind |-> "opened", view |-> j.view]
      BY <1>3 DEF Calls
    <3>2. jobs' = Tail(jobs) /\ callbacks' = Append(callbacks, y) /\ at' = "start"
      BY <1>5, <2>9, <3>1 DEF WorkReadDraft, Post
    <3>3. Typed'
      <4>1. jobs' \in Seq(Jobs) /\ callbacks' \in Seq(Calls)
        BY <1>1, <3>2, Appended, Tailed DEF Typed
      <4> QED BY <1>1, <2>1, <3>2, <4>1 DEF Typed
    <3>4. /\ Queue' \subseteq Queue \cup {y}
          /\ \A z \in Queue : z \in Queue' \/ z = Head(jobs)
          /\ \A a, b : Before(a, b)' =>
               \/ Before(a, b)
               \/ a \in Queue /\ Before(a, Head(jobs)) /\ b = y
               \/ b \in Queue /\ Before(Head(jobs), b) /\ a = y
          /\ \A z \in Queue' : z \in Calls \/ Before(Head(jobs), z)
      BY <1>1, <3>2, QueueAnswered
    <3>5. ItemOK(y)' /\ y.kind # "draft"
      BY <1>3, <2>1, <3>1 DEF ItemOK, OpenJobOK
    <3>6. \A a : InOrder(a, y)'
      BY <3>1 DEF InOrder, IsDraft, IsSave
    <3>7. \A b \in Queue : Before(j, b) => InOrder(y, b)'
      BY <2>8, <3>1 DEF InOrder, IsDraft, IsSave
    <3>8. AtOK'
      BY <3>2 DEF AtOK
    <3>9. \A z \in Queue : z.kind = "open" =>
            z \in Queue' \/ \A x \in Queue' : x.kind = "draft" => Before(z, x)
      BY <2>6, <3>4, <3>5
    <3>10. \A a, b \in Queue' : Before(a, b)' => Before(a, b) \/ InOrder(a, b)'
      BY <3>4, <3>6, <3>7
    <3> QED BY <2>2, <2>3, <2>4, <2>5, <3>3, <3>4, <3>5, <3>8, <3>9, <3>10, ClosingStep
  <2>10. CASE draft # NoDraft
    <3>1. j \in [kind : {"open"}, view : Views, found : Drafts, client : Clients, gen : Nat]
      BY <1>2 DEF Jobs
    <3>2. PICK x \in [kind : {"open"}, view : Views, found : Drafts, client : Clients, gen : Nat] :
            x = [j EXCEPT !.found = draft]
      BY <1>1, <3>1 DEF Typed
    <3>3. /\ x.kind = "open" /\ x.view = j.view /\ x.found = draft
          /\ x.client = j.client /\ x.gen = j.gen /\ x \in Jobs
      BY <3>1, <3>2 DEF Jobs
    <3>4. jobs' = <<x>> \o Tail(jobs) /\ callbacks' = callbacks /\ at' = "found"
      BY <1>5, <2>10, <3>2 DEF WorkReadDraft
    <3>5. Typed'
      <4>1. jobs' \in Seq(Jobs)
        BY <1>1, <3>3, <3>4, Replaced DEF Typed
      <4> QED BY <1>1, <2>1, <3>4, <4>1 DEF Typed
    <3>6. /\ Queue' \subseteq Queue \cup {x}
          /\ x \in Queue' /\ Head(jobs') = x /\ jobs' # <<>>
          /\ \A z \in Queue : z \in Queue' \/ z = Head(jobs)
          /\ \A a, b : Before(a, b)' =>
               \/ Before(a, b)
               \/ a \in Queue /\ Before(a, Head(jobs)) /\ b = x
               \/ b \in Queue /\ Before(Head(jobs), b) /\ a = x
          /\ \A z \in Queue' : z = x \/ z \in Calls \/ Before(Head(jobs), z)
      BY <1>1, <3>3, <3>4, QueueReplaced
    <3>7. ItemOK(x)' /\ x.kind # "draft"
      <4>1. Latest' = Latest
        BY <2>1 DEF Latest
      <4>2. OpenJobOK(x)'
        BY <1>1, <1>3, <2>1, <3>3, <4>1 DEF OpenJobOK, DraftOK
      <4> QED BY <3>3, <4>2 DEF ItemOK
    <3>8. \A a \in Queue : Before(a, j) => InOrder(a, x)'
      BY <2>7, <3>3 DEF InOrder, IsDraft, IsSave
    <3>9. \A b \in Queue : Before(j, b) => InOrder(x, b)'
      BY <2>1, <2>8, <3>3 DEF InOrder, IsDraft, IsSave
    <3>10. AtOK'
      BY <1>1, <2>1, <2>10, <3>3, <3>4, <3>6 DEF AtOK, DraftOK
    <3>11. \A z \in Queue : z.kind = "open" =>
             z \in Queue' \/ \A w \in Queue' : w.kind = "draft" => Before(z, w)
      BY <2>6, <3>3, <3>6
    <3>12. \A a, b \in Queue' : Before(a, b)' => Before(a, b) \/ InOrder(a, b)'
      BY <3>6, <3>8, <3>9
    <3> QED BY <2>2, <2>3, <2>4, <2>5, <3>5, <3>6, <3>7, <3>10, <3>11, <3>12, ClosingStep
  <2> QED BY <2>9, <2>10
<1> QED BY <1>4, <1>5
LEMMA WorkDecryptDraftStep ==
  ASSUME IInv, jobs # <<>>, NEW j, j = Head(jobs), WorkDecryptDraft(j)
  PROVE  IInv'
<1>1. /\ Typed /\ DocsOK /\ PendingsOK /\ PanelsOK /\ DraftOK /\ AtOK
      /\ ItemsOK /\ OrderOK /\ OneAlive /\ EarlierDrafts
  BY DEF IInv
<1>2. j \in Queue /\ j \in Jobs /\ j \in Items /\ j.kind = "open" /\ at = "found"
  BY <1>1, Queues DEF WorkDecryptDraft
<1>3. j.view \in Views /\ OpenJobOK(j) /\ j.found \in Drafts
  BY <1>1, <1>2, Fields DEF ItemsOK, ItemOK
<1>4. CASE ~(j.client \in live /\ pending[j.view] # NoOwner /\ Same(j))
  <2>1. WorkAbandons(j.view)
    BY <1>4 DEF WorkDecryptDraft
  <2>2. UNCHANGED <<written, draft, live, runtime, panels, crossed, spent>>
    BY DEF WorkDecryptDraft
  <2> QED BY <1>2, <2>1, <2>2, WorkAbandonsStep
<1>5. CASE j.client \in live /\ pending[j.view] # NoOwner /\ Same(j)
  <2>1. /\ UNCHANGED <<docs, written, draft, live, runtime, panels, crossed, spent>>
        /\ at' = "start" /\ jobs' = Tail(jobs)
    BY <1>5 DEF WorkDecryptDraft
  <2>2. PICK o \in Owners : o = [pending[j.view] EXCEPT !.found = j.found]
    <3>1. pending[j.view] \in Owners
      BY <1>1, <1>3 DEF Typed
    <3> QED BY <1>3, <3>1 DEF Owners
  <2>3. /\ o.found = j.found /\ o.client = pending[j.view].client
        /\ o.gen = pending[j.view].gen /\ o.etag = pending[j.view].etag
        /\ o.text = pending[j.view].text
    BY <1>1, <1>3, <2>2 DEF Typed, Owners
  <2>4. pending' = [pending EXCEPT ![j.view] = o]
    BY <1>5, <2>2 DEF WorkDecryptDraft
  <2>5. /\ pending' \in [Views -> Owners] /\ pending'[j.view] = o
        /\ \A w \in Views : w # j.view => pending'[w] = pending[w]
    BY <1>1, <1>3, <2>4 DEF Typed
  <2>6. PICK y \in Calls : y = [kind |-> "offer", view |-> j.view]
    BY <1>3 DEF Calls
  <2>7. callbacks' = Append(callbacks, y)
    BY <1>5, <2>6 DEF WorkDecryptDraft, Post
  <2>8. Typed'
    <3>1. jobs' \in Seq(Jobs) /\ callbacks' \in Seq(Calls)
      BY <1>1, <2>1, <2>7, Appended, Tailed DEF Typed
    <3> QED BY <1>1, <2>1, <2>5, <3>1 DEF Typed
  <2>9. DocsOK' /\ DraftOK' /\ OneAlive' /\ \A w \in Views : Alive(w)' => Alive(w)
    BY <2>1, <2>8, WaitingState
  <2>10. PendingsOK'
    <3> SUFFICES ASSUME NEW w \in Views, pending'[w] # NoOwner PROVE PendingOK(w)'
      BY DEF PendingsOK, PendingOK
    <3>1. pending[w] # NoOwner
      BY <1>5, <2>5
    <3>2. PendingOK(w) /\ Same(pending[w])
      BY <1>1, <1>2, <3>1 DEF PendingsOK, PendingOK
    <3>3. Latest' = Latest
      BY <2>1 DEF Latest
    <3>4. CASE w = j.view
      <4>1. j.found.base = j.found.seen /\ j.found.base <= Latest
        BY <1>3 DEF OpenJobOK
      <4> QED BY <2>1, <2>3, <2>5, <3>1, <3>2, <3>3, <3>4, <4>1 DEF PendingOK, Same
    <3>5. CASE w # j.view
      BY <2>1, <2>5, <3>2, <3>3, <3>5 DEF PendingOK, Same
    <3> QED BY <3>4, <3>5
  <2>11. Offered(j.view)'
    <3>1. j.found.text \in Texts /\ (~crossed => j.found = draft)
      BY <1>1, <1>2 DEF AtOK
    <3> QED BY <2>1, <2>3, <2>5, <3>1 DEF Offered
  <2>12. PanelsOK'
    <3> SUFFICES ASSUME NEW p \in panels PROVE PanelOK(p)'
      BY <2>1 DEF PanelsOK
    <3>1. PanelOK(p) /\ p.view \in Views /\ (p.asks = "recovery" => p.view # j.view)
      BY <1>1, <1>3 DEF PanelsOK, Typed, OpenJobOK
    <3> QED BY <2>1, <2>5, <3>1 DEF PanelOK, Offered
  <2>13. AtOK'
    BY <2>1 DEF AtOK
  <2>14. Stable /\ OrderKept
    <3>1. UNCHANGED <<written, docs, draft, panels, crossed>>
      BY <2>1
    <3> QED BY <1>1, <1>3, <2>5, <2>11, <3>1, WaitingItems
  <2>15. /\ Queue' \subseteq Queue \cup {y}
         /\ \A z \in Queue : z \in Queue' \/ z = Head(jobs)
         /\ \A a, b : Before(a, b)' =>
              \/ Before(a, b)
              \/ a \in Queue /\ Before(a, Head(jobs)) /\ b = y
              \/ b \in Queue /\ Before(Head(jobs), b) /\ a = y
         /\ \A z \in Queue' : z \in Calls \/ Before(Head(jobs), z)
    BY <1>1, <2>1, <2>7, QueueAnswered
  <2>16. ItemsOK'
    <3>1. docs'[y.view].is # "new" /\ Offered(y.view)'
      BY <1>3, <2>1, <2>6, <2>11 DEF OpenJobOK
    <3>2. ItemOK(y)'
      BY <2>6, <3>1 DEF ItemOK
    <3> QED BY <2>8, <2>14, <2>15, <3>2, ItemsStep
  <2>17. OrderOK'
    <3>1. \A a : InOrder(a, y)'
      BY <2>6 DEF InOrder, IsDraft, IsSave
    <3>2. ASSUME NEW b \in Queue, Before(j, b) PROVE InOrder(y, b)'
      <4>1. b.kind = "open" => b.view # j.view
        BY <1>1, <1>2, <3>2 DEF OrderOK, InOrder
      <4> QED BY <2>6, <4>1 DEF InOrder, IsDraft, IsSave
    <3> QED BY <1>1, <2>14, <2>15, <3>1, <3>2, OrderStep
  <2>18. EarlierDrafts'
    <3>1. \A x \in Queue' : x.kind = "draft" => x \in Queue /\ x \notin Calls
      BY <1>1, <2>6, <2>15, Queues, Fields
    <3>2. \A z \in Queue : z.kind = "open" =>
            z \in Queue' \/ \A x \in Queue' : x.kind = "draft" => Before(z, x)
      BY <2>15, <3>1
    <3> QED BY <1>1, <2>1, <2>9, <3>1, <3>2, EarlierStays
  <2> QED BY <2>8, <2>9, <2>10, <2>12, <2>13, <2>16, <2>17, <2>18 DEF IInv
<1> QED BY <1>4, <1>5

\* What waited is shown: the view opens with its text, or with the draft.
Shown(v, d) ==
  /\ docs' = [docs EXCEPT ![v] = d] /\ pending' = [pending EXCEPT ![v] = NoOwner]
  /\ draft' \in {draft, NoDraft} /\ panels' \subseteq panels
  /\ UNCHANGED <<written, live, runtime, jobs, at, crossed, spent>>

LEMMA ShownStep ==
  ASSUME IInv, NEW v \in Views, NEW d \in Document, Shown(v, d),
         pending[v] # NoOwner, d.is = "open", DocOK(v)',
         callbacks' = callbacks \/ (callbacks # <<>> /\ callbacks' = Tail(callbacks)),
         \A x \in Queue : x \in Queue' /\ x.kind = "open" => x.view # v
  PROVE  IInv'
<1>1. /\ Typed /\ DocsOK /\ PendingsOK /\ PanelsOK /\ DraftOK /\ AtOK
      /\ ItemsOK /\ OrderOK /\ OneAlive /\ EarlierDrafts
  BY DEF IInv
<1>2. docs[v].is = "opening"
  BY <1>1 DEF PendingsOK, PendingOK
<1>3. /\ docs' \in [Views -> Document] /\ docs'[v] = d
      /\ \A w \in Views : w # v => docs'[w] = docs[w]
  BY <1>1 DEF Shown, Typed
<1>4. /\ pending' \in [Views -> Owners] /\ pending'[v] = NoOwner
      /\ \A w \in Views : w # v => pending'[w] = pending[w]
  BY <1>1, Defaults DEF Shown, Typed
<1>5. callbacks' \in Seq(Calls) /\ jobs' = jobs /\ jobs \in Seq(Jobs)
  <2>1. callbacks \in Seq(Calls) /\ jobs \in Seq(Jobs)
    BY <1>1 DEF Typed
  <2> QED BY <2>1, Tailed DEF Shown
<1>6. Typed'
  BY <1>1, <1>3, <1>4, <1>5, Defaults DEF Typed, Shown
<1>7. /\ Queue' \subseteq Queue
      /\ \A a, b : Before(a, b)' => Before(a, b)
      /\ \A z \in Queue : z.kind = "open" => z \in Queue'
  <2>1. CASE callbacks' = callbacks
    BY <1>5, <2>1 DEF Queue, Before
  <2>2. CASE callbacks # <<>> /\ callbacks' = Tail(callbacks)
    BY <1>1, <1>5, <2>2, QueueCalled, Queues, Fields
  <2> QED BY <2>1, <2>2
<1>8. \A w \in Views : w # v /\ ~crossed => ~Alive(w)
  BY <1>1, <1>2 DEF OneAlive, Alive
<1>9. \A w \in Views : Alive(w)' <=> Alive(w)
  BY <1>2, <1>3 DEF Alive
<1>10. DraftOK'
  BY <1>1 DEF DraftOK, Shown, NoDraft, Latest, Typed
<1>11. DocsOK'
  <2> SUFFICES ASSUME NEW w \in Views PROVE DocOK(w)' /\ FreshOK(w)'
    BY DEF DocsOK
  <2>1. FreshOK(w)'
    <3>1. docs'[w].is = "new" <=> docs[w].is = "new"
      BY <1>2, <1>3
    <3>2. FreshOK(w)
      BY <1>1 DEF DocsOK
    <3> QED BY <3>1, <3>2 DEF FreshOK, Shown
  <2>2. CASE w # v
    <3>1. docs'[w] = docs[w] /\ DocOK(w) /\ Latest' = Latest
      BY <1>1, <1>3, <2>2 DEF DocsOK, Latest, Shown
    <3>2. Open(w) => crossed
      BY <1>8, <2>2 DEF Alive, Open
    <3> QED BY <2>1, <3>1, <3>2 DEF DocOK, Open, Shown
  <2> QED BY <2>1, <2>2
<1>12. PendingsOK'
  <2> SUFFICES ASSUME NEW w \in Views, pending'[w] # NoOwner PROVE PendingOK(w)'
    BY DEF PendingsOK, PendingOK
  <2>1. w # v /\ pending'[w] = pending[w] /\ docs'[w] = docs[w] /\ PendingOK(w)
    BY <1>1, <1>3, <1>4 DEF PendingsOK
  <2> QED BY <2>1 DEF PendingOK, Shown, Same, Latest
<1>13. ASSUME NEW w \in Views, Offered(w)
       PROVE  Offered(w)'
  <2> SUFFICES ASSUME pending'[w] # NoOwner
               PROVE  /\ pending'[w].found.text \in Texts
                      /\ ~crossed => pending'[w].found = draft'
    BY DEF Offered, Shown
  <2>1. w # v /\ pending'[w] = pending[w]
    BY <1>4
  <2>2. Alive(w)
    BY <1>1, <2>1 DEF PendingsOK, PendingOK, Alive
  <2> QED BY <1>8, <1>13, <2>1, <2>2 DEF Offered
<1>14. PanelsOK'
  <2> SUFFICES ASSUME NEW p \in panels PROVE PanelOK(p)'
    BY DEF PanelsOK, Shown
  <2>1. PanelOK(p) /\ p.view \in Views
    BY <1>1 DEF PanelsOK, Typed
  <2> QED BY <1>2, <1>3, <1>13, <2>1 DEF PanelOK
<1>15. AtOK'
  <2>1. CASE at = "start"
    BY <2>1 DEF AtOK, Shown
  <2>2. CASE at = "locked"
    BY <1>1, <1>5, <2>2 DEF AtOK, Shown
  <2>3. CASE at \in {"opened", "found"}
    <3>1. PICK h \in Items : h = Head(jobs) /\ h \in Queue /\ h.kind = "open" /\ jobs # <<>>
      BY <1>1, <2>3, Queues DEF AtOK
    <3>2. h \in Queue' /\ h.view # v /\ h.view \in Views
      BY <1>7, <3>1, Fields
    <3>3. Alive(h.view)
      BY <1>1, <3>1 DEF ItemsOK, ItemOK, OpenJobOK, Alive
    <3>4. crossed /\ pending'[h.view] = pending[h.view]
      BY <1>4, <1>8, <3>2, <3>3
    <3> QED BY <1>1, <1>5, <2>3, <3>1, <3>4 DEF AtOK, Shown
  <2> QED BY <1>1, <2>1, <2>2, <2>3 DEF Typed
<1>16. ASSUME NEW x \in Items, x \in Queue, x \in Queue'
       PROVE  ItemOK(x)'
  <2>1. CASE Trivial(x)
    BY <2>1, TriviallyAfter
  <2>2. CASE ~Trivial(x)
    <3>1. x.view \in Views /\ ItemOK(x) /\ Latest' = Latest
      BY <1>1, <1>16, <2>2, UsedViews DEF ItemsOK, Latest, Shown
    <3>2. CASE x.view = v
      <4>1. x.kind \in {"opened", "offer"}
        <5>1. x.kind # "open"
          BY <1>16, <3>2
        <5>2. x.kind \notin {"draft", "drafted", "save", "saved", "draftFailed"}
          BY <1>2, <3>1, <3>2 DEF ItemOK, DraftJobOK, SaveJobOK, DraftedOK, SavedOK
        <5> QED BY <2>2, <5>1, <5>2 DEF Trivial, Items, Jobs, Calls
      <4> QED BY <1>3, <1>13, <3>1, <3>2, <4>1 DEF ItemOK
    <3>3. CASE x.view # v
      <4>1. docs'[x.view] = docs[x.view]
        BY <1>3, <3>1, <3>3
      <4>2. Open(x.view) => crossed
        BY <1>8, <3>1, <3>3 DEF Alive, Open
      <4>3. UNCHANGED <<written, crossed>> /\ panels' \subseteq panels
        BY DEF Shown
      <4>4. OpenJobOK(x) => OpenJobOK(x)'
        BY <3>1, <4>1, <4>3 DEF OpenJobOK
      <4>5. DraftJobOK(x) => DraftJobOK(x)'
        BY <3>1, <4>1, <4>3 DEF DraftJobOK, DraftOnItsWay, Open
      <4>6. SaveJobOK(x) => SaveJobOK(x)'
        BY <3>1, <4>1, <4>3 DEF SaveJobOK, SaveOnItsWay, Open
      <4>7. DraftedOK(x) => DraftedOK(x)'
        BY <3>1, <4>1, <4>2, <4>3 DEF DraftedOK, DraftOnItsWay, Open
      <4>8. SavedOK(x) => SavedOK(x)'
        BY <3>1, <4>1, <4>3 DEF SavedOK, SaveOnItsWay, Open
      <4> QED BY <1>13, <3>1, <4>1, <4>4, <4>5, <4>6, <4>7, <4>8 DEF ItemOK
    <3> QED BY <3>2, <3>3
  <2> QED BY <2>1, <2>2
<1>17. ItemsOK'
  BY <1>6, <1>7, <1>16, ItemsStep DEF Stable
<1>18. OrderOK'
  <2>1. ASSUME NEW x \in Items, x \in Queue, IsDraft(x) \/ IsSave(x), Open(x.view)'
        PROVE  Open(x.view)
    <3>1. x.view \in Views /\ ItemOK(x)
      BY <1>1, <2>1, Fields DEF ItemsOK
    <3>2. docs[x.view].is \in {"open", "closed"}
      BY <2>1, <3>1
         DEF ItemOK, IsDraft, IsSave, DraftJobOK, SaveJobOK, DraftedOK, SavedOK
    <3> QED BY <1>2, <1>3, <2>1, <3>1, <3>2 DEF Open
  <2>2. OrderKept
    BY <2>1, OrderStays DEF Shown
  <2> QED BY <1>1, <1>7, <2>2, OrderStep
<1>19. OneAlive'
  BY <1>1, <1>9 DEF OneAlive, Shown
<1>20. EarlierDrafts'
  BY <1>1, <1>7, <1>9, EarlierStays DEF Shown
<1> QED BY <1>6, <1>10, <1>11, <1>12, <1>14, <1>15, <1>17, <1>18, <1>19, <1>20 DEF IInv
\* The documents that finish_open registers are sound.
LEMMA Registered ==
  ASSUME IInv, NEW v \in Views, pending[v] # NoOwner, Same(pending[v]),
         runtime.client \in live, NEW d, Shown(v, d),
         \/ d = NewDocument(pending[v])
         \/ d = Recovered(pending[v]) /\ Offered(v) /\ draft' = draft
  PROVE  d \in Document /\ d.is = "open" /\ DocOK(v)'
<1>1. Typed /\ PendingOK(v)
  BY DEF IInv, PendingsOK
<1>2. PICK o \in Owners : o = pending[v]
  BY <1>1 DEF Typed
<1>3. /\ o.text \in Texts \cup {-1} /\ o.etag \in Nat /\ o.gen \in Nat
      /\ o.found.text \in Texts \cup {-1} /\ o.found.base \in Nat /\ o.found.seen \in Nat
  BY DEF Owners, Drafts
<1>4. /\ o.client # 0 /\ o.client = runtime.client /\ o.gen = runtime.generation
      /\ o.etag \in 1 .. Latest /\ o.text = written[o.etag]
      /\ o.found.base = o.found.seen /\ o.found.base <= Latest
  BY <1>1, <1>2 DEF PendingOK, Same
<1>5. o.text \in Texts /\ Latest \in Nat
  BY <1>1, <1>4, Versions
<1>6. /\ docs'[v] = d /\ Latest' = Latest
      /\ UNCHANGED <<written, runtime, crossed>>
  BY <1>1 DEF Shown, Typed, Latest
<1>7. CASE d = NewDocument(o)
  <2>1. /\ d \in Document /\ d.is = "open" /\ d.text = o.text /\ d.etag = o.etag
        /\ d.base = o.etag /\ d.seen = o.etag /\ d.drafted = -1 /\ d.version = 0
        /\ d.saved = 0 /\ d.gen = o.gen
    BY <1>3, <1>7 DEF NewDocument, NoView, Document
  <2>2. DocOK(v)'
    BY <1>3, <1>4, <1>5, <1>6, <2>1 DEF DocOK, Open, Dirty
  <2> QED BY <2>1, <2>2
<1>8. CASE d = Recovered(o) /\ Offered(v) /\ draft' = draft
  <2>1. PICK n \in Document : n = NewDocument(o)
    BY <1>3 DEF NewDocument, NoView, Document
  <2>2. /\ n.is = "open" /\ n.etag = o.etag /\ n.saved = 0 /\ n.gen = o.gen
    BY <2>1 DEF NewDocument, NoView
  <2> PICK b \in BOOLEAN : b = (o.found.base # o.etag)
    OBVIOUS
  <2>3. d = [n EXCEPT !.text = o.found.text, !.base = o.found.base,
                      !.version = 1, !.drafted = 1, !.confirm = b, !.seen = o.found.seen]
    BY <1>8, <2>1 DEF Recovered
  <2>4. d \in Document
    BY <1>3, <2>3 DEF Document
  <2>5. /\ d.text = o.found.text /\ d.base = o.found.base /\ d.seen = o.found.seen
        /\ d.version = 1 /\ d.drafted = 1 /\ d.confirm = b
    BY <2>3 DEF Document
  <2>6. d.is = "open" /\ d.etag = o.etag /\ d.saved = 0 /\ d.gen = o.gen
    BY <2>2, <2>3 DEF Document
  <2>7. o.found.text \in Texts /\ (~crossed => o.found = draft) /\ draft' = draft
    BY <1>2, <1>8 DEF Offered
  <2>8. DocOK(v)'
    <3>1. d.saved <= d.version /\ d.drafted <= d.version /\ d.base <= Latest /\ Dirty(d)
      BY <1>4, <2>5, <2>6 DEF Dirty
    <3>2. ~d.confirm => d.base = d.etag
      BY <2>5, <2>6
    <3>3. ~crossed => draft'.text = d.text
      BY <2>5, <2>7
    <3> QED BY <1>4, <1>5, <1>6, <2>5, <2>6, <2>7, <3>1, <3>2, <3>3 DEF DocOK, Open
  <2> QED BY <2>4, <2>6, <2>8
<1> QED BY <1>2, <1>7, <1>8

LEMMA FinishPendingOpenStep ==
  ASSUME IInv, callbacks # <<>>, NEW c, c = Head(callbacks), FinishPendingOpen(c)
  PROVE  IInv'
<1>1. /\ Typed /\ c \in Queue /\ c \in Items /\ c.kind = "opened" /\ c.view \in Views
      /\ callbacks' = Tail(callbacks) /\ jobs' = jobs
  BY Queues, Fields DEF IInv, FinishPendingOpen
<1> DEFINE v == c.view
           d == NewDocument(pending[v])
<1>2. CASE ~(pending[v] # NoOwner /\ Same(pending[v]) /\ runtime.client \in live)
  <2>1. Abandon(v)
    BY <1>2 DEF FinishPendingOpen, FinishOpen
  <2>2. UNCHANGED <<written, draft, live, runtime, panels, jobs, at, crossed, spent>>
    BY DEF FinishPendingOpen
  <2> QED BY <1>1, <2>1, <2>2, CallAbandonsStep
<1>3. CASE pending[v] # NoOwner /\ Same(pending[v]) /\ runtime.client \in live
  <2>1. Shown(v, d) /\ draft' = draft
    BY <1>3 DEF FinishPendingOpen, FinishOpen, Shown
  <2>2. ASSUME NEW x \in Queue, x \in Queue', x.kind = "open"
        PROVE  x.view # v
    <3>1. Before(c, x)
      BY <1>1, <2>2, QueueCalled
    <3> QED BY <1>1, <2>2, <3>1 DEF IInv, OrderOK, InOrder
  <2>3. PICK e : e = d
    OBVIOUS
  <2>4. Shown(v, e) /\ e = NewDocument(pending[v])
    BY <2>1, <2>3
  <2>5. e \in Document /\ e.is = "open" /\ DocOK(v)'
    BY <1>1, <1>3, <2>4, Registered
  <2> QED BY <1>1, <1>3, <2>2, <2>4, <2>5, ShownStep
<1> QED BY <1>2, <1>3

LEMMA OfferRecoveryStep ==
  ASSUME IInv, callbacks # <<>>, NEW c, c = Head(callbacks), OfferRecovery(c)
  PROVE  IInv'
<1>1. /\ Typed /\ PendingsOK /\ DraftOK /\ AtOK
      /\ c \in Queue /\ c \in Items /\ c.kind = "offer" /\ c.view \in Views
      /\ callbacks' = Tail(callbacks) /\ jobs' = jobs
  BY Queues, Fields DEF IInv, OfferRecovery
<1> DEFINE v == c.view
<1>2. CASE ~(pending[v] # NoOwner /\ Same(pending[v]) /\ runtime.client \in live)
  <2>1. Abandon(v)
    BY <1>2 DEF OfferRecovery
  <2>2. UNCHANGED <<written, draft, live, runtime, panels, jobs, at, crossed, spent>>
    BY <1>2 DEF OfferRecovery
  <2> QED BY <1>1, <2>1, <2>2, CallAbandonsStep
<1>3. CASE pending[v] # NoOwner /\ Same(pending[v]) /\ runtime.client \in live
  <2>1. /\ UNCHANGED <<written, draft, live, runtime, docs, pending, at, crossed, spent>>
        /\ panels' = panels \cup {[asks |-> "recovery", view |-> v]}
    BY <1>3 DEF OfferRecovery
  <2>2. Typed'
    <3>1. callbacks' \in Seq(Calls)
      BY <1>1, Tailed DEF Typed
    <3>2. panels' \subseteq [asks : {"recovery", "overwrite"}, view : Views]
      BY <1>1, <2>1 DEF Typed
    <3> QED BY <1>1, <2>1, <3>1, <3>2 DEF Typed
  <2>3. /\ Queue' \subseteq Queue
        /\ \A z \in Queue : z \in Queue' \/ z = Head(callbacks)
        /\ \A a, b : Before(a, b)' => Before(a, b)
        /\ \A z \in Queue' : Before(Head(callbacks), z)
    BY <1>1, QueueCalled
  <2>4. ASSUME NEW x \in Queue, x \in Queue', x.kind = "open"
        PROVE  x.view # v
    BY <1>1, <2>3, <2>4 DEF IInv, OrderOK, InOrder
  <2>5. ASSUME NEW p \in panels', p \notin panels
        PROVE  PanelOK(p) /\ p.view = v
    <3>1. p.asks = "recovery" /\ p.view = v
      BY <2>1, <2>5
    <3>2. ItemOK(c)
      BY <1>1 DEF IInv, ItemsOK
    <3> QED BY <1>1, <3>1, <3>2 DEF PanelOK, ItemOK
  <2>6. Closings
    <3>1. Latest <= Latest' /\ \A e \in 1 .. Latest : written'[e] = written[e]
      BY <1>1, <2>1, Versions DEF Latest
    <3> QED BY <2>1, <2>4, <2>5, <3>1 DEF Closings
  <2>7. DraftOK' /\ SessionKept
    BY <1>1, <2>1 DEF DraftOK, SessionKept, Latest
  <2>8. \A w \in Views : pending'[w] # NoOwner =>
          /\ docs'[w] = docs[w]
          /\ Same(pending[w])' \/ (at' = "opened" /\ Head(jobs').view = w)
    BY <1>1, <2>1 DEF PendingsOK, PendingOK, Same
  <2>9. at' = at /\ (at # "start" => jobs' # <<>> /\ Head(jobs') = Head(jobs))
    BY <1>1, <2>1 DEF AtOK
  <2>10. \A z \in Queue : z.kind = "open" => z \in Queue'
    BY <1>1, <2>3
  <2>11. \A x \in Items :
           x \in Queue /\ x \in Queue' /\ x.kind = "open" => docs'[x.view] = docs[x.view]
    BY <2>1
  <2> QED BY <2>2, <2>3, <2>6, <2>7, <2>8, <2>9, <2>10, <2>11, ClosingStep
<1> QED BY <1>2, <1>3
LEMMA ChooseRecoveryStep ==
  ASSUME IInv, NEW p \in panels, ChooseRecovery(p)
  PROVE  IInv'
<1>1. /\ Typed /\ PendingsOK /\ AtOK /\ ItemsOK /\ PanelOK(p) /\ p.asks = "recovery"
      /\ p.view \in Views /\ docs[p.view].is # "new"
  BY DEF IInv, PanelsOK, PanelOK, Typed, ChooseRecovery
<1>2. panels' = panels \ {p} /\ UNCHANGED <<written, live, runtime, jobs, at,
                                            callbacks, crossed, spent>>
  BY DEF ChooseRecovery
<1> DEFINE v == p.view
           usable == Same(pending[v]) /\ runtime.client \in live
<1>3. ASSUME NEW x \in Queue, x.kind = "open"
      PROVE  x.view # v /\ x.view \in Views
  <2>1. OpenJobOK(x) /\ x \in Items
    BY <1>1, <1>3, Queues DEF ItemsOK, ItemOK
  <2> QED BY <1>1, <1>3, <2>1, Fields DEF OpenJobOK
<1>4. usable => pending[v] # NoOwner
  <2>1. 0 \notin live
    BY <1>1 DEF Typed
  <2> QED BY <2>1 DEF Same, NoOwner
<1>5. CASE Abandon(v) /\ draft' = draft
  <2>1. /\ Closings /\ DraftOK' /\ SessionKept
        /\ docs' \in [Views -> Document] /\ pending' \in [Views -> Owners]
        /\ \A w \in Views : w # v => docs'[w] = docs[w] /\ pending'[w] = pending[w]
        /\ pending'[v] = NoOwner
    BY <1>1, <1>2, <1>5, Abandoning
  <2>2. Typed'
    BY <1>1, <1>2, <1>5, <2>1 DEF Typed
  <2>3. Queue' = Queue /\ \A a, b : Before(a, b)' => Before(a, b)
    BY <1>2 DEF Queue, Before
  <2>4. \A x \in Items :
          x \in Queue /\ x \in Queue' /\ x.kind = "open" => docs'[x.view] = docs[x.view]
    BY <1>3, <2>1
  <2>5. \A w \in Views : pending'[w] # NoOwner =>
          /\ docs'[w] = docs[w]
          /\ Same(pending[w])' \/ (at' = "opened" /\ Head(jobs').view = w)
    BY <1>1, <1>2, <2>1 DEF PendingsOK, PendingOK, Same
  <2>6. at' = at /\ (at # "start" => jobs' # <<>> /\ Head(jobs') = Head(jobs))
    BY <1>1, <1>2 DEF AtOK
  <2> QED BY <2>1, <2>2, <2>3, <2>4, <2>5, <2>6, ClosingStep
<1>6. ASSUME usable, NEW d, Shown(v, d), callbacks' = callbacks,
             \/ d = NewDocument(pending[v])
             \/ d = Recovered(pending[v]) /\ draft' = draft
      PROVE  IInv'
  <2>1. Offered(v)
    BY <1>1 DEF PanelOK
  <2>2. d \in Document /\ d.is = "open" /\ DocOK(v)'
    BY <1>1, <1>4, <1>6, <2>1, Registered
  <2>3. \A x \in Queue : x \in Queue' /\ x.kind = "open" => x.view # v
    BY <1>3
  <2> QED BY <1>1, <1>4, <1>6, <2>2, <2>3, ShownStep
<1>7. CASE FinishOpen(v, Recovered(pending[v])) /\ draft' = draft
  <2>1. CASE usable
    <3>1. PICK d : d = Recovered(pending[v])
      OBVIOUS
    <3>2. Shown(v, d)
      BY <1>2, <1>4, <1>7, <2>1, <3>1 DEF FinishOpen, Shown
    <3> QED BY <1>2, <1>6, <1>7, <2>1, <3>1, <3>2
  <2>2. CASE ~usable
    BY <1>5, <1>7, <2>2 DEF FinishOpen
  <2> QED BY <2>1, <2>2
<1>8. CASE /\ FinishOpen(v, NewDocument(pending[v]))
           /\ draft' = IF usable THEN NoDraft ELSE draft
  <2>1. CASE usable
    <3>1. PICK d : d = NewDocument(pending[v])
      OBVIOUS
    <3>2. Shown(v, d)
      BY <1>2, <1>4, <1>8, <2>1, <3>1 DEF FinishOpen, Shown
    <3> QED BY <1>2, <1>6, <2>1, <3>1, <3>2
  <2>2. CASE ~usable
    BY <1>5, <1>8, <2>2 DEF FinishOpen
  <2> QED BY <2>1, <2>2
<1> QED BY <1>5, <1>7, <1>8 DEF ChooseRecovery

-----------------------------------------------------------------------------
(* Typing, drafts and saves: one open view changes in place.               *)

Changed(v, d) ==
  /\ docs' = [docs EXCEPT ![v] = d]
  /\ UNCHANGED <<written, live, runtime, pending, panels, at>>
  /\ spent'.views = spent.views
  /\ crossed => crossed'

LEMMA ChangedState ==
  ASSUME IInv, Typed', NEW v \in Views, Open(v), NEW d \in Document, Changed(v, d),
         d.is = "open", DocOK(v)'
  PROVE  /\ docs'[v] = d /\ \A w \in Views : w # v => docs'[w] = docs[w]
         /\ \A w \in Views : w # v /\ ~crossed => ~Alive(w)
         /\ DocsOK' /\ OneAlive'
         /\ \A w \in Views : Alive(w)' => Alive(w)
<1>1. Typed /\ DocsOK /\ OneAlive
  BY DEF IInv
<1>2. docs'[v] = d /\ \A w \in Views : w # v => docs'[w] = docs[w]
  BY <1>1 DEF Changed, Typed
<1>3. \A w \in Views : w # v /\ ~crossed => ~Alive(w)
  BY <1>1 DEF OneAlive, Alive, Open
<1>4. \A w \in Views : Alive(w)' <=> Alive(w)
  BY <1>2 DEF Alive, Open
<1>5. DocsOK'
  <2> SUFFICES ASSUME NEW w \in Views PROVE DocOK(w)' /\ FreshOK(w)'
    BY DEF DocsOK
  <2>1. FreshOK(w)'
    <3>1. docs'[w].is = docs[w].is /\ FreshOK(w)
      BY <1>1, <1>2 DEF Open, DocsOK
    <3> QED BY <3>1 DEF FreshOK, Changed
  <2>2. CASE w # v
    <3>1. docs'[w] = docs[w] /\ DocOK(w) /\ Latest' = Latest
      BY <1>1, <1>2, <2>2 DEF DocsOK, Latest, Changed
    <3>2. Open(w) => crossed'
      BY <1>3, <2>2 DEF Alive, Open, Changed
    <3> QED BY <2>1, <3>1, <3>2 DEF DocOK, Open, Changed
  <2> QED BY <2>1, <2>2
<1>6. OneAlive'
  BY <1>1, <1>4 DEF OneAlive, Changed
<1> QED BY <1>2, <1>3, <1>4, <1>5, <1>6

\* The panels and what waits are of other views; of these one is alive only
\* after drafts crossed.
LEMMA ChangedWaiting ==
  ASSUME IInv, Typed', NEW v \in Views, Open(v), NEW d \in Document, Changed(v, d),
         d.is = "open",
         at # "start" => jobs' # <<>> /\ Head(jobs') = Head(jobs)
  PROVE  /\ \A w \in Views : Offered(w) => Offered(w)'
         /\ PendingsOK' /\ PanelsOK' /\ AtOK'
<1>1. Typed /\ DocsOK /\ OneAlive /\ PendingsOK /\ PanelsOK /\ AtOK /\ ItemsOK
  BY DEF IInv
<1>2. docs'[v] = d /\ \A w \in Views : w # v => docs'[w] = docs[w]
  BY <1>1 DEF Changed, Typed
<1>3. \A w \in Views : Alive(w) /\ w # v => crossed'
  BY <1>1 DEF OneAlive, Alive, Open, Changed
<1>4. \A w \in Views : pending[w] # NoOwner => w # v /\ crossed'
  BY <1>1, <1>3 DEF PendingsOK, PendingOK, Open, Alive
<1>5. \A w \in Views : Offered(w) => Offered(w)'
  BY <1>4 DEF Offered, Changed
<1>6. PendingsOK'
  <2> SUFFICES ASSUME NEW w \in Views, pending'[w] # NoOwner PROVE PendingOK(w)'
    BY DEF PendingsOK, PendingOK
  <2>1. w # v /\ pending'[w] = pending[w] /\ docs'[w] = docs[w] /\ PendingOK(w)
    BY <1>1, <1>2, <1>4 DEF PendingsOK, Changed
  <2>2. at = "opened" => Head(jobs') = Head(jobs)
    OBVIOUS
  <2> QED BY <2>1, <2>2 DEF PendingOK, Changed, Same, Latest
<1>7. PanelsOK'
  <2> SUFFICES ASSUME NEW p \in panels PROVE PanelOK(p)'
    BY DEF PanelsOK, Changed
  <2>1. PanelOK(p) /\ p.view \in Views
    BY <1>1 DEF PanelsOK, Typed
  <2>2. docs'[p.view].is = docs[p.view].is
    BY <1>2, <2>1 DEF Open
  <2> QED BY <1>5, <2>1, <2>2 DEF PanelOK
<1>8. AtOK'
  <2>1. at = "found" => crossed'
    <3> SUFFICES ASSUME at = "found" PROVE crossed'
      OBVIOUS
    <3>1. PICK h \in Items : h = Head(jobs) /\ h \in Queue /\ h.kind = "open"
      BY <1>1, Queues DEF AtOK
    <3>2. docs[h.view].is = "opening" /\ h.view \in Views
      BY <1>1, <3>1, Fields DEF ItemsOK, ItemOK, OpenJobOK
    <3> QED BY <1>3, <3>2 DEF Alive, Open
  <2> QED BY <1>1, <2>1 DEF AtOK, Changed
<1> QED BY <1>5, <1>6, <1>7, <1>8
\* The drafts and saves of view v on their way are sound for what it is now.
OnTheirWay(v) ==
  \A x \in Items :
    x \in Queue /\ x \in Queue' /\ (IsDraft(x) \/ IsSave(x)) /\ x.view = v => ItemOK(x)'

LEMMA ChangedItems ==
  ASSUME IInv, Typed', NEW v \in Views, Open(v), NEW d \in Document, Changed(v, d),
         d.is = "open", \A w \in Views : Offered(w) => Offered(w)', OnTheirWay(v)
  PROVE  Stable /\ OrderKept
<1>1. Typed /\ OneAlive /\ ItemsOK
  BY DEF IInv
<1>2. docs'[v] = d /\ \A w \in Views : w # v => docs'[w] = docs[w]
  BY <1>1 DEF Changed, Typed
<1>3. \A w \in Views : Alive(w) /\ w # v => crossed'
  BY <1>1 DEF OneAlive, Alive, Open, Changed
<1>4. ASSUME NEW x \in Items, x \in Queue, x \in Queue'
      PROVE  ItemOK(x)'
  <2>1. CASE Trivial(x)
    BY <2>1, TriviallyAfter
  <2>2. CASE ~Trivial(x)
    <3>1. x.view \in Views /\ ItemOK(x) /\ Latest' = Latest
      BY <1>1, <1>4, <2>2, UsedViews DEF ItemsOK, Latest, Changed
    <3>2. docs'[x.view].is = docs[x.view].is
      BY <1>2, <3>1 DEF Open
    <3>3. CASE x.view = v
      <4>1. CASE IsDraft(x) \/ IsSave(x)
        BY <1>4, <3>3, <4>1 DEF OnTheirWay
      <4>2. CASE x.kind \in {"opened", "offer", "draftFailed"}
        BY <3>1, <3>2, <4>2 DEF ItemOK
      <4>3. x.kind # "open"
        BY <3>1, <3>3 DEF ItemOK, OpenJobOK, Open
      <4> QED BY <2>2, <4>1, <4>2, <4>3 DEF IsDraft, IsSave, Trivial, Items, Jobs, Calls
    <3>4. CASE x.view # v
      <4>1. docs'[x.view] = docs[x.view]
        BY <1>2, <3>1, <3>4
      <4>2. Open(x.view) => crossed'
        BY <1>3, <3>1, <3>4 DEF Alive, Open
      <4>3. UNCHANGED <<written, panels>> /\ (crossed => crossed')
        BY DEF Changed
      <4>4. OpenJobOK(x) => OpenJobOK(x)'
        BY <3>1, <4>1, <4>3 DEF OpenJobOK
      <4>5. DraftJobOK(x) => DraftJobOK(x)'
        BY <3>1, <4>1, <4>2, <4>3 DEF DraftJobOK, Open
      <4>6. SaveJobOK(x) => SaveJobOK(x)'
        BY <3>1, <4>1, <4>2, <4>3 DEF SaveJobOK, Open
      <4>7. DraftedOK(x) => DraftedOK(x)'
        BY <3>1, <4>1, <4>2, <4>3 DEF DraftedOK, Open
      <4>8. SavedOK(x) => SavedOK(x)'
        BY <3>1, <4>1, <4>2, <4>3 DEF SavedOK, Open
      <4> QED BY <3>1, <4>1, <4>4, <4>5, <4>6, <4>7, <4>8 DEF ItemOK
    <3> QED BY <3>3, <3>4
  <2> QED BY <2>1, <2>2
<1>5. OrderKept
  <2>1. \A x \in Items : IsDraft(x) \/ IsSave(x) => x.view \in Views
    BY Fields
  <2>2. \A w \in Views : Open(w)' => Open(w)
    BY <1>2 DEF Open
  <2> QED BY <2>1, <2>2, OrderStays DEF Changed
<1> QED BY <1>4, <1>5 DEF Stable

LEMMA ChangedStep ==
  ASSUME IInv, Typed', NEW v \in Views, Open(v), NEW d \in Document, Changed(v, d),
         d.is = "open", DocOK(v)', DraftOK', OnTheirWay(v),
         at # "start" => jobs' # <<>> /\ Head(jobs') = Head(jobs),
         \A x \in Queue' : x \in Queue \/ ItemOK(x)',
         \A x \in Queue' : x.kind = "draft" => x \in Queue \/ x.view = v,
         \A a, b \in Queue' : Before(a, b)' => Before(a, b) \/ InOrder(a, b)',
         \A y \in Queue : y.kind = "open" => y \in Queue'
  PROVE  IInv'
<1>1. Typed /\ OrderOK /\ EarlierDrafts
  BY DEF IInv
<1>2. /\ DocsOK' /\ OneAlive'
      /\ \A w \in Views : w # v /\ ~crossed => ~Alive(w)
      /\ \A w \in Views : Alive(w)' => Alive(w)
  BY ChangedState
<1>3. /\ \A w \in Views : Offered(w) => Offered(w)'
      /\ PendingsOK' /\ PanelsOK' /\ AtOK'
  BY ChangedWaiting
<1>4. Stable /\ OrderKept
  BY <1>3, ChangedItems
<1>5. ItemsOK'
  BY <1>4, ItemsStep
<1>6. OrderOK'
  BY <1>1, <1>4, OrderStep
<1>7. EarlierDrafts'
  <2> SUFFICES ASSUME ~crossed', NEW w \in Views, NEW x \in Queue',
                      Alive(w)', x.kind = "draft", x.view # w
               PROVE  \E y \in Queue' : y.kind = "open" /\ y.view = w
    BY DEF EarlierDrafts
  <2>1. ~crossed /\ Alive(w)
    BY <1>2 DEF Changed
  <2>2. x \in Queue
    BY <1>2, <2>1
  <2> QED BY <1>1, <2>1, <2>2 DEF EarlierDrafts
<1> QED BY <1>2, <1>3, <1>5, <1>6, <1>7 DEF IInv

\* A change that no draft or save on its way is about.
LEMMA SameForItems ==
  ASSUME IInv, NEW v \in Views, Open(v), NEW d \in Document, Changed(v, d), draft' = draft,
         d.is = "open", d.text = docs[v].text, d.version = docs[v].version,
         d.saved = docs[v].saved, d.drafted = docs[v].drafted,
         d.etag = docs[v].etag, d.base = docs[v].base
  PROVE  OnTheirWay(v)
<1> SUFFICES ASSUME NEW x \in Items, x \in Queue, IsDraft(x) \/ IsSave(x), x.view = v
             PROVE  ItemOK(x)'
  BY DEF OnTheirWay
<1>1. Typed /\ ItemOK(x)
  BY DEF IInv, ItemsOK
<1>2. docs'[x.view] = d /\ Latest' = Latest
  BY <1>1 DEF Changed, Typed, Latest
<1>3. UNCHANGED <<written, draft>> /\ (crossed => crossed')
  BY DEF Changed
<1>4. x.kind = "draft" => DraftJobOK(x)'
  BY <1>1, <1>2, <1>3 DEF ItemOK, DraftJobOK, DraftOnItsWay, Open, Dirty
<1>5. x.kind = "save" => SaveJobOK(x)'
  BY <1>1, <1>2, <1>3 DEF ItemOK, SaveJobOK, SaveOnItsWay, Open, Dirty
<1>6. x.kind = "drafted" => DraftedOK(x)'
  BY <1>1, <1>2, <1>3 DEF ItemOK, DraftedOK, DraftOnItsWay, Open, Dirty
<1>7. x.kind = "saved" => SavedOK(x)'
  BY <1>1, <1>2, <1>3 DEF ItemOK, SavedOK, SaveOnItsWay, Open, Dirty
<1> QED BY <1>4, <1>5, <1>6, <1>7 DEF ItemOK, IsDraft, IsSave

LEMMA TypeStep ==
  ASSUME IInv, NEW v \in Views, Type(v)
  PROVE  IInv'
<1>1. /\ Typed /\ DocOK(v) /\ DraftOK /\ AtOK /\ docs[v] \in Document /\ Open(v)
      /\ docs[v].version \in Nat /\ docs[v].saved \in Nat
      /\ docs[v].drafted \in Nat \cup {-1}
  BY DEF IInv, DocsOK, Typed, Document, Type
<1>2. NewText \in Texts
  <2>1. /\ spent.typed \in Nat /\ spent.others \in Nat /\ spent.typed < MaxTyped
        /\ spent.others <= MaxOthers
    BY <1>1, Bounds, Counted DEF Type
  <2> QED BY <2>1, Bounds DEF NewText, Texts
<1>3. PICK d \in Document : d = [docs[v] EXCEPT !.text = NewText,
                                   !.version = docs[v].version + 1, !.timers = 1]
  <2>1. docs[v].version + 1 \in Nat /\ NewText \in Texts \cup {-1} /\ docs[v] \in Document
    BY <1>1, <1>2
  <2> QED BY <2>1 DEF Document
<1>4. docs' = [docs EXCEPT ![v] = d]
  BY <1>1, <1>3 DEF Type, Typed
<1>5. /\ d.is = "open" /\ d.text = NewText /\ d.version = docs[v].version + 1
      /\ d.saved = docs[v].saved /\ d.drafted = docs[v].drafted /\ d.etag = docs[v].etag
      /\ d.base = docs[v].base /\ d.confirm = docs[v].confirm /\ d.gen = docs[v].gen
      /\ d.seen = docs[v].seen
  BY <1>1, <1>3 DEF Document, Open
<1>6. spent'.views = spent.views
      /\ spent' \in [views : 0 .. MaxViews, typed : 0 .. MaxTyped, saves : 0 .. MaxSaves,
                     others : 0 .. MaxOthers, clients : 1 .. MaxClients]
  <2>1. spent' = [spent EXCEPT !.typed = spent.typed + 1]
    BY DEF Type, Count
  <2>2. spent.typed + 1 \in 0 .. MaxTyped
    BY <1>1, Bounds, Counted DEF Type
  <2>3. spent \in [views : 0 .. MaxViews, typed : 0 .. MaxTyped, saves : 0 .. MaxSaves,
                   others : 0 .. MaxOthers, clients : 1 .. MaxClients]
    BY <1>1 DEF Typed
  <2> QED BY <2>1, <2>2, <2>3
<1>7. Changed(v, d)
  BY <1>4, <1>6 DEF Type, Changed
<1>8. docs' \in [Views -> Document] /\ docs'[v] = d
  BY <1>1, <1>4 DEF Typed
<1>9. Typed'
  BY <1>1, <1>6, <1>8 DEF Type, Typed
<1>10. d.saved < d.version /\ d.drafted < d.version
  BY <1>1, <1>5 DEF DocOK
<1>11. DocOK(v)'
  <2>1. Latest' = Latest /\ UNCHANGED <<runtime, written>>
    BY DEF Type, Latest
  <2> QED BY <1>1, <1>2, <1>5, <1>8, <1>10, <2>1 DEF DocOK, Open, Dirty
<1>12. DraftOK'
  BY <1>1 DEF Type, DraftOK, Latest
<1>13. OnTheirWay(v)
  <2> SUFFICES ASSUME NEW x \in Items, x \in Queue, IsDraft(x) \/ IsSave(x), x.view = v
               PROVE  ItemOK(x)'
    BY DEF OnTheirWay
  <2>1. ItemOK(x) /\ docs'[x.view] = d /\ Latest' = Latest /\ x.version \in Nat
    BY <1>8, Fields DEF IInv, ItemsOK, Type, Latest
  <2>2. UNCHANGED <<written, draft, crossed>>
    BY DEF Type
  <2>3. x.kind = "draft" => DraftJobOK(x)'
    BY <1>1, <1>5, <1>10, <2>1, <2>2 DEF ItemOK, DraftJobOK, DraftOnItsWay, Open
  <2>4. x.kind = "save" => SaveJobOK(x)'
    BY <1>1, <1>5, <1>10, <2>1, <2>2 DEF ItemOK, SaveJobOK, SaveOnItsWay, Open
  <2>5. x.kind = "drafted" => DraftedOK(x)'
    BY <1>1, <1>5, <1>10, <2>1, <2>2 DEF ItemOK, DraftedOK, DraftOnItsWay, Open
  <2>6. x.kind = "saved" => SavedOK(x)'
    BY <1>1, <1>5, <1>10, <2>1, <2>2 DEF ItemOK, SavedOK, SaveOnItsWay, Open
  <2> QED BY <2>3, <2>4, <2>5, <2>6 DEF ItemOK, IsDraft, IsSave
<1>14. Queue' = Queue /\ \A a, b : Before(a, b)' => Before(a, b)
  BY DEF Type, Queue, Before
<1>15. at # "start" => jobs' # <<>> /\ Head(jobs') = Head(jobs)
  BY <1>1 DEF Type, AtOK
<1> QED BY <1>1, <1>5, <1>7, <1>9, <1>11, <1>12, <1>13, <1>14, <1>15, ChangedStep
LEMMA DraftFailedStep ==
  ASSUME IInv, callbacks # <<>>, NEW c, c = Head(callbacks), DraftFailed(c)
  PROVE  IInv'
<1>1. /\ Typed /\ AtOK /\ DraftOK /\ c \in Queue /\ c \in Items /\ c.kind = "draftFailed"
      /\ c.view \in Views /\ callbacks' = Tail(callbacks) /\ jobs' = jobs
  BY Queues, Fields DEF IInv, DraftFailed
<1>2. /\ Queue' \subseteq Queue
      /\ \A z \in Queue : z \in Queue' \/ z = Head(callbacks)
      /\ \A a, b : Before(a, b)' => Before(a, b)
  BY <1>1, QueueCalled
<1>3. callbacks' \in Seq(Calls)
  BY <1>1, Tailed DEF Typed
<1>4. at' = at /\ (at # "start" => jobs' # <<>> /\ Head(jobs') = Head(jobs))
  BY <1>1 DEF AtOK, DraftFailed
<1>5. CASE ~Open(c.view)
  <2>1. Quiet
    BY <1>5 DEF DraftFailed, Quiet, SessionKept
  <2>2. Typed'
    BY <1>1, <1>3, <1>5 DEF DraftFailed, Typed
  <2> QED BY <1>1, <1>2, <1>4, <2>1, <2>2, QuietStep
<1>6. CASE Open(c.view)
  <2> DEFINE v == c.view
  <2>1. docs[v] \in Document /\ DocOK(v)
    BY <1>1 DEF Typed, IInv, DocsOK
  <2>2. PICK d \in Document : d = [docs[v] EXCEPT !.readonly = TRUE]
    BY <2>1 DEF Document
  <2>3. docs' = [docs EXCEPT ![v] = d]
    BY <1>6, <2>2 DEF DraftFailed
  <2>4. /\ d.is = "open" /\ d.text = docs[v].text /\ d.version = docs[v].version
        /\ d.saved = docs[v].saved /\ d.drafted = docs[v].drafted /\ d.etag = docs[v].etag
        /\ d.base = docs[v].base /\ d.confirm = docs[v].confirm /\ d.gen = docs[v].gen
        /\ d.seen = docs[v].seen
    BY <1>6, <2>1, <2>2 DEF Document, Open
  <2>5. Changed(v, d) /\ draft' = draft /\ crossed' = crossed
    BY <2>3 DEF DraftFailed, Changed
  <2>6. docs' \in [Views -> Document] /\ docs'[v] = d
    BY <1>1, <2>3 DEF Typed
  <2>7. Typed'
    BY <1>1, <1>3, <2>6 DEF DraftFailed, Typed
  <2>8. DocOK(v)'
    <3>1. Latest' = Latest /\ UNCHANGED <<runtime, written>>
      BY DEF DraftFailed, Latest
    <3> QED BY <1>6, <2>1, <2>4, <2>5, <2>6, <3>1 DEF DocOK, Open, Dirty
  <2>9. DraftOK'
    BY <1>1 DEF DraftFailed, DraftOK, Latest
  <2>10. OnTheirWay(v)
    BY <1>1, <1>6, <2>4, <2>5, SameForItems
  <2>11. \A z \in Queue : z.kind = "open" => z \in Queue'
    BY <1>1, <1>2
  <2> QED BY <1>1, <1>2, <1>4, <1>6, <2>4, <2>5, <2>7, <2>8, <2>9, <2>10, <2>11, ChangedStep
<1> QED BY <1>5, <1>6

\* Drafting and DraftCalledBack, of the queues.
LEMMA DraftsQueued ==
  ASSUME Typed, NEW v, NEW x \in Queue, IsDraft(x), x.view = v
  PROVE  Drafting(v) \/ DraftCalledBack(v)
<1>1. jobs \in Seq(Jobs) /\ callbacks \in Seq(Calls) /\ x \in Items
  BY Queues DEF Typed
<1>2. CASE x \in Range(jobs)
  <2>1. PICK i \in DOMAIN jobs : x = jobs[i]
    BY <1>1, <1>2, Ranges
  <2>2. x.kind = "draft"
    BY <1>1, <2>1 DEF IsDraft, Jobs
  <2> QED BY <2>1, <2>2 DEF Drafting
<1>3. CASE x \in Range(callbacks)
  <2>1. PICK i \in DOMAIN callbacks : x = callbacks[i]
    BY <1>1, <1>3, Ranges
  <2>2. x.kind = "drafted"
    <3>1. x \in Calls
      BY <1>1, <1>3, Ranges
    <3> QED BY <1>1, <3>1, Fields DEF IsDraft
  <2> QED BY <2>1, <2>2 DEF DraftCalledBack
<1> QED BY <1>2, <1>3 DEF Queue

LEMMA BeginDraftStep ==
  ASSUME IInv, NEW v \in Views, BeginDraft(v)
  PROVE  IInv'
<1>1. /\ Typed /\ AtOK /\ DraftOK /\ ItemsOK /\ DocOK(v)
      /\ docs[v] \in Document /\ Open(v) /\ docs[v].timers > 0
      /\ callbacks' = callbacks /\ draft' = draft /\ at' = at
  BY DEF IInv, DocsOK, Typed, BeginDraft
<1>2. PICK d \in Document : d = [docs[v] EXCEPT !.timers = docs[v].timers - 1]
  <2>1. docs[v].timers - 1 \in Nat /\ docs[v] \in Document
    BY <1>1 DEF Document
  <2> QED BY <2>1 DEF Document
<1>3. docs' = [docs EXCEPT ![v] = d]
  BY <1>2 DEF BeginDraft
<1>4. /\ d.is = "open" /\ d.text = docs[v].text /\ d.version = docs[v].version
      /\ d.saved = docs[v].saved /\ d.drafted = docs[v].drafted /\ d.etag = docs[v].etag
      /\ d.base = docs[v].base /\ d.confirm = docs[v].confirm /\ d.gen = docs[v].gen
      /\ d.seen = docs[v].seen
  BY <1>1, <1>2 DEF Document, Open
<1>5. Changed(v, d)
  BY <1>3 DEF BeginDraft, Changed, Crosses
<1>6. docs' \in [Views -> Document] /\ docs'[v] = d
  BY <1>1, <1>3 DEF Typed
<1>7. PICK x \in Jobs : x = Snapshot(v)
  <2>1. /\ runtime.client \in Clients /\ runtime.generation \in Nat
        /\ docs[v].version \in Nat /\ docs[v].base \in Nat /\ docs[v].seen \in Nat
        /\ docs[v].text \in Texts
    BY <1>1 DEF Typed, Document, DocOK
  <2>2. Snapshot(v) \in [kind : {"draft"}, view : Views, client : Clients, gen : Nat,
                         version : Nat, text : Texts, base : Nat, seen : Nat]
    BY <2>1 DEF Snapshot
  <2> QED BY <2>2 DEF Jobs
<1>8. /\ x.kind = "draft" /\ x.view = v /\ x.version = docs[v].version
      /\ x.text = docs[v].text /\ x.base = docs[v].base /\ x.seen = docs[v].seen
  BY <1>7 DEF Snapshot
<1>9. jobs' = Append(jobs, x)
  BY <1>7 DEF BeginDraft, Give
<1>10. jobs' \in Seq(Jobs) /\ (jobs # <<>> => jobs' # <<>> /\ Head(jobs') = Head(jobs))
  BY <1>1, <1>9, Appended DEF Typed
<1>11. Typed'
  <2>1. crossed' \in BOOLEAN
    BY DEF BeginDraft, Crosses
  <2> QED BY <1>1, <1>6, <1>10, <2>1 DEF BeginDraft, Typed
<1>12. crossed => crossed'
  BY <1>5 DEF Changed
<1>13. Latest' = Latest /\ UNCHANGED <<runtime, written>>
  BY DEF BeginDraft, Latest
<1>14. DocOK(v)'
  BY <1>1, <1>4, <1>6, <1>12, <1>13 DEF DocOK, Open, Dirty
<1>15. DraftOK'
  BY <1>1, <1>13 DEF DraftOK
<1>16. OnTheirWay(v)
  BY <1>1, <1>4, <1>5, SameForItems
<1>17. /\ Queue' = Queue \cup {x}
       /\ \A a, b : Before(a, b)' => Before(a, b) \/ (a \in Queue /\ b = x)
  BY <1>1, <1>9, QueueGiven
<1>18. ItemOK(x)'
  <2>1. docs[v].version \in Nat /\ docs[v].base <= Latest /\ docs[v].base = docs[v].seen
    BY <1>1 DEF DocOK, Document
  <2>2. DraftJobOK(x)'
    BY <1>4, <1>6, <1>8, <1>13, <2>1 DEF DraftJobOK, DraftOnItsWay, Open
  <2> QED BY <1>8, <2>2 DEF ItemOK
<1>19. ASSUME NEW a \in Queue PROVE InOrder(a, x)'
  <2>1. CASE IsDraft(a) /\ a.view = v
    <3>1. crossed'
      BY <1>1, <2>1, DraftsQueued DEF BeginDraft, Crosses
    <3> QED BY <1>8, <3>1 DEF InOrder, IsDraft, IsSave
  <2>2. CASE a.kind = "open" /\ a.view # v
    <3>1. docs[a.view].is = "opening" /\ a.view \in Views
      BY <1>1, <2>2, Queues, Fields DEF ItemsOK, ItemOK, OpenJobOK
    <3>2. crossed
      BY <1>1, <2>2, <3>1 DEF IInv, OneAlive, Alive, Open
    <3> QED BY <1>8, <1>12, <3>2 DEF InOrder, IsDraft, IsSave
  <2>3. CASE ~(IsDraft(a) /\ a.view = v) /\ ~(a.kind = "open" /\ a.view # v)
    BY <1>8, <2>3 DEF InOrder, IsDraft, IsSave
  <2> QED BY <2>1, <2>2, <2>3
<1>20. at # "start" => jobs' # <<>> /\ Head(jobs') = Head(jobs)
  BY <1>1, <1>10 DEF AtOK
<1> QED BY <1>1, <1>4, <1>5, <1>8, <1>11, <1>14, <1>15, <1>16, <1>17, <1>18, <1>19,
           <1>20, ChangedStep
LEMMA WorkLockDraftStep ==
  ASSUME IInv, jobs # <<>>, NEW j, j = Head(jobs), WorkLockDraft(j)
  PROVE  IInv'
<1>1. /\ Typed /\ AtOK /\ at = "start" /\ j \in Queue /\ j.kind = "draft"
      /\ callbacks' = callbacks
  BY Queues DEF IInv, WorkLockDraft
<1>2. Quiet
  BY DEF WorkLockDraft, Quiet, SessionKept
<1>3. CASE at' = "locked" /\ jobs' = jobs
  <2>1. Typed'
    BY <1>1, <1>3 DEF WorkLockDraft, Typed
  <2>2. AtOK'
    BY <1>1, <1>3 DEF AtOK
  <2>3. Queue' = Queue /\ \A a, b : Before(a, b)' => Before(a, b)
    BY <1>1, <1>3 DEF Queue, Before
  <2> QED BY <1>1, <1>2, <2>1, <2>2, <2>3, QuietStep
<1>4. CASE at' = at /\ jobs' = Tail(jobs)
  <2>1. Typed'
    <3>1. jobs' \in Seq(Jobs)
      BY <1>1, <1>4, Tailed DEF Typed
    <3> QED BY <1>1, <1>4, <3>1 DEF WorkLockDraft, Typed
  <2>2. AtOK'
    BY <1>1, <1>4 DEF AtOK
  <2>3. /\ Queue' \subseteq Queue
        /\ \A z \in Queue : z \in Queue' \/ z = Head(jobs)
        /\ \A a, b : Before(a, b)' => Before(a, b)
    BY <1>1, <1>4, QueueDone
  <2> QED BY <1>1, <1>2, <2>1, <2>2, <2>3, QuietStep
<1> QED BY <1>3, <1>4 DEF WorkLockDraft

\* Another view that is alive while the worker has a draft was opened after
\* it, and nothing of it is shown or offered yet.
LEMMA DraftFirst ==
  ASSUME IInv, ~crossed, jobs # <<>>, Head(jobs).kind = "draft",
         NEW w \in Views, Alive(w), w # Head(jobs).view
  PROVE  /\ docs[w].is = "opening"
         /\ \A p \in panels : p.asks = "recovery" => p.view # w
         /\ \A x \in Queue : x.kind = "offer" => x.view # w
<1>1. Typed /\ ItemsOK /\ OrderOK /\ EarlierDrafts
  BY DEF IInv
<1>2. Head(jobs) \in Queue
  BY <1>1, Queues
<1>3. PICK y \in Queue : y.kind = "open" /\ y.view = w
  BY <1>1, <1>2 DEF EarlierDrafts
<1>4. OpenJobOK(y) /\ y \notin Calls
  BY <1>1, <1>3, Queues, Fields DEF ItemsOK, ItemOK
<1>5. ASSUME NEW x \in Queue, x.kind = "offer"
      PROVE  x.view # w
  <2>1. x \notin Jobs
    BY <1>1, <1>5, Queues, Fields
  <2>2. Before(x, y)
    BY <1>1, <1>4, <2>1, Queues
  <2> QED BY <1>1, <1>3, <1>5, <2>2 DEF OrderOK, InOrder
<1> QED BY <1>3, <1>4, <1>5 DEF OpenJobOK

LEMMA WorkWriteDraftStep ==
  ASSUME IInv, jobs # <<>>, NEW j, j = Head(jobs), WorkWriteDraft(j)
  PROVE  IInv'
<1>1. /\ Typed /\ DocsOK /\ PendingsOK /\ PanelsOK /\ DraftOK /\ AtOK
      /\ ItemsOK /\ OrderOK /\ OneAlive /\ EarlierDrafts
  BY DEF IInv
<1>2. /\ j \in Queue /\ j \in Jobs /\ j \in Items /\ j.kind = "draft" /\ at = "locked"
      /\ jobs' = Tail(jobs) /\ at' = "start"
  BY <1>1, Queues DEF WorkWriteDraft
<1>3. /\ j.view \in Views /\ DraftJobOK(j)
      /\ j \in [kind : {"draft"}, view : Views, client : Clients, gen : Nat,
                version : Nat, text : Texts, base : Nat, seen : Nat]
  BY <1>1, <1>2 DEF ItemsOK, ItemOK, Jobs
<1>4. UNCHANGED <<written, live, runtime, docs, pending, panels, crossed, spent>>
  BY DEF WorkWriteDraft
<1>5. \A y \in Calls : callbacks' = Append(callbacks, y) =>
        callbacks' \in Seq(Calls) /\ jobs' \in Seq(Jobs)
  BY <1>1, <1>2, Appended, Tailed DEF Typed
<1>6. ASSUME NEW y \in Calls, callbacks' = Append(callbacks, y)
      PROVE  /\ Queue' \subseteq Queue \cup {y}
             /\ \A z \in Queue : z \in Queue' \/ z = Head(jobs)
             /\ \A a, b : Before(a, b)' =>
                  \/ Before(a, b)
                  \/ a \in Queue /\ Before(a, Head(jobs)) /\ b = y
                  \/ b \in Queue /\ Before(Head(jobs), b) /\ a = y
  BY <1>1, <1>2, <1>6, QueueAnswered
<1>7. AtOK'
  BY <1>2 DEF AtOK
<1>8. CASE draft' = draft /\ Post([kind |-> "draftFailed", view |-> j.view])
  <2>1. PICK y \in Calls : y = [kind |-> "draftFailed", view |-> j.view]
    BY <1>3 DEF Calls
  <2>2. callbacks' = Append(callbacks, y)
    BY <1>8, <2>1 DEF Post
  <2>3. Typed'
    BY <1>1, <1>2, <1>4, <1>5, <1>8, <2>2 DEF Typed
  <2>4. Quiet
    BY <1>4, <1>8 DEF Quiet, SessionKept
  <2>5. ItemOK(y)' /\ y.kind # "draft"
    BY <1>3, <1>4, <2>1 DEF ItemOK, DraftJobOK
  <2>6. \A a : InOrder(a, y)' /\ InOrder(y, a)'
    BY <2>1 DEF InOrder, IsDraft, IsSave
  <2> QED BY <1>2, <1>6, <1>7, <2>2, <2>3, <2>4, <2>5, <2>6, QuietStep
<1>9. CASE /\ draft' = File(j)
           /\ Post([kind |-> "drafted", view |-> j.view, gen |-> j.gen,
                    version |-> j.version, base |-> j.base])
  <2>1. PICK y \in Calls : y = [kind |-> "drafted", view |-> j.view, gen |-> j.gen,
                                version |-> j.version, base |-> j.base]
    <3>1. [kind |-> "drafted", view |-> j.view, gen |-> j.gen,
           version |-> j.version, base |-> j.base]
             \in [kind : {"drafted"}, view : Views, gen : Nat, version : Nat, base : Nat]
      BY <1>3
    <3> QED BY <3>1 DEF Calls
  <2>2. /\ y.kind = "drafted" /\ y.view = j.view /\ y.version = j.version
        /\ y.base = j.base /\ callbacks' = Append(callbacks, y)
    BY <1>9, <2>1 DEF Post
  <2>3. /\ draft' \in Drafts /\ draft'.text = j.text /\ draft'.base = j.base
        /\ draft'.seen = j.seen
    BY <1>3, <1>9 DEF File, Drafts
  <2>4. Typed'
    BY <1>1, <1>2, <1>4, <1>5, <2>2, <2>3 DEF Typed
  <2>5. Latest' = Latest
    BY <1>4 DEF Latest
  <2>6. DraftOK'
    BY <1>3, <2>3, <2>5 DEF DraftOK, DraftJobOK
  <2>7. \A w \in Views : ~crossed /\ w # j.view => ~Open(w)
    BY <1>2, DraftFirst DEF Open, Alive
  <2>8. DocsOK'
    <3> SUFFICES ASSUME NEW w \in Views PROVE DocOK(w)' /\ FreshOK(w)'
      BY DEF DocsOK
    <3>1. DocOK(w) /\ FreshOK(w) /\ docs[w] \in Document
      BY <1>1 DEF DocsOK, Typed
    <3>2. w = j.view /\ Open(w) /\ ~crossed /\ Dirty(docs[w])
            /\ docs[w].drafted = docs[w].version => j.text = docs[w].text
      BY <1>3, <3>1 DEF DraftJobOK, DraftOnItsWay, Document
    <3>3. ~crossed /\ Open(w) => w = j.view
      BY <2>7
    <3> QED BY <1>4, <2>3, <2>5, <3>1, <3>2, <3>3 DEF DocOK, FreshOK, Open
  <2>9. PendingsOK'
    <3> SUFFICES ASSUME NEW w \in Views PROVE PendingOK(w)'
      BY DEF PendingsOK
    <3>1. PendingOK(w)
      BY <1>1 DEF PendingsOK
    <3> QED BY <1>2, <1>4, <2>5, <3>1 DEF PendingOK, Same
  <2>10. ASSUME NEW w \in Views, Offered(w),
                ~crossed /\ w # j.view => docs[w].is # "opening"
         PROVE  Offered(w)'
    <3>1. pending[w] # NoOwner => docs[w].is = "opening"
      BY <1>1 DEF PendingsOK, PendingOK
    <3>2. w = j.view => docs[w].is # "opening"
      BY <1>3 DEF DraftJobOK
    <3> QED BY <1>4, <2>10, <3>1, <3>2 DEF Offered
  <2>11. PanelsOK'
    <3> SUFFICES ASSUME NEW p \in panels PROVE PanelOK(p)'
      BY <1>4 DEF PanelsOK
    <3>1. PanelOK(p) /\ p.view \in Views
      BY <1>1 DEF PanelsOK, Typed
    <3>2. p.asks = "recovery" /\ ~crossed /\ p.view # j.view => docs[p.view].is # "opening"
      BY <1>2, <3>1, DraftFirst DEF Alive
    <3> QED BY <1>4, <2>10, <3>1, <3>2 DEF PanelOK
  <2>12. ASSUME NEW x \in Items, x \in Queue, x \in Queue'
         PROVE  ItemOK(x)'
    <3>1. ItemOK(x)
      BY <1>1, <2>12 DEF ItemsOK
    <3>2. OpenJobOK(x) => OpenJobOK(x)'
      BY <1>4, <2>5 DEF OpenJobOK
    <3>3. DraftJobOK(x) => DraftJobOK(x)'
      BY <1>4, <2>5 DEF DraftJobOK, DraftOnItsWay, Open
    <3>4. SaveJobOK(x) => SaveJobOK(x)'
      BY <1>4, <2>5 DEF SaveJobOK, SaveOnItsWay, Open
    <3>5. SavedOK(x) => SavedOK(x)'
      BY <1>4, <2>5 DEF SavedOK, SaveOnItsWay, Open
    <3>6. x.kind = "drafted" => DraftedOK(x)'
      <4> SUFFICES ASSUME x.kind = "drafted" PROVE DraftedOK(x)'
        OBVIOUS
      <4>1. x.view \in Views /\ DraftedOK(x)
        BY <3>1, Fields DEF ItemOK, IsDraft
      <4>2. Before(x, j)
        BY <1>1, <1>2, <2>12, Queues, Fields
      <4>3. x.view = j.view /\ Open(x.view) => crossed
        BY <1>1, <1>2, <2>12, <4>2 DEF OrderOK, InOrder, IsDraft
      <4>4. Open(x.view) => crossed
        BY <2>7, <4>1, <4>3
      <4> QED BY <1>4, <4>1, <4>4 DEF DraftedOK, DraftOnItsWay, Open
    <3>7. x.kind = "offer" => Offered(x.view)'
      <4> SUFFICES ASSUME x.kind = "offer" PROVE Offered(x.view)'
        OBVIOUS
      <4>1. x.view \in Views /\ Offered(x.view)
        BY <3>1, Fields DEF ItemOK
      <4>2. ~crossed /\ x.view # j.view => docs[x.view].is # "opening"
        BY <1>2, <2>12, <4>1, DraftFirst DEF Alive
      <4> QED BY <2>10, <4>1, <4>2
    <3> QED BY <1>4, <3>1, <3>2, <3>3, <3>4, <3>5, <3>6, <3>7 DEF ItemOK
  <2>13. ItemOK(y)'
    <3>1. DraftedOK(y)'
      BY <1>3, <1>4, <2>2, <2>3 DEF DraftJobOK, DraftedOK, DraftOnItsWay, Open
    <3> QED BY <2>2, <3>1 DEF ItemOK
  <2>14. ItemsOK'
    BY <1>6, <2>2, <2>4, <2>12, <2>13, ItemsStep DEF Stable
  <2>15. OrderOK'
    <3>1. OrderKept
      BY <1>4, OrderStays DEF Open
    <3>2. \A a \in Queue : Before(a, j) => InOrder(a, y)'
      BY <1>1, <1>2, <1>4, <2>2 DEF OrderOK, InOrder, IsDraft, IsSave, Open
    <3>3. \A b \in Queue : Before(j, b) => InOrder(y, b)'
      BY <1>1, <1>2, <1>4, <2>2 DEF OrderOK, InOrder, IsDraft, IsSave, Open
    <3> QED BY <1>1, <1>6, <2>2, <3>1, <3>2, <3>3, OrderStep
  <2>16. OneAlive'
    BY <1>1, <1>4 DEF OneAlive, Alive
  <2>17. EarlierDrafts'
    <3>1. \A x \in Queue' : x.kind = "draft" => x \in Queue
      BY <1>6, <2>2
    <3>2. \A z \in Queue : z.kind = "open" => z \in Queue'
      BY <1>2, <1>6, <2>2
    <3>3. \A w \in Views : Alive(w)' => Alive(w)
      BY <1>4 DEF Alive
    <3> QED BY <1>1, <1>4, <3>1, <3>2, <3>3, EarlierStays
  <2> QED BY <1>7, <2>4, <2>6, <2>8, <2>9, <2>11, <2>14, <2>15, <2>16, <2>17 DEF IInv
<1> QED BY <1>8, <1>9 DEF WorkWriteDraft
\* What the main thread leaves when it is done with a callback that is of no
\* concern to the others.
LEMMA MainThread ==
  ASSUME IInv, callbacks # <<>>, callbacks' = Tail(callbacks), jobs' = jobs, at' = at
  PROVE  /\ callbacks' \in Seq(Calls) /\ Head(callbacks) \in Queue
         /\ Head(callbacks) \in Calls /\ Head(callbacks) \in Items
         /\ at # "start" => jobs' # <<>> /\ Head(jobs') = Head(jobs)
         /\ Queue' \subseteq Queue /\ \A a, b : Before(a, b)' => Before(a, b)
         /\ \A z \in Queue : z \in Queue' \/ z = Head(callbacks)
         /\ \A z \in Queue' : Before(Head(callbacks), z)
         /\ \A y \in Queue : y.kind = "open" => y \in Queue'
<1>1. Typed /\ AtOK
  BY DEF IInv
<1>2. /\ callbacks' \in Seq(Calls) /\ Head(callbacks) \in Queue
      /\ Head(callbacks) \in Calls /\ Head(callbacks) \in Items
  BY <1>1, Queues, Tailed DEF Typed, Items
<1>3. at # "start" => jobs' # <<>> /\ Head(jobs') = Head(jobs)
  BY <1>1 DEF AtOK
<1>4. /\ Queue' \subseteq Queue /\ \A a, b : Before(a, b)' => Before(a, b)
      /\ \A z \in Queue : z \in Queue' \/ z = Head(callbacks)
      /\ \A z \in Queue' : Before(Head(callbacks), z)
  BY <1>1, QueueCalled
<1>5. \A y \in Queue : y.kind = "open" => y \in Queue'
  BY <1>2, <1>4, Fields
<1> QED BY <1>2, <1>3, <1>4, <1>5

\* A callback of which nothing comes.
LEMMA CallIgnored ==
  ASSUME IInv, callbacks # <<>>, callbacks' = Tail(callbacks),
         UNCHANGED <<written, draft, live, runtime, docs, pending, panels, jobs, at,
                     crossed, spent>>
  PROVE  IInv'
<1>1. /\ callbacks' \in Seq(Calls)
      /\ at # "start" => jobs' # <<>> /\ Head(jobs') = Head(jobs)
      /\ Queue' \subseteq Queue /\ \A a, b : Before(a, b)' => Before(a, b)
      /\ \A y \in Queue : y.kind = "open" => y \in Queue'
  BY MainThread
<1>2. Typed'
  BY <1>1 DEF IInv, Typed
<1>3. Quiet
  BY DEF Quiet, SessionKept
<1> QED BY <1>1, <1>2, <1>3, QuietStep

LEMMA DraftedStep ==
  ASSUME IInv, callbacks # <<>>, NEW c, c = Head(callbacks), Drafted(c)
  PROVE  IInv'
<1>1. /\ Typed /\ ItemsOK /\ OrderOK /\ DraftOK /\ c.kind = "drafted"
      /\ callbacks' = Tail(callbacks) /\ jobs' = jobs /\ at' = at
  BY DEF IInv, Drafted
<1>2. /\ callbacks' \in Seq(Calls) /\ c \in Queue /\ c \in Items
      /\ at # "start" => jobs' # <<>> /\ Head(jobs') = Head(jobs)
      /\ Queue' \subseteq Queue /\ \A a, b : Before(a, b)' => Before(a, b)
      /\ \A z \in Queue' : Before(c, z)
      /\ \A y \in Queue : y.kind = "open" => y \in Queue'
  BY <1>1, MainThread
<1>3. c.view \in Views /\ c.version \in Nat /\ c.base \in Nat /\ DraftedOK(c)
  BY <1>1, <1>2, Fields DEF ItemsOK, ItemOK, IsDraft
<1>4. CASE ~(Current(c.gen) /\ Open(c.view))
  BY <1>1, <1>4, CallIgnored DEF Drafted
<1>5. CASE Current(c.gen) /\ Open(c.view)
  <2> DEFINE v == c.view
             u == docs[v]
             drafted == IF Superseded(u, c) THEN u.drafted ELSE Highest(u.drafted, c.version)
  <2>1. /\ u \in Document /\ DocOK(v) /\ Open(v) /\ u.version \in Nat /\ u.saved \in Nat
        /\ u.drafted \in Nat \cup {-1} /\ u.is = "open"
    BY <1>3, <1>5 DEF Typed, IInv, DocsOK, Document, Open
  <2>2. /\ drafted \in Nat \cup {-1} /\ drafted <= u.version
        /\ ~Superseded(u, c) => u.drafted <= drafted /\ c.version <= drafted
                                /\ drafted \in {u.drafted, c.version}
    BY <1>3, <1>5, <2>1 DEF Highest, DocOK, DraftedOK
  <2>3. PICK d \in Document : d = [u EXCEPT !.drafted = drafted]
    BY <2>1, <2>2 DEF Document
  <2>4. /\ d.is = "open" /\ d.text = u.text /\ d.version = u.version
        /\ d.saved = u.saved /\ d.drafted = drafted /\ d.etag = u.etag
        /\ d.base = u.base /\ d.confirm = u.confirm /\ d.gen = u.gen
        /\ d.seen = u.seen
    BY <2>1, <2>3 DEF Document
  <2>5. docs' = [docs EXCEPT ![v] = d]
    <3>1. CASE Superseded(u, c)
      <4>1. docs' = docs /\ d = docs[v]
        BY <1>5, <2>1, <2>3, <3>1 DEF Drafted, Document
      <4> QED BY <1>1, <1>3, <4>1 DEF Typed
    <3>2. CASE ~Superseded(u, c)
      BY <1>5, <2>3, <3>2 DEF Drafted
    <3> QED BY <3>1, <3>2
  <2>6. draft' = IF Superseded(u, c) THEN NoDraft ELSE draft
    BY <1>5 DEF Drafted
  <2> HIDE DEF u, drafted
  <2>7. Changed(v, d) /\ crossed' = crossed /\ Latest' = Latest
    BY <2>5 DEF Drafted, Changed, Latest
  <2>8. docs' \in [Views -> Document] /\ docs'[v] = d
    BY <1>1, <1>3, <2>5 DEF Typed
  <2>9. Typed'
    BY <1>1, <1>2, <2>6, <2>8, Defaults DEF Drafted, Typed
  <2>10. DraftOK'
    BY <1>1, <2>6, <2>7, Versions DEF DraftOK, NoDraft
  <2>11. Superseded(u, c) /\ ~crossed /\ Dirty(u) => u.drafted # u.version
    BY <1>3, <2>1 DEF Superseded, DraftedOK, DraftOnItsWay, u
  <2>12. ~Superseded(u, c) => Dirty(u)
    BY DEF Superseded
  <2>13. ~Superseded(u, c) /\ ~crossed /\ drafted = u.version => draft.text = u.text
    BY <1>3, <2>1, <2>2, <2>12 DEF DraftedOK, DocOK, u
  <2>14. DocOK(v)'
    <3>1. UNCHANGED <<runtime, written>>
      BY DEF Drafted
    <3>2. ~crossed' /\ Dirty(d) /\ d.drafted = d.version => draft'.text = d.text
      <4>1. CASE Superseded(u, c)
        BY <2>4, <2>7, <2>11, <4>1 DEF Dirty, drafted
      <4>2. CASE ~Superseded(u, c)
        BY <2>4, <2>6, <2>7, <2>13, <4>2
      <4> QED BY <4>1, <4>2
    <3>3. /\ u.saved <= u.version /\ u.base <= Latest
          /\ runtime.client # 0 /\ u.gen = runtime.generation
          /\ u.etag \in 1 .. Latest /\ u.text \in Texts
          /\ u.base = u.seen /\ (~u.confirm => u.base = u.etag)
          /\ (~Dirty(u) => u.text = written[u.etag])
      BY <2>1 DEF DocOK, u
    <3> QED BY <2>2, <2>4, <2>7, <2>8, <3>1, <3>2, <3>3 DEF DocOK, Open, Dirty
  <2>15. OnTheirWay(v)
    <3> SUFFICES ASSUME NEW x \in Items, x \in Queue, x \in Queue',
                        IsDraft(x) \/ IsSave(x), x.view = v
                 PROVE  ItemOK(x)'
      BY DEF OnTheirWay
    <3>1. ItemOK(x) /\ InOrder(c, x) /\ x.version \in Nat
      BY <1>1, <1>2, Fields DEF ItemsOK, OrderOK
    <3>2. IsDraft(x) => crossed
      BY <1>1, <1>5, <3>1 DEF InOrder, IsDraft
    <3>3. IsSave(x) => c.version <= x.version
      BY <1>1, <1>5, <3>1 DEF InOrder, IsDraft
    <3>4. docs'[x.view] = d /\ UNCHANGED <<written, crossed>>
      BY <2>8 DEF Drafted
    <3>5. IsSave(x) /\ SaveOnItsWay(x) => SaveOnItsWay(x)'
      <4>1. IsSave(x) /\ x.version < u.version /\ u.drafted < u.version => drafted < u.version
        BY <1>3, <2>1, <2>2, <3>1, <3>3 DEF drafted
      <4> QED BY <2>4, <3>4, <4>1 DEF SaveOnItsWay, Dirty, u
    <3>6. x.kind = "draft" => DraftJobOK(x)'
      BY <2>1, <2>4, <2>7, <3>1, <3>2, <3>4 DEF ItemOK, DraftJobOK, Open, IsDraft, u
    <3>7. x.kind = "save" => SaveJobOK(x)'
      BY <2>1, <2>4, <2>7, <3>1, <3>4, <3>5 DEF ItemOK, SaveJobOK, Open, IsSave, u
    <3>8. x.kind = "drafted" => DraftedOK(x)'
      BY <2>1, <2>4, <2>7, <3>1, <3>2, <3>4 DEF ItemOK, DraftedOK, Open, IsDraft, u
    <3>9. x.kind = "saved" => SavedOK(x)'
      BY <2>1, <2>4, <2>7, <3>1, <3>4, <3>5 DEF ItemOK, SavedOK, Open, IsSave, u
    <3> QED BY <3>6, <3>7, <3>8, <3>9 DEF ItemOK, IsDraft, IsSave
  <2> QED BY <1>2, <1>3, <1>5, <2>4, <2>7, <2>9, <2>10, <2>14, <2>15, ChangedStep
<1> QED BY <1>4, <1>5

LEMMA FlushSurvivorStep ==
  ASSUME IInv, NEW v \in Views, FlushSurvivor(v)
  PROVE  IInv'
<1>1. /\ Typed /\ AtOK /\ ItemsOK /\ DocOK(v) /\ docs[v] \in Document /\ Open(v)
      /\ docs[v].version \in Nat /\ crossed'
      /\ UNCHANGED <<written, runtime, jobs, callbacks, at>>
  BY DEF IInv, DocsOK, Typed, Document, FlushSurvivor
<1>2. PICK d \in Document : d = [docs[v] EXCEPT !.drafted = docs[v].version]
  BY <1>1 DEF Document
<1>3. /\ d.is = "open" /\ d.text = docs[v].text /\ d.version = docs[v].version
      /\ d.saved = docs[v].saved /\ d.drafted = docs[v].version /\ d.etag = docs[v].etag
      /\ d.base = docs[v].base /\ d.confirm = docs[v].confirm /\ d.gen = docs[v].gen
      /\ d.seen = docs[v].seen
  BY <1>1, <1>2 DEF Document, Open
<1>4. docs' = [docs EXCEPT ![v] = d]
  BY <1>2 DEF FlushSurvivor
<1>5. Changed(v, d) /\ Latest' = Latest
  BY <1>4 DEF FlushSurvivor, Changed, Latest
<1>6. docs' \in [Views -> Document] /\ docs'[v] = d
  BY <1>1, <1>4 DEF Typed
<1>7. draft' \in Drafts /\ draft' = File(docs[v]) /\ draft'.text = docs[v].text
      /\ draft'.base = docs[v].base /\ draft'.seen = docs[v].seen
  <2>1. /\ docs[v].text \in Texts \cup {-1} /\ docs[v].base \in Nat /\ docs[v].seen \in Nat
    BY <1>1 DEF Document
  <2> QED BY <2>1 DEF FlushSurvivor, Flushed, File, Drafts
<1>8. Typed'
  BY <1>1, <1>6, <1>7 DEF FlushSurvivor, Typed
<1>9. DraftOK'
  BY <1>1, <1>5, <1>7 DEF DraftOK, DocOK
<1>10. DocOK(v)'
  BY <1>1, <1>3, <1>5, <1>6 DEF DocOK, Open, Dirty
<1>11. OnTheirWay(v)
  <2> SUFFICES ASSUME NEW x \in Items, x \in Queue, IsDraft(x) \/ IsSave(x), x.view = v
               PROVE  ItemOK(x)'
    BY DEF OnTheirWay
  <2>1. ItemOK(x) /\ docs'[x.view] = d
    BY <1>1, <1>6 DEF ItemsOK
  <2>2. x.kind = "draft" => DraftJobOK(x)'
    BY <1>1, <1>3, <1>5, <2>1 DEF ItemOK, DraftJobOK, Open
  <2>3. x.kind = "save" => SaveJobOK(x)'
    BY <1>1, <1>3, <1>5, <2>1 DEF ItemOK, SaveJobOK, Open
  <2>4. x.kind = "drafted" => DraftedOK(x)'
    BY <1>1, <1>3, <1>5, <2>1 DEF ItemOK, DraftedOK, Open
  <2>5. x.kind = "saved" => SavedOK(x)'
    BY <1>1, <1>3, <1>5, <2>1 DEF ItemOK, SavedOK, Open
  <2> QED BY <2>2, <2>3, <2>4, <2>5 DEF ItemOK, IsDraft, IsSave
<1>12. Queue' = Queue /\ \A a, b : Before(a, b)' => Before(a, b)
  BY <1>1 DEF Queue, Before
<1>13. at # "start" => jobs' # <<>> /\ Head(jobs') = Head(jobs)
  BY <1>1 DEF AtOK
<1> QED BY <1>1, <1>3, <1>5, <1>8, <1>9, <1>10, <1>11, <1>12, <1>13, ChangedStep

\* While no drafts cross, nothing is alive beside an open view.
LEMMA OpenAlone ==
  ASSUME IInv, NEW v \in Views, Open(v), ~crossed
  PROVE  \A w \in Views : Alive(w) => w = v
BY DEF IInv, OneAlive, Alive, Open

LEMMA CloseStep ==
  ASSUME IInv, NEW v \in Views, Close(v)
  PROVE  IInv'
<1>1. /\ Typed /\ AtOK /\ ItemsOK /\ PendingsOK /\ DraftOK /\ DocOK(v)
      /\ docs[v] \in Document /\ Open(v)
      /\ UNCHANGED <<written, runtime, pending, jobs, callbacks, at, crossed, spent>>
  BY DEF IInv, DocsOK, Typed, Close
<1>2. docs' = [docs EXCEPT ![v] = Gone]
  BY DEF Close
<1>3. docs'[v] = Gone /\ \A w \in Views : w # v => docs'[w] = docs[w]
  BY <1>1, <1>2 DEF Typed
<1>4. draft' = draft \/ draft' = File(docs[v])
  BY DEF Close, Flushed
<1>5. File(docs[v]) \in Drafts /\ File(docs[v]).text = docs[v].text
      /\ File(docs[v]).base = docs[v].base /\ File(docs[v]).seen = docs[v].seen
  <2>1. /\ docs[v].text \in Texts \cup {-1} /\ docs[v].base \in Nat /\ docs[v].seen \in Nat
    BY <1>1 DEF Document
  <2> QED BY <2>1 DEF File, Drafts
<1>6. Typed'
  <2>1. docs' \in [Views -> Document]
    BY <1>1, <1>2, Defaults DEF Typed
  <2>2. draft' \in Drafts
    BY <1>1, <1>4, <1>5 DEF Typed
  <2>3. panels' \subseteq panels
    BY DEF Close
  <2> QED BY <1>1, <2>1, <2>2, <2>3 DEF Close, Typed
<1>7. DraftOK'
  <2>1. Latest' = Latest
    BY <1>1 DEF Latest
  <2> QED BY <1>1, <1>4, <1>5, <2>1 DEF DraftOK, DocOK
<1>8. Closings
  <2>1. draft' = draft \/ crossed \/ \A w \in Views : ~Alive(w)'
    <3>1. ~Alive(v)'
      BY <1>3, GoneIs DEF Alive
    <3>2. ~crossed => \A w \in Views : w # v => ~Alive(w)'
      BY <1>1, <1>3, OpenAlone DEF Alive
    <3> QED BY <3>1, <3>2
  <2>2. docs[v].is # "new"
    BY <1>1 DEF Open
  <2>3. panels' \subseteq panels
    BY DEF Close
  <2> QED BY <1>1, <1>3, <2>1, <2>2, <2>3, Versions DEF Closings, Latest
<1>9. SessionKept
  BY <1>1 DEF SessionKept
<1>10. \A w \in Views : pending'[w] # NoOwner =>
         /\ docs'[w] = docs[w]
         /\ Same(pending[w])' \/ (at' = "opened" /\ Head(jobs').view = w)
  <2> SUFFICES ASSUME NEW w \in Views, pending'[w] # NoOwner
               PROVE  /\ docs'[w] = docs[w]
                      /\ Same(pending[w])' \/ (at' = "opened" /\ Head(jobs').view = w)
    OBVIOUS
  <2>1. PendingOK(w) /\ pending[w] # NoOwner
    BY <1>1 DEF PendingsOK
  <2>2. w # v
    BY <1>1, <2>1 DEF PendingOK, Open
  <2> QED BY <1>1, <1>3, <2>1, <2>2 DEF PendingOK, Same
<1>11. \A x \in Items :
         x \in Queue /\ x \in Queue' /\ x.kind = "open" => docs'[x.view] = docs[x.view]
  <2> SUFFICES ASSUME NEW x \in Items, x \in Queue, x.kind = "open"
               PROVE  docs'[x.view] = docs[x.view]
    OBVIOUS
  <2>1. x.view \in Views /\ docs[x.view].is = "opening"
    BY <1>1, Fields DEF ItemsOK, ItemOK, OpenJobOK
  <2> QED BY <1>1, <1>3, <2>1 DEF Open
<1>12. Queue' = Queue /\ \A a, b : Before(a, b)' => Before(a, b)
  BY <1>1 DEF Queue, Before
<1>13. at # "start" => jobs' # <<>> /\ Head(jobs') = Head(jobs)
  BY <1>1 DEF AtOK
<1> QED BY <1>1, <1>6, <1>7, <1>8, <1>9, <1>10, <1>11, <1>12, <1>13, ClosingStep
-----------------------------------------------------------------------------
(* Saving.                                                                 *)

\* A save that is given is in order.
LEMMA SaveGiven ==
  ASSUME IInv, NEW v \in Views, NEW confirmed \in BOOLEAN, docs[v].is \in {"open", "closed"},
         confirmed \/ (Open(v) /\ ~docs[v].confirm), GiveSave(v, confirmed),
         UNCHANGED <<written, docs, callbacks, crossed>>
  PROVE  /\ jobs' \in Seq(Jobs) /\ jobs' # <<>> /\ (jobs # <<>> => Head(jobs') = Head(jobs))
         /\ Queue \subseteq Queue'
         /\ \A y \in Queue' : y \in Queue \/ (ItemOK(y)' /\ y.kind # "draft")
         /\ \A a, b \in Queue' : Before(a, b)' => Before(a, b) \/ InOrder(a, b)'
<1>1. /\ Typed /\ ItemsOK /\ docs[v] \in Document /\ DocOK(v) /\ docs[v].version \in Nat
      /\ docs[v].etag \in Nat /\ docs[v].seen \in Nat /\ docs[v].text \in Texts \cup {-1}
      /\ runtime.client \in Clients /\ runtime.generation \in Nat
  BY DEF IInv, DocsOK, Typed, Document
<1> DEFINE job == [kind |-> "save", view |-> v, client |-> runtime.client,
                   gen |-> runtime.generation, version |-> docs[v].version,
                   text |-> docs[v].text, etag |-> docs[v].etag, seen |-> docs[v].seen,
                   confirmed |-> confirmed]
<1>2. job \in [kind : {"save"}, view : Views, client : Clients, gen : Nat,
               version : Nat, text : Texts \cup {-1}, etag : Nat, seen : Nat,
               confirmed : BOOLEAN]
  BY <1>1
<1>3. PICK x \in Jobs : x = job
  BY <1>2 DEF Jobs
<1>4. /\ x.kind = "save" /\ x.view = v /\ x.version = docs[v].version
      /\ x.text = docs[v].text /\ x.etag = docs[v].etag /\ x.seen = docs[v].seen
  BY <1>3
<1>5. confirmed => x.confirmed
  BY <1>3
<1>6. jobs' = Append(jobs, x) /\ callbacks' = callbacks
  BY <1>3 DEF GiveSave, Give
<1>7. jobs' \in Seq(Jobs) /\ jobs' # <<>> /\ (jobs # <<>> => Head(jobs') = Head(jobs))
  BY <1>1, <1>6, Appended DEF Typed
<1>8. /\ Queue' = Queue \cup {x}
      /\ \A a, b : Before(a, b)' => Before(a, b) \/ (a \in Queue /\ b = x)
  BY <1>1, <1>6, QueueGiven
<1>9. ItemOK(x)'
  <2>1. x.confirmed \/ x.seen = x.etag
    BY <1>1, <1>4, <1>5 DEF DocOK
  <2>2. x.etag = 0 \/ x.text \in Texts
    BY <1>1, <1>4 DEF DocOK
  <2>3. Open(v) => docs[v].saved <= docs[v].version
    BY <1>1 DEF DocOK
  <2>4. SaveJobOK(x)'
    BY <1>1, <1>4, <2>1, <2>2, <2>3 DEF SaveJobOK, SaveOnItsWay, Open
  <2> QED BY <1>4, <2>4 DEF ItemOK
<1>10. ASSUME NEW a \in Queue PROVE InOrder(a, x)'
  <2>1. ItemOK(a)
    BY <1>1 DEF ItemsOK
  <2>2. IsDraft(a) /\ a.view = v /\ Open(v) => a.version <= docs[v].version
    BY <2>1 DEF ItemOK, DraftJobOK, DraftedOK, IsDraft
  <2> QED BY <1>4, <2>2 DEF InOrder, IsDraft, IsSave, Open
<1> QED BY <1>4, <1>7, <1>8, <1>9, <1>10

\* While nothing changes but the panels, the jobs and what is counted, the
\* plaintext that waits is still of the session.
LEMMA StillWaiting ==
  ASSUME IInv, UNCHANGED <<runtime, docs, pending, at>>,
         at # "start" => jobs' # <<>> /\ Head(jobs') = Head(jobs)
  PROVE  /\ SessionKept
         /\ \A v \in Views : pending'[v] # NoOwner =>
              /\ docs'[v] = docs[v]
              /\ Same(pending[v])' \/ (at' = "opened" /\ Head(jobs').view = v)
<1>1. at = "opened" => Head(jobs').view = Head(jobs).view
  OBVIOUS
<1> QED BY <1>1 DEF IInv, PendingsOK, PendingOK, Same, SessionKept

LEMMA SaveStep ==
  ASSUME IInv, NEW v \in Views, Save(v)
  PROVE  IInv'
<1>1. /\ Typed /\ AtOK /\ DraftOK /\ Open(v)
      /\ UNCHANGED <<written, draft, live, runtime, docs, pending, at, callbacks, crossed>>
  BY DEF IInv, Save
<1>2. spent'.views = spent.views
      /\ spent' \in [views : 0 .. MaxViews, typed : 0 .. MaxTyped, saves : 0 .. MaxSaves,
                     others : 0 .. MaxOthers, clients : 1 .. MaxClients]
  <2>1. spent' = [spent EXCEPT !.saves = spent.saves + 1]
    BY DEF Save, Count
  <2>2. spent.saves + 1 \in 0 .. MaxSaves
    BY <1>1, Bounds, Counted DEF Save
  <2>3. spent \in [views : 0 .. MaxViews, typed : 0 .. MaxTyped, saves : 0 .. MaxSaves,
                   others : 0 .. MaxOthers, clients : 1 .. MaxClients]
    BY <1>1 DEF Typed
  <2> QED BY <2>1, <2>2, <2>3
<1>3. DraftOK'
  BY <1>1 DEF DraftOK, Latest
<1>4. CASE ~docs[v].confirm /\ GiveSave(v, FALSE) /\ panels' = panels
  <2>1. docs[v].is \in {"open", "closed"}
    BY <1>1 DEF Open
  <2>2. /\ jobs' \in Seq(Jobs) /\ jobs' # <<>> /\ (jobs # <<>> => Head(jobs') = Head(jobs))
        /\ Queue \subseteq Queue'
        /\ \A y \in Queue' : y \in Queue \/ (ItemOK(y)' /\ y.kind # "draft")
        /\ \A a, b \in Queue' : Before(a, b)' => Before(a, b) \/ InOrder(a, b)'
    BY <1>1, <1>4, <2>1, SaveGiven
  <2>3. Typed'
    BY <1>1, <1>2, <1>4, <2>2 DEF Typed
  <2>4. Closings
    BY <1>1, <1>2, <1>4, Versions DEF Closings, Latest
  <2>5. at # "start" => jobs' # <<>> /\ Head(jobs') = Head(jobs)
    BY <1>1, <2>2 DEF AtOK
  <2>6. /\ SessionKept
        /\ \A w \in Views : pending'[w] # NoOwner =>
             /\ docs'[w] = docs[w]
             /\ Same(pending[w])' \/ (at' = "opened" /\ Head(jobs').view = w)
    BY <1>1, <2>5, StillWaiting
  <2>7. \A x \in Items :
          x \in Queue /\ x \in Queue' /\ x.kind = "open" => docs'[x.view] = docs[x.view]
    BY <1>1
  <2> QED BY <1>1, <1>3, <2>2, <2>3, <2>4, <2>5, <2>6, <2>7, ClosingStep
<1>5. CASE jobs' = jobs /\ panels' = panels \cup {[asks |-> "overwrite", view |-> v]}
  <2>1. PICK q : q = [asks |-> "overwrite", view |-> v]
    OBVIOUS
  <2>2. /\ q \in [asks : {"recovery", "overwrite"}, view : Views]
        /\ q.asks = "overwrite" /\ q.view = v /\ panels' = panels \cup {q}
    BY <1>5, <2>1
  <2>3. Typed'
    BY <1>1, <1>2, <1>5, <2>2 DEF Typed
  <2>4. Closings
    BY <1>1, <1>2, <2>2, Versions DEF Closings, Latest
  <2>5. at # "start" => jobs' # <<>> /\ Head(jobs') = Head(jobs)
    BY <1>1, <1>5 DEF AtOK
  <2>6. /\ SessionKept
        /\ \A w \in Views : pending'[w] # NoOwner =>
             /\ docs'[w] = docs[w]
             /\ Same(pending[w])' \/ (at' = "opened" /\ Head(jobs').view = w)
    BY <1>1, <2>5, StillWaiting
  <2>7. Queue' = Queue /\ \A a, b : Before(a, b)' => Before(a, b)
    BY <1>1, <1>5 DEF Queue, Before
  <2>8. \A x \in Items :
          x \in Queue /\ x \in Queue' /\ x.kind = "open" => docs'[x.view] = docs[x.view]
    BY <1>1
  <2> QED BY <1>1, <1>3, <2>3, <2>4, <2>5, <2>6, <2>7, <2>8, ClosingStep
<1> QED BY <1>4, <1>5 DEF Save

LEMMA ConfirmOverwriteStep ==
  ASSUME IInv, NEW p \in panels, ConfirmOverwrite(p)
  PROVE  IInv'
<1>1. /\ Typed /\ AtOK /\ DraftOK /\ PanelOK(p) /\ p.view \in Views
      /\ p.asks = "overwrite" /\ panels' \subseteq panels
      /\ UNCHANGED <<written, draft, live, runtime, docs, pending, at, callbacks, crossed, spent>>
  BY DEF IInv, PanelsOK, Typed, ConfirmOverwrite
<1>2. DraftOK'
  BY <1>1 DEF DraftOK, Latest
<1>3. Closings
  BY <1>1, Versions DEF Closings, Latest
<1>4. \A x \in Items :
        x \in Queue /\ x \in Queue' /\ x.kind = "open" => docs'[x.view] = docs[x.view]
  BY <1>1
<1>5. CASE GiveSave(p.view, TRUE)
  <2>1. docs[p.view].is \in {"open", "closed"}
    BY <1>1 DEF PanelOK
  <2>2. /\ jobs' \in Seq(Jobs) /\ jobs' # <<>> /\ (jobs # <<>> => Head(jobs') = Head(jobs))
        /\ Queue \subseteq Queue'
        /\ \A y \in Queue' : y \in Queue \/ (ItemOK(y)' /\ y.kind # "draft")
        /\ \A a, b \in Queue' : Before(a, b)' => Before(a, b) \/ InOrder(a, b)'
    BY <1>1, <1>5, <2>1, SaveGiven
  <2>3. Typed'
    BY <1>1, <2>2 DEF Typed
  <2>4. at # "start" => jobs' # <<>> /\ Head(jobs') = Head(jobs)
    BY <1>1, <2>2 DEF AtOK
  <2>5. /\ SessionKept
        /\ \A w \in Views : pending'[w] # NoOwner =>
             /\ docs'[w] = docs[w]
             /\ Same(pending[w])' \/ (at' = "opened" /\ Head(jobs').view = w)
    BY <1>1, <2>4, StillWaiting
  <2> QED BY <1>1, <1>2, <1>3, <1>4, <2>2, <2>3, <2>4, <2>5, ClosingStep
<1>6. CASE jobs' = jobs
  <2>1. Typed'
    BY <1>1, <1>6 DEF Typed
  <2>2. at # "start" => jobs' # <<>> /\ Head(jobs') = Head(jobs)
    BY <1>1, <1>6 DEF AtOK
  <2>3. /\ SessionKept
        /\ \A w \in Views : pending'[w] # NoOwner =>
             /\ docs'[w] = docs[w]
             /\ Same(pending[w])' \/ (at' = "opened" /\ Head(jobs').view = w)
    BY <1>1, <2>2, StillWaiting
  <2>4. Queue' = Queue /\ \A a, b : Before(a, b)' => Before(a, b)
    BY <1>1, <1>6 DEF Queue, Before
  <2> QED BY <1>1, <1>2, <1>3, <1>4, <2>1, <2>2, <2>3, <2>4, ClosingStep
<1> QED BY <1>5, <1>6 DEF ConfirmOverwrite

\* A version more.
LEMMA VersionAdded ==
  ASSUME IInv, NEW text \in Texts, written' = Append(written, text),
         UNCHANGED <<draft, docs, pending, panels, crossed>>, spent'.views = spent.views
  PROVE  /\ written' \in Seq(Texts) /\ Len(written') > 0
         /\ Latest \in Nat /\ Latest' = Latest + 1 /\ written'[Latest + 1] = text
         /\ Closings /\ DraftOK'
<1>1. written \in Seq(Texts) /\ DraftOK /\ draft \in Drafts /\ draft.base \in Nat
  BY DEF IInv, Typed, Drafts
<1>2. /\ written' \in Seq(Texts) /\ Len(written') > 0
      /\ Latest \in Nat /\ Latest' = Latest + 1 /\ written'[Latest + 1] = text
      /\ \A e \in 1 .. Latest : written'[e] = written[e]
  BY <1>1 DEF Latest
<1>3. Closings
  <2>1. Latest <= Latest'
    <3>1. \A n \in Nat : \A m : m = n + 1 => n <= m
      OBVIOUS
    <3> QED BY <1>2, <3>1, Zenon
  <2>2. panels' = panels /\ docs' = docs /\ pending' = pending /\ draft' = draft
        /\ crossed' = crossed
    OBVIOUS
  <2> QED BY <1>2, <2>1, <2>2 DEF Closings
<1>4. DraftOK'
  BY <1>1, <1>2 DEF DraftOK
<1> QED BY <1>2, <1>3, <1>4

LEMMA OtherCommitsStep ==
  ASSUME IInv, OtherCommits
  PROVE  IInv'
<1>1. /\ Typed /\ AtOK
      /\ UNCHANGED <<draft, live, runtime, docs, pending, panels, jobs, at, callbacks, crossed>>
  BY DEF IInv, OtherCommits
<1>2. /\ spent.typed \in Nat /\ spent.others \in Nat /\ spent.typed <= MaxTyped
      /\ spent.others < MaxOthers
  BY <1>1, Bounds, Counted DEF OtherCommits
<1>3. spent'.views = spent.views
      /\ spent' \in [views : 0 .. MaxViews, typed : 0 .. MaxTyped, saves : 0 .. MaxSaves,
                     others : 0 .. MaxOthers, clients : 1 .. MaxClients]
  <2>1. spent' = [spent EXCEPT !.others = spent.others + 1]
    BY DEF OtherCommits, Count
  <2>2. spent.others + 1 \in 0 .. MaxOthers
    BY <1>2, Bounds
  <2>3. spent \in [views : 0 .. MaxViews, typed : 0 .. MaxTyped, saves : 0 .. MaxSaves,
                   others : 0 .. MaxOthers, clients : 1 .. MaxClients]
    BY <1>1 DEF Typed
  <2> QED BY <2>1, <2>2, <2>3
<1>4. PICK text \in Texts : text = NewText
  BY <1>2, Bounds DEF NewText, Texts
<1>5. written' = Append(written, text)
  BY <1>4 DEF OtherCommits
<1>6. written' \in Seq(Texts) /\ Len(written') > 0 /\ Closings /\ DraftOK'
  BY <1>1, <1>3, <1>5, VersionAdded
<1>7. Typed'
  BY <1>1, <1>3, <1>6 DEF Typed
<1>8. at # "start" => jobs' # <<>> /\ Head(jobs') = Head(jobs)
  BY <1>1 DEF AtOK
<1>9. /\ SessionKept
      /\ \A w \in Views : pending'[w] # NoOwner =>
           /\ docs'[w] = docs[w]
           /\ Same(pending[w])' \/ (at' = "opened" /\ Head(jobs').view = w)
  BY <1>1, <1>8, StillWaiting
<1>10. Queue' = Queue /\ \A a, b : Before(a, b)' => Before(a, b)
  BY <1>1 DEF Queue, Before
<1>11. \A x \in Items :
         x \in Queue /\ x \in Queue' /\ x.kind = "open" => docs'[x.view] = docs[x.view]
  BY <1>1
<1> QED BY <1>1, <1>6, <1>7, <1>8, <1>9, <1>10, <1>11, ClosingStep

\* A save that inexd accepts is of the etag that an open view of it has; so
\* there is no answer on its way that the view did not hear of yet.
LEMMA Accepted ==
  ASSUME IInv, NEW j \in Jobs, j \in Queue, j.kind = "save", j.etag = Latest
  PROVE  /\ j.view \in Views /\ j.text \in Texts /\ j.version \in Nat /\ SaveJobOK(j)
         /\ Open(j.view) => docs[j.view].etag = Latest /\ docs[j.view].saved <= j.version
         /\ \A y \in Queue : y.kind = "saved" /\ y.view = j.view => ~Open(j.view)
<1>1. Typed /\ DocsOK /\ ItemsOK /\ j \in Items
  BY DEF IInv, Items
<1>2. j.view \in Views /\ SaveJobOK(j) /\ j.version \in Nat /\ Latest \in Nat \ {0}
  BY <1>1, Fields, Versions DEF ItemsOK, ItemOK, IsSave
<1>3. j.text \in Texts
  BY <1>2 DEF SaveJobOK
<1>4. Open(j.view) => docs[j.view].etag = Latest /\ docs[j.view].saved <= j.version
  <2>1. Open(j.view) => docs[j.view].etag \in 1 .. Latest
    BY <1>1, <1>2 DEF DocsOK, DocOK
  <2>2. Open(j.view) => docs[j.view].etag = Latest
    BY <1>2, <2>1 DEF SaveJobOK
  <2> QED BY <1>2, <2>2 DEF SaveJobOK
<1>5. ASSUME NEW y \in Queue, y.kind = "saved", y.view = j.view
      PROVE  ~Open(j.view)
  <2>1. SavedOK(y) /\ y.etag \in Nat
    BY <1>1, <1>5, Queues, Fields DEF ItemsOK, ItemOK, IsSave
  <2> QED BY <1>2, <1>4, <1>5, <2>1 DEF SavedOK
<1> QED BY <1>2, <1>3, <1>4, <1>5

LEMMA WorkSaveStep ==
  ASSUME IInv, jobs # <<>>, NEW j, j = Head(jobs), WorkSave(j)
  PROVE  IInv'
<1>1. /\ Typed /\ AtOK /\ DraftOK /\ ItemsOK /\ OrderOK /\ DocsOK
      /\ j.kind = "save" /\ jobs' = Tail(jobs)
      /\ UNCHANGED <<draft, runtime, docs, pending, panels, at, crossed, spent>>
  BY DEF IInv, WorkSave
<1>2. j \in Queue /\ j \in Jobs /\ j \in Items /\ jobs' \in Seq(Jobs)
  BY <1>1, Queues, Tailed DEF Typed, Items
<1>3. at = "start"
  BY <1>1 DEF AtOK, Typed
<1>4. AtOK' /\ (at # "start" => jobs' # <<>> /\ Head(jobs') = Head(jobs))
  BY <1>1, <1>3 DEF AtOK
<1>5. /\ SessionKept
      /\ \A w \in Views : pending'[w] # NoOwner =>
           /\ docs'[w] = docs[w]
           /\ Same(pending[w])' \/ (at' = "opened" /\ Head(jobs').view = w)
  BY <1>1, <1>4, StillWaiting
<1>6. \A x \in Items :
        x \in Queue /\ x \in Queue' /\ x.kind = "open" => docs'[x.view] = docs[x.view]
  BY <1>1
<1>7. CASE ~(j.client \in live /\ j.etag = Latest)
  <2>1. UNCHANGED <<written, callbacks, live>>
    BY <1>7 DEF WorkSave
  <2>2. Typed' /\ DraftOK'
    BY <1>1, <1>2, <2>1 DEF Typed, DraftOK, Latest
  <2>3. Closings
    BY <1>1, <2>1, Versions DEF Closings, Latest
  <2>4. /\ Queue' \subseteq Queue
        /\ \A z \in Queue : z \in Queue' \/ z = Head(jobs)
        /\ \A a, b : Before(a, b)' => Before(a, b)
    BY <1>1, <2>1, QueueDone
  <2> QED BY <1>1, <1>4, <1>5, <1>6, <2>2, <2>3, <2>4, ClosingStep
<1>8. CASE j.client \in live /\ j.etag = Latest
  <2>1. /\ j.view \in Views /\ j.text \in Texts /\ j.version \in Nat /\ SaveJobOK(j)
        /\ Open(j.view) => docs[j.view].etag = Latest /\ docs[j.view].saved <= j.version
        /\ \A y \in Queue : y.kind = "saved" /\ y.view = j.view => ~Open(j.view)
    BY <1>1, <1>2, <1>8, Accepted
  <2>2. written' = Append(written, j.text)
    BY <1>8 DEF WorkSave
  <2>3. /\ written' \in Seq(Texts) /\ Len(written') > 0
        /\ Latest \in Nat /\ Latest' = Latest + 1 /\ written'[Latest + 1] = j.text
        /\ Closings /\ DraftOK'
    BY <1>1, <2>1, <2>2, VersionAdded
  <2>4. j \in [kind : {"save"}, view : Views, client : Clients, gen : Nat,
               version : Nat, text : Texts \cup {-1}, etag : Nat, seen : Nat,
               confirmed : BOOLEAN]
    BY <1>1, <1>2 DEF Jobs
  <2>5. PICK y \in Calls :
          /\ callbacks' = Append(callbacks, y)
          /\ live' \subseteq live
          /\ Trivial(y) \/ (/\ y.kind = "saved" /\ y.view = j.view
                            /\ y.version = j.version /\ y.etag = Latest + 1)
    <3>1. CASE Post([kind |-> "lost", client |-> j.client]) /\ live' = live \ {j.client}
      <4>1. PICK y \in Calls : y = [kind |-> "lost", client |-> j.client]
        BY <2>4 DEF Calls
      <4>2. Trivial(y)
        BY <4>1 DEF Trivial
      <4> QED BY <3>1, <4>1, <4>2 DEF Post
    <3>2. CASE /\ Post([kind |-> "saved", view |-> j.view, gen |-> j.gen,
                        version |-> j.version, etag |-> Latest + 1])
               /\ live' = live
      <4>1. PICK y \in Calls : y = [kind |-> "saved", view |-> j.view, gen |-> j.gen,
                                    version |-> j.version, etag |-> Latest + 1]
        <5>1. Latest + 1 \in Nat /\ j.gen \in Nat
          BY <2>3, <2>4
        <5> QED BY <2>1, <5>1 DEF Calls
      <4> QED BY <3>2, <4>1 DEF Post
    <3> QED BY <1>8, <3>1, <3>2 DEF WorkSave
  <2>6. Typed'
    <3>1. callbacks' \in Seq(Calls)
      BY <1>1, <2>5, Appended DEF Typed
    <3> QED BY <1>1, <1>2, <2>3, <2>5, <3>1 DEF Typed
  <2>7. /\ Queue' \subseteq Queue \cup {y}
        /\ \A z \in Queue : z \in Queue' \/ z = Head(jobs)
        /\ \A a, b : Before(a, b)' =>
             \/ Before(a, b)
             \/ a \in Queue /\ Before(a, Head(jobs)) /\ b = y
             \/ b \in Queue /\ Before(Head(jobs), b) /\ a = y
    BY <1>1, <2>5, QueueAnswered
  <2>8. ItemOK(y)' /\ y.kind # "draft"
    <3>1. CASE Trivial(y)
      BY <3>1, TriviallyAfter
    <3>2. CASE ~Trivial(y)
      <4>1. /\ y.kind = "saved" /\ y.view = j.view /\ y.version = j.version
            /\ y.etag = Latest + 1
        BY <2>5, <3>2
      <4>2. SavedOK(y)'
        BY <1>1, <2>1, <2>3, <4>1 DEF SavedOK, SaveJobOK, SaveOnItsWay, Open
      <4> QED BY <4>1, <4>2 DEF ItemOK
    <3> QED BY <3>1, <3>2
  <2>9. ASSUME NEW a \in Queue, Before(a, j) PROVE InOrder(a, y)'
    <3>1. CASE Trivial(y)
      BY <3>1, TriviallyAfter
    <3>2. CASE ~Trivial(y)
      <4>1. InOrder(a, j)
        BY <1>1, <1>2, <2>9 DEF OrderOK
      <4> QED BY <1>1, <2>1, <2>5, <3>2, <4>1 DEF InOrder, IsDraft, IsSave, Open
    <3> QED BY <3>1, <3>2
  <2>10. ASSUME NEW b \in Queue PROVE InOrder(y, b)'
    <3>1. CASE Trivial(y)
      BY <3>1, TriviallyAfter
    <3>2. CASE ~Trivial(y)
      BY <1>1, <2>1, <2>5, <3>2 DEF InOrder, IsDraft, IsSave, Open
    <3> QED BY <3>1, <3>2
  <2> QED BY <1>1, <1>4, <1>5, <1>6, <2>3, <2>6, <2>7, <2>8, <2>9, <2>10, ClosingStep
<1> QED BY <1>7, <1>8

LEMMA SavedStep ==
  ASSUME IInv, callbacks # <<>>, NEW c, c = Head(callbacks), Saved(c)
  PROVE  IInv'
<1>1. /\ Typed /\ ItemsOK /\ OrderOK /\ DraftOK /\ c.kind = "saved"
      /\ callbacks' = Tail(callbacks) /\ jobs' = jobs /\ at' = at
  BY DEF IInv, Saved
<1>2. /\ callbacks' \in Seq(Calls) /\ c \in Queue /\ c \in Items
      /\ at # "start" => jobs' # <<>> /\ Head(jobs') = Head(jobs)
      /\ Queue' \subseteq Queue /\ \A a, b : Before(a, b)' => Before(a, b)
      /\ \A z \in Queue' : Before(c, z)
      /\ \A y \in Queue : y.kind = "open" => y \in Queue'
  BY <1>1, MainThread
<1>3. c.view \in Views /\ c.version \in Nat /\ c.etag \in Nat /\ SavedOK(c)
  BY <1>1, <1>2, Fields DEF ItemsOK, ItemOK, IsSave
<1>4. CASE ~(Open(c.view) /\ Current(c.gen))
  BY <1>1, <1>4, CallIgnored DEF Saved
<1>5. CASE Open(c.view) /\ Current(c.gen)
  <2> DEFINE v == c.view
             u == docs[v]
  <2>1. /\ u \in Document /\ DocOK(v) /\ Open(v) /\ u.version \in Nat /\ u.saved \in Nat
        /\ u.drafted \in Nat \cup {-1} /\ u.etag \in Nat /\ u.timers \in Nat
        /\ u.is = "open" /\ u.confirm \in BOOLEAN
    BY <1>3, <1>5 DEF Typed, IInv, DocsOK, Document, Open
  <2>2. PICK all \in BOOLEAN : all = (c.version = u.version)
    OBVIOUS
  <2>3. PICK confirm \in BOOLEAN : confirm = (u.confirm /\ ~all)
    OBVIOUS
  <2>4. PICK saved \in Nat : saved = IF all THEN c.version ELSE u.saved
    BY <1>3, <2>1
  <2>5. PICK drafted \in Nat \cup {-1} : drafted = Highest(u.drafted, c.version)
    BY <1>3, <2>1 DEF Highest
  <2>6. PICK m \in Document :
          m = [u EXCEPT !.etag = c.etag, !.base = c.etag, !.seen = c.etag, !.saved = saved,
                        !.confirm = confirm, !.drafted = drafted]
    <3>1. ASSUME NEW w \in Document, NEW etag \in Nat
          PROVE  [w EXCEPT !.etag = etag, !.base = etag, !.seen = etag, !.saved = saved,
                           !.confirm = confirm, !.drafted = drafted] \in Document
      BY DEF Document
    <3> QED BY <1>3, <2>1, <3>1
  <2>7. m = MarkSaved(u, c)
    <3>1. MarkSaved(u, c) =
            [u EXCEPT !.etag = c.etag, !.base = c.etag, !.seen = c.etag,
                      !.saved = IF c.version = u.version THEN c.version ELSE u.saved,
                      !.confirm = (u.confirm /\ ~(c.version = u.version)),
                      !.drafted = Highest(u.drafted, c.version)]
      BY DEF MarkSaved
    <3>2. confirm = (u.confirm /\ ~(c.version = u.version))
      BY <2>2, <2>3
    <3>3. saved = IF c.version = u.version THEN c.version ELSE u.saved
      BY <2>2, <2>4
    <3> QED BY <2>5, <2>6, <3>1, <3>2, <3>3
  <2>8. /\ m.is = "open" /\ m.text = u.text /\ m.version = u.version
        /\ m.saved = saved /\ m.drafted = drafted /\ m.etag = c.etag
        /\ m.base = c.etag /\ m.seen = c.etag /\ m.confirm = confirm /\ m.gen = u.gen
        /\ m.timers = u.timers
    BY <2>1, <2>6 DEF Document
  <2>9. PICK timers \in Nat : timers = m.timers + IF Dirty(m) THEN 1 ELSE 0
    BY <2>1, <2>8
  <2>10. PICK d \in Document : d = [m EXCEPT !.timers = timers]
    BY DEF Document
  <2>11. /\ d.is = "open" /\ d.text = u.text /\ d.version = u.version
         /\ d.saved = saved /\ d.drafted = drafted /\ d.etag = c.etag
         /\ d.base = c.etag /\ d.seen = c.etag /\ d.confirm = confirm /\ d.gen = u.gen
    BY <2>8, <2>10 DEF Document
  <2>12. docs' = [docs EXCEPT ![v] = d]
    BY <1>5, <2>7, <2>9, <2>10 DEF Saved
  <2>13. draft' = IF Dirty(m) THEN draft ELSE NoDraft
    BY <1>5, <2>7 DEF Saved
  <2>14. UNCHANGED <<written, crossed, runtime>> /\ Latest' = Latest
    BY DEF Saved, Latest
  <2>15. Changed(v, d)
    BY <2>12 DEF Saved, Changed
  <2> HIDE DEF u
  <2>16. docs' \in [Views -> Document] /\ docs'[v] = d
    BY <1>1, <1>3, <2>12 DEF Typed
  <2>17. Typed'
    BY <1>1, <1>2, <2>13, <2>16, Defaults DEF Saved, Typed
  <2>18. DraftOK'
    BY <1>1, <2>13, <2>14, Versions DEF DraftOK, NoDraft
  <2>19. /\ u.saved <= c.version /\ c.version <= u.version /\ u.etag < c.etag
         /\ c.etag <= Latest /\ (all => u.text = written[c.etag])
         /\ ~crossed /\ Dirty(u) /\ c.version < u.version => u.drafted < u.version
    BY <1>3, <2>1, <2>2 DEF SavedOK, SaveOnItsWay, u
  <2>20. /\ u.saved <= u.version /\ u.drafted <= u.version
         /\ runtime.client # 0 /\ u.gen = runtime.generation
         /\ u.etag \in 1 .. Latest /\ u.text \in Texts
    BY <2>1 DEF DocOK, u
  <2>21. /\ Dirty(d) => ~all /\ Dirty(u) /\ Dirty(m) /\ c.version < u.version
         /\ ~Dirty(d) => all
    <3>1. CASE all
      BY <2>2, <2>4, <2>11, <3>1 DEF Dirty
    <3>2. CASE ~all
      <4>1. c.version < u.version
        <5>1. c.version # u.version
          BY <2>2, <3>2
        <5>2. c.version <= u.version /\ c.version \in Nat /\ u.version \in Nat
          BY <1>3, <2>1, <2>19
        <5> QED BY <5>1, <5>2
      <4>2. saved = u.saved
        BY <2>4, <3>2
      <4>3. u.saved # u.version
        <5>1. /\ u.saved <= c.version /\ c.version \in Nat /\ u.version \in Nat
              /\ u.saved \in Nat
          BY <1>3, <2>1, <2>19
        <5> QED BY <4>1, <5>1
      <4> QED BY <2>8, <2>11, <3>2, <4>1, <4>2, <4>3 DEF Dirty
    <3> QED BY <3>1, <3>2
  <2>22. /\ drafted <= u.version
         /\ ~crossed /\ Dirty(d) => drafted < u.version
    <3>1. drafted \in {u.drafted, c.version}
      BY <2>5 DEF Highest
    <3>2. ~crossed /\ Dirty(d) => u.drafted < u.version /\ c.version < u.version
      BY <2>19, <2>21
    <3> QED BY <2>19, <2>20, <3>1, <3>2
  <2>23. DocOK(v)'
    <3>1. saved <= u.version /\ c.etag \in 1 .. Latest
      BY <1>1, <1>3, <2>1, <2>2, <2>4, <2>19, <2>20, Versions
    <3>2. ~(~crossed' /\ Dirty(d) /\ d.drafted = d.version)
      BY <2>1, <2>11, <2>14, <2>22
    <3>3. ~Dirty(d) => d.text = written'[d.etag]
      BY <2>11, <2>14, <2>19, <2>21
    <3> QED BY <2>11, <2>14, <2>16, <2>19, <2>20, <2>22, <3>1, <3>2, <3>3 DEF DocOK, Open
  <2>24. OnTheirWay(v)
    <3> SUFFICES ASSUME NEW x \in Items, x \in Queue, x \in Queue',
                        IsDraft(x) \/ IsSave(x), x.view = v
                 PROVE  ItemOK(x)'
      BY DEF OnTheirWay
    <3>1. /\ ItemOK(x) /\ InOrder(c, x) /\ x.version \in Nat
          /\ IsSave(x) => x.etag \in Nat
      BY <1>1, <1>2, Fields DEF ItemsOK, OrderOK
    <3>2. x.kind # "saved"
      BY <1>1, <1>5, <3>1 DEF InOrder
    <3>3. docs'[x.view] = d /\ x.view = v
      BY <2>16
    <3>4. x.kind = "draft" => DraftJobOK(x)'
      <4>1. ~crossed => DraftOnItsWay(x)'
        BY <2>1, <2>11, <2>22, <3>3 DEF DraftOnItsWay
      <4> QED BY <2>1, <2>11, <2>14, <3>1, <3>3, <4>1 DEF ItemOK, DraftJobOK, Open, u
    <3>5. x.kind = "save" => SaveJobOK(x)'
      <4> SUFFICES ASSUME x.kind = "save" PROVE SaveJobOK(x)'
        OBVIOUS
      <4>1. SaveJobOK(x) /\ x.etag \in Nat
        BY <3>1 DEF ItemOK, IsSave
      <4>2. ~crossed => SaveOnItsWay(x)'
        BY <2>1, <2>11, <2>22, <3>3 DEF SaveOnItsWay
      <4>3. x.etag <= u.etag /\ x.etag < c.etag
        BY <1>3, <2>1, <2>19, <4>1 DEF SaveJobOK, u
      <4> QED BY <1>3, <2>1, <2>11, <2>14, <3>3, <4>1, <4>2, <4>3 DEF SaveJobOK, Open, u
    <3>6. x.kind = "drafted" => DraftedOK(x)'
      <4> SUFFICES ASSUME x.kind = "drafted" PROVE DraftedOK(x)'
        OBVIOUS
      <4>1. DraftedOK(x)
        BY <3>1 DEF ItemOK
      <4>2. ~crossed => DraftOnItsWay(x)'
        BY <2>1, <2>11, <2>22, <3>3 DEF DraftOnItsWay
      <4>3. Dirty(d) => Dirty(u) /\ draft' = draft
        BY <2>13, <2>21
      <4> QED BY <2>1, <2>11, <2>14, <3>3, <4>1, <4>2, <4>3 DEF DraftedOK, Open, u
    <3> QED BY <3>2, <3>4, <3>5, <3>6 DEF ItemOK, IsDraft, IsSave
  <2> QED BY <1>2, <1>3, <1>5, <2>11, <2>15, <2>17, <2>18, <2>23, <2>24, ChangedStep
<1> QED BY <1>4, <1>5

-----------------------------------------------------------------------------
(* The specification.                                                      *)

LEMMA Shorter ==
  ASSUME NEW S, NEW s \in Seq(S), s # <<>>
  PROVE  Tail(s) # s
<1>1. ASSUME Tail(s) = s PROVE FALSE
  <2>1. Len(Tail(s)) = Len(s) - 1 /\ Len(s) \in Nat
    OBVIOUS
  <2>2. Len(Tail(s)) = Len(s)
    BY <1>1
  <2> QED BY <2>1, <2>2
<1> QED BY <1>1

LEMMA InitHolds == Init => IInv
<1> SUFFICES ASSUME Init PROVE IInv
  OBVIOUS
<1>1. /\ written = <<0>> /\ jobs = <<>> /\ callbacks = <<>>
      /\ 0 \in Texts /\ MaxClients \in Nat \ {0}
  BY Bounds DEF Init, Texts
<1>2. /\ written \in Seq(Texts) /\ Len(written) = 1 /\ written[1] = 0
      /\ jobs \in Seq(Jobs) /\ callbacks \in Seq(Calls)
  BY <1>1
<1>3. Queue = {}
  BY <1>1 DEF Queue, Range
<1>4. Typed
  <2>1. spent \in [views : 0 .. MaxViews, typed : 0 .. MaxTyped, saves : 0 .. MaxSaves,
                   others : 0 .. MaxOthers, clients : 1 .. MaxClients]
    BY Bounds DEF Init
  <2>2. runtime \in [client : Clients, generation : Nat, unlocking : BOOLEAN]
    BY <1>1 DEF Init, Clients
  <2>3. docs \in [Views -> Document] /\ pending \in [Views -> Owners] /\ draft \in Drafts
    BY Defaults DEF Init
  <2>4. live \subseteq 1 .. MaxClients
    BY <1>1 DEF Init
  <2>5. Len(written) > 0
    BY <1>2
  <2> QED BY <1>2, <2>1, <2>2, <2>3, <2>4, <2>5 DEF Init, Typed
<1>5. \A v \in Views : docs[v] = NoView /\ pending[v] = NoOwner
  BY DEF Init
<1>6. DocsOK
  <2> SUFFICES ASSUME NEW v \in Views PROVE DocOK(v) /\ FreshOK(v)
    BY DEF DocsOK
  <2>1. docs[v] = NoView /\ spent.views = 0 /\ v > 0 /\ Latest = 1
    BY <1>2, <1>5, Bounds DEF Init, Views, Latest
  <2>2. NoView.is = "new" /\ NoView.saved = 0 /\ NoView.version = 0 /\ NoView.drafted = 0
        /\ NoView.base = 0 /\ NoView.etag = 0
    BY DEF NoView
  <2> QED BY <2>1, <2>2 DEF DocOK, FreshOK, Open
<1>7. PendingsOK /\ PanelsOK /\ DraftOK /\ AtOK
  BY <1>2, <1>5 DEF Init, PendingsOK, PendingOK, PanelsOK, DraftOK, NoDraft, AtOK, Latest
<1>8. ItemsOK /\ OrderOK
  BY <1>3 DEF ItemsOK, OrderOK
<1>9. OneAlive /\ EarlierDrafts
  BY <1>5 DEF OneAlive, EarlierDrafts, Alive, NoView
<1> QED BY <1>4, <1>6, <1>7, <1>8, <1>9 DEF IInv

LEMMA StepHolds == IInv /\ [Next]_vars => IInv'
<1> SUFFICES ASSUME IInv, [Next]_vars PROVE IInv'
  OBVIOUS
<1>1. CASE UNCHANGED vars
  <2>1. UNCHANGED <<written, draft, live, runtime, docs, pending, panels, jobs, at,
                    callbacks, crossed, spent>>
    BY <1>1 DEF vars
  <2>2. /\ Typed' = Typed /\ DocsOK' = DocsOK /\ PendingsOK' = PendingsOK
        /\ PanelsOK' = PanelsOK /\ DraftOK' = DraftOK /\ AtOK' = AtOK
    BY <2>1 DEF Typed, DocsOK, DocOK, FreshOK, PendingsOK, PendingOK, PanelsOK, PanelOK,
                Offered, DraftOK, AtOK, Open, Same, Latest
  <2>3. Queue' = Queue /\ \A a, b : Before(a, b)' <=> Before(a, b)
    BY <2>1 DEF Queue, Before
  <2>4. \A x : ItemOK(x) => ItemOK(x)'
    BY <2>1 DEF ItemOK, OpenJobOK, DraftJobOK, SaveJobOK, DraftedOK, SavedOK, Offered,
                DraftOnItsWay, SaveOnItsWay, Open, Latest
  <2>5. \A a, b : InOrder(a, b) => InOrder(a, b)'
    BY <2>1 DEF InOrder, Open
  <2>6. (ItemsOK => ItemsOK') /\ (OrderOK => OrderOK')
    BY <2>3, <2>4, <2>5 DEF ItemsOK, OrderOK
  <2>7. (OneAlive => OneAlive') /\ (EarlierDrafts => EarlierDrafts')
    BY <2>1, <2>3 DEF OneAlive, EarlierDrafts, Alive
  <2> QED BY <2>2, <2>6, <2>7 DEF IInv
<1>2. CASE User
  BY <1>2, BeginUnlockStep, PerformLockStep, OpenDocumentStep, ChooseRecoveryStep,
     ConfirmOverwriteStep, TypeStep, FlushSurvivorStep, CloseStep, SaveStep DEF User
<1>3. CASE Worker
  BY <1>3, WorkUnlockStep, WorkShutdownStep, WorkOpenStep, WorkReadDraftStep,
     WorkDecryptDraftStep, WorkLockDraftStep, WorkWriteDraftStep, WorkSaveStep DEF Worker
<1>4. CASE Callback
  BY <1>4, FinishUnlockStep, SessionLostStep, FinishPendingOpenStep, OfferRecoveryStep,
     DraftedStep, DraftFailedStep, SavedStep DEF Callback
<1>5. CASE Timer
  BY <1>5, BeginDraftStep DEF Timer
<1>6. CASE OtherCommits
  BY <1>6, OtherCommitsStep
<1>7. CASE \E c \in live : LoseSession(c)
  BY <1>7, LoseSessionStep
<1> QED BY <1>1, <1>2, <1>3, <1>4, <1>5, <1>6, <1>7 DEF Next

\* The inductive invariant holds in every state the client reaches.
THEOREM InvariantHolds == Spec => []IInv
<1> QED BY InitHolds, StepHolds, PTL DEF Spec

\* Every variable has its type, the counts and etags of a document are in
\* their ranges, in every state: TypeOK.
THEOREM TypeCorrect == Spec => []TypeOK
<1>1. IInv => TypeOK
  <2> SUFFICES ASSUME IInv PROVE TypeOK
    OBVIOUS
  <2>1. Typed /\ DocsOK /\ PendingsOK /\ DraftOK
    BY DEF IInv
  <2>2. draft.text \in Texts \cup {-1} /\ draft.base \in Nat /\ draft.seen = draft.base
        /\ draft.base <= Len(written) /\ Len(written) \in Nat
    BY <2>1 DEF Typed, DraftOK, Drafts, Latest
  <2>3. ASSUME NEW v \in Views
        PROVE  /\ docs[v].is \in {"new", "opening", "open", "closed"}
               /\ docs[v].saved <= docs[v].version /\ docs[v].drafted <= docs[v].version
               /\ {docs[v].etag, pending[v].etag} \subseteq 0 .. Len(written)
    <3>1. docs[v] \in Document /\ DocOK(v) /\ PendingOK(v)
      BY <2>1 DEF Typed, DocsOK, PendingsOK
    <3>2. docs[v].etag \in 0 .. Len(written)
      BY <2>2, <3>1 DEF DocOK, Latest
    <3>3. pending[v].etag \in 0 .. Len(written)
      BY <2>2, <3>1 DEF PendingOK, NoOwner, Latest
    <3> QED BY <3>1, <3>2, <3>3 DEF Document, DocOK
  <2>4. runtime.client \in 0 .. MaxClients /\ runtime.unlocking \in BOOLEAN
    BY <2>1 DEF Typed, Clients
  <2>5. \A p \in panels : p.view \in Views /\ p.asks \in {"recovery", "overwrite"}
    BY <2>1 DEF Typed
  <2>6. {draft.base, draft.seen} \subseteq 0 .. Len(written)
    BY <2>2
  <2> QED BY <2>1, <2>2, <2>3, <2>4, <2>5, <2>6 DEF Typed, TypeOK
<1> QED BY <1>1, InvariantHolds, PTL

\* The status line tells the truth: what it calls saved is what the vault
\* holds under the etag of the view, and what it calls drafted is the draft on
\* disk unless drafts crossed (StatusIsTrue).
THEOREM StatusTold == Spec => []StatusIsTrue
<1>1. IInv => StatusIsTrue
  <2> SUFFICES ASSUME IInv, NEW v \in Views, Open(v)
               PROVE  /\ ~Dirty(docs[v]) => docs[v].text = written[docs[v].etag]
                      /\ Dirty(docs[v]) /\ ~NeedsFlush(docs[v]) /\ ~crossed
                           => draft.text = docs[v].text
    BY DEF StatusIsTrue
  <2>1. docs[v] \in Document /\ DocOK(v)
    BY DEF IInv, Typed, DocsOK
  <2>2. docs[v].version \in Nat /\ docs[v].drafted \in Nat \cup {-1}
    BY <2>1 DEF Document
  <2> QED BY <2>1, <2>2 DEF DocOK, NeedsFlush
<1> QED BY <1>1, InvariantHolds, PTL

\* Plaintext in a view or waiting to be shown is of the session that is
\* installed, except for what the worker is about to give up
\* (PlaintextOfSession).
THEOREM PlaintextIsOfSession == Spec => []PlaintextOfSession
<1>1. IInv => PlaintextOfSession
  BY DEF IInv, DocsOK, DocOK, PendingsOK, PendingOK, PlaintextOfSession
<1> QED BY <1>1, InvariantHolds, PTL

\* A save replaces the version its text grew out of, unless the user confirmed
\* the overwriting (OverwriteConfirmed).
THEOREM OverwritesAreConfirmed == Spec => OverwriteConfirmed
<1> DEFINE Overwrite ==
             jobs # <<>> /\ Head(jobs).kind = "save" /\ jobs' = Tail(jobs) /\ written' # written
               => Head(jobs).seen = Latest \/ Head(jobs).confirmed
<1>1. IInv /\ [Next]_vars => [Overwrite]_vars
  <2> SUFFICES ASSUME IInv, [Next]_vars, jobs # <<>>, Head(jobs).kind = "save",
                      jobs' = Tail(jobs), written' # written
               PROVE  Head(jobs).seen = Latest \/ Head(jobs).confirmed
    BY DEF Overwrite
  <2>1. PICK j \in Jobs : j = Head(jobs) /\ j \in Queue
    BY Queues DEF IInv
  <2>2. SaveJobOK(j)
    BY <2>1 DEF IInv, ItemsOK, ItemOK
  <2>3. CASE Worker
    <3>1. WorkSave(j)
      BY <2>1, <2>3 DEF Worker, WorkUnlock, WorkShutdown, WorkOpen, WorkReadDraft,
                        WorkDecryptDraft, WorkLockDraft, WorkWriteDraft
    <3>2. j.etag = Latest
      BY <3>1 DEF WorkSave
    <3> QED BY <2>1, <2>2, <3>2 DEF SaveJobOK
  <2>4. CASE User \/ Callback \/ Timer
    BY <2>4 DEF User, BeginUnlock, PerformLock, OpenDocument, ChooseRecovery,
                ConfirmOverwrite, Type, FlushSurvivor, Close, Save, Callback, FinishUnlock,
                SessionLost, FinishPendingOpen, OfferRecovery, Drafted, DraftFailed, Saved,
                Timer, BeginDraft
  <2>5. CASE OtherCommits
    <3>1. jobs \in Seq(Jobs) /\ jobs' = jobs
      BY <2>5 DEF OtherCommits, IInv, Typed
    <3> QED BY <3>1, Shorter
  <2>6. CASE \E c \in live : LoseSession(c)
    BY <2>6 DEF LoseSession
  <2>7. CASE UNCHANGED vars
    BY <2>7 DEF vars
  <2> QED BY <2>3, <2>4, <2>5, <2>6, <2>7 DEF Next
<1> QED BY <1>1, InvariantHolds, PTL DEF Spec, OverwriteConfirmed
=============================================================================
