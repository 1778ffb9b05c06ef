--------------------------- MODULE CustomEditorProofs --------------------------
(***************************************************************************)
(* Proofs about the custom editor, for any number of edits, operations,    *)
(* pages, sessions and other clients' commits.  The first invariant, IInv, *)
(* holds with or without overlapping reverts and backups of a draft that   *)
(* is out of date; the second, KeepsInv, without them.                     *)
(***************************************************************************)
EXTENDS CustomEditor, TLAPS

-----------------------------------------------------------------------------
(* Types.                                                                  *)

Kinds == {"plain", "umbra", "gone"}
Methods == {"write", "read", "convert", "open", "project", "annotate", "draft", "release",
            "decrypt", "lockUmbra"} \cup Mutation
Version == [text : Texts, kind : Kinds]
Document ==
  [is : {"closed", "open", "frozen", "locked"}, text : Texts, revision : Nat,
   saved : Nat \cup {-1}, etag : Nat, umbra : BOOLEAN, stale : BOOLEAN, epoch : Nat,
   asked : Nat, gen : Nat, session : Generations]
Page == [up : BOOLEAN, text : Texts, epoch : Nat, timer : BOOLEAN, locked : BOOLEAN]
ToHost == [type : {"ready", "edit", "snapshot"}, epoch : Nat, text : Texts, ask : Nat]
ToPage == [type : {"content", "snapshotRequest"}, text : Texts, locked : BOOLEAN, ask : Nat]
Operation ==
  [at : Steps, session : 0 .. MaxSessions, doc : Nat, ask : Nat, rev : Nat, etag : Nat,
   text : Texts]
Answers ==
  [op : Op, method : Methods, ok : BOOLEAN, etag : Nat, text : Texts, umbra : BOOLEAN]
Counts == [typed : 0 .. MaxTyped, others : 0 .. MaxOthers, pages : Nat, started : Nat]

Typed ==
  /\ versions \in Seq(Version) /\ Len(versions) > 0
  /\ session \in [is : {"unlocked", "locked", "expired"}, gen : Generations]
  /\ umbra \in BOOLEAN /\ doc \in Document /\ page \in Page
  /\ toHost \in Seq(ToHost) /\ toPage \in Seq(ToPage)
  /\ ops \in [Op -> Operation] /\ calls \in [Generations -> Seq(Answers)]
  /\ draft \in [base : Nat, text : Texts] /\ spent \in Counts

-----------------------------------------------------------------------------
(* The inductive invariant.                                                *)

Now == Len(versions)
Plain == versions[Len(versions)].kind = "plain"
Present == doc.is \in {"open", "frozen"}
LockingUmbra == ops["lockUmbra"].at # "idle"

\* A document is of the session, shows its version while it is clean, and a
\* projection needs the key, or goes with the call that locks it.
DocOK ==
  /\ doc.saved <= doc.revision /\ doc.etag <= Now
  /\ Present =>
       /\ session.is = "unlocked" /\ doc.session = session.gen /\ doc.etag >= 1
       /\ ~Dirty(doc) => /\ doc.text = versions[doc.etag].text
                         /\ doc.umbra = (versions[doc.etag].kind = "umbra")
       /\ doc.umbra => ~Plain /\ (umbra \/ LockingUmbra)
  /\ ~Present => doc.text = {} /\ ~page.up /\ toPage = <<>>

DraftOK == draft.base <= Now

OpOK(o) ==
  /\ ops[o].doc <= doc.gen /\ ops[o].session <= session.gen /\ ops[o].etag <= Now
  /\ ops[o].at # "idle" => ops[o].session >= 1
  /\ o = "lockUmbra" => ops[o].at \in {"idle", "called"}
OpsOK == \A o \in Op : OpOK(o)

\* A call that was served: what the answer says of the version it names.
Told(c) ==
  /\ c.etag \in 1 .. Now
  /\ c.text = versions[c.etag].text /\ c.umbra = (versions[c.etag].kind = "umbra")

\* Answers that a document is opened or replaced with.
Shows(c) == c.method \in {"open", "read", "project", "annotate"}

\* A write that its document may still hear of: if that is as it was sent, it
\* is what was written.
WriteOK(c) ==
  /\ versions[c.etag].kind = "plain"
  /\ Present /\ doc.gen = ops[c.op].doc =>
       /\ ops[c.op].rev <= doc.revision
       /\ ops[c.op].rev = doc.revision => doc.text = versions[c.etag].text /\ ~doc.umbra

CallOK(g, c) ==
  /\ ops[c.op].at = "called" /\ ops[c.op].session = g
  /\ c.op = "lockUmbra" <=> c.method = "lockUmbra"
  /\ c.ok /\ c.method = "decrypt" => c.etag \in 1 .. Now
  /\ c.ok /\ c.method = "release" => c.etag <= Now
  /\ c.ok /\ c.method \notin {"release", "decrypt"} => Told(c)
  /\ c.ok /\ Shows(c) /\ c.umbra => ~Plain
  /\ c.ok /\ c.method = "write" => WriteOK(c)

CallsOK == \A g \in Generations : \A c \in Range(calls[g]) : CallOK(g, c)

\* An operation makes one call at a time.
OneEach(s) == \A i, k \in DOMAIN s : s[i].op = s[k].op => i = k
OneCall == \A g \in Generations : OneEach(calls[g])

\* What is shown of a projection when the key is gone has the call that locked
\* it right behind.
Private(c) == c.ok /\ Shows(c) /\ c.umbra
Followed(s) ==
  \A i \in DOMAIN s : Private(s[i]) => \E k \in DOMAIN s : i < k /\ s[k].op = "lockUmbra"
KeyOK == umbra \/ Followed(calls[session.gen])

IInv == Typed /\ DocOK /\ DraftOK /\ OpsOK /\ CallsOK /\ OneCall /\ KeyOK

-----------------------------------------------------------------------------
(* Queues of calls.                                                        *)

LEMMA Taking ==
  ASSUME NEW s \in Seq(Answers), s # <<>>, OneEach(s)
  PROVE  /\ Tail(s) \in Seq(Answers) /\ Head(s) \in Answers /\ Head(s) \in Range(s)
         /\ Range(Tail(s)) \subseteq Range(s) /\ OneEach(Tail(s))
         /\ \A y \in Range(Tail(s)) : y.op # Head(s).op
         /\ Followed(s) => Followed(Tail(s))
         /\ Followed(s) /\ Private(Head(s)) => \E y \in Range(Tail(s)) : y.op = "lockUmbra"
<1> DEFINE t == Tail(s)
           h == Head(s)
<1>1. /\ t \in Seq(Answers) /\ h \in Answers /\ h = s[1] /\ 1 \in DOMAIN s
      /\ DOMAIN s = 1 .. Len(s) /\ DOMAIN t = 1 .. Len(s) - 1 /\ Len(s) \in Nat
      /\ \A i \in 1 .. Len(s) - 1 : t[i] = s[i + 1]
  OBVIOUS
<1> HIDE DEF t, h
<1>2. \A i \in DOMAIN t : i + 1 \in DOMAIN s /\ i + 1 # 1 /\ t[i] = s[i + 1]
  BY <1>1
<1>3. \A k \in DOMAIN s : 1 < k => k - 1 \in DOMAIN t /\ t[k - 1] = s[k]
  BY <1>1
<1>4. h \in Range(s) /\ Range(t) \subseteq Range(s)
  BY <1>1, <1>2 DEF Range
<1>5. OneEach(t)
  <2> SUFFICES ASSUME NEW i \in DOMAIN t, NEW k \in DOMAIN t, t[i].op = t[k].op
               PROVE  i = k
    BY DEF OneEach
  <2>1. i + 1 = k + 1
    BY <1>2 DEF OneEach
  <2> QED BY <1>1, <2>1
<1>6. ASSUME NEW y \in Range(t) PROVE y.op # h.op
  <2>1. PICK i \in DOMAIN t : y = t[i]
    BY DEF Range
  <2> QED BY <1>1, <1>2, <2>1 DEF OneEach
<1>7. ASSUME Followed(s) PROVE Followed(t)
  <2> SUFFICES ASSUME NEW i \in DOMAIN t, Private(t[i])
               PROVE  \E k \in DOMAIN t : i < k /\ t[k].op = "lockUmbra"
    BY DEF Followed
  <2>1. PICK k \in DOMAIN s : i + 1 < k /\ s[k].op = "lockUmbra"
    BY <1>2, <1>7 DEF Followed
  <2>2. 1 < k /\ i < k - 1
    BY <1>1, <2>1
  <2> QED BY <1>3, <2>1, <2>2
<1>8. ASSUME Followed(s), Private(h) PROVE \E y \in Range(t) : y.op = "lockUmbra"
  <2>1. PICK k \in DOMAIN s : 1 < k /\ s[k].op = "lockUmbra"
    BY <1>1, <1>8 DEF Followed
  <2>2. k - 1 \in DOMAIN t /\ t[k - 1] = s[k]
    BY <1>3, <2>1
  <2>3. s[k] \in Range(t)
    BY <2>2 DEF Range
  <2> QED BY <2>1, <2>3
<1> QED BY <1>1, <1>4, <1>5, <1>6, <1>7, <1>8 DEF t, h

LEMMA Adding ==
  ASSUME NEW s \in Seq(Answers), NEW x \in Answers, OneEach(s),
         \A y \in Range(s) : y.op # x.op
  PROVE  /\ Append(s, x) \in Seq(Answers) /\ Range(Append(s, x)) = Range(s) \cup {x}
         /\ OneEach(Append(s, x))
         /\ ~Private(x) /\ (Followed(s) \/ x.op = "lockUmbra") => Followed(Append(s, x))
<1> DEFINE t == Append(s, x)
<1>1. /\ t \in Seq(Answers) /\ DOMAIN s = 1 .. Len(s) /\ DOMAIN t = 1 .. Len(s) + 1
      /\ Len(s) \in Nat /\ t[Len(s) + 1] = x /\ \A i \in 1 .. Len(s) : t[i] = s[i]
  OBVIOUS
<1> HIDE DEF t
<1>2. /\ \A i \in DOMAIN t : i = Len(s) + 1 \/ (i \in DOMAIN s /\ t[i] = s[i])
      /\ \A i \in DOMAIN s : i \in DOMAIN t /\ t[i] = s[i] /\ i < Len(s) + 1
      /\ Len(s) + 1 \in DOMAIN t
  BY <1>1
<1>3. Range(t) = Range(s) \cup {x}
  <2>1. Range(t) \subseteq Range(s) \cup {x}
    BY <1>1, <1>2 DEF Range
  <2>2. Range(s) \subseteq Range(t) /\ x \in Range(t)
    BY <1>1, <1>2 DEF Range
  <2> QED BY <2>1, <2>2
<1>4. OneEach(t)
  <2> SUFFICES ASSUME NEW i \in DOMAIN t, NEW k \in DOMAIN t, t[i].op = t[k].op
               PROVE  i = k
    BY DEF OneEach
  <2>1. \A e \in DOMAIN s : s[e].op # x.op
    BY DEF Range
  <2> QED BY <1>1, <1>2, <2>1 DEF OneEach
<1>5. ASSUME ~Private(x), Followed(s) \/ x.op = "lockUmbra"
      PROVE  Followed(t)
  <2> SUFFICES ASSUME NEW i \in DOMAIN t, Private(t[i])
               PROVE  \E k \in DOMAIN t : i < k /\ t[k].op = "lockUmbra"
    BY DEF Followed
  <2>1. i \in DOMAIN s /\ t[i] = s[i]
    BY <1>1, <1>2, <1>5
  <2>2. CASE Followed(s)
    <3>1. PICK k \in DOMAIN s : i < k /\ s[k].op = "lockUmbra"
      BY <2>1, <2>2 DEF Followed
    <3> QED BY <1>2, <3>1
  <2>3. CASE x.op = "lockUmbra"
    BY <1>1, <1>2, <2>1, <2>3
  <2> QED BY <1>5, <2>2, <2>3
<1> QED BY <1>1, <1>3, <1>4, <1>5 DEF t

-----------------------------------------------------------------------------
(* Steps, part by part.                                                    *)

LEMMA Bounds ==
  /\ MaxTyped \in Nat /\ MaxOthers \in Nat /\ MaxPages \in Nat /\ MaxStarted \in Nat
  /\ MaxSessions \in Nat \ {0} /\ {} \in Texts
BY EditorAssumption DEF Texts

LEMMA Sizes ==
  ASSUME Typed
  PROVE  /\ Now \in Nat \ {0} /\ session.gen \in 1 .. MaxSessions /\ session.gen \in Nat
         /\ doc.gen \in Nat /\ doc.revision \in Nat /\ doc.saved \in Nat \cup {-1}
         /\ doc.etag \in Nat /\ doc.session \in Nat /\ draft.base \in Nat
         /\ \A o \in Op : /\ ops[o] \in Operation /\ ops[o].doc \in Nat
                         /\ ops[o].session \in 0 .. MaxSessions /\ ops[o].session \in Nat
                         /\ ops[o].rev \in Nat /\ ops[o].etag \in Nat
<1>1. Now \in Nat \ {0}
  BY DEF Typed, Now
<1>2. session.gen \in 1 .. MaxSessions /\ session.gen \in Nat
  BY Bounds DEF Typed, Generations
<1>3. /\ doc.gen \in Nat /\ doc.revision \in Nat /\ doc.saved \in Nat \cup {-1}
      /\ doc.etag \in Nat /\ doc.session \in Nat /\ draft.base \in Nat
  BY Bounds DEF Typed, Document, Generations
<1>4. ASSUME NEW o \in Op
      PROVE  /\ ops[o] \in Operation /\ ops[o].doc \in Nat
             /\ ops[o].session \in 0 .. MaxSessions /\ ops[o].session \in Nat
             /\ ops[o].rev \in Nat /\ ops[o].etag \in Nat
  BY Bounds DEF Typed, Operation
<1> QED BY <1>1, <1>2, <1>3, <1>4

LEMMA SizesNext ==
  ASSUME Typed'
  PROVE  /\ Now' \in Nat \ {0} /\ session'.gen \in Nat
         /\ doc'.gen \in Nat /\ doc'.revision \in Nat /\ doc'.saved \in Nat \cup {-1}
         /\ doc'.etag \in Nat /\ doc'.session \in Nat
         /\ \A o \in Op : ops'[o] \in Operation
<1>1. Now' \in Nat \ {0}
  BY DEF Typed, Now
<1>2. session'.gen \in Nat
  BY Bounds DEF Typed, Generations
<1>3. /\ doc'.gen \in Nat /\ doc'.revision \in Nat /\ doc'.saved \in Nat \cup {-1}
      /\ doc'.etag \in Nat /\ doc'.session \in Nat
  BY Bounds DEF Typed, Document, Generations
<1>4. \A o \in Op : ops'[o] \in Operation
  BY DEF Typed
<1> QED BY <1>1, <1>2, <1>3, <1>4

\* Versions are only added, and once a document is a projection it stays one.
Grows ==
  /\ Now <= Now' /\ \A e \in 1 .. Now : versions'[e] = versions[e]
  /\ ~Plain => ~Plain'

LEMMA GrowsNot ==
  ASSUME Typed, versions' = versions
  PROVE  Grows
BY DEF Typed, Grows, Now, Plain

\* The document goes, is another one, or if it has the revision of before is
\* as it was.
DocMoves ==
  \/ ~Present'
  \/ doc'.gen > doc.gen
  \/ /\ Present /\ doc'.gen = doc.gen /\ doc.revision <= doc'.revision
     /\ doc'.revision = doc.revision => doc'.text = doc.text /\ doc'.umbra = doc.umbra

LEMMA CallStays ==
  ASSUME Typed, Typed', OpsOK, Grows, DocMoves, NEW g \in Generations, NEW c \in Answers,
         CallOK(g, c), ops'[c.op] = ops[c.op]
  PROVE  CallOK(g, c)'
<1>1. /\ Now \in Nat /\ Now' \in Nat /\ Now <= Now' /\ c.etag \in Nat /\ c.op \in Op
      /\ doc.gen \in Nat /\ doc'.gen \in Nat /\ doc.revision \in Nat /\ doc'.revision \in Nat
  BY Sizes, SizesNext DEF Grows, Answers
<1>2. ops[c.op].doc \in Nat /\ ops[c.op].rev \in Nat /\ ops[c.op].doc <= doc.gen
  BY <1>1, Sizes DEF OpsOK, OpOK
<1>3. c.etag \in 1 .. Now => c.etag \in 1 .. Now' /\ versions'[c.etag] = versions[c.etag]
  BY <1>1 DEF Grows
<1>4. Told(c) => Told(c)'
  BY <1>3 DEF Told
<1>5. Told(c) /\ WriteOK(c) => WriteOK(c)'
  <2> SUFFICES ASSUME Told(c), WriteOK(c), Present', doc'.gen = ops[c.op].doc
               PROVE  /\ ops[c.op].rev <= doc'.revision
                      /\ ops[c.op].rev = doc'.revision =>
                           doc'.text = versions'[c.etag].text /\ ~doc'.umbra
    BY <1>3 DEF Told, WriteOK
  <2>1. ~(doc'.gen > doc.gen)
    BY <1>1, <1>2
  <2>2. /\ Present /\ doc'.gen = doc.gen /\ doc.revision <= doc'.revision
        /\ doc'.revision = doc.revision => doc'.text = doc.text /\ doc'.umbra = doc.umbra
    BY <2>1 DEF DocMoves
  <2>3. /\ ops[c.op].rev <= doc.revision
        /\ ops[c.op].rev = doc.revision => doc.text = versions[c.etag].text /\ ~doc.umbra
    BY <2>2 DEF WriteOK
  <2>4. versions'[c.etag] = versions[c.etag]
    BY <1>3 DEF Told
  <2> QED BY <1>1, <1>2, <2>2, <2>3, <2>4
<1>6. ~Plain => ~Plain'
  BY DEF Grows
<1> QED BY <1>1, <1>3, <1>4, <1>5, <1>6 DEF CallOK

LEMMA CallsStay ==
  ASSUME IInv, Typed', Grows, DocMoves,
         \A g \in Generations : \A c \in Range(calls'[g]) :
           c \in Range(calls[g]) /\ ops'[c.op] = ops[c.op]
  PROVE  CallsOK'
<1> SUFFICES ASSUME NEW g \in Generations, NEW c \in Range(calls'[g])
             PROVE  CallOK(g, c)'
  BY DEF CallsOK
<1>1. calls[g] \in Seq(Answers) /\ c \in Range(calls[g])
  BY DEF IInv, Typed
<1>2. c \in Answers
  BY <1>1 DEF Range
<1>3. Typed /\ OpsOK /\ CallOK(g, c)
  BY <1>1 DEF IInv, CallsOK
<1> QED BY <1>2, <1>3, CallStays

LEMMA IdleIs ==
  Idle \in Operation /\ Idle.at = "idle" /\ Idle.doc = 0 /\ Idle.session = 0 /\ Idle.etag = 0
BY Bounds DEF Idle, Operation, Steps

LEMMA OpsStay ==
  ASSUME IInv, Typed', Now <= Now', doc.gen <= doc'.gen, session.gen <= session'.gen,
         \A o \in Op : ops'[o] = ops[o] \/ ops'[o] = Idle \/ OpOK(o)'
  PROVE  OpsOK'
<1> SUFFICES ASSUME NEW o \in Op PROVE OpOK(o)'
  BY DEF OpsOK
<1>1. /\ Now \in Nat /\ Now' \in Nat /\ doc.gen \in Nat /\ doc'.gen \in Nat
      /\ session.gen \in Nat /\ session'.gen \in Nat /\ OpOK(o)
  BY Sizes, SizesNext DEF IInv, OpsOK
<1>2. ops[o].doc \in Nat /\ ops[o].session \in Nat /\ ops[o].etag \in Nat
  BY Sizes DEF IInv
<1>3. CASE ops'[o] = ops[o]
  BY <1>1, <1>2, <1>3 DEF OpOK
<1>4. CASE ops'[o] = Idle
  BY <1>1, <1>4, IdleIs DEF OpOK
<1> QED BY <1>3, <1>4

-----------------------------------------------------------------------------
(* The document of a step.                                                 *)

\* The key is not lost but by the call that locks it.
Kept == umbra \/ LockingUmbra => umbra' \/ LockingUmbra'

\* What matters of a document d that is shown.
Fits(d) ==
  /\ d.saved <= d.revision /\ d.etag \in 1 .. Now /\ d.session = session.gen
  /\ ~Dirty(d) => d.text = versions[d.etag].text
                  /\ d.umbra = (versions[d.etag].kind = "umbra")
  /\ d.umbra => ~Plain /\ (umbra \/ LockingUmbra)

\* The document is d, but for what the invariant does not read.
Becomes(d) ==
  /\ doc'.text = d.text /\ doc'.revision = d.revision /\ doc'.saved = d.saved
  /\ doc'.etag = d.etag /\ doc'.umbra = d.umbra /\ doc'.gen = d.gen
  /\ doc'.session = d.session

\* d is the document e as it is or with a new text.
Moved(e, d) ==
  /\ d.saved = e.saved /\ d.etag = e.etag /\ d.umbra = e.umbra /\ d.gen = e.gen
  /\ d.session = e.session
  /\ (d.revision = e.revision /\ d.text = e.text) \/ d.revision = e.revision + 1

LEMMA DocFits ==
  ASSUME IInv, Typed', Grows, doc'.umbra => Kept, UNCHANGED session, session.is = "unlocked",
         NEW d \in Document, Fits(d), Becomes(d), Present'
  PROVE  DocOK'
<1>1. Now \in Nat /\ Now' \in Nat /\ Now <= Now' /\ d.etag \in 1 .. Now
  BY Sizes, SizesNext DEF IInv, Grows, Fits
<1>2. d.etag \in 1 .. Now' /\ versions'[d.etag] = versions[d.etag]
  BY <1>1 DEF Grows
<1>3. d.etag <= Now' /\ d.etag >= 1
  BY <1>1, <1>2
<1>4. ~Dirty(doc') => doc'.text = versions'[doc'.etag].text
                      /\ doc'.umbra = (versions'[doc'.etag].kind = "umbra")
  BY <1>2 DEF Fits, Becomes, Dirty
<1>5. doc'.umbra => ~Plain' /\ (umbra' \/ LockingUmbra')
  BY DEF Fits, Becomes, Grows, Kept
<1>6. doc'.saved <= doc'.revision /\ doc'.session = session'.gen /\ session'.is = "unlocked"
  BY DEF Fits, Becomes
<1> QED BY <1>3, <1>4, <1>5, <1>6 DEF Becomes, DocOK

LEMMA PresentFits ==
  ASSUME IInv, Present
  PROVE  doc \in Document /\ Fits(doc) /\ session.is = "unlocked"
<1>1. DocOK /\ doc \in Document /\ Now \in Nat /\ doc.etag \in Nat
  BY Sizes DEF IInv, Typed
<1>2. doc.etag \in 1 .. Now
  BY <1>1 DEF DocOK
<1> QED BY <1>1, <1>2 DEF DocOK, Fits

LEMMA MovedFits ==
  ASSUME IInv, NEW e \in Document, NEW d \in Document, Fits(e), Moved(e, d)
  PROVE  Fits(d)
<1>1. e.saved \in Nat \cup {-1} /\ e.revision \in Nat
  BY DEF Document
<1>2. e.saved <= e.revision
  BY DEF Fits
<1>3. CASE d.revision = e.revision /\ d.text = e.text
  BY <1>3 DEF Fits, Moved, Dirty
<1>4. CASE d.revision = e.revision + 1
  <2>1. d.saved <= d.revision /\ d.saved # d.revision
    BY <1>1, <1>2, <1>4 DEF Moved
  <2> QED BY <2>1 DEF Fits, Moved, Dirty
<1> QED BY <1>3, <1>4 DEF Moved

\* The document is shown and stays so, perhaps with a new text.
LEMMA DocMoved ==
  ASSUME IInv, Typed', Grows, doc'.umbra => Kept, UNCHANGED session, Present, Present',
         NEW d \in Document, Moved(doc, d), Becomes(d)
  PROVE  DocOK' /\ DocMoves /\ doc'.gen = doc.gen
<1>1. doc \in Document /\ Fits(doc) /\ session.is = "unlocked"
  BY PresentFits
<1>2. Fits(d)
  BY <1>1, MovedFits
<1>3. DocOK'
  BY <1>1, <1>2, DocFits
<1>4. doc.revision \in Nat
  BY Sizes DEF IInv
<1>5. doc'.gen = doc.gen /\ doc'.umbra = doc.umbra
      /\ ((doc'.revision = doc.revision /\ doc'.text = doc.text)
            \/ doc'.revision = doc.revision + 1)
  BY DEF Moved, Becomes
<1>6. doc.revision <= doc'.revision
      /\ (doc'.revision = doc.revision => doc'.text = doc.text)
  BY <1>4, <1>5
<1> QED BY <1>3, <1>5, <1>6 DEF DocMoves

\* The document stays as it is.
LEMMA DocStays ==
  ASSUME IInv, Typed', Grows, doc'.umbra => Kept, UNCHANGED session, UNCHANGED doc,
         Present \/ (~page'.up /\ toPage' = <<>>)
  PROVE  DocOK' /\ DocMoves /\ doc'.gen = doc.gen
<1>1. CASE Present
  <2>1. doc \in Document /\ Moved(doc, doc) /\ Becomes(doc) /\ Present'
    BY <1>1 DEF IInv, Typed, Moved, Becomes, Present
  <2> QED BY <1>1, <2>1, DocMoved
<1>2. CASE ~Present
  <2>1. DocOK /\ ~Present'
    BY <1>2 DEF IInv, Present
  <2>2. doc.etag <= Now'
    BY <2>1, Sizes, SizesNext DEF IInv, DocOK, Grows
  <2> QED BY <1>2, <2>1, <2>2 DEF DocOK, DocMoves
<1> QED BY <1>1, <1>2

\* The document goes.
LEMMA DocGone ==
  ASSUME IInv, Typed', Grows, ~Present', doc'.text = {}, doc'.saved <= doc'.revision,
         doc'.etag <= Now, ~page'.up, toPage' = <<>>
  PROVE  DocOK' /\ DocMoves
<1>1. doc'.etag <= Now'
  BY Sizes, SizesNext DEF IInv, Grows
<1> QED BY <1>1 DEF DocOK, DocMoves

LEMMA WipedIs ==
  ASSUME IInv
  PROVE  LET d == Wiped(doc)
         IN  /\ d \in Document /\ d.is \notin {"open", "frozen"} /\ d.text = {}
             /\ d.saved <= d.revision /\ d.etag <= Now /\ d.gen = doc.gen
<1>1. doc \in Document /\ DocOK
  BY DEF IInv, Typed
<1>2. CASE Present
  <2>1. PICK d \in Document : d = [doc EXCEPT !.is = "locked", !.text = {}, !.umbra = FALSE]
    BY <1>1, Bounds DEF Document
  <2>2. Wiped(doc) = d
    BY <1>2, <2>1 DEF Wiped, Present
  <2>3. /\ d.is = "locked" /\ d.text = {} /\ d.saved = doc.saved /\ d.revision = doc.revision
        /\ d.etag = doc.etag /\ d.gen = doc.gen
    BY <1>1, <2>1 DEF Document
  <2> QED BY <1>1, <2>2, <2>3 DEF DocOK
<1>3. CASE ~Present
  BY <1>1, <1>3 DEF Wiped, Present, DocOK
<1> QED BY <1>2, <1>3

LEMMA ClosedIs ==
  ASSUME IInv
  PROVE  LET d == Closed(doc.gen, doc.session)
         IN  /\ d \in Document /\ d.is \notin {"open", "frozen"} /\ d.text = {}
             /\ d.saved <= d.revision /\ d.etag <= Now /\ d.gen = doc.gen
<1>1. doc.gen \in Nat /\ doc.session \in Generations /\ Now \in Nat
  BY Sizes DEF IInv, Typed, Document
<1>2. Closed(doc.gen, doc.session) \in Document
  BY <1>1, Bounds DEF Closed, Document
<1> QED BY <1>1, <1>2 DEF Closed

LEMMA Defaults ==
  /\ Down \in Page /\ ~Down.up /\ NoDraft \in [base : Nat, text : Texts] /\ NoDraft.base = 0
BY Bounds DEF Down, Page, NoDraft

\* Steps that make no call and take no answer.
LEMMA SameCalls ==
  ASSUME IInv, Typed', Grows, DocOK', DocMoves, DraftOK', doc.gen <= doc'.gen,
         session'.gen = session.gen, UNCHANGED <<calls, umbra>>,
         \A o \in Op : ops'[o] = ops[o] \/ (ops[o].at # "called" /\ (ops'[o] = Idle \/ OpOK(o)'))
  PROVE  IInv'
<1>1. Typed /\ CallsOK /\ OneCall /\ KeyOK
  BY DEF IInv
<1>2. OpsOK'
  BY <1>1, OpsStay, Sizes DEF Grows
<1>3. ASSUME NEW g \in Generations, NEW c \in Range(calls'[g])
      PROVE  c \in Range(calls[g]) /\ ops'[c.op] = ops[c.op]
  <2>1. c \in Range(calls[g]) /\ calls[g] \in Seq(Answers)
    BY <1>1, <1>3 DEF Typed
  <2>2. c \in Answers /\ CallOK(g, c)
    BY <1>1, <2>1 DEF CallsOK, Range
  <2> QED BY <2>1, <2>2 DEF CallOK, Answers
<1>4. CallsOK'
  BY <1>3, CallsStay
<1>5. OneCall' /\ KeyOK'
  BY <1>1 DEF OneCall, KeyOK
<1> QED BY <1>2, <1>4, <1>5 DEF IInv

-----------------------------------------------------------------------------
(* Calls and answers.                                                      *)

\* No call of operation o is left but in queue q, where session g takes its
\* answer or makes its call.
Free(o, g, q) ==
  /\ q \in Seq(Answers) /\ OneEach(q) /\ Range(q) \subseteq Range(calls[g])
  /\ \A y \in Range(q) : y.op # o
  /\ \A k \in Generations : k # g => \A y \in Range(calls[k]) : y.op # o
  /\ Followed(calls[g]) => Followed(q)

LEMMA NotCalled ==
  ASSUME IInv, NEW o \in Op, NEW g \in Generations, ops[o].at # "called"
  PROVE  Free(o, g, calls[g])
<1>1. calls[g] \in Seq(Answers) /\ OneEach(calls[g]) /\ CallsOK
  BY DEF IInv, Typed, OneCall
<1>2. \A k \in Generations : \A y \in Range(calls[k]) : y.op # o
  BY <1>1 DEF CallsOK, CallOK
<1> QED BY <1>1, <1>2 DEF Free

LEMMA HeadCalled ==
  ASSUME IInv, NEW g \in Generations, calls[g] # <<>>
  PROVE  LET c == Head(calls[g])
         IN  /\ c \in Answers /\ c.op \in Op /\ CallOK(g, c)
             /\ Free(c.op, g, Tail(calls[g]))
<1> DEFINE c == Head(calls[g])
<1>1. calls[g] \in Seq(Answers) /\ OneEach(calls[g]) /\ CallsOK
  BY DEF IInv, Typed, OneCall
<1>2. /\ Tail(calls[g]) \in Seq(Answers) /\ c \in Answers /\ c \in Range(calls[g])
      /\ Range(Tail(calls[g])) \subseteq Range(calls[g]) /\ OneEach(Tail(calls[g]))
      /\ \A y \in Range(Tail(calls[g])) : y.op # c.op
      /\ Followed(calls[g]) => Followed(Tail(calls[g]))
  BY <1>1, Taking
<1>3. CallOK(g, c) /\ c.op \in Op
  BY <1>1, <1>2 DEF CallsOK, Answers
<1>4. \A k \in Generations : k # g => \A y \in Range(calls[k]) : y.op # c.op
  BY <1>1, <1>3 DEF CallsOK, CallOK
<1> QED BY <1>2, <1>3, <1>4 DEF Free

\* The answer of a projection that was read is followed by the call that
\* locked the key, if that is gone.
LEMMA PrivateAnswer ==
  ASSUME IInv, calls[session.gen] # <<>>, Private(Head(calls[session.gen]))
  PROVE  LET c == Head(calls[session.gen])
         IN  umbra \/ (ops["lockUmbra"].at = "called" /\ c.op # "lockUmbra")
<1> DEFINE g == session.gen
           c == Head(calls[g])
<1> SUFFICES ASSUME ~umbra
             PROVE  ops["lockUmbra"].at = "called" /\ c.op # "lockUmbra"
  OBVIOUS
<1>1. /\ g \in Generations /\ calls[g] \in Seq(Answers) /\ OneEach(calls[g]) /\ CallsOK
      /\ Followed(calls[g])
  BY DEF IInv, Typed, OneCall, KeyOK
<1>2. PICK y \in Range(Tail(calls[g])) : y.op = "lockUmbra" /\ y.op # c.op /\ y \in Range(calls[g])
  BY <1>1, Taking
<1>3. ops["lockUmbra"].at = "called"
  BY <1>1, <1>2 DEF CallsOK, CallOK
<1> QED BY <1>2, <1>3

\* An answer is taken.
LEMMA AnswerTaken ==
  ASSUME IInv, Typed', Grows, DocOK', DocMoves, DraftOK', doc.gen <= doc'.gen,
         session'.gen = session.gen, UNCHANGED umbra, NEW g \in Generations,
         calls[g] # <<>>, calls' = [calls EXCEPT ![g] = Tail(@)],
         \A o \in Op : \/ ops'[o] = ops[o]
                       \/ /\ ops[o].at # "called" \/ o = Head(calls[g]).op
                          /\ ops'[o] = Idle \/ OpOK(o)'
  PROVE  IInv'
<1>1. PICK c \in Answers : c = Head(calls[g])
  BY HeadCalled
<1>2. Free(c.op, g, Tail(calls[g])) /\ Typed /\ CallsOK /\ OneCall /\ KeyOK
  BY <1>1, HeadCalled DEF IInv
<1>3. calls'[g] = Tail(calls[g]) /\ \A k \in Generations : k # g => calls'[k] = calls[k]
  BY <1>2 DEF Typed
<1>4. OpsOK'
  BY <1>2, OpsStay, Sizes DEF Grows
<1>5. ASSUME NEW k \in Generations, NEW y \in Range(calls'[k])
      PROVE  y \in Range(calls[k]) /\ ops'[y.op] = ops[y.op]
  <2>1. y \in Range(calls[k]) /\ y.op # c.op /\ calls[k] \in Seq(Answers)
    BY <1>2, <1>3, <1>5 DEF Free, Typed
  <2>2. y \in Answers /\ CallOK(k, y)
    BY <1>2, <2>1 DEF CallsOK, Range
  <2> QED BY <1>1, <2>1, <2>2 DEF CallOK, Answers
<1>6. CallsOK'
  BY <1>5, CallsStay
<1>7. OneCall'
  BY <1>2, <1>3 DEF OneCall, Free
<1>8. KeyOK'
  BY <1>2, <1>3 DEF KeyOK, Free, Typed
<1> QED BY <1>4, <1>6, <1>7, <1>8 DEF IInv

LEMMA Added ==
  ASSUME NEW s \in Seq(Version), Len(s) > 0, NEW v \in Version
  PROVE  LET t == s \o <<v>>
         IN  /\ t \in Seq(Version) /\ Len(t) = Len(s) + 1 /\ t[Len(t)] = v
             /\ \A i \in 1 .. Len(s) : t[i] = s[i]
<1>1. /\ <<v>> \in Seq(Version) /\ Len(<<v>>) = 1 /\ <<v>>[1] = v /\ Len(s) \in Nat
  OBVIOUS
<1>2. PICK w \in Seq(Version) : w = <<v>>
  BY <1>1
<1>3. s \o w \in Seq(Version) /\ Len(s \o w) = Len(s) + 1
  BY <1>1, <1>2
<1>4. (s \o w)[Len(s) + 1] = v
  BY <1>1, <1>2
<1>5. \A i \in 1 .. Len(s) : (s \o w)[i] = s[i]
  BY <1>1, <1>2
<1> QED BY <1>2, <1>3, <1>4, <1>5

\* A version is added: a projection stays one.
LEMMA AddedGrows ==
  ASSUME Typed, NEW v \in Version, versions' = versions \o <<v>>, ~Plain => v.kind # "plain"
  PROVE  /\ versions' \in Seq(Version) /\ Len(versions') > 0 /\ Grows
         /\ versions'[Now'] = v
<1>1. versions \in Seq(Version) /\ Len(versions) > 0 /\ Now \in Nat
  BY Sizes DEF Typed
<1>2. /\ versions' \in Seq(Version) /\ Len(versions') = Len(versions) + 1
      /\ versions'[Len(versions')] = v /\ \A i \in 1 .. Len(versions) : versions'[i] = versions[i]
  BY <1>1, Added
<1> QED BY <1>1, <1>2 DEF Grows, Now, Plain

LEMMA LatestIs ==
  ASSUME Typed
  PROVE  /\ Latest \in Version /\ Latest = versions[Now] /\ (Plain <=> Latest.kind = "plain")
         /\ Latest.text \in Texts
<1>1. versions \in Seq(Version) /\ Len(versions) > 0 /\ Len(versions) \in 1 .. Len(versions)
  BY DEF Typed
<1>2. Latest = versions[Len(versions)]
  BY DEF Latest, Last
<1>3. Latest \in Version
  BY <1>1, <1>2
<1>4. Latest.text \in Texts
  BY <1>3 DEF Version
<1> QED BY <1>2, <1>3, <1>4 DEF Now, Plain

LEMMA CommitsGrow ==
  ASSUME Typed, NEW method \in Methods, NEW g, NEW etag, NEW text \in Texts,
         Allowed(method, g, etag, text), versions' = versions \o Commits(method, text)
  PROVE  /\ versions' \in Seq(Version) /\ Len(versions') > 0 /\ Grows
         /\ method = "write" =>
              Plain /\ versions'[Now'].kind = "plain" /\ versions'[Now'].text = text
         /\ Shows([method |-> method]) /\ versions'[Now'].kind = "umbra" => HasKey(g)
<1>1. /\ Latest \in Version /\ Latest = versions[Now] /\ (Plain <=> Latest.kind = "plain")
      /\ versions \in Seq(Version) /\ Len(versions) > 0
  BY LatestIs DEF Typed
<1>2. CASE method = "write"
  <2>1. Plain
    BY <1>1, <1>2 DEF Allowed
  <2>2. PICK v \in Version : v = [text |-> text, kind |-> "plain"]
    BY DEF Version, Kinds
  <2>3. versions' = versions \o <<v>>
    BY <1>2, <2>2 DEF Commits
  <2>4. /\ versions' \in Seq(Version) /\ Len(versions') > 0 /\ Grows
        /\ versions'[Now'] = v
    BY <2>1, <2>3, AddedGrows
  <2>5. v.kind = "plain" /\ v.text = text /\ ~Shows([method |-> method])
    BY <1>2, <2>2 DEF Shows
  <2> QED BY <2>1, <2>4, <2>5
<1>3. CASE method = "convert"
  <2>1. PICK v \in Version : v = [Latest EXCEPT !.kind = "umbra"]
    BY <1>1 DEF Version, Kinds
  <2>2. v.kind = "umbra" /\ versions' = versions \o <<v>>
    BY <1>1, <1>3, <2>1 DEF Commits, Version
  <2> QED BY <1>3, <2>2, AddedGrows DEF Shows
<1>4. CASE method \in {"annotate", "rename"}
  <2>1. versions' = versions \o <<Latest>>
    BY <1>4 DEF Commits
  <2>2. method = "annotate" => HasKey(g)
    BY DEF Allowed
  <2> QED BY <1>1, <1>4, <2>1, <2>2, AddedGrows DEF Shows
<1>5. CASE method = "delete"
  <2>1. PICK v \in Version : v = [text |-> {}, kind |-> "gone"]
    BY Bounds DEF Version, Kinds
  <2>2. versions' = versions \o <<v>>
    BY <1>5, <2>1 DEF Commits
  <2> QED BY <1>5, <2>1, <2>2, AddedGrows DEF Shows
<1>6. CASE method \notin {"write", "convert", "annotate", "rename", "delete"}
  <2>1. versions' = versions \o <<>>
    BY <1>6 DEF Commits
  <2>2. versions' = versions
    BY <1>1, <2>1
  <2>3. Grows /\ versions'[Now'] = Latest
    BY <1>1, <2>2, GrowsNot DEF Now
  <2>4. Shows([method |-> method]) => method \in {"open", "read", "project"}
    BY <1>6 DEF Shows
  <2>5. Shows([method |-> method]) /\ Latest.kind = "umbra" => HasKey(g)
    BY <2>4 DEF Allowed
  <2> QED BY <1>1, <1>6, <2>2, <2>3, <2>5
<1> QED BY <1>2, <1>3, <1>4, <1>5, <1>6

LEMMA AppendTyped ==
  ASSUME NEW s \in Seq(Answers), NEW x \in Answers
  PROVE  Append(s, x) \in Seq(Answers)
  OBVIOUS

\* What the answer x to a call that was served says.
Served(x, g, etag, text) ==
  /\ x.method \in {"release", "decrypt"} => x.etag = etag
  /\ x.method \notin {"release", "decrypt"} => x.etag = Now'
  /\ x.text = versions'[Now'].text /\ x.umbra = (versions'[Now'].kind = "umbra")
  /\ x.method = "write" => Plain /\ versions'[Now'].kind = "plain" /\ x.text = text
  /\ Shows(x) /\ x.umbra => HasKey(g)

\* Operation o makes a call, and x is its answer.
Made(o, r, queue, method, etag, text, x) ==
  /\ x.op = o /\ x.method = method
  /\ x.ok => Served(x, r.session, etag, text)
  /\ calls' = [calls EXCEPT ![r.session] = Append(queue, x)]

LEMMA CallIs ==
  ASSUME Typed, NEW o \in Op, NEW r \in Operation, NEW queue \in Seq(Answers),
         NEW method \in Methods, NEW etag \in Nat, NEW text \in Texts,
         r.session \in Generations, o = "lockUmbra" <=> method = "lockUmbra",
         Call(o, r, queue, method, etag, text)
  PROVE  /\ versions' \in Seq(Version) /\ Len(versions') > 0 /\ Grows
         /\ ops' \in [Op -> Operation] /\ calls' \in [Generations -> Seq(Answers)]
         /\ ops' = [ops EXCEPT ![o] = [r EXCEPT !.at = "called"]]
         /\ umbra' \in BOOLEAN
         /\ umbra' = umbra \/ (method = "lockUmbra" /\ r.session = session.gen /\ ~umbra')
         /\ Kept
         /\ \E x \in Answers : Made(o, r, queue, method, etag, text, x)
<1>1. ops' = [ops EXCEPT ![o] = [r EXCEPT !.at = "called"]]
  BY DEF Call, Set
<1>2. [r EXCEPT !.at = "called"] \in Operation /\ [r EXCEPT !.at = "called"].at = "called"
  BY DEF Operation, Steps
<1>3. ops' \in [Op -> Operation] /\ ops'[o].at = "called"
      /\ \A p \in Op : p # o => ops'[p] = ops[p]
  BY <1>1, <1>2 DEF Typed
<1>4. versions \in Seq(Version) /\ umbra \in BOOLEAN /\ calls \in [Generations -> Seq(Answers)]
  BY DEF Typed
<1>5. /\ LockingUmbra => LockingUmbra'
      /\ o = "lockUmbra" => LockingUmbra'
  <2>1. "lockUmbra" \in Op /\ "called" # "idle"
    BY DEF Op
  <2> QED BY <1>3, <2>1 DEF LockingUmbra
<1>6. CASE /\ UNCHANGED <<versions, umbra>>
           /\ calls' = [calls EXCEPT ![r.session] =
                Append(queue, [op |-> o, method |-> method, ok |-> FALSE,
                               etag |-> 0, text |-> {}, umbra |-> FALSE])]
  <2>1. PICK x \in Answers : x = [op |-> o, method |-> method, ok |-> FALSE,
                                  etag |-> 0, text |-> {}, umbra |-> FALSE]
    BY Bounds DEF Answers
  <2>2. x.op = o /\ x.method = method /\ ~x.ok
    BY <2>1
  <2>3. calls' = [calls EXCEPT ![r.session] = Append(queue, x)]
    BY <1>6, <2>1
  <2>4. Made(o, r, queue, method, etag, text, x)
    BY <2>2, <2>3 DEF Made
  <2>5. PICK q \in Seq(Answers) : q = Append(queue, x)
    BY AppendTyped
  <2>6. calls' \in [Generations -> Seq(Answers)]
    BY <1>4, <2>3, <2>5
  <2>7. Grows
    BY <1>6, GrowsNot
  <2>8. versions' \in Seq(Version) /\ Len(versions') > 0
    BY <1>6 DEF Typed
  <2>9. Kept
    BY <1>6, <1>5 DEF Kept
  <2> QED BY <1>1, <1>3, <1>4, <1>6, <2>4, <2>6, <2>7, <2>8, <2>9
<1>7. CASE /\ Allowed(method, r.session, etag, text)
           /\ versions' = versions \o Commits(method, text)
           /\ umbra' = (umbra /\ ~(method = "lockUmbra" /\ r.session = session.gen))
           /\ calls' = [calls EXCEPT ![r.session] =
                Append(queue, [op |-> o, method |-> method, ok |-> TRUE,
                               etag |-> IF method \in {"release", "decrypt"} THEN etag
                                        ELSE Len(versions'),
                               text |-> Last(versions').text,
                               umbra |-> Last(versions').kind = "umbra"])]
  <2>1. /\ versions' \in Seq(Version) /\ Len(versions') > 0 /\ Grows
        /\ method = "write" =>
             Plain /\ versions'[Now'].kind = "plain" /\ versions'[Now'].text = text
        /\ Shows([method |-> method]) /\ versions'[Now'].kind = "umbra" => HasKey(r.session)
    BY <1>7, CommitsGrow
  <2>2. Last(versions') = versions'[Now'] /\ versions'[Now'] \in Version /\ Now' \in Nat
        /\ Len(versions') = Now'
    BY <2>1 DEF Last, Now
  <2>3. PICK kind \in BOOLEAN : kind = (versions'[Now'].kind = "umbra")
    OBVIOUS
  <2>4. PICK e \in Nat : e = IF method \in {"release", "decrypt"} THEN etag ELSE Now'
    BY <2>2
  <2>5. PICK t \in Texts : t = versions'[Now'].text
    BY <2>2 DEF Version
  <2>6. PICK x \in Answers : x = [op |-> o, method |-> method, ok |-> TRUE, etag |-> e,
                                  text |-> t, umbra |-> kind]
    BY DEF Answers
  <2>7. x.op = o /\ x.method = method /\ x.etag = e /\ x.text = t /\ x.umbra = kind
    BY <2>6
  <2>8. calls' = [calls EXCEPT ![r.session] = Append(queue, x)]
    BY <1>7, <2>2, <2>3, <2>4, <2>5, <2>6
  <2>9. Shows(x) <=> Shows([method |-> method])
    BY <2>7 DEF Shows
  <2>10. Served(x, r.session, etag, text)
    BY <2>1, <2>3, <2>4, <2>5, <2>7, <2>9 DEF Served
  <2>11. Made(o, r, queue, method, etag, text, x)
    BY <2>7, <2>8, <2>10 DEF Made
  <2>12. PICK q \in Seq(Answers) : q = Append(queue, x)
    BY AppendTyped
  <2>13. calls' \in [Generations -> Seq(Answers)]
    BY <1>4, <2>8, <2>12
  <2>14. /\ umbra' \in BOOLEAN
         /\ umbra' = umbra \/ (method = "lockUmbra" /\ r.session = session.gen /\ ~umbra')
    BY <1>4, <1>7
  <2>15. Kept
    <3>1. CASE umbra' = umbra
      BY <1>5, <3>1 DEF Kept
    <3>2. CASE o = "lockUmbra"
      BY <1>5, <3>2 DEF Kept
    <3> QED BY <2>14, <3>1, <3>2
  <2>16. \E y \in Answers : Made(o, r, queue, method, etag, text, y)
    BY <2>11
  <2> HIDE DEF Made
  <2> QED BY <1>1, <1>3, <2>1, <2>13, <2>14, <2>15, <2>16
<1> QED BY <1>6, <1>7 DEF Call

\* Operation o may make this call.
Sends(o, r, queue, method, etag) ==
  /\ Free(o, r.session, queue) /\ r.session \in 1 .. session.gen
  /\ r.doc <= doc.gen /\ r.etag <= Now
  /\ o = "lockUmbra" <=> method = "lockUmbra"
  /\ method = "decrypt" => etag \in 1 .. Now
  /\ method = "release" => etag <= Now

LEMMA SendsIn ==
  ASSUME Typed, NEW n, n \in 1 .. session.gen
  PROVE  n \in Generations
BY Sizes, Bounds DEF Generations

\* Steps that make a call.
LEMMA CallMade ==
  ASSUME IInv, Typed', DocOK', DocMoves, DraftOK', doc.gen <= doc'.gen,
         session'.gen = session.gen,
         NEW o \in Op, NEW r \in Operation, NEW queue \in Seq(Answers),
         NEW method \in Methods, NEW etag \in Nat, NEW text \in Texts,
         Sends(o, r, queue, method, etag),
         method = "write" =>
           text = doc'.text /\ r.rev = doc'.revision /\ (Plain => ~doc'.umbra),
         Call(o, r, queue, method, etag, text)
  PROVE  IInv'
<1> DEFINE g == r.session
<1>1. /\ Typed /\ OpsOK /\ CallsOK /\ OneCall /\ KeyOK /\ g \in Generations
      /\ o = "lockUmbra" <=> method = "lockUmbra"
  BY SendsIn DEF IInv, Sends
<1>2. /\ Grows /\ ops' = [ops EXCEPT ![o] = [r EXCEPT !.at = "called"]]
      /\ umbra' \in BOOLEAN
      /\ umbra' = umbra \/ (method = "lockUmbra" /\ g = session.gen /\ ~umbra')
  BY <1>1, CallIs
<1>3. PICK x \in Answers : Made(o, r, queue, method, etag, text, x)
  BY <1>1, CallIs
<1>4. /\ x.op = o /\ x.method = method
      /\ x.ok => Served(x, g, etag, text)
      /\ calls' = [calls EXCEPT ![g] = Append(queue, x)]
  BY <1>3 DEF Made
<1>5. Free(o, g, queue)
  BY DEF Sends
<1>6. PICK s \in Seq(Answers) :
        /\ s = Append(queue, x) /\ Range(s) = Range(queue) \cup {x} /\ OneEach(s)
        /\ ~Private(x) /\ (Followed(queue) \/ x.op = "lockUmbra") => Followed(s)
  BY <1>4, <1>5, Adding DEF Free
<1>7. calls'[g] = s /\ \A k \in Generations : k # g => calls'[k] = calls[k]
  BY <1>1, <1>4, <1>6 DEF Typed
<1>8. PICK w \in Operation : w = [r EXCEPT !.at = "called"]
  BY DEF Operation, Steps
<1>9. /\ w.at = "called" /\ w.session = g /\ w.doc = r.doc /\ w.rev = r.rev
      /\ w.etag = r.etag
  BY <1>8 DEF Operation
<1>10. ops'[o] = w /\ \A p \in Op : p # o => ops'[p] = ops[p]
  BY <1>1, <1>2, <1>8 DEF Typed
<1>11. /\ Now \in Nat /\ Now' \in Nat \ {0} /\ Now <= Now' /\ session.gen \in Nat
       /\ doc.gen \in Nat /\ doc'.gen \in Nat
  BY <1>1, <1>2, Sizes, SizesNext DEF Grows
<1>12. OpsOK'
  <2>1. OpOK(o)'
    <3>1. r.doc <= doc'.gen /\ r.etag <= Now' /\ g <= session'.gen /\ g >= 1
      <4>1. r.doc \in Nat /\ r.etag \in Nat
        BY DEF Operation
      <4> QED BY <1>11, <4>1 DEF Sends
    <3> QED BY <1>9, <1>10, <3>1 DEF OpOK
  <2> QED BY <1>2, <1>10, <1>11, <2>1, OpsStay DEF Grows
<1>13. CallOK(g, x)'
  <2>1. Now' \in 1 .. Now' /\ (etag \in 1 .. Now => etag \in 1 .. Now')
        /\ (etag <= Now => etag <= Now')
    BY <1>11
  <2>2. x.ok /\ method = "decrypt" => x.etag \in 1 .. Now'
    BY <1>4, <2>1 DEF Sends, Served
  <2>3. x.ok /\ method = "release" => x.etag <= Now'
    BY <1>4, <2>1 DEF Sends, Served
  <2>4. x.ok /\ method \notin {"release", "decrypt"} => Told(x)'
    BY <1>4, <2>1 DEF Served, Told
  <2>5. x.ok /\ Shows(x) /\ x.umbra => ~Plain'
    BY <1>4 DEF Served, Plain, Now
  <2>6. x.ok /\ method = "write" => WriteOK(x)'
    <3> SUFFICES ASSUME x.ok, method = "write" PROVE WriteOK(x)'
      OBVIOUS
    <3>1. /\ x.etag = Now' /\ versions'[Now'].kind = "plain" /\ x.text = text /\ Plain
          /\ x.text = versions'[Now'].text
      BY <1>4 DEF Served
    <3>2. text = doc'.text /\ r.rev = doc'.revision /\ ~doc'.umbra
      BY <3>1
    <3>3. ops'[x.op].rev = doc'.revision /\ doc'.revision \in Nat
      BY <1>4, <1>9, <1>10, <3>2, SizesNext
    <3> QED BY <3>1, <3>2, <3>3 DEF WriteOK
  <2> QED BY <1>1, <1>4, <1>9, <1>10, <2>2, <2>3, <2>4, <2>5, <2>6 DEF CallOK
<1>14. CallsOK'
  <2> SUFFICES ASSUME NEW k \in Generations, NEW y \in Range(calls'[k]), y # x
               PROVE  CallOK(k, y)'
    <3>1. ASSUME NEW k \in Generations, x \in Range(calls'[k]) PROVE k = g \/ x \in Range(calls[k])
      BY <1>7, <3>1
    <3>2. ASSUME NEW k \in Generations, x \in Range(calls'[k]) PROVE k = g
      BY <1>4, <1>5, <3>1, <3>2 DEF Free
    <3> QED BY <1>13, <3>2 DEF CallsOK
  <2>1. y \in Range(calls[k]) /\ y.op # o
    <3>1. CASE k = g
      <4>1. y \in Range(queue)
        BY <1>6, <1>7, <3>1
      <4> QED BY <1>5, <3>1, <4>1 DEF Free
    <3>2. CASE k # g
      <4>1. y \in Range(calls[k])
        BY <1>7, <3>2
      <4> QED BY <1>5, <3>2, <4>1 DEF Free
    <3> QED BY <3>1, <3>2
  <2>2. y \in Answers /\ CallOK(k, y) /\ y.op \in Op
    <3>1. calls[k] \in Seq(Answers) /\ CallOK(k, y)
      BY <1>1, <2>1 DEF CallsOK, Typed
    <3>2. y \in Answers
      BY <2>1, <3>1 DEF Range
    <3> QED BY <3>1, <3>2 DEF Answers
  <2>3. ops'[y.op] = ops[y.op]
    BY <1>10, <2>1, <2>2
  <2> QED BY <1>1, <1>2, <2>2, <2>3, CallStays
<1>15. OneCall'
  BY <1>1, <1>6, <1>7 DEF OneCall
<1>16. KeyOK'
  <2> SUFFICES ASSUME ~umbra' PROVE Followed(calls'[session.gen])
    BY DEF KeyOK
  <2>1. CASE umbra
    <3>1. method = "lockUmbra" /\ g = session.gen
      BY <1>2, <2>1
    <3>2. x.op = "lockUmbra" /\ ~Private(x)
      BY <1>1, <1>4, <3>1 DEF Private, Shows
    <3> QED BY <1>6, <1>7, <3>1, <3>2
  <2>2. CASE ~umbra /\ g # session.gen
    BY <1>1, <1>7, <2>2 DEF KeyOK, Typed
  <2>3. CASE ~umbra /\ g = session.gen
    <3>1. Followed(queue)
      BY <1>1, <1>5, <2>3 DEF KeyOK, Free
    <3>2. ~Private(x)
      BY <1>4, <2>3 DEF Served, Private, HasKey
    <3> QED BY <1>6, <1>7, <2>3, <3>1, <3>2
  <2> QED BY <1>1, <2>1, <2>2, <2>3 DEF Typed
<1> QED BY <1>12, <1>14, <1>15, <1>16 DEF IInv

-----------------------------------------------------------------------------
(* Steps of the page, and of the host with the page.                       *)

\* What an operation that waits for no answer may do.
Moves(o) == ops'[o] = ops[o] \/ (ops[o].at # "called" /\ (ops'[o] = Idle \/ OpOK(o)'))

LEMMA KeyKept ==
  ASSUME IInv, UNCHANGED umbra, \A o \in Op : Moves(o)
  PROVE  Kept
<1>1. "lockUmbra" \in Op /\ OpOK("lockUmbra")
  BY DEF IInv, OpsOK, Op
<1> QED BY <1>1 DEF Kept, LockingUmbra, OpOK, Moves

\* The document, if there is one, is as it was or has a new text.
LEMMA EditStep ==
  ASSUME IInv, Typed', UNCHANGED <<versions, session, umbra, calls, draft>>,
         NEW d \in Document, Present, Present', Moved(doc, d), Becomes(d),
         \A o \in Op : Moves(o)
  PROVE  IInv'
<1>1. Grows /\ DraftOK'
  BY GrowsNot DEF IInv, DraftOK, Now
<1>2. Kept
  BY KeyKept
<1>3. DocOK' /\ DocMoves /\ doc'.gen = doc.gen
  BY <1>1, <1>2, DocMoved
<1>4. doc.gen <= doc'.gen
  BY <1>3, Sizes DEF IInv
<1> QED BY <1>1, <1>3, <1>4, SameCalls DEF Moves

LEMMA StillStep ==
  ASSUME IInv, Typed', UNCHANGED <<versions, session, umbra, calls, draft, doc>>,
         Present \/ (~page'.up /\ toPage' = <<>>), \A o \in Op : Moves(o)
  PROVE  IInv'
<1>1. Grows /\ DraftOK'
  BY GrowsNot DEF IInv, DraftOK, Now
<1>2. Kept
  BY KeyKept
<1>3. DocOK' /\ DocMoves /\ doc'.gen = doc.gen
  BY <1>1, <1>2, DocStays
<1>4. doc.gen <= doc'.gen
  BY <1>3, Sizes DEF IInv
<1> QED BY <1>1, <1>3, <1>4, SameCalls DEF Moves

LEMMA NotUp ==
  ASSUME IInv
  PROVE  Present \/ (~page.up /\ toPage = <<>>)
BY DEF IInv, DocOK

LEMMA HideStep == IInv /\ Hide => IInv'
<1> SUFFICES ASSUME IInv, Hide PROVE IInv'
  OBVIOUS
<1>1. page' = Down /\ toPage' = <<>> /\ <<>> \in Seq(ToPage) /\ Down \in Page /\ ~Down.up
  BY Defaults DEF Hide
<1>2. Typed'
  BY <1>1 DEF Hide, IInv, Typed
<1>3. \A o \in Op : Moves(o)
  BY DEF Hide, Moves
<1> QED BY <1>1, <1>2, <1>3, StillStep DEF Hide

LEMMA StartPageIs ==
  ASSUME Typed, StartPage
  PROVE  /\ page' \in Page /\ toHost' \in Seq(ToHost) /\ toPage' \in Seq(ToPage)
         /\ spent' \in Counts
<1>1. PICK p \in Page : p = [Down EXCEPT !.up = TRUE]
  BY Bounds DEF Down, Page
<1>2. PICK m \in ToHost : m = [type |-> "ready", epoch |-> 0, text |-> {}, ask |-> 0]
  BY Bounds DEF ToHost
<1>3. toHost' = Append(toHost, m) /\ page' = p /\ toPage' = <<>>
  BY <1>1, <1>2 DEF StartPage
<1>4. spent.pages + 1 \in Nat /\ spent \in Counts
  BY DEF Typed, Counts
<1>5. spent' = [spent EXCEPT !.pages = spent.pages + 1]
  BY DEF StartPage, Count
<1>6. spent' \in Counts
  BY <1>4, <1>5 DEF Counts
<1> QED BY <1>3, <1>6 DEF Typed

LEMMA ShowStep == IInv /\ Show => IInv'
<1> SUFFICES ASSUME IInv, Show PROVE IInv'
  OBVIOUS
<1>1. Typed'
  BY StartPageIs DEF Show, IInv, Typed
<1>2. Present /\ \A o \in Op : Moves(o)
  BY DEF Show, Present, Moves
<1> QED BY <1>1, <1>2, StillStep DEF Show

LEMMA MarkIs ==
  ASSUME Typed
  PROVE  /\ spent.typed < MaxTyped => /\ NewTyped \in 1 .. MaxTyped
                                      /\ [spent EXCEPT !["typed"] = @ + 1] \in Counts
         /\ spent.others < MaxOthers => /\ NewTheirs \in 0 .. MaxTyped + MaxOthers
                                        /\ [spent EXCEPT !["others"] = @ + 1] \in Counts
<1>1. /\ spent \in Counts /\ spent.typed \in 0 .. MaxTyped /\ spent.others \in 0 .. MaxOthers
      /\ MaxTyped \in Nat /\ MaxOthers \in Nat
  BY Bounds DEF Typed, Counts
<1>2. CASE spent.typed < MaxTyped
  <2>1. NewTyped \in 1 .. MaxTyped
    BY <1>1, <1>2 DEF NewTyped
  <2>2. spent.typed + 1 \in 0 .. MaxTyped
    BY <1>1, <1>2
  <2>3. [spent EXCEPT !["typed"] = spent.typed + 1] \in Counts
    BY <1>1, <2>2 DEF Counts
  <2>4. spent.others < MaxOthers => /\ NewTheirs \in 0 .. MaxTyped + MaxOthers
                                    /\ [spent EXCEPT !["others"] = @ + 1] \in Counts
    <3> SUFFICES ASSUME spent.others < MaxOthers
                 PROVE  /\ NewTheirs \in 0 .. MaxTyped + MaxOthers
                        /\ [spent EXCEPT !["others"] = spent.others + 1] \in Counts
      OBVIOUS
    <3>1. spent.others + 1 \in 0 .. MaxOthers
      BY <1>1
    <3>2. NewTheirs \in 0 .. MaxTyped + MaxOthers
      BY <1>1 DEF NewTheirs
    <3> QED BY <1>1, <3>1, <3>2 DEF Counts
  <2> QED BY <2>1, <2>3, <2>4
<1>3. CASE ~(spent.typed < MaxTyped)
  <2> SUFFICES ASSUME spent.others < MaxOthers
               PROVE  /\ NewTheirs \in 0 .. MaxTyped + MaxOthers
                      /\ [spent EXCEPT !["others"] = spent.others + 1] \in Counts
    BY <1>3
  <2>1. NewTheirs \in 0 .. MaxTyped + MaxOthers
    BY <1>1 DEF NewTheirs
  <2>2. spent.others + 1 \in 0 .. MaxOthers
    BY <1>1
  <2>3. [spent EXCEPT !["others"] = spent.others + 1] \in Counts
    BY <1>1, <2>2 DEF Counts
  <2> QED BY <2>1, <2>3
<1> QED BY <1>2, <1>3

LEMMA TypeStep == IInv /\ Type => IInv'
<1> SUFFICES ASSUME IInv, Type PROVE IInv'
  OBVIOUS
<1>1. page \in Page /\ page.text \in Texts /\ page.epoch \in Nat /\ Typed
  BY DEF IInv, Typed, Page
<1>2. spent' \in Counts /\ NewTyped \in 1 .. MaxTyped
  BY <1>1, MarkIs DEF Type, Count
<1>3. page.text \cup {NewTyped} \in Texts /\ page.epoch + 1 \in Nat
  BY <1>1, <1>2, Bounds DEF Texts
<1>4. page' = [page EXCEPT !.text = page.text \cup {NewTyped}, !.epoch = page.epoch + 1,
                           !.timer = TRUE]
  BY DEF Type
<1>5. page' \in Page
  BY <1>1, <1>3, <1>4 DEF Page
<1>6. Typed'
  BY <1>1, <1>2, <1>5 DEF Type, Typed
<1>7. Present /\ \A o \in Op : Moves(o)
  BY NotUp DEF Type, Moves
<1> QED BY <1>6, <1>7, StillStep DEF Type

LEMMA PostIs ==
  ASSUME Typed, NEW type \in {"edit", "snapshot"}, NEW ask \in Nat, Post(type, ask)
  PROVE  toHost' \in Seq(ToHost)
<1>1. page.epoch \in Nat /\ page.text \in Texts
  BY DEF Typed, Page
<1>2. PICK m \in ToHost : m = [type |-> type, epoch |-> page.epoch, text |-> page.text, ask |-> ask]
  BY <1>1 DEF ToHost
<1>3. toHost' = Append(toHost, m)
  BY <1>2 DEF Post
<1> QED BY <1>3 DEF Typed

LEMMA SendEditStep == IInv /\ SendEdit => IInv'
<1> SUFFICES ASSUME IInv, SendEdit PROVE IInv'
  OBVIOUS
<1>1. Typed
  BY DEF IInv
<1>2. toHost' \in Seq(ToHost)
  BY <1>1, PostIs DEF SendEdit
<1>3. page' \in Page /\ page'.up = page.up
  BY <1>1 DEF SendEdit, Typed, Page
<1>4. Typed'
  BY <1>1, <1>2, <1>3 DEF SendEdit, Typed
<1>5. Present \/ (~page'.up /\ toPage' = <<>>)
  BY <1>3, NotUp DEF SendEdit
<1>6. \A o \in Op : Moves(o)
  BY DEF SendEdit, Moves
<1> QED BY <1>4, <1>5, <1>6, StillStep DEF SendEdit

LEMMA PageReceivesStep == IInv /\ PageReceives => IInv'
<1> SUFFICES ASSUME IInv, PageReceives PROVE IInv'
  OBVIOUS
<1>1. Typed /\ toPage \in Seq(ToPage) /\ toPage # <<>>
  BY DEF IInv, Typed, PageReceives
<1>2. PICK m \in ToPage : m = Head(toPage)
  BY <1>1
<1>3. Tail(toPage) \in Seq(ToPage) /\ m.text \in Texts /\ m.locked \in BOOLEAN /\ m.ask \in Nat
  BY <1>1, <1>2 DEF ToPage
<1>4. page' \in Page /\ toHost' \in Seq(ToHost)
  <2>1. CASE /\ page' = [page EXCEPT !.text = m.text, !.locked = m.locked, !.timer = FALSE]
             /\ UNCHANGED toHost
    BY <1>1, <1>3, <2>1 DEF Typed, Page
  <2>2. CASE page' = [page EXCEPT !.timer = FALSE] /\ Post("snapshot", m.ask)
    <3>1. toHost' \in Seq(ToHost)
      BY <1>1, <1>3, <2>2, PostIs
    <3> QED BY <1>1, <2>2, <3>1 DEF Typed, Page
  <2> QED BY <1>2, <2>1, <2>2 DEF PageReceives
<1>5. Typed'
  BY <1>1, <1>3, <1>4 DEF PageReceives, Typed
<1>6. Present /\ \A o \in Op : Moves(o)
  BY NotUp DEF PageReceives, Moves
<1> QED BY <1>5, <1>6, StillStep DEF PageReceives

LEMMA MessageIs ==
  ASSUME Typed, toHost # <<>>
  PROVE  Head(toHost) \in ToHost /\ Tail(toHost) \in Seq(ToHost)
BY DEF Typed

LEMMA EditedIs ==
  ASSUME Typed, NEW m \in ToHost
  PROVE  /\ AtEpoch(m) \in Document /\ Moved(doc, AtEpoch(m)) /\ AtEpoch(m).is = doc.is
         /\ LET d == Edited(AtEpoch(m), m.text)
            IN  d \in Document /\ Moved(doc, d) /\ d.is = doc.is
<1>1. doc \in Document /\ m.epoch \in Nat /\ m.text \in Texts /\ doc.revision \in Nat
  BY DEF Typed, ToHost, Document
<1>2. PICK e \in Document : e = [doc EXCEPT !.epoch = m.epoch]
  BY <1>1 DEF Document
<1>3. /\ e.is = doc.is /\ e.text = doc.text /\ e.revision = doc.revision /\ e.saved = doc.saved
      /\ e.etag = doc.etag /\ e.umbra = doc.umbra /\ e.gen = doc.gen /\ e.session = doc.session
  BY <1>1, <1>2 DEF Document
<1>4. Moved(doc, e)
  BY <1>3 DEF Moved
<1>5. e.revision + 1 \in Nat
  BY <1>1, <1>3
<1>6. PICK d \in Document : d = [e EXCEPT !.text = m.text, !.revision = e.revision + 1]
  BY <1>1, <1>5 DEF Document
<1>7. /\ d.is = e.is /\ d.revision = e.revision + 1 /\ d.saved = e.saved
      /\ d.etag = e.etag /\ d.umbra = e.umbra /\ d.gen = e.gen /\ d.session = e.session
  BY <1>6 DEF Document
<1>8. Moved(doc, d) /\ d.is = doc.is
  BY <1>3, <1>7 DEF Moved
<1>9. Edited(e, m.text) \in {e, d}
  BY <1>6 DEF Edited
<1> QED BY <1>2, <1>3, <1>4, <1>8, <1>9 DEF AtEpoch

LEMMA IgnoreStep == IInv /\ Ignore => IInv'
<1> SUFFICES ASSUME IInv, Ignore PROVE IInv'
  OBVIOUS
<1>1. Typed /\ DocOK /\ toHost # <<>>
  BY DEF IInv, Ignore
<1>2. PICK m \in ToHost : m = Head(toHost) /\ Tail(toHost) \in Seq(ToHost)
  BY <1>1, MessageIs
<1>3. PICK d \in Document : d = AtEpoch(m) /\ Moved(doc, d) /\ d.is = doc.is
  BY <1>1, <1>2, EditedIs
<1>4. doc' \in {doc, d}
  BY <1>2, <1>3 DEF Ignore
<1>5. Typed'
  BY <1>1, <1>2, <1>3, <1>4 DEF Ignore, Typed
<1>6. \A o \in Op : Moves(o)
  BY DEF Ignore, Moves
<1>7. CASE doc' = doc
  BY <1>5, <1>6, <1>7, NotUp, StillStep DEF Ignore
<1>8. CASE doc' = d
  <2>1. CASE Present
    <3>1. Present' /\ Becomes(d)
      BY <1>3, <1>8, <2>1 DEF Present, Becomes
    <3> QED BY <1>3, <1>5, <1>6, <2>1, <3>1, EditStep DEF Ignore
  <2>2. CASE ~Present
    <3>1. /\ ~Present' /\ doc'.text = doc.text /\ doc'.saved = doc.saved
          /\ doc'.revision = doc.revision /\ doc'.etag = doc.etag /\ doc'.gen = doc.gen
      <4>1. d = [doc EXCEPT !.epoch = m.epoch] /\ doc \in Document
        BY <1>1, <1>3 DEF AtEpoch, Typed
      <4> QED BY <1>8, <2>2, <4>1 DEF Document, Present
    <3>2. /\ doc'.text = {} /\ doc'.saved <= doc'.revision /\ doc'.etag <= Now
          /\ ~page'.up /\ toPage' = <<>>
      BY <1>1, <2>2, <3>1 DEF DocOK, Ignore
    <3>3. Grows /\ DraftOK'
      BY <1>1, GrowsNot DEF Ignore, IInv, DraftOK, Now
    <3>4. DocOK' /\ DocMoves
      BY <1>5, <3>1, <3>2, <3>3, DocGone
    <3>5. doc.gen <= doc'.gen
      BY <1>1, <3>1, Sizes
    <3> QED BY <1>5, <1>6, <3>3, <3>4, <3>5, SameCalls DEF Ignore, Moves
  <2> QED BY <2>1, <2>2
<1> QED BY <1>4, <1>7, <1>8

LEMMA SendIs ==
  ASSUME Typed, NEW d \in Document, Send(d)
  PROVE  toPage' \in Seq(ToPage)
<1>1. d.text \in Texts /\ d.umbra \in BOOLEAN /\ toPage \in Seq(ToPage)
  BY DEF Typed, Document
<1>2. PICK m \in ToPage : m = Content(d)
  BY <1>1 DEF Content, ToPage
<1> QED BY <1>1, <1>2 DEF Send

LEMMA ReceiveReadyStep == IInv /\ ReceiveReady => IInv'
<1> SUFFICES ASSUME IInv, ReceiveReady PROVE IInv'
  OBVIOUS
<1>1. Typed /\ toHost # <<>> /\ doc \in Document
  BY DEF IInv, Typed, ReceiveReady
<1>2. PICK m \in ToHost : m = Head(toHost) /\ Tail(toHost) \in Seq(ToHost)
  BY <1>1, MessageIs
<1>3. PICK d \in Document : d = AtEpoch(m) /\ Moved(doc, d) /\ d.is = doc.is
  BY <1>1, <1>2, EditedIs
<1>4. doc' = d /\ doc.is = "open" /\ Send(doc)
  BY <1>2, <1>3 DEF ReceiveReady
<1>5. toPage' \in Seq(ToPage)
  BY <1>1, <1>4, SendIs
<1>6. Typed'
  BY <1>1, <1>2, <1>4, <1>5 DEF ReceiveReady, Typed
<1>7. Present /\ Present' /\ Becomes(d) /\ \A o \in Op : Moves(o)
  BY <1>3, <1>4 DEF ReceiveReady, Present, Becomes, Moves
<1> QED BY <1>3, <1>6, <1>7, EditStep DEF ReceiveReady

LEMMA ReceiveEditStep == IInv /\ ReceiveEdit => IInv'
<1> SUFFICES ASSUME IInv, ReceiveEdit PROVE IInv'
  OBVIOUS
<1>1. Typed /\ toHost # <<>>
  BY DEF IInv, ReceiveEdit
<1>2. PICK m \in ToHost : m = Head(toHost) /\ Tail(toHost) \in Seq(ToHost)
  BY <1>1, MessageIs
<1>3. PICK d \in Document : d = Edited(AtEpoch(m), m.text) /\ Moved(doc, d) /\ d.is = doc.is
  BY <1>1, <1>2, EditedIs
<1>4. doc' = d /\ doc.is = "open"
  BY <1>2, <1>3 DEF ReceiveEdit
<1>5. Typed'
  BY <1>1, <1>2, <1>4 DEF ReceiveEdit, Typed
<1>6. Present /\ Present' /\ Becomes(d) /\ \A o \in Op : Moves(o)
  BY <1>3, <1>4 DEF ReceiveEdit, Present, Becomes, Moves
<1> QED BY <1>3, <1>5, <1>6, EditStep DEF ReceiveEdit

LEMMA OneEnds ==
  ASSUME Typed, NEW o \in Op, ops' = [ops EXCEPT ![o] = Idle], ops[o].at # "called"
  PROVE  ops' \in [Op -> Operation] /\ \A p \in Op : Moves(p)
BY IdleIs DEF Typed, Moves

LEMMA FlushFailsStep == \A o \in Op : IInv /\ FlushFails(o) => IInv'
<1> SUFFICES ASSUME IInv, NEW o \in Op, FlushFails(o) PROVE IInv'
  OBVIOUS
<1>1. Typed /\ ops' = [ops EXCEPT ![o] = Idle] /\ ops[o].at # "called"
  BY DEF IInv, FlushFails, End, Set, Flushing
<1>2. ops' \in [Op -> Operation] /\ \A p \in Op : Moves(p)
  BY <1>1, OneEnds
<1>3. Typed'
  BY <1>1, <1>2 DEF FlushFails, Typed
<1> QED BY <1>2, <1>3, NotUp, StillStep DEF FlushFails

LEMMA GiveUpStep == \A o \in Op : IInv /\ GiveUp(o) => IInv'
<1> SUFFICES ASSUME IInv, NEW o \in Op, GiveUp(o) PROVE IInv'
  OBVIOUS
<1>1. Typed /\ ops' = [ops EXCEPT ![o] = Idle] /\ ops[o].at # "called"
  BY DEF IInv, GiveUp, End, Set
<1>2. ops' \in [Op -> Operation] /\ \A p \in Op : Moves(p)
  BY <1>1, OneEnds
<1>3. Typed'
  BY <1>1, <1>2 DEF GiveUp, Typed
<1> QED BY <1>2, <1>3, NotUp, StillStep DEF GiveUp

LEMMA CountIs ==
  ASSUME Typed, NEW what \in {"pages", "started"}, Count(what)
  PROVE  spent' \in Counts
<1>1. spent.pages + 1 \in Nat /\ spent.started + 1 \in Nat /\ spent \in Counts
  BY DEF Typed, Counts
<1>2. CASE what = "pages"
  <2>1. spent' = [spent EXCEPT !.pages = spent.pages + 1]
    BY <1>2 DEF Count
  <2> QED BY <1>1, <2>1 DEF Counts
<1>3. CASE what = "started"
  <2>1. spent' = [spent EXCEPT !.started = spent.started + 1]
    BY <1>3 DEF Count
  <2> QED BY <1>1, <2>1 DEF Counts
<1> QED BY <1>2, <1>3

\* A request for a snapshot.
LEMMA FlushesIs ==
  ASSUME IInv, NEW o \in Op, NEW r \in Operation, NEW at \in Flushing, NEW d \in Document,
         Flushes(o, r, at, d), d.is = "open", r.doc <= doc.gen, r.session \in 1 .. session.gen,
         r.etag <= Now, o # "lockUmbra"
  PROVE  /\ doc' \in Document /\ doc'.is = d.is /\ Becomes(d) /\ Present'
         /\ toPage' \in Seq(ToPage) /\ ops' \in [Op -> Operation]
         /\ \A p \in Op : p # o => ops'[p] = ops[p]
         /\ UNCHANGED <<versions, session>> /\ doc.gen <= doc'.gen => OpOK(o)'
<1>1. Typed /\ d.asked + 1 \in Nat
  BY DEF IInv, Document
<1>2. PICK asked \in Nat : asked = d.asked + 1
  BY <1>1
<1>3. PICK m \in ToPage : m = [type |-> "snapshotRequest", ask |-> asked, text |-> {},
                               locked |-> FALSE]
  BY Bounds DEF ToPage
<1>4. PICK w \in Operation : w = [r EXCEPT !.at = at, !.ask = asked]
  BY DEF Operation, Steps
<1>5. PICK e \in Document : e = [d EXCEPT !.asked = asked]
  BY DEF Document
<1>6. doc' = e /\ toPage' = Append(toPage, m) /\ ops' = [ops EXCEPT ![o] = w]
  BY <1>2, <1>3, <1>4, <1>5 DEF Flushes, Set
<1>7. e.is = d.is /\ Becomes(d)
  BY <1>5, <1>6 DEF Document, Becomes
<1>8. toPage' \in Seq(ToPage) /\ ops' \in [Op -> Operation] /\ ops'[o] = w
  BY <1>1, <1>6 DEF Typed
<1>9. /\ w.at = at /\ w.session = r.session /\ w.doc = r.doc /\ w.etag = r.etag
      /\ r.doc \in Nat /\ r.session \in Nat
  BY <1>4, Bounds DEF Operation
<1>10. ASSUME UNCHANGED <<versions, session>>, doc.gen <= doc'.gen PROVE OpOK(o)'
  <2>1. doc'.gen \in Nat /\ doc.gen \in Nat /\ session.gen \in Nat
    BY <1>1, <1>6, Sizes DEF Document
  <2>2. r.doc <= doc'.gen /\ r.session <= session'.gen /\ r.session >= 1
    BY <1>9, <1>10, <2>1
  <2> QED BY <1>8, <1>9, <1>10, <2>2 DEF OpOK, Now
<1>11. \A p \in Op : p # o => ops'[p] = ops[p]
  BY <1>1, <1>6 DEF Typed
<1>12. Present'
  BY <1>6, <1>7 DEF Present
<1> QED BY <1>6, <1>7, <1>8, <1>10, <1>11, <1>12

LEMMA EnteredIs ==
  ASSUME Typed, NEW o \in Op
  PROVE  LET r == Entered(o)
         IN  /\ r \in Operation /\ r.doc = doc.gen /\ r.session = session.gen /\ r.etag = 0
             /\ r.session \in 1 .. session.gen /\ r.doc <= doc.gen /\ r.etag <= Now
             /\ r.rev = 0
<1>1. session.gen \in 1 .. MaxSessions /\ doc.gen \in Nat /\ Now \in Nat /\ session.gen \in Nat
  BY Sizes
<1>2. PICK r \in Operation : r = Entered(o)
  <2>1. session.gen \in 0 .. MaxSessions
    BY <1>1, Bounds
  <2> QED BY <1>1, <2>1, IdleIs DEF Entered, Operation
<1>3. r.doc = doc.gen /\ r.session = session.gen /\ r.etag = 0 /\ r.rev = 0
  BY <1>2, IdleIs DEF Entered, Idle
<1> QED BY <1>1, <1>2, <1>3

LEMMA StartFlushStep == \A o \in Op : IInv /\ StartFlush(o) => IInv'
<1> SUFFICES ASSUME IInv, NEW o \in Op, StartFlush(o) PROVE IInv'
  OBVIOUS
<1>1. Typed /\ doc \in Document /\ doc.is = "open" /\ ops[o].at = "idle"
  BY DEF IInv, Typed, StartFlush, Starts
<1>2. PICK at \in Flushing : at = IF o = "save" THEN "saveFlush" ELSE "flush"
  BY DEF Flushing
<1>3. PICK r \in Operation :
        /\ r = Entered(o) /\ r.session \in 1 .. session.gen /\ r.doc <= doc.gen /\ r.etag <= Now
  BY <1>1, EnteredIs
<1>4. Flushes(o, r, at, doc) /\ o # "lockUmbra"
  BY <1>2, <1>3 DEF StartFlush, AskPage, Mutation
<1>5. /\ doc' \in Document /\ Becomes(doc) /\ Present'
      /\ toPage' \in Seq(ToPage) /\ ops' \in [Op -> Operation]
      /\ \A p \in Op : p # o => ops'[p] = ops[p]
      /\ UNCHANGED <<versions, session>> /\ doc.gen <= doc'.gen => OpOK(o)'
  BY <1>1, <1>3, <1>4, FlushesIs
<1>6. spent' \in Counts
  BY <1>1, CountIs DEF StartFlush, Starts
<1>7. Typed'
  BY <1>1, <1>5, <1>6 DEF StartFlush, Typed
<1>8. doc.gen <= doc'.gen
  BY <1>1, <1>5, Sizes DEF Becomes
<1>9. \A p \in Op : Moves(p)
  BY <1>1, <1>5, <1>8 DEF StartFlush, Moves
<1>10. Present /\ Moved(doc, doc)
  BY <1>1 DEF Present, Moved
<1> QED BY <1>1, <1>5, <1>7, <1>9, <1>10, EditStep DEF StartFlush

LEMMA SaveFirstStep == \A o \in Op : IInv /\ SaveFirst(o) => IInv'
<1> SUFFICES ASSUME IInv, NEW o \in Op, SaveFirst(o) PROVE IInv'
  OBVIOUS
<1>1. Typed /\ OpOK(o) /\ doc \in Document /\ doc.is = "open" /\ ops[o].at = "asking"
  BY DEF IInv, Typed, OpsOK, SaveFirst, Usable
<1>2. PICK r \in Operation : r = ops[o]
  BY <1>1, Sizes
<1>3. r.session \in 1 .. session.gen /\ r.doc <= doc.gen /\ r.etag <= Now /\ o # "lockUmbra"
  BY <1>1, <1>2, Sizes DEF OpOK
<1>4. Flushes(o, r, "saveFlush", doc) /\ "saveFlush" \in Flushing
  BY <1>2 DEF SaveFirst, Flushing
<1>5. /\ doc' \in Document /\ Becomes(doc) /\ Present'
      /\ toPage' \in Seq(ToPage) /\ ops' \in [Op -> Operation]
      /\ \A p \in Op : p # o => ops'[p] = ops[p]
      /\ UNCHANGED <<versions, session>> /\ doc.gen <= doc'.gen => OpOK(o)'
  BY <1>1, <1>3, <1>4, FlushesIs
<1>6. Typed'
  BY <1>1, <1>5 DEF SaveFirst, Typed
<1>7. doc.gen <= doc'.gen
  BY <1>1, <1>5, Sizes DEF Becomes
<1>8. \A p \in Op : Moves(p)
  BY <1>1, <1>5, <1>7 DEF SaveFirst, Moves
<1>9. Present /\ Moved(doc, doc)
  BY <1>1 DEF Present, Moved
<1> QED BY <1>1, <1>5, <1>6, <1>8, <1>9, EditStep DEF SaveFirst

LEMMA LockClosedStep == IInv /\ LockClosed => IInv'
<1> SUFFICES ASSUME IInv, LockClosed PROVE IInv'
  OBVIOUS
<1>1. Typed /\ DocOK /\ DraftOK /\ doc.is = "closed"
  BY DEF IInv, LockClosed
<1>2. session' \in [is : {"unlocked", "locked", "expired"}, gen : Generations]
      /\ session'.gen = session.gen
  BY <1>1 DEF LockClosed, Typed
<1>3. Typed'
  BY <1>1, <1>2 DEF LockClosed, Typed
<1>4. Grows /\ DraftOK' /\ ~Present /\ ~Present'
  BY <1>1, GrowsNot DEF LockClosed, DraftOK, Now, Present
<1>5. DocOK' /\ DocMoves /\ doc.gen <= doc'.gen
  BY <1>1, <1>4, Sizes DEF LockClosed, DocOK, DocMoves, Now
<1> QED BY <1>2, <1>3, <1>4, <1>5, SameCalls DEF LockClosed

LEMMA OtherCommitsStep == IInv /\ OtherCommits => IInv'
<1> SUFFICES ASSUME IInv, OtherCommits PROVE IInv'
  OBVIOUS
<1>1. Typed /\ DraftOK /\ versions \in Seq(Version) /\ Latest \in Version
  BY LatestIs DEF IInv, Typed
<1>2. spent' \in Counts /\ NewTheirs \in 0 .. MaxTyped + MaxOthers
  BY <1>1, MarkIs DEF OtherCommits, Count
<1>3. Latest.text \cup {NewTheirs} \in Texts
  BY <1>1, <1>2 DEF Texts, Version
<1>4. PICK v \in Version : v = [Latest EXCEPT !.text = Latest.text \cup {NewTheirs}]
  BY <1>1, <1>3 DEF Version
<1>5. v.kind = Latest.kind /\ (Plain <=> Latest.kind = "plain")
  BY <1>1, <1>4, LatestIs DEF Version
<1>6. versions' = Append(versions, v)
  BY <1>4 DEF OtherCommits
<1>7. versions' = versions \o <<v>>
  BY <1>1, <1>6
<1>8. versions' \in Seq(Version) /\ Len(versions') > 0 /\ Grows
  BY <1>1, <1>5, <1>7, AddedGrows
<1>9. Typed'
  BY <1>1, <1>2, <1>8 DEF OtherCommits, Typed
<1>10. DraftOK' /\ doc.gen <= doc'.gen
  BY <1>1, <1>8, <1>9, Sizes, SizesNext DEF OtherCommits, DraftOK, Grows
<1>11. Kept
  BY DEF OtherCommits, Kept, LockingUmbra
<1>12. DocOK' /\ DocMoves
  BY <1>8, <1>9, <1>11, NotUp, DocStays DEF OtherCommits
<1> QED BY <1>8, <1>9, <1>10, <1>12, SameCalls DEF OtherCommits

-----------------------------------------------------------------------------
(* The document goes, sessions end.                                        *)

\* A document that goes takes what it showed with it.
Gone ==
  /\ doc'.is \notin {"open", "frozen"} /\ doc'.text = {} /\ doc'.saved <= doc'.revision
  /\ doc'.etag <= Now /\ doc'.gen = doc.gen /\ doc' \in Document
  /\ page' = Down /\ toPage' = <<>>

LEMMA WipedGone ==
  ASSUME IInv, doc' = Wiped(doc), page' = Down, toPage' = <<>>
  PROVE  Gone
BY WipedIs DEF Gone

LEMMA DisposeGone ==
  ASSUME IInv, Dispose
  PROVE  Gone /\ toHost' = <<>> /\ draft' = NoDraft
BY ClosedIs DEF Dispose, Gone

LEMMA GoneIs ==
  ASSUME IInv, Typed', Gone, Grows
  PROVE  DocOK' /\ DocMoves /\ doc.gen <= doc'.gen
<1>1. ~Present' /\ ~page'.up
  BY Defaults DEF Gone, Present
<1>2. DocOK' /\ DocMoves
  BY <1>1, DocGone DEF Gone
<1>3. doc.gen <= doc'.gen
  BY Sizes DEF IInv, Gone
<1> QED BY <1>2, <1>3

LEMMA Emptied ==
  /\ <<>> \in Seq(ToPage) /\ <<>> \in Seq(ToHost) /\ <<>> \in Seq(Answers) /\ Down \in Page
  /\ NoDraft \in [base : Nat, text : Texts]
BY Defaults

LEMMA SessionEnds ==
  ASSUME Typed, NEW is \in {"locked", "expired"}, session' = [session EXCEPT !.is = is]
  PROVE  /\ session' \in [is : {"unlocked", "locked", "expired"}, gen : Generations]
         /\ session'.gen = session.gen /\ session'.is = is
BY DEF Typed

LEMMA DiscardStep == IInv /\ Discard => IInv'
<1> SUFFICES ASSUME IInv, Discard PROVE IInv'
  OBVIOUS
<1>1. Typed /\ Gone /\ toHost' = <<>> /\ draft' = NoDraft
  BY DisposeGone DEF IInv, Discard
<1>2. session' \in [is : {"unlocked", "locked", "expired"}, gen : Generations]
      /\ session'.gen = session.gen
  BY <1>1, SessionEnds DEF Discard
<1>3. /\ ops' \in [Op -> Operation]
      /\ \A p \in Op : ops'[p] = ops[p] \/ (ops[p].at # "called" /\ ops'[p] = Idle)
  BY <1>1, IdleIs DEF Discard, Typed, Rejected, Flushing
<1>4. Typed'
  BY <1>1, <1>2, <1>3, Emptied DEF Discard, Gone, Typed
<1>5. Grows /\ DraftOK'
  BY <1>1, <1>4, GrowsNot, SizesNext, Defaults DEF Discard, DraftOK
<1>6. DocOK' /\ DocMoves /\ doc.gen <= doc'.gen
  BY <1>1, <1>4, <1>5, GoneIs
<1> QED BY <1>2, <1>3, <1>4, <1>5, <1>6, SameCalls DEF Discard

LEMMA CloseTabStep == IInv /\ CloseTab => IInv'
<1> SUFFICES ASSUME IInv, CloseTab PROVE IInv'
  OBVIOUS
<1>1. Typed /\ Gone /\ toHost' = <<>> /\ draft' = NoDraft
  BY DisposeGone DEF IInv, CloseTab
<1>2. /\ ops' \in [Op -> Operation]
      /\ \A p \in Op : ops'[p] = ops[p] \/ (ops[p].at # "called" /\ ops'[p] = Idle)
  BY <1>1, IdleIs DEF CloseTab, Typed, Rejected, Flushing
<1>3. Typed'
  BY <1>1, <1>2, Emptied DEF CloseTab, Gone, Typed
<1>4. Grows /\ DraftOK'
  BY <1>1, <1>3, GrowsNot, SizesNext, Defaults DEF CloseTab, DraftOK
<1>5. DocOK' /\ DocMoves /\ doc.gen <= doc'.gen
  BY <1>1, <1>3, <1>4, GoneIs
<1> QED BY <1>2, <1>3, <1>4, <1>5, SameCalls DEF CloseTab

LEMMA NoneFollowed == OneEach(<<>>) /\ Followed(<<>>) /\ Range(<<>>) = {}
BY DEF OneEach, Followed, Range

LEMMA ExpireStep == IInv /\ Expire => IInv'
<1> SUFFICES ASSUME IInv, Expire PROVE IInv'
  OBVIOUS
<1>1. Typed /\ Gone /\ DraftOK /\ CallsOK /\ OneCall /\ session.is = "unlocked"
      /\ session.gen \in Generations
  BY WipedGone DEF IInv, Expire, WipeForLock, Typed
<1>2. session' \in [is : {"unlocked", "locked", "expired"}, gen : Generations]
      /\ session'.gen = session.gen
  BY <1>1, SessionEnds DEF Expire
<1>3. /\ ops' \in [Op -> Operation]
      /\ \A p \in Op : IF ops[p].session = session.gen THEN ops'[p] = Idle ELSE ops'[p] = ops[p]
  BY <1>1, IdleIs DEF Expire, Typed, Current
<1>4. calls' = [calls EXCEPT ![session.gen] = <<>>]
  BY DEF Expire
<1>5. calls' \in [Generations -> Seq(Answers)] /\ calls'[session.gen] = <<>>
      /\ \A g \in Generations : g # session.gen => calls'[g] = calls[g]
  BY <1>1, <1>4, Emptied DEF Typed
<1>6. Typed'
  BY <1>1, <1>2, <1>3, <1>5, Emptied DEF Expire, Gone, Typed
<1>7. Grows /\ DraftOK'
  BY <1>1, GrowsNot DEF Expire, DraftOK, Now
<1>8. DocOK' /\ DocMoves /\ doc.gen <= doc'.gen
  BY <1>1, <1>6, <1>7, GoneIs
<1>9. OpsOK'
  BY <1>1, <1>2, <1>3, <1>6, <1>7, <1>8, OpsStay, Sizes DEF Grows
<1>10. ASSUME NEW g \in Generations, NEW c \in Range(calls'[g])
       PROVE  c \in Range(calls[g]) /\ ops'[c.op] = ops[c.op]
  <2>1. g # session.gen /\ c \in Range(calls[g]) /\ calls[g] \in Seq(Answers)
    BY <1>1, <1>5, <1>10, NoneFollowed DEF Typed
  <2>2. c \in Answers /\ CallOK(g, c)
    BY <1>1, <2>1 DEF CallsOK, Range
  <2> QED BY <1>3, <2>1, <2>2 DEF CallOK, Answers
<1>11. CallsOK'
  BY <1>6, <1>7, <1>8, <1>10, CallsStay
<1>12. OneCall' /\ KeyOK'
  BY <1>1, <1>2, <1>5, NoneFollowed DEF OneCall, KeyOK
<1> QED BY <1>6, <1>7, <1>8, <1>9, <1>11, <1>12 DEF IInv

LEMMA UnlockStep == IInv /\ Unlock => IInv'
<1> SUFFICES ASSUME IInv, Unlock PROVE IInv'
  OBVIOUS
<1>1. Typed /\ DocOK /\ DraftOK /\ CallsOK /\ OneCall /\ OpsOK
  BY DEF IInv
<1>2. /\ session.gen \in Nat /\ session.gen \in 1 .. MaxSessions /\ session.gen < MaxSessions
      /\ session' = [is |-> "unlocked", gen |-> session.gen + 1] /\ umbra' \in BOOLEAN
  BY <1>1, Sizes DEF Unlock
<1>3. session.gen + 1 \in Generations /\ session'.gen = session.gen + 1
  BY <1>2, Bounds DEF Generations
<1>4. Typed'
  BY <1>1, <1>2, <1>3 DEF Unlock, Typed
<1>5. ~Present /\ ~Present'
  BY <1>1 DEF Unlock, DocOK, Present
<1>6. Grows /\ DraftOK'
  BY <1>1, GrowsNot DEF Unlock, DraftOK, Now
<1>7. DocOK' /\ DocMoves
  BY <1>1, <1>5 DEF Unlock, DocOK, DocMoves, Now
<1>8. OpsOK'
  <2>1. doc.gen <= doc'.gen /\ session.gen <= session'.gen
    BY <1>1, <1>2, <1>3, Sizes DEF Unlock
  <2> QED BY <1>4, <1>6, <2>1, OpsStay DEF Unlock, Grows
<1>9. CallsOK'
  BY <1>4, <1>6, <1>7, CallsStay DEF Unlock
<1>10. Followed(calls[session.gen + 1])
  <2> DEFINE g == session.gen + 1
  <2>1. g \in Generations /\ g > session.gen
    BY <1>2, <1>3
  <2>2. ASSUME NEW c \in Range(calls[g]) PROVE FALSE
    <3>1. CallOK(g, c) /\ calls[g] \in Seq(Answers)
      BY <1>1, <2>1 DEF CallsOK, Typed
    <3>2. c \in Answers /\ c.op \in Op
      <4>1. c \in Answers
        BY <2>2, <3>1 DEF Range
      <4> QED BY <4>1 DEF Answers
    <3>3. ops[c.op].session = g /\ ops[c.op].session <= session.gen
      BY <1>1, <3>1, <3>2 DEF CallOK, OpsOK, OpOK
    <3> QED BY <1>2, <2>1, <3>3
  <2>3. \A i \in DOMAIN calls[g] : FALSE
    BY <2>2 DEF Range
  <2> QED BY <2>3 DEF Followed
<1>11. OneCall' /\ KeyOK'
  BY <1>1, <1>3, <1>10 DEF Unlock, OneCall, KeyOK
<1> QED BY <1>4, <1>6, <1>7, <1>8, <1>9, <1>11 DEF IInv

LEMMA CrashStep == IInv /\ Crash => IInv'
<1> SUFFICES ASSUME IInv, Crash PROVE IInv'
  OBVIOUS
<1>1. Typed /\ DraftOK
  BY DEF IInv
<1>2. Gone
  BY ClosedIs DEF Crash, Gone
<1>3. session' \in [is : {"unlocked", "locked", "expired"}, gen : Generations]
      /\ session'.gen = session.gen
  BY <1>1, SessionEnds DEF Crash
<1>4. /\ ops' \in [Op -> Operation] /\ \A o \in Op : ops'[o] = Idle
      /\ calls' \in [Generations -> Seq(Answers)] /\ \A g \in Generations : calls'[g] = <<>>
  BY IdleIs, Emptied DEF Crash
<1>5. Typed'
  BY <1>1, <1>2, <1>3, <1>4, Emptied DEF Crash, Gone, Typed
<1>6. Grows /\ DraftOK'
  BY <1>1, GrowsNot DEF Crash, DraftOK, Now
<1>7. DocOK' /\ DocMoves /\ doc.gen <= doc'.gen
  BY <1>2, <1>5, <1>6, GoneIs
<1>8. OpsOK'
  BY <1>1, <1>3, <1>4, <1>5, <1>6, <1>7, OpsStay, Sizes DEF Grows
<1>9. CallsOK' /\ OneCall'
  BY <1>4, NoneFollowed DEF CallsOK, OneCall
<1>10. KeyOK'
  BY <1>4, <1>5, NoneFollowed DEF KeyOK, Typed
<1> QED BY <1>5, <1>6, <1>7, <1>8, <1>9, <1>10 DEF IInv

-----------------------------------------------------------------------------
(* Operations that call inexd.                                             *)

LEMMA StartOpenStep == IInv /\ StartOpen => IInv'
<1> SUFFICES ASSUME IInv, StartOpen PROVE IInv'
  OBVIOUS
<1>1. Typed /\ DraftOK /\ "open" \in Op /\ "open" \in Methods /\ ops["open"].at = "idle"
  BY DEF IInv, StartOpen, Starts, Op, Methods
<1>2. PICK r \in Operation :
        /\ r = Entered("open") /\ r.session \in 1 .. session.gen /\ r.doc <= doc.gen
        /\ r.etag <= Now
  BY <1>1, EnteredIs
<1>3. PICK queue \in Seq(Answers) : queue = calls[r.session] /\ r.session \in Generations
  BY <1>1, <1>2, SendsIn DEF Typed
<1>4. Call("open", r, queue, "open", 0, {}) /\ {} \in Texts /\ 0 \in Nat
  BY <1>2, <1>3, Bounds DEF StartOpen, Calls
<1>5. Sends("open", r, queue, "open", 0)
  BY <1>1, <1>2, <1>3, NotCalled DEF Sends
<1>6. /\ versions' \in Seq(Version) /\ Len(versions') > 0 /\ Grows
      /\ ops' \in [Op -> Operation] /\ calls' \in [Generations -> Seq(Answers)]
      /\ umbra' \in BOOLEAN /\ Kept
  BY <1>1, <1>3, <1>4, CallIs
<1>7. spent' \in Counts
  BY <1>1, CountIs DEF StartOpen, Starts
<1>8. Typed'
  BY <1>1, <1>6, <1>7 DEF StartOpen, Typed
<1>9. DraftOK'
  BY <1>1, <1>6, <1>8, Sizes, SizesNext DEF StartOpen, DraftOK, Grows
<1>10. DocOK' /\ DocMoves /\ doc.gen <= doc'.gen
  BY <1>1, <1>6, <1>8, NotUp, DocStays, Sizes DEF StartOpen
<1> QED BY <1>1, <1>4, <1>5, <1>8, <1>9, <1>10, CallMade DEF StartOpen

LEMMA StartLockUmbraStep == IInv /\ StartLockUmbra => IInv'
<1> SUFFICES ASSUME IInv, StartLockUmbra PROVE IInv'
  OBVIOUS
<1> DEFINE o == "lockUmbra"
<1>1. Typed /\ DraftOK /\ o \in Op /\ o \in Methods /\ ops[o].at = "idle"
  BY DEF IInv, StartLockUmbra, Starts, Op, Methods
<1>2. PICK r \in Operation :
        r = Entered(o) /\ r.session \in 1 .. session.gen /\ r.doc <= doc.gen /\ r.etag <= Now
  BY <1>1, EnteredIs
<1>3. PICK queue \in Seq(Answers) : queue = calls[r.session] /\ r.session \in Generations
  BY <1>1, <1>2, SendsIn DEF Typed
<1>4. Call(o, r, queue, o, 0, {}) /\ {} \in Texts /\ 0 \in Nat
  BY <1>2, <1>3, Bounds DEF StartLockUmbra, Calls
<1>5. Sends(o, r, queue, o, 0)
  BY <1>1, <1>2, <1>3, NotCalled DEF Sends
<1>6. /\ versions' \in Seq(Version) /\ Len(versions') > 0 /\ Grows
      /\ ops' \in [Op -> Operation] /\ calls' \in [Generations -> Seq(Answers)]
      /\ umbra' \in BOOLEAN /\ Kept
  BY <1>1, <1>3, <1>4, CallIs
<1>7. spent' \in Counts
  BY <1>1, CountIs DEF StartLockUmbra, Starts
<1>8. Typed'
  BY <1>1, <1>6, <1>7 DEF StartLockUmbra, Typed
<1>9. DraftOK'
  BY <1>1, <1>6, <1>8, Sizes, SizesNext DEF StartLockUmbra, DraftOK, Grows
<1>10. DocOK' /\ DocMoves /\ doc.gen <= doc'.gen
  BY <1>1, <1>6, <1>8, NotUp, DocStays, Sizes DEF StartLockUmbra
<1> QED BY <1>1, <1>4, <1>5, <1>8, <1>9, <1>10, CallMade DEF StartLockUmbra

LEMMA StartCallStep == \A o \in Op : IInv /\ StartCall(o) => IInv'
<1> SUFFICES ASSUME IInv, NEW o \in Op, StartCall(o) PROVE IInv'
  OBVIOUS
<1>1. Typed /\ DraftOK /\ ops[o].at = "idle" /\ doc \in Document
  BY DEF IInv, Typed, StartCall, Starts
<1>2. PICK r \in Operation :
        r = Entered(o) /\ r.session \in 1 .. session.gen /\ r.doc <= doc.gen /\ r.etag <= Now
  BY <1>1, EnteredIs
<1>3. PICK queue \in Seq(Answers) : queue = calls[r.session] /\ r.session \in Generations
  BY <1>1, <1>2, SendsIn DEF Typed
<1>4. PICK method \in {"project", "read", "annotate"}, etag \in Nat, text \in Texts :
        Call(o, r, queue, method, etag, text)
  <2>1. CASE o = "revert"
               /\ Calls(o, Entered(o), IF doc.umbra THEN "project" ELSE "read", 0, {})
    <3>1. 0 \in Nat /\ {} \in Texts
      BY Bounds
    <3>2. PICK method \in {"project", "read", "annotate"} :
            method = IF doc.umbra THEN "project" ELSE "read"
      OBVIOUS
    <3> QED BY <1>2, <1>3, <2>1, <3>1, <3>2 DEF Calls
  <2>2. CASE Calls(o, Entered(o), "annotate", doc.etag, doc.text)
    <3>1. doc.etag \in Nat /\ doc.text \in Texts
      BY <1>1 DEF Document
    <3> QED BY <1>2, <1>3, <2>2, <3>1 DEF Calls
  <2> QED BY <2>1, <2>2 DEF StartCall
<1>5. /\ method \in Methods /\ method \notin {"lockUmbra", "decrypt", "release", "write"}
      /\ o # "lockUmbra"
  BY DEF Methods, StartCall
<1>6. Sends(o, r, queue, method, etag)
  BY <1>1, <1>2, <1>3, <1>5, NotCalled DEF Sends
<1>7. /\ versions' \in Seq(Version) /\ Len(versions') > 0 /\ Grows
      /\ ops' \in [Op -> Operation] /\ calls' \in [Generations -> Seq(Answers)]
      /\ umbra' \in BOOLEAN /\ Kept
  BY <1>1, <1>3, <1>4, <1>5, CallIs
<1>8. spent' \in Counts
  BY <1>1, CountIs DEF StartCall, Starts
<1>9. Typed'
  BY <1>1, <1>7, <1>8 DEF StartCall, Typed
<1>10. DraftOK'
  BY <1>1, <1>7, <1>9, Sizes, SizesNext DEF StartCall, DraftOK, Grows
<1>11. DocOK' /\ DocMoves /\ doc.gen <= doc'.gen
  BY <1>1, <1>7, <1>9, NotUp, DocStays, Sizes DEF StartCall
<1> QED BY <1>1, <1>4, <1>5, <1>6, <1>9, <1>10, <1>11, CallMade DEF StartCall

LEMMA CloseForMutationStep == \A o \in Op : IInv /\ CloseForMutation(o) => IInv'
<1> SUFFICES ASSUME IInv, NEW o \in Op, CloseForMutation(o) PROVE IInv'
  OBVIOUS
<1>1. /\ Typed /\ DraftOK /\ OpOK(o) /\ doc \in Document /\ doc.is = "frozen" /\ o \in Mutation
      /\ ops[o].at = "closing" /\ UNCHANGED session
  BY DEF IInv, Typed, OpsOK, CloseForMutation
<1>2. CASE Dispose /\ Calls(o, ops[o], o, ops[o].etag, {}) /\ UNCHANGED spent
  <2>1. PICK r \in Operation, etag \in Nat : r = ops[o] /\ etag = r.etag
    BY <1>1, Sizes
  <2>2. r.session \in 1 .. session.gen /\ r.doc <= doc.gen /\ r.etag <= Now
    BY <1>1, <2>1, Sizes DEF OpOK
  <2>3. PICK queue \in Seq(Answers) : queue = calls[r.session] /\ r.session \in Generations
    BY <1>1, <2>2, SendsIn DEF Typed
  <2>4. Call(o, r, queue, o, etag, {}) /\ {} \in Texts
    BY <1>2, <2>1, <2>3, Bounds DEF Calls
  <2>5. /\ o \in Methods /\ o \notin {"lockUmbra", "decrypt", "release", "write"}
    BY <1>1 DEF Methods, Mutation
  <2>6. Sends(o, r, queue, o, etag)
    BY <1>1, <2>1, <2>2, <2>3, <2>5, NotCalled DEF Sends
  <2>7. /\ versions' \in Seq(Version) /\ Len(versions') > 0 /\ Grows
        /\ ops' \in [Op -> Operation] /\ calls' \in [Generations -> Seq(Answers)]
        /\ umbra' \in BOOLEAN
    BY <1>1, <2>3, <2>4, <2>5, CallIs
  <2>8. Gone /\ toHost' = <<>> /\ draft' = NoDraft
    BY <1>2, DisposeGone
  <2>9. Typed'
    BY <1>1, <1>2, <2>7, <2>8, Emptied DEF Gone, Typed
  <2>10. DraftOK'
    BY <2>8, <2>9, SizesNext, Defaults DEF DraftOK
  <2>11. DocOK' /\ DocMoves /\ doc.gen <= doc'.gen
    BY <2>7, <2>8, <2>9, GoneIs
  <2> QED BY <1>1, <2>4, <2>5, <2>6, <2>9, <2>10, <2>11, CallMade
<1>3. CASE /\ doc' = [doc EXCEPT !.is = "open"] /\ StartPage /\ End(o)
           /\ UNCHANGED <<versions, umbra, calls, draft>>
  <2>1. ops' \in [Op -> Operation] /\ \A p \in Op : Moves(p)
    BY <1>1, <1>3, OneEnds DEF End, Set
  <2>2. PICK d \in Document : d = [doc EXCEPT !.is = "open"]
    BY <1>1 DEF Document
  <2>3. doc' = d /\ d.is = "open" /\ Moved(doc, d) /\ Becomes(d)
    BY <1>1, <1>3, <2>2 DEF Document, Moved, Becomes
  <2>4. /\ page' \in Page /\ toHost' \in Seq(ToHost) /\ toPage' \in Seq(ToPage)
        /\ spent' \in Counts
    BY <1>1, <1>3, StartPageIs
  <2>5. Typed'
    BY <1>1, <1>3, <2>1, <2>3, <2>4 DEF Typed
  <2>6. Present /\ Present'
    BY <1>1, <2>3 DEF Present
  <2> QED BY <1>1, <1>3, <2>1, <2>3, <2>5, <2>6, EditStep
<1> QED BY <1>2, <1>3 DEF CloseForMutation

-----------------------------------------------------------------------------
(* Answers.                                                                *)

LEMMA AnswerIs ==
  ASSUME IInv, NEW g \in Generations, calls[g] # <<>>
  PROVE  LET c == Head(calls[g])
         IN  /\ c \in Answers /\ c.op \in Op /\ CallOK(g, c) /\ OpOK(c.op)
             /\ ops[c.op] \in Operation /\ ops[c.op].session = g
             /\ c.text \in Texts /\ c.etag \in Nat /\ c.umbra \in BOOLEAN
             /\ c.op = "lockUmbra" <=> c.method = "lockUmbra"
             /\ Free(c.op, g, Tail(calls[g])) /\ Tail(calls[g]) \in Seq(Answers)
<1>1. PICK c \in Answers : c = Head(calls[g])
  BY HeadCalled
<1>2. c.op \in Op /\ CallOK(g, c) /\ Free(c.op, g, Tail(calls[g]))
  BY <1>1, HeadCalled
<1>3. OpOK(c.op) /\ ops[c.op] \in Operation
  BY <1>2, Sizes DEF IInv, OpsOK
<1>4. c.text \in Texts /\ c.etag \in Nat /\ c.umbra \in BOOLEAN
  BY DEF Answers
<1>5. /\ ops[c.op].session = g
      /\ c.op = "lockUmbra" <=> c.method = "lockUmbra"
  BY <1>2 DEF CallOK
<1>6. Tail(calls[g]) \in Seq(Answers)
  BY <1>2 DEF Free
<1> QED BY <1>1, <1>2, <1>3, <1>4, <1>5, <1>6

LEMMA TakenIs ==
  ASSUME IInv, NEW g \in Generations, calls[g] # <<>>, NEW o \in Op, o = Head(calls[g]).op,
         Taken(g), End(o)
  PROVE  /\ calls' \in [Generations -> Seq(Answers)] /\ ops' \in [Op -> Operation]
         /\ ops'[o] = Idle /\ \A p \in Op : p # o => ops'[p] = ops[p]
         /\ calls' = [calls EXCEPT ![g] = Tail(calls[g])]
<1>1. PICK t \in Seq(Answers) : t = Tail(calls[g])
  BY AnswerIs
<1>2. calls' = [calls EXCEPT ![g] = t]
  BY <1>1 DEF Taken
<1>3. calls \in [Generations -> Seq(Answers)] /\ ops \in [Op -> Operation]
  BY DEF IInv, Typed
<1> QED BY <1>1, <1>2, <1>3, IdleIs DEF End, Set

\* The answer is taken, its operation ends, and nothing else changes.
LEMMA AnswerEnds ==
  ASSUME IInv, NEW g \in Generations, calls[g] # <<>>, NEW o \in Op, o = Head(calls[g]).op,
         Taken(g), End(o), Typed', DraftOK',
         UNCHANGED <<versions, session, umbra>>,
         (UNCHANGED <<doc, page, toPage>> /\ (doc.umbra => o # "lockUmbra")) \/ Gone
  PROVE  IInv'
<1>1. Typed /\ Grows
  BY GrowsNot DEF IInv
<1>2. /\ ops'[o] = Idle /\ \A p \in Op : p # o => ops'[p] = ops[p]
      /\ calls' = [calls EXCEPT ![g] = Tail(calls[g])]
  BY TakenIs
<1>3. DocOK' /\ DocMoves /\ doc.gen <= doc'.gen
  <2>1. CASE Gone
    BY <1>1, <2>1, GoneIs
  <2>2. CASE UNCHANGED <<doc, page, toPage>> /\ (doc.umbra => o # "lockUmbra")
    <3>1. doc'.umbra => Kept
      BY <1>2, <2>2 DEF Kept, LockingUmbra, Op
    <3> QED BY <1>1, <2>2, <3>1, NotUp, DocStays, Sizes
  <2> QED BY <2>1, <2>2
<1>4. \A p \in Op : ops'[p] = ops[p] \/ (p = Head(calls[g]).op /\ ops'[p] = Idle)
  BY <1>2
<1> QED BY <1>1, <1>2, <1>3, <1>4, AnswerTaken

LEMMA DropStep == \A g \in Generations : IInv /\ Drop(g) => IInv'
<1> SUFFICES ASSUME IInv, NEW g \in Generations, Drop(g) PROVE IInv'
  OBVIOUS
<1>1. Typed /\ DraftOK /\ calls[g] # <<>>
  BY DEF IInv, Drop
<1>2. PICK c \in Answers, o \in Op :
        /\ c = Head(calls[g]) /\ o = c.op
        /\ c.op = "lockUmbra" <=> c.method = "lockUmbra"
  BY <1>1, AnswerIs
<1>3. /\ End(o) /\ Taken(g) /\ UNCHANGED <<versions, session, umbra, toHost, draft, spent>>
      /\ IF c.method = "lockUmbra" /\ doc.umbra
         THEN WipeForLock ELSE UNCHANGED <<doc, page, toPage>>
  BY <1>2 DEF Drop
<1>4. calls' \in [Generations -> Seq(Answers)] /\ ops' \in [Op -> Operation]
  BY <1>1, <1>2, <1>3, TakenIs
<1>5. (UNCHANGED <<doc, page, toPage>> /\ (doc.umbra => o # "lockUmbra")) \/ Gone
  BY <1>2, <1>3, WipedGone DEF WipeForLock
<1>6. doc' \in Document /\ page' \in Page /\ toPage' \in Seq(ToPage)
  BY <1>1, <1>5, Emptied DEF Gone, Typed
<1>7. Typed'
  BY <1>1, <1>3, <1>4, <1>6 DEF Typed
<1>8. DraftOK'
  BY <1>1, <1>3 DEF DraftOK, Now
<1> QED BY <1>1, <1>2, <1>3, <1>5, <1>7, <1>8, AnswerEnds

LEMMA LockedUmbraStep == \A g \in Generations : IInv /\ LockedUmbra(g) => IInv'
<1> SUFFICES ASSUME IInv, NEW g \in Generations, LockedUmbra(g) PROVE IInv'
  OBVIOUS
<1>1. Typed /\ DraftOK /\ calls[g] # <<>>
  BY DEF IInv, LockedUmbra, Answer
<1>2. PICK c \in Answers, o \in Op : c = Head(calls[g]) /\ o = c.op
  BY <1>1, AnswerIs
<1>3. /\ End(o) /\ Taken(g) /\ UNCHANGED <<versions, session, umbra, toHost, draft, spent>>
      /\ IF doc.umbra THEN WipeForLock ELSE UNCHANGED <<doc, page, toPage>>
  BY <1>2 DEF LockedUmbra
<1>4. calls' \in [Generations -> Seq(Answers)] /\ ops' \in [Op -> Operation]
  BY <1>1, <1>2, <1>3, TakenIs
<1>5. (UNCHANGED <<doc, page, toPage>> /\ (doc.umbra => o # "lockUmbra")) \/ Gone
  BY <1>3, WipedGone DEF WipeForLock
<1>6. doc' \in Document /\ page' \in Page /\ toPage' \in Seq(ToPage)
  BY <1>1, <1>5, Emptied DEF Gone, Typed
<1>7. Typed'
  BY <1>1, <1>3, <1>4, <1>6 DEF Typed
<1>8. DraftOK'
  BY <1>1, <1>3 DEF DraftOK, Now
<1> QED BY <1>1, <1>2, <1>3, <1>5, <1>7, <1>8, AnswerEnds

LEMMA BackedUpStep == \A g \in Generations : IInv /\ BackedUp(g) => IInv'
<1> SUFFICES ASSUME IInv, NEW g \in Generations, BackedUp(g) PROVE IInv'
  OBVIOUS
<1>1. Typed /\ calls[g] # <<>> /\ Head(calls[g]).method = "draft"
  BY DEF IInv, BackedUp, Answer
<1>2. PICK c \in Answers, o \in Op :
        /\ c = Head(calls[g]) /\ o = c.op /\ OpOK(o) /\ ops[o] \in Operation
        /\ o = "lockUmbra" <=> c.method = "lockUmbra"
  BY <1>1, AnswerIs
<1>3. /\ End(o) /\ Taken(g) /\ draft' = [base |-> ops[o].etag, text |-> ops[o].text]
      /\ UNCHANGED <<versions, session, umbra, doc, page, toHost, toPage, spent>>
  BY <1>2 DEF BackedUp
<1>4. calls' \in [Generations -> Seq(Answers)] /\ ops' \in [Op -> Operation]
  BY <1>1, <1>2, <1>3, TakenIs
<1>5. draft' \in [base : Nat, text : Texts] /\ draft'.base = ops[o].etag
  BY <1>2, <1>3 DEF Operation
<1>6. Typed'
  BY <1>1, <1>3, <1>4, <1>5 DEF Typed
<1>7. DraftOK'
  BY <1>2, <1>3, <1>5 DEF DraftOK, Now, OpOK
<1> QED BY <1>1, <1>2, <1>3, <1>6, <1>7, AnswerEnds

LEMMA GoodIs ==
  ASSUME IInv, NEW g \in Generations, calls[g] # <<>>, Good(Head(calls[g]))
  PROVE  Head(calls[g]).ok /\ session.is = "unlocked" /\ session.gen = g
BY AnswerIs DEF Good, Current

\* The answer c may be shown: it is true, and if it is a projection the key is
\* there, or a call that locked it is behind.
LEMMA AnswerShown ==
  ASSUME IInv, NEW g \in Generations, calls[g] # <<>>, Good(Head(calls[g])),
         Head(calls[g]).method \in {"open", "read", "project", "annotate"}
  PROVE  LET c == Head(calls[g])
         IN  /\ Told(c)
             /\ c.umbra => /\ ~Plain
                           /\ umbra \/ (ops["lockUmbra"].at = "called" /\ c.op # "lockUmbra")
<1>1. PICK c \in Answers : c = Head(calls[g]) /\ CallOK(g, c)
  BY AnswerIs
<1>2. c.ok /\ session.gen = g /\ Shows(c)
  BY <1>1, GoodIs DEF Shows
<1>3. Told(c) /\ (c.umbra => ~Plain)
  BY <1>1, <1>2 DEF CallOK, Shows
<1>4. c.umbra => umbra \/ (ops["lockUmbra"].at = "called" /\ c.op # "lockUmbra")
  BY <1>1, <1>2, PrivateAnswer DEF Private
<1> QED BY <1>1, <1>3, <1>4

\* The document becomes d, which was not there or is clean.
LEMMA DocReplaced ==
  ASSUME IInv, Typed', Grows, UNCHANGED <<session, umbra>>, session.is = "unlocked",
         NEW d \in Document, Becomes(d), Present', d.saved <= d.revision, d.etag \in 1 .. Now,
         d.session = session.gen, d.umbra => ~Plain /\ (umbra' \/ LockingUmbra'),
         ~Dirty(d) => d.text = versions[d.etag].text
                      /\ d.umbra = (versions[d.etag].kind = "umbra")
  PROVE  DocOK'
<1>1. Now \in Nat /\ Now' \in Nat /\ Now <= Now' /\ d.etag \in 1 .. Now
  BY Sizes, SizesNext DEF IInv, Grows
<1>2. d.etag \in 1 .. Now' /\ versions'[d.etag] = versions[d.etag]
  BY <1>1 DEF Grows
<1>3. d.etag <= Now' /\ d.etag >= 1
  BY <1>1, <1>2
<1>4. ~Dirty(doc') => doc'.text = versions'[doc'.etag].text
                      /\ doc'.umbra = (versions'[doc'.etag].kind = "umbra")
  BY <1>2 DEF Becomes, Dirty
<1>5. doc'.umbra => ~Plain' /\ (umbra' \/ LockingUmbra')
  BY DEF Becomes, Grows
<1>6. doc'.saved <= doc'.revision /\ doc'.session = session'.gen /\ session'.is = "unlocked"
  BY DEF Becomes
<1> QED BY <1>3, <1>4, <1>5, <1>6 DEF Becomes, DocOK

LEMMA AdoptStep == \A g \in Generations : IInv /\ Adopt(g) => IInv'
<1> SUFFICES ASSUME IInv, NEW g \in Generations, Adopt(g) PROVE IInv'
  OBVIOUS
<1>1. /\ Typed /\ DraftOK /\ doc \in Document /\ calls[g] # <<>>
      /\ Head(calls[g]).method \in {"read", "project", "annotate"}
  BY DEF IInv, Typed, Adopt, Answer
<1>2. PICK c \in Answers, o \in Op :
        /\ c = Head(calls[g]) /\ o = c.op /\ c.text \in Texts /\ c.etag \in Nat
        /\ c.umbra \in BOOLEAN
        /\ o = "lockUmbra" <=> c.method = "lockUmbra"
  BY <1>1, AnswerIs
<1>3. /\ Good(c) /\ doc.is = "open" /\ Replace(c) /\ End(o) /\ Taken(g)
      /\ draft' \in {draft, NoDraft}
      /\ UNCHANGED <<versions, session, umbra, page, toHost, spent>>
  BY <1>2 DEF Adopt, Usable
<1>4. /\ session.is = "unlocked" /\ Told(c)
      /\ c.umbra => /\ ~Plain
                    /\ umbra \/ (ops["lockUmbra"].at = "called" /\ o # "lockUmbra")
  BY <1>1, <1>2, <1>3, GoodIs, AnswerShown
<1>5. PICK revision \in Nat : revision = doc.revision + 1
  BY <1>1, Sizes
<1>6. PICK d \in Document :
        d = [doc EXCEPT !.text = c.text, !.etag = c.etag, !.umbra = c.umbra,
                        !.revision = revision, !.saved = revision, !.stale = FALSE]
  BY <1>1, <1>2 DEF Document
<1>7. /\ d.text = c.text /\ d.etag = c.etag /\ d.umbra = c.umbra /\ d.revision = revision
      /\ d.saved = revision /\ d.gen = doc.gen /\ d.session = doc.session /\ d.is = doc.is
  BY <1>1, <1>6 DEF Document
<1>8. doc' = d /\ Send(d)
  BY <1>3, <1>5, <1>6 DEF Replace, Replaced
<1>9. /\ calls' \in [Generations -> Seq(Answers)] /\ ops' \in [Op -> Operation]
      /\ ops'[o] = Idle /\ \A p \in Op : p # o => ops'[p] = ops[p]
      /\ calls' = [calls EXCEPT ![g] = Tail(calls[g])]
  BY <1>1, <1>2, <1>3, TakenIs
<1>10. toPage' \in Seq(ToPage) /\ draft' \in [base : Nat, text : Texts]
  BY <1>1, <1>3, <1>8, SendIs, Defaults DEF Typed
<1>11. Typed'
  BY <1>1, <1>3, <1>8, <1>9, <1>10 DEF Typed
<1>12. Grows
  BY <1>1, <1>3, GrowsNot
<1>13. DraftOK'
  BY <1>1, <1>3, <1>11, Defaults, SizesNext DEF DraftOK, Now
<1>14. Present /\ Present' /\ Becomes(d)
  BY <1>3, <1>7, <1>8 DEF Present, Becomes
<1>15. doc.session = session.gen
  BY <1>14 DEF IInv, DocOK
<1>16. d.umbra => ~Plain /\ (umbra' \/ LockingUmbra')
  BY <1>3, <1>4, <1>7, <1>9 DEF LockingUmbra, Op
<1>17. /\ d.saved <= d.revision /\ d.etag \in 1 .. Now /\ d.session = session.gen
       /\ d.text = versions[d.etag].text /\ d.umbra = (versions[d.etag].kind = "umbra")
  BY <1>4, <1>5, <1>7, <1>15 DEF Told
<1>18. DocOK'
  BY <1>3, <1>4, <1>11, <1>12, <1>14, <1>16, <1>17, DocReplaced
<1>19. doc.revision <= doc'.revision /\ doc'.revision # doc.revision
  <2>1. doc.revision \in Nat
    BY <1>1, Sizes
  <2> QED BY <1>5, <1>7, <1>8, <2>1
<1>20. DocMoves /\ doc.gen <= doc'.gen
  BY <1>1, <1>7, <1>8, <1>14, <1>19, Sizes DEF DocMoves
<1>21. \A p \in Op : ops'[p] = ops[p] \/ (p = Head(calls[g]).op /\ ops'[p] = Idle)
  BY <1>2, <1>9
<1> QED BY <1>1, <1>3, <1>9, <1>11, <1>12, <1>13, <1>18, <1>20, <1>21, AnswerTaken

LEMMA ConvertOnStep == \A g \in Generations : IInv /\ ConvertOn(g) => IInv'
<1> SUFFICES ASSUME IInv, NEW g \in Generations, ConvertOn(g) PROVE IInv'
  OBVIOUS
<1>1. /\ Typed /\ DraftOK /\ doc \in Document /\ calls[g] # <<>>
      /\ Head(calls[g]).method \in {"release", "convert"}
  BY DEF IInv, Typed, ConvertOn, Answer
<1>2. PICK c \in Answers, o \in Op :
        /\ c = Head(calls[g]) /\ o = c.op /\ c.etag \in Nat /\ OpOK(o)
        /\ o = "lockUmbra" <=> c.method = "lockUmbra"
        /\ ops[o].session = g /\ Free(o, g, Tail(calls[g]))
  BY <1>1, AnswerIs
<1>3. PICK r \in Operation, queue \in Seq(Answers) :
        r = ops[o] /\ queue = Tail(calls[g])
  BY <1>1, <1>2, Sizes DEF Free
<1>4. /\ r.session = g /\ r.session \in 1 .. session.gen /\ r.doc <= doc.gen /\ r.etag <= Now
      /\ Free(o, r.session, queue)
  <2>1. Head(calls[g]) \in Range(calls[g]) /\ calls[g] \in Seq(Answers)
    BY <1>1, Taking DEF IInv, Typed, OneCall
  <2>2. ops[o].at = "called"
    BY <1>2, <2>1 DEF IInv, CallsOK, CallOK
  <2>3. r.session >= 1 /\ r.session <= session.gen /\ session.gen \in Nat /\ r.session \in Nat
    BY <1>1, <1>2, <1>3, <2>2, Sizes DEF OpOK
  <2> QED BY <1>2, <1>3, <2>3 DEF OpOK
<1>5. PICK method \in {"convert", "project"}, etag \in Nat :
        Call(o, r, queue, method, etag, {})
  <2>1. CASE c.method = "release"
    <3>1. PICK etag \in Nat : etag = IF Usable(o) THEN doc.etag ELSE c.etag
      BY <1>1, <1>2, Sizes
    <3>2. CallsNext(o, r, "convert", etag, {})
      BY <1>2, <1>3, <2>1, <3>1 DEF ConvertOn
    <3> QED BY <1>3, <1>4, <3>2 DEF CallsNext
  <2>2. CASE c.method # "release"
    <3>1. CallsNext(o, r, "project", 0, {})
      BY <1>2, <1>3, <2>2 DEF ConvertOn
    <3> QED BY <1>3, <1>4, <3>1 DEF CallsNext
  <2> QED BY <2>1, <2>2
<1>6. /\ method \in Methods /\ method \notin {"lockUmbra", "decrypt", "release", "write"}
      /\ o # "lockUmbra" /\ {} \in Texts /\ r.session \in Generations
  BY <1>1, <1>2, <1>4, Bounds DEF Methods
<1>7. Sends(o, r, queue, method, etag)
  BY <1>4, <1>6 DEF Sends
<1>8. /\ versions' \in Seq(Version) /\ Len(versions') > 0 /\ Grows
      /\ ops' \in [Op -> Operation] /\ calls' \in [Generations -> Seq(Answers)]
      /\ umbra' \in BOOLEAN /\ Kept
  BY <1>1, <1>5, <1>6, CallIs
<1>9. Typed'
  BY <1>1, <1>8 DEF ConvertOn, Typed
<1>10. DraftOK'
  BY <1>1, <1>8, <1>9, Sizes, SizesNext DEF ConvertOn, DraftOK, Grows
<1>11. DocOK' /\ DocMoves /\ doc.gen <= doc'.gen
  BY <1>1, <1>8, <1>9, NotUp, DocStays, Sizes DEF ConvertOn
<1> QED BY <1>1, <1>5, <1>6, <1>7, <1>9, <1>10, <1>11, CallMade DEF ConvertOn

\* The operation of an answer may go on with another call.
LEMMA NextSends ==
  ASSUME IInv, NEW g \in Generations, calls[g] # <<>>
  PROVE  LET o == Head(calls[g]).op
             r == ops[o]
         IN  /\ o \in Op /\ r \in Operation /\ r.session = g /\ r.session \in 1 .. session.gen
             /\ r.doc <= doc.gen /\ r.etag <= Now /\ r.at = "called"
             /\ Free(o, r.session, Tail(calls[g])) /\ Tail(calls[g]) \in Seq(Answers)
<1>1. PICK c \in Answers, o \in Op :
        /\ c = Head(calls[g]) /\ o = c.op /\ CallOK(g, c) /\ OpOK(o)
        /\ ops[o] \in Operation /\ ops[o].session = g
        /\ Free(o, g, Tail(calls[g])) /\ Tail(calls[g]) \in Seq(Answers)
  BY AnswerIs
<1>2. ops[o].at = "called"
  BY <1>1 DEF CallOK
<1>3. ops[o].session \in Nat /\ session.gen \in Nat
  BY Sizes DEF IInv
<1>4. ops[o].session \in 1 .. session.gen
  BY <1>1, <1>2, <1>3 DEF OpOK
<1> QED BY <1>1, <1>2, <1>4 DEF OpOK

\* The document that hears of a write is clean only if it is as it was sent.
LEMMA SavedIs ==
  ASSUME IInv, NEW g \in Generations, calls[g] # <<>>, Head(calls[g]).method = "write",
         Good(Head(calls[g])), Usable(Head(calls[g]).op)
  PROVE  LET c == Head(calls[g])
             d == Saved(doc, ops[c.op], c.etag)
         IN  /\ d \in Document /\ d.is = "open" /\ d.text = doc.text
             /\ d.revision = doc.revision /\ d.umbra = doc.umbra /\ d.gen = doc.gen
             /\ Fits(d) /\ d.saved = ops[c.op].rev
<1>1. PICK c \in Answers, o \in Op :
        /\ c = Head(calls[g]) /\ o = c.op /\ CallOK(g, c) /\ c.etag \in Nat
        /\ ops[o] \in Operation
  BY AnswerIs
<1>2. c.ok /\ doc.is = "open" /\ doc.gen = ops[o].doc /\ c.method = "write"
  BY <1>1, GoodIs DEF Usable
<1>3. doc \in Document /\ DocOK /\ Present /\ ops[o].rev \in Nat /\ doc.revision \in Nat
  BY <1>1, <1>2, Sizes DEF IInv, Typed, Present
<1>4. Told(c) /\ WriteOK(c)
  BY <1>1, <1>2 DEF CallOK
<1>5. /\ c.etag \in 1 .. Now /\ versions[c.etag].kind = "plain"
      /\ ops[o].rev <= doc.revision
      /\ ops[o].rev = doc.revision => doc.text = versions[c.etag].text /\ ~doc.umbra
  BY <1>1, <1>2, <1>3, <1>4 DEF Told, WriteOK
<1>6. PICK rev \in Nat, etag \in Nat : rev = ops[o].rev /\ etag = c.etag
  BY <1>1, <1>3
<1>7. PICK d \in Document : d = [doc EXCEPT !.etag = etag, !.saved = rev, !.stale = FALSE]
  BY <1>3 DEF Document
<1>8. /\ d.is = doc.is /\ d.text = doc.text /\ d.revision = doc.revision /\ d.saved = rev
      /\ d.etag = etag /\ d.umbra = doc.umbra /\ d.gen = doc.gen /\ d.session = doc.session
  BY <1>3, <1>7 DEF Document
<1>9. doc.session = session.gen /\ (doc.umbra => ~Plain /\ (umbra \/ LockingUmbra))
  BY <1>3 DEF DocOK
<1>10. ~Dirty(d) => d.text = versions[d.etag].text
                    /\ d.umbra = (versions[d.etag].kind = "umbra")
  <2> SUFFICES ASSUME ~Dirty(d) PROVE d.text = versions[d.etag].text
                    /\ d.umbra = (versions[d.etag].kind = "umbra")
    OBVIOUS
  <2>1. d.text = versions[d.etag].text /\ ~d.umbra
    BY <1>5, <1>6, <1>8 DEF Dirty
  <2>2. d.umbra \in BOOLEAN /\ versions[d.etag].kind # "umbra"
    BY <1>5, <1>6, <1>8 DEF Document
  <2> QED BY <2>1, <2>2
<1>11. d.saved <= d.revision /\ d.etag \in 1 .. Now /\ d.session = session.gen
  BY <1>5, <1>6, <1>8, <1>9
<1>12. Fits(d)
  BY <1>8, <1>9, <1>10, <1>11 DEF Fits
<1>13. Saved(doc, ops[o], c.etag) = d
  BY <1>6, <1>7 DEF Saved
<1> QED BY <1>1, <1>2, <1>6, <1>8, <1>12, <1>13

\* The document has the text of before, but perhaps another etag.
LEMMA DocSaved ==
  ASSUME IInv, Typed', Grows, doc'.umbra => Kept, UNCHANGED session, session.is = "unlocked",
         NEW d \in Document, Fits(d), Becomes(d), Present, Present',
         d.text = doc.text, d.revision = doc.revision, d.umbra = doc.umbra, d.gen = doc.gen
  PROVE  DocOK' /\ DocMoves /\ doc.gen <= doc'.gen
<1>1. DocOK'
  BY DocFits
<1>2. doc.revision \in Nat /\ doc.gen \in Nat
  BY Sizes DEF IInv
<1>3. doc'.text = doc.text /\ doc'.revision = doc.revision /\ doc'.umbra = doc.umbra
      /\ doc'.gen = doc.gen
  BY DEF Becomes
<1> QED BY <1>1, <1>2, <1>3 DEF DocMoves

LEMMA SaveAnsweredStep == \A g \in Generations : IInv /\ SaveAnswered(g) => IInv'
<1> SUFFICES ASSUME IInv, NEW g \in Generations, SaveAnswered(g) PROVE IInv'
  OBVIOUS
<1>1. /\ Typed /\ DraftOK /\ calls[g] # <<>> /\ Head(calls[g]).method = "write"
      /\ Good(Head(calls[g])) /\ Usable(Head(calls[g]).op)
  BY DEF IInv, SaveAnswered, Answer
<1>2. PICK c \in Answers, o \in Op, r \in Operation, queue \in Seq(Answers) :
        /\ c = Head(calls[g]) /\ o = c.op /\ r = ops[o] /\ queue = Tail(calls[g])
        /\ r.session = g /\ r.session \in 1 .. session.gen /\ r.doc <= doc.gen
        /\ r.etag <= Now /\ Free(o, r.session, queue)
  BY <1>1, AnswerIs, NextSends
<1>3. PICK d \in Document :
        /\ d = Saved(doc, r, c.etag) /\ d.is = "open" /\ d.text = doc.text
        /\ d.revision = doc.revision /\ d.umbra = doc.umbra /\ d.gen = doc.gen /\ Fits(d)
  BY <1>1, <1>2, SavedIs
<1>4. /\ session.is = "unlocked" /\ Present /\ Now \in Nat /\ d.etag <= Now /\ d.etag \in Nat
      /\ o # "lockUmbra"
  <2>1. d.etag \in 1 .. Now /\ Now \in Nat
    BY <1>1, <1>3, Sizes DEF Fits
  <2>2. session.is = "unlocked" /\ doc.is = "open"
    BY <1>1, GoodIs DEF Usable
  <2>3. o # "lockUmbra"
    BY <1>1, <1>2, AnswerIs
  <2> QED BY <2>1, <2>2, <2>3 DEF Present
<1>5. /\ draft' \in {draft, NoDraft} /\ UNCHANGED <<toHost, spent>>
      /\ draft' \in [base : Nat, text : Texts] /\ draft'.base <= Now
  <2>1. draft' \in {draft, NoDraft} /\ UNCHANGED <<toHost, spent>>
    BY DEF SaveAnswered
  <2>2. draft \in [base : Nat, text : Texts] /\ draft.base <= Now
    BY <1>1 DEF Typed, DraftOK
  <2> QED BY <1>4, <2>1, <2>2, Defaults
<1>6. CASE /\ doc' = d /\ End(o) /\ Taken(g)
           /\ UNCHANGED <<versions, umbra, session, page, toPage>>
  <2>1. /\ calls' \in [Generations -> Seq(Answers)] /\ ops' \in [Op -> Operation]
        /\ ops'[o] = Idle /\ \A p \in Op : p # o => ops'[p] = ops[p]
        /\ calls' = [calls EXCEPT ![g] = Tail(calls[g])]
    BY <1>1, <1>2, <1>6, TakenIs
  <2>2. Typed'
    BY <1>1, <1>5, <1>6, <2>1 DEF Typed
  <2>3. Grows /\ DraftOK' /\ Kept
    BY <1>1, <1>4, <1>5, <1>6, <2>1, GrowsNot DEF DraftOK, Now, Kept, LockingUmbra, Op
  <2>4. Present' /\ Becomes(d)
    BY <1>3, <1>6 DEF Present, Becomes
  <2>5. DocOK' /\ DocMoves /\ doc.gen <= doc'.gen
    BY <1>3, <1>4, <1>6, <2>2, <2>3, <2>4, DocSaved
  <2>6. \A p \in Op : ops'[p] = ops[p] \/ (p = Head(calls[g]).op /\ ops'[p] = Idle)
    BY <1>2, <2>1
  <2> QED BY <1>1, <1>6, <2>1, <2>2, <2>3, <2>5, <2>6, AnswerTaken
<1>7. CASE /\ o = "convert" /\ doc' = d
           /\ CallsNext(o, r, "release", d.etag, {}) /\ UNCHANGED <<session, page, toPage>>
  <2>1. Call(o, r, queue, "release", d.etag, {}) /\ "release" \in Methods /\ {} \in Texts
        /\ r.session \in Generations
    BY <1>2, <1>7, Bounds DEF CallsNext, Methods
  <2>2. Sends(o, r, queue, "release", d.etag)
    BY <1>2, <1>4 DEF Sends
  <2>3. /\ versions' \in Seq(Version) /\ Len(versions') > 0 /\ Grows
        /\ ops' \in [Op -> Operation] /\ calls' \in [Generations -> Seq(Answers)]
        /\ umbra' \in BOOLEAN /\ Kept
    BY <1>1, <1>4, <2>1, CallIs
  <2>4. Typed'
    BY <1>1, <1>5, <1>7, <2>3 DEF Typed
  <2>5. DraftOK'
    BY <1>1, <1>5, <2>3, <2>4, Sizes, SizesNext DEF DraftOK, Grows
  <2>6. Present' /\ Becomes(d)
    BY <1>3, <1>7 DEF Present, Becomes
  <2>7. DocOK' /\ DocMoves /\ doc.gen <= doc'.gen
    BY <1>3, <1>4, <1>7, <2>3, <2>4, <2>6, DocSaved
  <2> QED BY <1>4, <1>7, <2>1, <2>2, <2>4, <2>5, <2>7, CallMade
<1>8. CASE /\ o = "rename" /\ Taken(g) /\ Flushes(o, r, "flushAgain", d)
           /\ UNCHANGED <<versions, umbra, session, page>>
  <2>1. "flushAgain" \in Flushing
    BY DEF Flushing
  <2>2. /\ doc' \in Document /\ Becomes(d) /\ Present'
        /\ toPage' \in Seq(ToPage) /\ ops' \in [Op -> Operation]
        /\ \A p \in Op : p # o => ops'[p] = ops[p]
        /\ UNCHANGED <<versions, session>> /\ doc.gen <= doc'.gen => OpOK(o)'
    BY <1>2, <1>3, <1>4, <1>8, <2>1, FlushesIs
  <2>3. calls' = [calls EXCEPT ![g] = queue]
    BY <1>2, <1>8 DEF Taken
  <2>4. calls' \in [Generations -> Seq(Answers)]
    BY <1>1, <2>3 DEF Typed
  <2>5. Typed'
    BY <1>1, <1>5, <1>8, <2>2, <2>4 DEF Typed
  <2>6. Grows /\ DraftOK' /\ Kept
    BY <1>1, <1>4, <1>5, <1>8, <2>2, GrowsNot DEF DraftOK, Now, Kept, LockingUmbra, Op
  <2>7. DocOK' /\ DocMoves /\ doc.gen <= doc'.gen
    BY <1>3, <1>4, <1>8, <2>2, <2>5, <2>6, DocSaved
  <2>8. \A p \in Op : ops'[p] = ops[p] \/ (p = Head(calls[g]).op /\ OpOK(p)')
    BY <1>2, <1>8, <2>2, <2>7
  <2>9. calls' = [calls EXCEPT ![g] = Tail(calls[g])]
    BY <1>2, <2>3
  <2> QED BY <1>1, <1>8, <2>5, <2>6, <2>7, <2>8, <2>9, AnswerTaken
<1>9. CASE /\ o = "lock" /\ Taken(g) /\ UNCHANGED <<versions, umbra>>
           /\ session' = [session EXCEPT !.is = "locked"]
           /\ doc' = Wiped(d) /\ page' = Down /\ toPage' = <<>>
           /\ ops' = [p \in Op |-> IF p = o \/ Rejected(p) THEN Idle ELSE ops[p]]
  <2>1. PICK e \in Document : e = [d EXCEPT !.is = "locked", !.text = {}, !.umbra = FALSE]
    BY Bounds DEF Document
  <2>2. /\ e.is = "locked" /\ e.text = {} /\ e.saved = d.saved /\ e.revision = d.revision
        /\ e.etag = d.etag /\ e.gen = d.gen
    BY <2>1 DEF Document
  <2>3. doc' = e
    BY <1>3, <1>9, <2>1 DEF Wiped
  <2>4. Gone
    BY <1>3, <1>4, <1>9, <2>2, <2>3 DEF Gone, Fits
  <2>5. session' \in [is : {"unlocked", "locked", "expired"}, gen : Generations]
        /\ session'.gen = session.gen
    BY <1>1, <1>9, SessionEnds
  <2>6. /\ ops' \in [Op -> Operation]
        /\ \A p \in Op : ops'[p] = ops[p] \/ ((ops[p].at # "called" \/ p = o) /\ ops'[p] = Idle)
    BY <1>1, <1>9, IdleIs DEF Typed, Rejected, Flushing
  <2>7. calls' = [calls EXCEPT ![g] = Tail(calls[g])] /\ calls' \in [Generations -> Seq(Answers)]
    BY <1>1, <1>2, <1>9 DEF Taken, Typed
  <2>8. Typed'
    BY <1>1, <1>5, <1>9, <2>3, <2>5, <2>6, <2>7, Emptied DEF Typed
  <2>9. Grows /\ DraftOK'
    BY <1>1, <1>5, <1>9, GrowsNot DEF DraftOK, Now
  <2>10. DocOK' /\ DocMoves /\ doc.gen <= doc'.gen
    BY <2>4, <2>8, <2>9, GoneIs
  <2>11. \A p \in Op : \/ ops'[p] = ops[p]
                       \/ (ops[p].at # "called" \/ p = Head(calls[g]).op) /\ ops'[p] = Idle
    BY <1>2, <2>6
  <2> QED BY <1>1, <1>9, <2>5, <2>7, <2>8, <2>9, <2>10, <2>11, AnswerTaken
<1> QED BY <1>2, <1>3, <1>6, <1>7, <1>8, <1>9 DEF SaveAnswered

LEMMA AttachIs ==
  ASSUME Typed, NEW text \in Texts, NEW etag \in Nat, NEW isUmbra \in BOOLEAN,
         NEW restored \in BOOLEAN, NEW stale \in BOOLEAN,
         Attach(text, etag, isUmbra, restored, stale)
  PROVE  /\ doc' \in Document /\ doc'.is = "open" /\ doc'.text = text /\ doc'.revision = 0
         /\ doc'.saved \in {0, -1} /\ (doc'.saved = 0 => ~restored) /\ doc'.etag = etag
         /\ doc'.umbra = isUmbra /\ doc'.gen = doc.gen + 1 /\ doc'.session = session.gen
<1>1. doc.gen + 1 \in Nat /\ session.gen \in Generations
  BY Sizes DEF Typed
<1>2. PICK gen \in Nat : gen = doc.gen + 1
  BY <1>1
<1>3. PICK saved \in Nat \cup {-1} :
        /\ saved = (IF restored THEN -1 ELSE 0) /\ saved \in {0, -1}
        /\ saved = 0 => ~restored
  <2>1. CASE restored
    BY <2>1
  <2>2. CASE ~restored
    BY <2>2
  <2> QED BY <2>1, <2>2
<1>4. PICK d \in Document :
        d = [is |-> "open", text |-> text, revision |-> 0, saved |-> saved, etag |-> etag,
             umbra |-> isUmbra, stale |-> stale, epoch |-> 0, asked |-> 0, gen |-> gen,
             session |-> session.gen]
  BY <1>1 DEF Document
<1>5. doc' = d
  BY <1>2, <1>3, <1>4 DEF Attach
<1> QED BY <1>2, <1>3, <1>4, <1>5

LEMMA Attached ==
  ASSUME IInv, NEW g \in Generations, calls[g] # <<>>, NEW o \in Op, o = Head(calls[g]).op,
         session.is = "unlocked", Taken(g), End(o), StartPage,
         UNCHANGED <<versions, umbra, session, draft>>,
         NEW text \in Texts, NEW etag \in 1 .. Now, NEW isUmbra \in BOOLEAN,
         NEW restored \in BOOLEAN, NEW stale \in BOOLEAN,
         Attach(text, etag, isUmbra, restored, stale),
         isUmbra => /\ ~Plain
                    /\ umbra \/ (ops["lockUmbra"].at = "called" /\ o # "lockUmbra"),
         ~restored => text = versions[etag].text /\ isUmbra = (versions[etag].kind = "umbra")
  PROVE  IInv'
<1>1. Typed /\ DraftOK /\ etag \in Nat /\ doc.gen \in Nat
  BY Sizes DEF IInv
<1>2. /\ doc' \in Document /\ doc'.is = "open" /\ doc'.text = text /\ doc'.revision = 0
      /\ doc'.saved \in {0, -1} /\ (doc'.saved = 0 => ~restored) /\ doc'.etag = etag
      /\ doc'.umbra = isUmbra /\ doc'.gen = doc.gen + 1 /\ doc'.session = session.gen
  BY <1>1, AttachIs
<1>3. /\ calls' \in [Generations -> Seq(Answers)] /\ ops' \in [Op -> Operation]
      /\ ops'[o] = Idle /\ \A p \in Op : p # o => ops'[p] = ops[p]
      /\ calls' = [calls EXCEPT ![g] = Tail(calls[g])]
  BY TakenIs
<1>4. /\ page' \in Page /\ toHost' \in Seq(ToHost) /\ toPage' \in Seq(ToPage)
      /\ spent' \in Counts
  BY <1>1, StartPageIs
<1>5. Typed'
  BY <1>1, <1>2, <1>3, <1>4 DEF Typed
<1>6. Grows /\ DraftOK'
  BY <1>1, GrowsNot DEF DraftOK, Now
<1>7. PICK d \in Document : d = doc'
  BY <1>2
<1>8. Present' /\ Becomes(d)
  BY <1>2, <1>7 DEF Present, Becomes
<1>9. d.umbra => ~Plain /\ (umbra' \/ LockingUmbra')
  BY <1>2, <1>3, <1>7 DEF LockingUmbra, Op
<1>10. d.saved <= d.revision /\ d.etag \in 1 .. Now /\ d.session = session.gen
  BY <1>2, <1>7
<1>11. ~Dirty(d) => d.text = versions[d.etag].text
                    /\ d.umbra = (versions[d.etag].kind = "umbra")
  BY <1>2, <1>7 DEF Dirty
<1>12. DocOK'
  BY <1>5, <1>6, <1>7, <1>8, <1>9, <1>10, <1>11, DocReplaced
<1>13. DocMoves /\ doc.gen <= doc'.gen
  BY <1>1, <1>2 DEF DocMoves
<1>14. \A p \in Op : ops'[p] = ops[p] \/ (p = Head(calls[g]).op /\ ops'[p] = Idle)
  BY <1>3
<1> QED BY <1>3, <1>5, <1>6, <1>12, <1>13, <1>14, AnswerTaken

LEMMA OpenedStep == \A g \in Generations : IInv /\ Opened(g) => IInv'
<1> SUFFICES ASSUME IInv, NEW g \in Generations, Opened(g) PROVE IInv'
  OBVIOUS
<1>1. /\ Typed /\ DraftOK /\ calls[g] # <<>> /\ Head(calls[g]).method \in {"open", "decrypt"}
      /\ Good(Head(calls[g])) /\ UNCHANGED <<session, draft>>
      /\ draft.text \in Texts /\ draft.base \in Nat
  BY DEF IInv, Typed, Opened, Answer
<1>2. PICK c \in Answers, o \in Op :
        /\ c = Head(calls[g]) /\ o = c.op /\ c.text \in Texts /\ c.etag \in Nat
        /\ c.umbra \in BOOLEAN /\ CallOK(g, c)
        /\ o = "lockUmbra" <=> c.method = "lockUmbra"
  BY <1>1, AnswerIs
<1>3. session.is = "unlocked" /\ c.ok /\ o # "lockUmbra"
  BY <1>1, <1>2, GoodIs
<1>4. c.method = "open" =>
        /\ Told(c)
        /\ c.umbra => /\ ~Plain
                      /\ umbra \/ (ops["lockUmbra"].at = "called" /\ o # "lockUmbra")
  BY <1>1, <1>2, AnswerShown
<1>5. c.etag \in 1 .. Now
  BY <1>1, <1>2, <1>3, <1>4 DEF CallOK, Told
<1>6. CASE /\ c.method = "open" /\ Attach(c.text, c.etag, c.umbra, FALSE, FALSE)
           /\ StartPage /\ End(o) /\ Taken(g) /\ UNCHANGED <<versions, umbra>>
  <2>1. PICK e \in 1 .. Now : e = c.etag
    BY <1>5
  <2>2. PICK text \in Texts, isUmbra \in BOOLEAN, no \in BOOLEAN :
          text = c.text /\ isUmbra = c.umbra /\ no = FALSE
    BY <1>2
  <2>3. Attach(text, e, isUmbra, no, no)
    BY <1>6, <2>1, <2>2
  <2>4. ~no => text = versions[e].text /\ isUmbra = (versions[e].kind = "umbra")
    BY <1>4, <1>6, <2>1, <2>2 DEF Told
  <2>5. isUmbra => /\ ~Plain
                   /\ umbra \/ (ops["lockUmbra"].at = "called" /\ o # "lockUmbra")
    BY <1>4, <1>6, <2>2
  <2>6. calls[g] # <<>> /\ o = Head(calls[g]).op /\ UNCHANGED <<session, draft>>
    BY <1>1, <1>2
  <2>7. StartPage /\ End(o) /\ Taken(g) /\ UNCHANGED <<versions, umbra, session, draft>>
    BY <1>6, <2>6
  <2> QED BY <1>3, <2>3, <2>4, <2>5, <2>6, <2>7, Attached
<1>7. CASE /\ c.method = "open" /\ CallsNext(o, ops[o], "decrypt", c.etag, {})
           /\ UNCHANGED <<doc, page, toHost, toPage, spent>>
  <2>1. PICK r \in Operation, queue \in Seq(Answers) :
          /\ r = ops[o] /\ queue = Tail(calls[g])
          /\ r.session = g /\ r.session \in 1 .. session.gen /\ r.doc <= doc.gen
          /\ r.etag <= Now /\ Free(o, r.session, queue)
    BY <1>1, <1>2, NextSends
  <2>2. Call(o, r, queue, "decrypt", c.etag, {}) /\ "decrypt" \in Methods /\ {} \in Texts
        /\ r.session \in Generations
    BY <1>7, <2>1, Bounds DEF CallsNext, Methods
  <2>3. Sends(o, r, queue, "decrypt", c.etag)
    BY <1>3, <1>5, <2>1 DEF Sends
  <2>4. /\ versions' \in Seq(Version) /\ Len(versions') > 0 /\ Grows
        /\ ops' \in [Op -> Operation] /\ calls' \in [Generations -> Seq(Answers)]
        /\ umbra' \in BOOLEAN /\ Kept
    BY <1>1, <1>2, <1>3, <2>2, CallIs
  <2>5. Typed'
    BY <1>1, <1>7, <2>4 DEF Typed
  <2>6. DraftOK'
    BY <1>1, <2>4, <2>5, Sizes, SizesNext DEF DraftOK, Grows
  <2>7. DocOK' /\ DocMoves /\ doc.gen <= doc'.gen
    BY <1>1, <1>7, <2>4, <2>5, NotUp, DocStays, Sizes
  <2> QED BY <1>1, <1>2, <2>2, <2>3, <2>5, <2>6, <2>7, CallMade
<1>8. CASE /\ End(o) /\ Taken(g) /\ UNCHANGED <<versions, umbra>>
           /\ UNCHANGED <<doc, page, toHost, toPage, spent>>
  <2>1. calls' \in [Generations -> Seq(Answers)] /\ ops' \in [Op -> Operation]
    BY <1>1, <1>2, <1>8, TakenIs
  <2>2. Typed'
    BY <1>1, <1>8, <2>1 DEF Typed
  <2>3. DraftOK'
    BY <1>1, <1>8 DEF DraftOK, Now
  <2> QED BY <1>1, <1>2, <1>3, <1>8, <2>2, <2>3, AnswerEnds
<1>9. CASE /\ End(o) /\ Taken(g) /\ UNCHANGED <<versions, umbra>>
           /\ Attach(draft.text, c.etag, FALSE, TRUE, draft.base # c.etag) /\ StartPage
  <2>1. PICK e \in 1 .. Now, stale \in BOOLEAN, text \in Texts, no \in BOOLEAN, yes \in BOOLEAN :
          /\ e = c.etag /\ stale = (draft.base # c.etag) /\ text = draft.text
          /\ no = FALSE /\ yes = TRUE
    BY <1>1, <1>5
  <2>2. Attach(text, e, no, yes, stale)
    BY <1>9, <2>1
  <2>3. calls[g] # <<>> /\ o = Head(calls[g]).op /\ UNCHANGED <<session, draft>>
    BY <1>1, <1>2
  <2>4. StartPage /\ End(o) /\ Taken(g) /\ UNCHANGED <<versions, umbra, session, draft>>
    BY <1>9, <2>3
  <2>5. /\ no => ~Plain /\ (umbra \/ (ops["lockUmbra"].at = "called" /\ o # "lockUmbra"))
        /\ ~yes => text = versions[e].text /\ no = (versions[e].kind = "umbra")
    BY <2>1
  <2> QED BY <1>3, <2>2, <2>3, <2>4, <2>5, Attached
<1>10. \/ /\ c.method = "open" /\ draft = NoDraft
          /\ Attach(c.text, c.etag, c.umbra, FALSE, FALSE)
          /\ StartPage /\ End(o) /\ Taken(g) /\ UNCHANGED <<versions, umbra>>
       \/ /\ c.method = "open" /\ draft # NoDraft /\ ~c.umbra
          /\ CallsNext(o, ops[o], "decrypt", c.etag, {})
          /\ UNCHANGED <<doc, page, toHost, toPage, spent>>
       \/ /\ c.method = "open" /\ draft # NoDraft /\ c.umbra /\ End(o) /\ Taken(g)
          /\ UNCHANGED <<versions, umbra, doc, page, toHost, toPage, spent>>
       \/ /\ c.method = "decrypt" /\ End(o) /\ Taken(g) /\ UNCHANGED <<versions, umbra>>
          /\ \/ Attach(draft.text, c.etag, FALSE, TRUE, draft.base # c.etag) /\ StartPage
             \/ draft.base # c.etag /\ UNCHANGED <<doc, page, toHost, toPage, spent>>
  BY <1>2, Zenon DEF Opened
<1>11. CASE c.method = "open" /\ draft # NoDraft /\ c.umbra /\ End(o) /\ Taken(g)
            /\ UNCHANGED <<versions, umbra, doc, page, toHost, toPage, spent>>
  BY <1>8, <1>11
<1> QED BY <1>6, <1>7, <1>8, <1>9, <1>10, <1>11

-----------------------------------------------------------------------------
(* A snapshot arrives.                                                     *)

LEMMA SynchronizedStep ==
  ASSUME IInv, NEW o \in Op, NEW r \in Operation, r = ops[o], NEW d \in Document,
         ops[o].at \in Flushing, Moved(doc, d), d.is = "open", doc.is = "open",
         toHost' \in Seq(ToHost), UNCHANGED <<draft, spent>>, Synchronized(o, r, d)
  PROVE  IInv'
<1>1. /\ Typed /\ DraftOK /\ DocOK /\ OpOK(o) /\ ops[o].at # "called" /\ r.at = ops[o].at
      /\ o # "lockUmbra" /\ Present /\ doc \in Document
  BY DEF IInv, OpsOK, OpOK, Flushing, Present, Typed
<1>2. r.session \in 1 .. session.gen /\ r.doc <= doc.gen /\ r.etag <= Now /\ r.etag \in Nat
  BY <1>1, Sizes DEF OpOK, Flushing
<1>3. PICK queue \in Seq(Answers) : queue = calls[r.session] /\ r.session \in Generations
  BY <1>1, <1>2, SendsIn DEF Typed
<1>4. Free(o, r.session, queue)
  BY <1>1, <1>3, NotCalled
<1>5. /\ Fits(d) /\ d.text \in Texts /\ d.revision \in Nat /\ d.etag \in Nat
      /\ d.etag <= Now /\ d.gen = doc.gen /\ d.umbra = doc.umbra /\ session.is = "unlocked"
      /\ Now \in Nat
  <2>1. Fits(d) /\ session.is = "unlocked"
    BY <1>1, PresentFits, MovedFits
  <2>2. d.etag \in 1 .. Now /\ Now \in Nat
    BY <1>1, <2>1, Sizes DEF Fits
  <2> QED BY <2>1, <2>2 DEF Document, Moved
<1>6. \* The operation makes a call.
      ASSUME doc' = d, UNCHANGED <<session, page, toPage>>,
             NEW w \in Operation, NEW method \in Methods, NEW text \in Texts,
             w.session = r.session, w.doc = r.doc, w.etag <= Now,
             method \notin {"lockUmbra", "decrypt"},
             method = "write" => text = d.text /\ w.rev = d.revision,
             NEW etag \in Nat, etag <= Now, Call(o, w, queue, method, etag, text)
      PROVE  IInv'
  <2>1. Sends(o, w, queue, method, etag)
    BY <1>1, <1>2, <1>4, <1>6 DEF Sends
  <2>2. /\ versions' \in Seq(Version) /\ Len(versions') > 0 /\ Grows
        /\ ops' \in [Op -> Operation] /\ calls' \in [Generations -> Seq(Answers)]
        /\ umbra' \in BOOLEAN /\ Kept
    BY <1>1, <1>3, <1>6, CallIs
  <2>3. Typed'
    BY <1>1, <1>6, <2>2 DEF Typed
  <2>4. DraftOK'
    BY <1>1, <2>2, <2>3, Sizes, SizesNext DEF DraftOK, Grows
  <2>5. Present' /\ Becomes(d)
    BY <1>6 DEF Present, Becomes
  <2>6. DocOK' /\ DocMoves /\ doc.gen <= doc'.gen
    BY <1>1, <1>5, <1>6, <2>2, <2>3, <2>5, DocMoved, Sizes
  <2>7. Plain => ~doc'.umbra
    BY <1>5, <1>6 DEF Fits
  <2> QED BY <1>6, <2>1, <2>3, <2>4, <2>6, <2>7, CallMade
<1>7. CASE doc' = d /\ Calls(o, [r EXCEPT !.rev = d.revision], "write", d.etag, d.text)
           /\ UNCHANGED <<session, page, toPage>>
  <2>1. PICK w \in Operation : w = [r EXCEPT !.rev = d.revision]
    BY <1>5 DEF Operation
  <2>2. w.session = r.session /\ w.doc = r.doc /\ w.etag = r.etag /\ w.rev = d.revision
    BY <2>1 DEF Operation
  <2>3. Call(o, w, queue, "write", d.etag, d.text) /\ "write" \in Methods
    BY <1>3, <1>7, <2>1, <2>2 DEF Calls, Methods
  <2> QED BY <1>2, <1>5, <1>6, <1>7, <2>2, <2>3
<1>8. CASE /\ doc' = d
           /\ Calls(o, [r EXCEPT !.etag = d.etag, !.text = d.text], "draft", d.etag, d.text)
           /\ UNCHANGED <<session, page, toPage>>
  <2>1. PICK w \in Operation : w = [r EXCEPT !.etag = d.etag, !.text = d.text]
    BY <1>5 DEF Operation
  <2>2. w.session = r.session /\ w.doc = r.doc /\ w.etag = d.etag
    BY <2>1 DEF Operation
  <2>3. Call(o, w, queue, "draft", d.etag, d.text) /\ "draft" \in Methods
    BY <1>3, <1>8, <2>1, <2>2 DEF Calls, Methods
  <2> QED BY <1>5, <1>6, <1>8, <2>2, <2>3
<1>9. CASE /\ Flushes(o, r, "saveFlush", d)
           /\ UNCHANGED <<versions, umbra, session, page, calls>>
  <2>1. "saveFlush" \in Flushing
    BY DEF Flushing
  <2>2. /\ doc' \in Document /\ Becomes(d) /\ Present'
        /\ toPage' \in Seq(ToPage) /\ ops' \in [Op -> Operation]
        /\ \A p \in Op : p # o => ops'[p] = ops[p]
        /\ UNCHANGED <<versions, session>> /\ doc.gen <= doc'.gen => OpOK(o)'
    BY <1>1, <1>2, <1>9, <2>1, FlushesIs
  <2>3. Typed'
    BY <1>1, <1>9, <2>2 DEF Typed
  <2>4. doc.gen <= doc'.gen
    BY <1>1, <1>5, <2>2, Sizes DEF Becomes
  <2>5. \A p \in Op : Moves(p)
    BY <1>1, <1>9, <2>2, <2>4 DEF Moves
  <2> QED BY <1>1, <1>9, <2>2, <2>3, <2>5, EditStep
<1>10. CASE /\ doc' = d /\ Calls(o, r, "release", d.etag, {})
            /\ UNCHANGED <<session, page, toPage>>
  <2>1. Call(o, r, queue, "release", d.etag, {}) /\ "release" \in Methods /\ {} \in Texts
    BY <1>3, <1>10, Bounds DEF Calls, Methods
  <2> QED BY <1>2, <1>5, <1>6, <1>10, <2>1
<1>11. CASE /\ doc' = [d EXCEPT !.is = "frozen"] /\ page' = Down /\ toPage' = <<>>
            /\ ops' = [p \in Op |-> IF p = o THEN [r EXCEPT !.at = "closing", !.etag = d.etag]
                                   ELSE IF ops[p].at \in Flushing THEN Idle ELSE ops[p]]
            /\ UNCHANGED <<versions, umbra, session, calls>>
  <2>1. PICK w \in Operation : w = [r EXCEPT !.at = "closing", !.etag = d.etag]
    BY <1>5 DEF Operation, Steps
  <2>2. w.session = r.session /\ w.doc = r.doc /\ w.etag = d.etag /\ w.at = "closing"
    BY <2>1 DEF Operation
  <2>3. PICK e \in Document : e = [d EXCEPT !.is = "frozen"]
    BY DEF Document
  <2>4. doc' = e /\ Present' /\ Becomes(d)
    BY <1>11, <2>3 DEF Document, Present, Becomes
  <2>5. /\ ops' \in [Op -> Operation] /\ ops'[o] = w
        /\ \A p \in Op : p # o => \/ ops'[p] = ops[p]
                                  \/ ops[p].at # "called" /\ ops'[p] = Idle
    BY <1>1, <1>11, <2>1, IdleIs DEF Typed, Flushing
  <2>6. Typed'
    BY <1>1, <1>11, <2>4, <2>5, Emptied DEF Typed
  <2>7. doc.gen <= doc'.gen /\ doc'.gen = doc.gen
    BY <1>1, <1>5, <2>4, Sizes DEF Becomes
  <2>8. OpOK(o)'
    <3>1. w.session <= session'.gen /\ w.session >= 1
      BY <1>1, <1>2, <1>11, <2>2, Sizes
    <3> QED BY <1>1, <1>2, <1>5, <1>11, <2>2, <2>5, <2>7, <3>1 DEF OpOK, Now
  <2>9. \A p \in Op : Moves(p)
    BY <1>1, <2>5, <2>8 DEF Moves
  <2> QED BY <1>1, <1>11, <2>4, <2>6, <2>9, EditStep
<1>12. CASE /\ doc' = d /\ Set(o, [r EXCEPT !.at = "asking"])
            /\ UNCHANGED <<versions, umbra, session, page, toPage, calls>>
  <2>1. PICK w \in Operation : w = [r EXCEPT !.at = "asking"]
    BY DEF Operation, Steps
  <2>2. w.session = r.session /\ w.doc = r.doc /\ w.etag = r.etag /\ w.at = "asking"
    BY <2>1 DEF Operation
  <2>3. ops' \in [Op -> Operation] /\ ops'[o] = w /\ \A p \in Op : p # o => ops'[p] = ops[p]
    BY <1>1, <1>12, <2>1 DEF Set, Typed
  <2>4. Typed'
    BY <1>1, <1>12, <2>3 DEF Typed
  <2>5. Present' /\ Becomes(d)
    BY <1>12 DEF Present, Becomes
  <2>6. OpOK(o)'
    <3>1. w.session <= session'.gen /\ w.session >= 1
      BY <1>1, <1>2, <1>12, <2>2, Sizes
    <3> QED BY <1>1, <1>2, <1>5, <1>12, <2>2, <2>3, <3>1 DEF OpOK, Now
  <2>7. \A p \in Op : Moves(p)
    BY <1>1, <2>3, <2>6 DEF Moves
  <2> QED BY <1>1, <1>12, <2>4, <2>5, <2>7, EditStep
<1>13. CASE /\ session' = [session EXCEPT !.is = "locked"]
            /\ doc' = Wiped(d) /\ page' = Down /\ toPage' = <<>>
            /\ ops' = [p \in Op |-> IF p = o \/ Rejected(p) THEN Idle ELSE ops[p]]
            /\ UNCHANGED <<versions, umbra, calls>>
  <2>1. PICK e \in Document : e = [d EXCEPT !.is = "locked", !.text = {}, !.umbra = FALSE]
    BY Bounds DEF Document
  <2>2. /\ e.is = "locked" /\ e.text = {} /\ e.saved = d.saved /\ e.revision = d.revision
        /\ e.etag = d.etag /\ e.gen = d.gen
    BY <2>1 DEF Document
  <2>3. doc' = e
    BY <1>13, <2>1 DEF Wiped
  <2>4. Gone
    BY <1>5, <1>13, <2>2, <2>3 DEF Gone, Fits
  <2>5. session' \in [is : {"unlocked", "locked", "expired"}, gen : Generations]
        /\ session'.gen = session.gen
    BY <1>1, <1>13, SessionEnds
  <2>6. /\ ops' \in [Op -> Operation]
        /\ \A p \in Op : ops'[p] = ops[p] \/ (ops[p].at # "called" /\ ops'[p] = Idle)
    BY <1>1, <1>13, IdleIs DEF Typed, Rejected, Flushing
  <2>7. Typed'
    BY <1>1, <1>13, <2>3, <2>5, <2>6, Emptied DEF Typed
  <2>8. Grows /\ DraftOK'
    BY <1>1, <1>13, GrowsNot DEF DraftOK, Now
  <2>9. DocOK' /\ DocMoves /\ doc.gen <= doc'.gen
    BY <2>4, <2>7, <2>8, GoneIs
  <2> QED BY <1>13, <2>5, <2>6, <2>7, <2>8, <2>9, SameCalls
<1>14. CASE doc' = d /\ End(o) /\ UNCHANGED <<versions, umbra, session, page, toPage, calls>>
  <2>1. ops' \in [Op -> Operation] /\ \A p \in Op : Moves(p)
    BY <1>1, <1>14, OneEnds DEF End, Set
  <2>2. Typed'
    BY <1>1, <1>14, <2>1 DEF Typed
  <2>3. Present' /\ Becomes(d)
    BY <1>14 DEF Present, Becomes
  <2> QED BY <1>1, <1>14, <2>1, <2>2, <2>3, EditStep
<1> HIDE DEF Calls, Flushes, Set, End, Wiped, Rejected
<1> QED BY <1>7, <1>8, <1>9, <1>10, <1>11, <1>12, <1>13, <1>14 DEF Synchronized

LEMMA ReceiveSnapshotStep == IInv /\ ReceiveSnapshot => IInv'
<1> SUFFICES ASSUME IInv, ReceiveSnapshot PROVE IInv'
  OBVIOUS
<1>1. Typed /\ toHost # <<>>
  BY DEF IInv, ReceiveSnapshot
<1>2. PICK m \in ToHost : m = Head(toHost) /\ Tail(toHost) \in Seq(ToHost)
  BY <1>1, MessageIs
<1>3. PICK d \in Document : d = Edited(AtEpoch(m), m.text) /\ Moved(doc, d) /\ d.is = doc.is
  BY <1>1, <1>2, EditedIs
<1>4. PICK o \in Op : ops[o].at \in Flushing /\ Synchronized(o, ops[o], d)
  BY <1>2, <1>3 DEF ReceiveSnapshot
<1>5. PICK r \in Operation : r = ops[o]
  BY <1>1, Sizes
<1>6. doc.is = "open" /\ toHost' \in Seq(ToHost) /\ UNCHANGED <<draft, spent>>
  BY <1>2 DEF ReceiveSnapshot
<1> QED BY <1>3, <1>4, <1>5, <1>6, SynchronizedStep

-----------------------------------------------------------------------------
(* The specification.                                                      *)

LEMMA Listed ==
  ASSUME NEW S, NEW n \in Nat, NEW f \in [1 .. n -> S]
  PROVE  f \in Seq(S)
  OBVIOUS

LEMMA InitHolds == Init => IInv
<1> SUFFICES ASSUME Init PROVE IInv
  OBVIOUS
<1>1. /\ 1 \in Generations /\ {} \in Texts /\ {0} \in Texts /\ MaxOthers \in Nat /\ MaxTyped \in Nat
  BY Bounds DEF Generations, Texts
<1>2. PICK v \in Version : v = [text |-> {0}, kind |-> "plain"]
  BY <1>1 DEF Version, Kinds
<1>3. /\ session = [is |-> "unlocked", gen |-> 1] /\ umbra = TRUE
      /\ toHost = <<>> /\ toPage = <<>>
      /\ ops = [o \in Op |-> Idle] /\ calls = [g \in Generations |-> <<>>]
  BY DEF Init
<1>4. /\ session \in [is : {"unlocked", "locked", "expired"}, gen : Generations]
      /\ toHost \in Seq(ToHost) /\ toPage \in Seq(ToPage) /\ ops \in [Op -> Operation]
      /\ calls \in [Generations -> Seq(Answers)] /\ umbra \in BOOLEAN
      /\ session.gen = 1 /\ session.is = "unlocked"
  BY <1>1, <1>3, IdleIs, Emptied
<1>5. Closed(1, 1) \in Document /\ Closed(1, 1).is = "closed" /\ Closed(1, 1).text = {}
      /\ Closed(1, 1).saved = 0 /\ Closed(1, 1).revision = 0 /\ Closed(1, 1).etag = 0
      /\ Closed(1, 1).gen = 1 /\ Closed(1, 1).session = 1 /\ ~Closed(1, 1).umbra
  BY <1>1 DEF Closed, Document
<1>6. (Typed => OpsOK) /\ CallsOK /\ OneCall /\ KeyOK
  <2>1. OneCall /\ CallsOK /\ KeyOK
    BY <1>3, NoneFollowed DEF OneCall, CallsOK, KeyOK
  <2>2. ASSUME Typed PROVE OpsOK
    <3>1. Now \in Nat /\ doc.gen \in Nat /\ session.gen \in Nat
      BY <2>2, Sizes
    <3>2. \A o \in Op : ops[o] = Idle
      BY <1>3
    <3> QED BY <3>1, <3>2, IdleIs DEF OpsOK, OpOK
  <2> QED BY <2>1, <2>2
<1>7. CASE OpenAtFirst
  <2>1. versions = <<v>> /\ Len(versions) = 1 /\ versions[1] = v /\ versions \in Seq(Version)
    BY <1>2, <1>7 DEF OpenAtFirst
  <2>2. PICK d \in Document : d = [Closed(1, 1) EXCEPT !.is = "open", !.text = {0}, !.etag = 1]
    BY <1>1, <1>5 DEF Document
  <2>3. /\ doc = d /\ d.is = "open" /\ d.text = {0} /\ d.etag = 1 /\ d.saved = 0
        /\ d.revision = 0 /\ d.session = 1 /\ ~d.umbra /\ d.umbra \in BOOLEAN
    BY <1>5, <1>7, <2>2 DEF OpenAtFirst, Document
  <2>4. page \in Page /\ draft \in [base : Nat, text : Texts] /\ draft.base = 0
    BY <1>1, <1>7, Defaults DEF OpenAtFirst, Page
  <2>5. spent \in Counts
    BY <1>1, <1>7 DEF OpenAtFirst, Counts
  <2>6. Typed
    BY <1>4, <2>1, <2>3, <2>4, <2>5 DEF Typed
  <2>7. DraftOK /\ Present /\ doc.etag <= Now /\ doc.saved <= doc.revision
    BY <2>1, <2>3, <2>4 DEF DraftOK, Now, Present
  <2>8. doc.text = versions[doc.etag].text /\ versions[doc.etag].kind = "plain"
    BY <1>2, <2>1, <2>3
  <2>9. DocOK
    <3>1. doc.umbra = (versions[doc.etag].kind = "umbra") /\ ~doc.umbra
      BY <2>3, <2>8
    <3> QED BY <1>4, <2>3, <2>7, <2>8, <3>1 DEF DocOK
  <2> QED BY <1>6, <2>6, <2>7, <2>9 DEF IInv
<1>8. CASE BackupLeft
  <2>1. PICK others \in 0 .. MaxOthers, kind \in {"plain", "umbra"} :
          /\ versions = <<[text |-> {0}, kind |-> "plain"]>> \o
                        [i \in 1 .. others |-> [text |-> {0} \cup (MaxTyped + 1 .. MaxTyped + i), kind |-> kind]]
          /\ spent = [typed |-> 1, others |-> others, pages |-> 0, started |-> 0]
    BY <1>8 DEF BackupLeft
  <2>2. MaxTyped > 0 /\ doc = Closed(1, 1) /\ page = Down /\ draft = [base |-> 1, text |-> {0, 1}]
    BY <1>8 DEF BackupLeft
  <2>3. ASSUME NEW i \in 1 .. others
        PROVE  [text |-> {0} \cup (MaxTyped + 1 .. MaxTyped + i), kind |-> kind] \in Version
    <3>1. i <= MaxOthers /\ i \in Nat
      BY <1>1
    <3>2. {0} \cup (MaxTyped + 1 .. MaxTyped + i) \in Texts
      BY <1>1, <3>1 DEF Texts
    <3> QED BY <3>2 DEF Version, Kinds
  <2>4. PICK s \in Seq(Version) :
          s = [i \in 1 .. others |-> [text |-> {0} \cup (MaxTyped + 1 .. MaxTyped + i), kind |-> kind]]
    <3>1. [i \in 1 .. others |-> [text |-> {0} \cup (MaxTyped + 1 .. MaxTyped + i), kind |-> kind]]
            \in [1 .. others -> Version]
      BY <2>3
    <3>2. others \in Nat
      BY <1>1
    <3> QED BY <3>1, <3>2, Listed
  <2>5. PICK t \in Seq(Version) : t = <<v>> /\ Len(t) = 1
    <3>1. <<v>> \in Seq(Version) /\ Len(<<v>>) = 1
      OBVIOUS
    <3> QED BY <3>1
  <2>6. versions = t \o s
    BY <1>2, <2>1, <2>4, <2>5
  <2>7. versions \in Seq(Version) /\ Len(versions) >= 1
    BY <2>4, <2>5, <2>6
  <2>8. spent \in Counts
    <3>1. 1 \in 0 .. MaxTyped
      BY <1>1, <2>2
    <3> QED BY <1>1, <2>1, <3>1 DEF Counts
  <2>9. draft \in [base : Nat, text : Texts] /\ draft.base = 1
    <3>1. {0, 1} \in Texts
      BY <1>1, <2>2 DEF Texts
    <3> QED BY <2>2, <3>1
  <2>10. Typed
    BY <1>4, <1>5, <2>2, <2>7, <2>8, <2>9, Emptied DEF Typed
  <2>11. DocOK /\ DraftOK
    BY <1>3, <1>5, <2>2, <2>7, <2>9, Defaults DEF DocOK, DraftOK, Now, Present
  <2> QED BY <1>6, <2>10, <2>11 DEF IInv
<1> QED BY <1>7, <1>8 DEF Init

LEMMA StutterHolds == IInv /\ UNCHANGED vars => IInv'
<1> SUFFICES ASSUME IInv, UNCHANGED vars PROVE IInv'
  OBVIOUS
<1>1. UNCHANGED <<versions, session, umbra, doc, page, toHost, toPage, ops, calls, draft, spent>>
  BY DEF vars
<1>2. Typed'
  BY <1>1 DEF IInv, Typed
<1> QED BY <1>1, <1>2, NotUp, StillStep DEF Moves

LEMMA StepHolds == IInv /\ [Next]_vars => IInv'
<1> SUFFICES ASSUME IInv, [Next]_vars PROVE IInv'
  OBVIOUS
<1>1. CASE UNCHANGED vars
  BY <1>1, StutterHolds
<1>2. CASE Hide \/ Show \/ Type \/ SendEdit \/ PageReceives
  BY <1>2, HideStep, ShowStep, TypeStep, SendEditStep, PageReceivesStep
<1>3. CASE Ignore \/ ReceiveReady \/ ReceiveEdit \/ ReceiveSnapshot
  BY <1>3, IgnoreStep, ReceiveReadyStep, ReceiveEditStep, ReceiveSnapshotStep
<1>4. CASE StartOpen \/ StartLockUmbra \/ Discard \/ CloseTab \/ LockClosed
  BY <1>4, StartOpenStep, StartLockUmbraStep, DiscardStep, CloseTabStep, LockClosedStep
<1>5. CASE Expire \/ Unlock \/ Crash \/ OtherCommits
  BY <1>5, ExpireStep, UnlockStep, CrashStep, OtherCommitsStep
<1>6. ASSUME NEW o \in Op,
             \/ FlushFails(o) \/ StartFlush(o) \/ StartCall(o)
             \/ SaveFirst(o) \/ GiveUp(o) \/ CloseForMutation(o)
      PROVE  IInv'
  BY <1>6, FlushFailsStep, StartFlushStep, StartCallStep, SaveFirstStep, GiveUpStep,
     CloseForMutationStep
<1>7. ASSUME NEW g \in Generations,
             \/ Drop(g) \/ SaveAnswered(g) \/ Adopt(g)
             \/ BackedUp(g) \/ ConvertOn(g) \/ Opened(g) \/ LockedUmbra(g)
      PROVE  IInv'
  BY <1>7, DropStep, SaveAnsweredStep, AdoptStep, BackedUpStep, ConvertOnStep, OpenedStep,
     LockedUmbraStep
<1> QED BY <1>1, <1>2, <1>3, <1>4, <1>5, <1>6, <1>7 DEF Next

\* The inductive invariant holds in every state of the editor.
THEOREM InvariantHolds == Spec => []IInv
<1> QED BY InitHolds, StepHolds, PTL DEF Spec

\* Every variable has its type, and the etags of the document and of the
\* backup name versions that exist: TypeOK.
THEOREM TypeCorrect == Spec => []TypeOK
<1>1. IInv => TypeOK
  <2> SUFFICES ASSUME IInv PROVE TypeOK
    OBVIOUS
  <2>1. Typed /\ DocOK /\ DraftOK /\ Now \in Nat /\ Now = Len(versions)
    BY Sizes DEF IInv, Now
  <2>2. \A v \in Range(versions) : v.text \in Texts /\ v.kind \in {"plain", "umbra", "gone"}
    <3> SUFFICES ASSUME NEW v \in Range(versions)
                 PROVE  v.text \in Texts /\ v.kind \in {"plain", "umbra", "gone"}
      OBVIOUS
    <3>1. versions \in Seq(Version)
      BY <2>1 DEF Typed
    <3>2. v \in Version
      BY <3>1 DEF Range
    <3> QED BY <3>2 DEF Version, Kinds
  <2>3. /\ session.is \in {"unlocked", "locked", "expired"} /\ session.gen \in Generations
        /\ umbra \in BOOLEAN
    BY <2>1 DEF Typed
  <2>4. /\ doc.is \in {"closed", "open", "frozen", "locked"} /\ doc.text \in Texts
        /\ doc.saved \in Nat \cup {-1} /\ doc.revision \in Nat /\ doc.etag \in Nat
    BY <2>1 DEF Typed, Document
  <2>5. doc.etag \in 0 .. Len(versions) /\ doc.saved \in -1 .. doc.revision
    BY <2>1, <2>4 DEF DocOK
  <2>6. page.text \in Texts /\ {page.up, page.timer, page.locked} \subseteq BOOLEAN
    BY <2>1 DEF Typed, Page
  <2>7. \A o \in Op : ops[o].at \in Steps /\ ops[o].text \in Texts
    BY <2>1 DEF Typed, Operation
  <2>8. draft.text \in Texts /\ draft.base \in 0 .. Len(versions)
    BY <2>1 DEF Typed, DraftOK
  <2> QED BY <2>2, <2>3, <2>4, <2>5, <2>6, <2>7, <2>8 DEF TypeOK
<1> QED BY <1>1, InvariantHolds, PTL

\* A document that is not marked unsaved shows what the vault holds under its
\* etag, whatever was typed while its save was under way (CleanIsWritten).
THEOREM CleanDocumentIsWritten == Spec => []CleanIsWritten
<1>1. IInv => CleanIsWritten
  BY DEF IInv, DocOK, Present, CleanIsWritten
<1> QED BY <1>1, InvariantHolds, PTL

\* With the session the plaintext goes from the model, the page and what is on
\* its way to it, and with the key the projections (PlaintextOnlyUnlocked).
THEOREM PlaintextGoesWithSession == Spec => []PlaintextOnlyUnlocked
<1>1. IInv => PlaintextOnlyUnlocked
  BY DEF IInv, DocOK, Present, LockingUmbra, PlaintextOnlyUnlocked
<1> QED BY <1>1, InvariantHolds, PTL

\* Whether an open document is taken away, and whether it may be.
TakesAway ==
  doc.is = "open" /\ (doc'.is = "frozen" \/ (doc'.is = "locked" /\ session'.is = "locked"))
MayTake ==
  doc.revision = doc.saved \/ (ops["lock"].at = "called" /\ doc.revision = ops["lock"].rev)

LEMMA WipedBySession ==
  ASSUME doc.is = "open", doc' = Wiped(doc), doc \in Document
  PROVE  doc'.is = "locked"
BY DEF Wiped, Document

LEMMA NotDirty ==
  ASSUME IInv, NEW d \in Document, Moved(doc, d), ~Dirty(d)
  PROVE  doc.revision = doc.saved
<1>1. doc.revision \in Nat /\ doc.saved \in Nat \cup {-1} /\ doc.saved <= doc.revision
  BY Sizes DEF IInv, DocOK
<1>2. CASE d.revision = doc.revision
  BY <1>2 DEF Moved, Dirty
<1>3. CASE d.revision = doc.revision + 1
  <2>1. doc.saved = doc.revision + 1
    BY <1>3 DEF Moved, Dirty
  <2> QED BY <1>1, <2>1
<1> QED BY <1>2, <1>3 DEF Moved

LEMMA SnapshotTakes == IInv /\ ReceiveSnapshot /\ TakesAway => MayTake
<1> SUFFICES ASSUME IInv, ReceiveSnapshot, TakesAway PROVE MayTake
  OBVIOUS
<1>1. Typed /\ toHost # <<>> /\ doc.is = "open" /\ session.is = "unlocked"
  BY PresentFits DEF IInv, ReceiveSnapshot, Present, TakesAway
<1>2. PICK m \in ToHost : m = Head(toHost)
  BY <1>1, MessageIs
<1>3. PICK d \in Document : d = Edited(AtEpoch(m), m.text) /\ Moved(doc, d) /\ d.is = "open"
  BY <1>1, <1>2, EditedIs
<1>4. PICK o \in Op : Synchronized(o, ops[o], d)
  BY <1>2, <1>3 DEF ReceiveSnapshot
<1>5. CASE ~Dirty(d)
  BY <1>3, <1>5, NotDirty DEF MayTake
<1>6. CASE Dirty(d)
  <2>1. \/ doc' = d
        \/ doc' = [d EXCEPT !.asked = d.asked + 1] /\ UNCHANGED session
    BY <1>4, <1>6 DEF Synchronized, MayFreeze, Flushes
  <2>2. doc'.is = "open"
    BY <1>3, <2>1 DEF Document
  <2> QED BY <2>2 DEF TakesAway
<1> QED BY <1>5, <1>6

LEMMA SaveTakes == \A g \in Generations : IInv /\ SaveAnswered(g) /\ TakesAway => MayTake
<1> SUFFICES ASSUME IInv, NEW g \in Generations, SaveAnswered(g), TakesAway PROVE MayTake
  OBVIOUS
<1>1. /\ Typed /\ calls[g] # <<>> /\ Head(calls[g]).method = "write"
      /\ Good(Head(calls[g])) /\ Usable(Head(calls[g]).op)
  BY DEF IInv, SaveAnswered, Answer
<1>2. PICK c \in Answers, o \in Op :
        c = Head(calls[g]) /\ o = c.op /\ CallOK(g, c)
  BY <1>1, AnswerIs
<1>3. PICK d \in Document :
        /\ d = Saved(doc, ops[o], c.etag) /\ d.is = "open" /\ d.revision = doc.revision
        /\ d.saved = ops[o].rev
  BY <1>1, <1>2, SavedIs
<1>4. CASE o = "lock" /\ ~Dirty(d)
  BY <1>2, <1>3, <1>4 DEF MayTake, CallOK, Dirty
<1>5. CASE ~(o = "lock" /\ ~Dirty(d))
  <2>1. doc' = d \/ doc' = [d EXCEPT !.asked = d.asked + 1]
    BY <1>2, <1>3, <1>5 DEF SaveAnswered, Flushes
  <2>2. doc'.is = "open"
    BY <1>3, <2>1 DEF Document
  <2> QED BY <2>2 DEF TakesAway
<1> QED BY <1>4, <1>5

\* A rename, a delete or a lock takes an open document away only when nothing
\* in it is unsaved, or the save that was asked for has its last revision
\* (TakenOnlyWhenSaved).
THEOREM DocumentTakenWhenSaved == Spec => TakenOnlyWhenSaved
<1> DEFINE Takes == TakesAway => MayTake
<1>1. IInv /\ [Next]_vars => [Takes]_vars
  <2> SUFFICES ASSUME IInv, [Next]_vars, TakesAway
               PROVE  MayTake
    BY DEF Takes
  <2>1. /\ Typed /\ doc \in Document /\ doc.is = "open" /\ session.is = "unlocked"
        /\ doc'.is \in {"frozen", "locked"} /\ (session' = session => doc'.is = "frozen")
    BY PresentFits DEF IInv, Typed, Present, TakesAway
  <2>2. doc' # doc /\ doc'.is # "open" /\ doc'.is # "closed"
    BY <2>1
  <2>3. ~UNCHANGED vars
    BY <2>2 DEF vars
  <2>4. ~(Hide \/ Show \/ Type \/ SendEdit \/ PageReceives)
    BY <2>2 DEF Hide, Show, Type, SendEdit, PageReceives
  <2>5. ~(Ignore \/ ReceiveReady \/ ReceiveEdit)
    <3> SUFFICES ASSUME Ignore \/ ReceiveReady \/ ReceiveEdit PROVE FALSE
      OBVIOUS
    <3>1. toHost # <<>>
      BY DEF Ignore, ReceiveReady, ReceiveEdit
    <3>2. PICK m \in ToHost : m = Head(toHost)
      BY <2>1, <3>1, MessageIs
    <3>3. doc' \in {doc, AtEpoch(m), Edited(AtEpoch(m), m.text)}
      BY <3>2 DEF Ignore, ReceiveReady, ReceiveEdit
    <3> QED BY <2>1, <2>2, <3>2, <3>3, EditedIs
  <2>6. ~(StartOpen \/ StartLockUmbra \/ LockClosed \/ Unlock \/ OtherCommits)
    BY <2>2 DEF StartOpen, StartLockUmbra, LockClosed, Unlock, OtherCommits
  <2>7. ~(Discard \/ CloseTab \/ Crash)
    BY <2>2 DEF Discard, CloseTab, Crash, Dispose, Closed
  <2>8. ~Expire
    <3> SUFFICES ASSUME Expire PROVE FALSE
      OBVIOUS
    <3>1. doc'.is = "locked" /\ session'.is = "expired"
      BY <2>1, WipedBySession, SessionEnds DEF Expire, WipeForLock
    <3> QED BY <3>1 DEF TakesAway
  <2>9. ASSUME NEW o \in Op PROVE ~(FlushFails(o) \/ StartCall(o) \/ GiveUp(o))
    BY <2>2 DEF FlushFails, StartCall, GiveUp
  <2>10. ASSUME NEW o \in Op PROVE ~(StartFlush(o) \/ SaveFirst(o) \/ CloseForMutation(o))
    <3> SUFFICES ASSUME StartFlush(o) \/ SaveFirst(o) PROVE FALSE
      BY <2>1 DEF CloseForMutation
    <3>1. doc' = [doc EXCEPT !.asked = doc.asked + 1]
      BY DEF StartFlush, SaveFirst, Flushes
    <3> QED BY <2>1, <2>2, <3>1 DEF Document
  <2>11. ASSUME NEW g \in Generations
         PROVE  ~(BackedUp(g) \/ ConvertOn(g) \/ Opened(g) \/ Adopt(g))
    <3>1. ~(BackedUp(g) \/ ConvertOn(g))
      BY <2>2 DEF BackedUp, ConvertOn
    <3>2. ~Opened(g)
      BY <2>2 DEF Opened, Attach
    <3>3. ~Adopt(g)
      <4> SUFFICES ASSUME Adopt(g) PROVE FALSE
        OBVIOUS
      <4>1. doc'.is = doc.is
        BY <2>1 DEF Adopt, Replace, Replaced, Document
      <4> QED BY <2>1, <2>2, <4>1
    <3> QED BY <3>1, <3>2, <3>3
  <2>12. ASSUME NEW g \in Generations PROVE ~(Drop(g) \/ LockedUmbra(g))
    <3> SUFFICES ASSUME Drop(g) \/ LockedUmbra(g) PROVE FALSE
      OBVIOUS
    <3>1. (doc' = doc \/ doc' = Wiped(doc)) /\ session' = session
      BY DEF Drop, LockedUmbra, WipeForLock
    <3>2. doc' = doc \/ doc'.is = "locked"
      BY <2>1, <3>1, WipedBySession
    <3> QED BY <2>1, <2>2, <3>1, <3>2
  <2>13. ReceiveSnapshot \/ \E g \in Generations : SaveAnswered(g)
    BY <2>3, <2>4, <2>5, <2>6, <2>7, <2>8, <2>9, <2>10, <2>11, <2>12 DEF Next
  <2> QED BY <2>13, SnapshotTakes, SaveTakes
<1>2. [Takes]_vars =>
        [doc.is = "open" /\ (doc'.is = "frozen" \/ (doc'.is = "locked" /\ session'.is = "locked"))
       => \/ doc.revision = doc.saved
          \/ ops["lock"].at = "called" /\ doc.revision = ops["lock"].rev]_vars
  BY DEF TakesAway, MayTake
<1> QED BY <1>1, <1>2, InvariantHolds, PTL DEF Spec, TakenOnlyWhenSaved

-----------------------------------------------------------------------------
(* Other clients' changes.                                                 *)
(*                                                                         *)
(* A second invariant, for when no revert overlaps with what asks the page *)
(* and no draft that is out of date is backed up again.  While a save may  *)
(* still commit, the texts that a save could send, wherever they are under *)
(* way, and the version of the document's etag hold the same changes of    *)
(* other clients, or have left the document (their mark 0 is gone).        *)

Careful == ~Overlap /\ ~StaleBackup

\* The text t holds of others' changes what b holds, if it grew out of the document.
Grew(t, b) == 0 \in t => Theirs(t) = b

\* A page that showed t, and has received the first n of the messages s, shows a
\* text that grew out of b.
IsText(s, i) == i = 0 \/ s[i].type = "content"
TextOf(s, t, i) == IF i = 0 THEN t ELSE s[i].text
Shown(s, t, n, b) ==
  \E i \in 0 .. n : /\ IsText(s, i) /\ Grew(TextOf(s, t, i), b)
                    /\ \A k \in i + 1 .. n : ~IsText(s, k)

\* So it does in the end, and whenever it is asked by somebody who still waits.
QueueFits(s, t, asks, b) ==
  /\ Shown(s, t, Len(s), b)
  /\ \A n \in 1 .. Len(s) :
       s[n].type = "snapshotRequest" /\ s[n].ask \in asks => Shown(s, t, n - 1, b)

Waiting == {o \in Op : ops[o].at \in Flushing}
Awaited == {ops[o].ask : o \in Waiting}
AnswersFit(s, asks, b) ==
  \A m \in Range(s) : m.type = "snapshot" /\ m.ask \in asks => Grew(m.text, b)

\* The model's own text matters as long as a page that starts is sent it: an
\* edit of before a revert may still arrive after it, but ends that.
TextsFit(b) ==
  /\ doc.epoch = 0 => Grew(doc.text, b)
  /\ QueueFits(toPage, page.text, Awaited, b)
  /\ AnswersFit(toHost, Awaited, b)

\* What the document will take for its version when a save is answered.
WritesFit(b) ==
  \A g \in Generations : \A c \in Range(calls[g]) :
    c.ok /\ c.method = "write" /\ ops[c.op].doc = doc.gen => Grew(c.text, b)

Based(b) ==
  /\ ~doc.stale => Grew(versions[doc.etag].text, b)
  /\ TextsFit(b) /\ WritesFit(b)
BaseOK == Plain /\ Present => \E b \in Texts : Based(b)

\* A backup grew out of its base.
Rooted(etag, text) ==
  Plain /\ etag >= 1 /\ 0 \in versions[etag].text => Grew(text, Theirs(versions[etag].text))
BackupOK ==
  /\ Rooted(draft.base, draft.text)
  /\ ops["backup"].at = "called" => Rooted(ops["backup"].etag, ops["backup"].text)

\* What these rest on: which messages there can be, who waits for them, and
\* which operation made which call.
PageIs ==
  /\ ~page.up => page.text = {} /\ ~page.timer /\ toPage = <<>>
  /\ page.timer => page.epoch >= 1
  /\ \A m \in Range(toPage) : m.ask <= doc.asked
HostIs ==
  /\ doc.is = "closed" => toHost = <<>>
  /\ \A m \in Range(toHost) :
       /\ m.ask <= doc.asked
       /\ m.type = "edit" => m.epoch >= 1
       /\ m.type = "ready" => m.epoch = 0
WaitingIs ==
  /\ \A o \in Waiting :
       /\ o \in AskPage /\ ops[o].ask <= doc.asked /\ doc.is \in {"open", "locked"}
       /\ session.is = "unlocked" /\ ops[o].session = session.gen
       /\ o = "backup" => ~doc.stale
  /\ \A o \in Op : ops[o].at = "asking" => o \in {"rename", "lock"}
  /\ ops["backup"].at \notin {"saveFlush", "flushAgain"}
  /\ ops["open"].at # "idle" => doc.is = "closed"
  /\ ops["revert"].at # "idle" => \A o \in AskPage : ops[o].at = "idle"
MethodIs(c) ==
  /\ c.ok /\ c.method \in {"project", "annotate"} => c.umbra
  /\ c.method = "read" => c.op = "revert"
  /\ c.method = "write" => c.op \in AskPage
  /\ c.method = "draft" => c.op = "backup"
  /\ c.method \in {"open", "decrypt"} => c.op = "open"
  /\ c.method \in {"release", "convert"} => c.op = "convert"
MethodsAre == \A g \in Generations : \A c \in Range(calls[g]) : MethodIs(c)

KeepsInv ==
  Careful /\ PageIs /\ HostIs /\ WaitingIs /\ MethodsAre /\ BackupOK /\ BaseOK

-----------------------------------------------------------------------------
(* Queues of messages to the page.                                         *)

LEMMA NothingSent ==
  ASSUME NEW t, NEW asks, NEW b, Grew(t, b)
  PROVE  QueueFits(<<>>, t, asks, b)
BY DEF QueueFits, Shown, IsText, TextOf

LEMMA FewerAsked ==
  ASSUME NEW s \in Seq(ToPage), NEW t, NEW u, NEW asks, NEW fewer, NEW b,
         fewer \subseteq asks, QueueFits(s, t, asks, b), Grew(t, b) => Grew(u, b)
  PROVE  QueueFits(s, u, fewer, b)
<1>1. ASSUME NEW n \in 0 .. Len(s), Shown(s, t, n, b) PROVE Shown(s, u, n, b)
  BY <1>1 DEF Shown, TextOf
<1>2. Shown(s, t, Len(s), b) /\ Len(s) \in 0 .. Len(s)
  BY DEF QueueFits
<1>3. ASSUME NEW n \in 1 .. Len(s), s[n].type = "snapshotRequest", s[n].ask \in fewer
      PROVE  Shown(s, u, n - 1, b)
  <2>1. Shown(s, t, n - 1, b) /\ n - 1 \in 0 .. Len(s)
    BY <1>3 DEF QueueFits
  <2> QED BY <2>1, <1>1
<1> QED BY <1>1, <1>2, <1>3 DEF QueueFits

LEMMA ContentSent ==
  ASSUME NEW s \in Seq(ToPage), NEW x \in ToPage, NEW t, NEW asks, NEW b,
         x.type = "content", Grew(x.text, b), QueueFits(s, t, asks, b) \/ asks = {}
  PROVE  QueueFits(Append(s, x), t, asks, b)
<1> DEFINE q == Append(s, x)
<1>1. /\ Len(q) = Len(s) + 1 /\ q[Len(q)] = x /\ Len(s) \in Nat
      /\ \A i \in 1 .. Len(s) : q[i] = s[i]
  OBVIOUS
<1>2. Shown(q, t, Len(q), b)
  <2>1. IsText(q, Len(q)) /\ Grew(TextOf(q, t, Len(q)), b) /\ Len(q) \in 0 .. Len(q)
    BY <1>1 DEF IsText, TextOf
  <2>2. \A k \in Len(q) + 1 .. Len(q) : ~IsText(q, k)
    BY <1>1
  <2> HIDE DEF q
  <2> QED BY <2>1, <2>2 DEF Shown
<1>3. ASSUME NEW n \in 1 .. Len(q), q[n].type = "snapshotRequest", q[n].ask \in asks
      PROVE  Shown(q, t, n - 1, b)
  <2>1. n \in 1 .. Len(s) /\ q[n] = s[n]
    BY <1>1, <1>3
  <2>2. PICK i \in 0 .. n - 1 : /\ IsText(s, i) /\ Grew(TextOf(s, t, i), b)
                                /\ \A k \in i + 1 .. n - 1 : ~IsText(s, k)
    BY <1>3, <2>1 DEF QueueFits, Shown
  <2>3. \A k \in 0 .. n - 1 : IsText(q, k) = IsText(s, k) /\ TextOf(q, t, k) = TextOf(s, t, k)
    BY <1>1, <2>1 DEF IsText, TextOf
  <2> HIDE DEF q
  <2> QED BY <2>1, <2>2, <2>3 DEF Shown
<1> QED BY <1>2, <1>3 DEF QueueFits

LEMMA RequestSent ==
  ASSUME NEW s \in Seq(ToPage), NEW x \in ToPage, NEW t, NEW asks, NEW more, NEW b,
         x.type = "snapshotRequest", more \subseteq asks \cup {x.ask},
         \A m \in Range(s) : m.ask # x.ask, QueueFits(s, t, asks, b)
  PROVE  QueueFits(Append(s, x), t, more, b)
<1> DEFINE q == Append(s, x)
<1>1. /\ Len(q) = Len(s) + 1 /\ q[Len(q)] = x /\ Len(s) \in Nat
      /\ \A i \in 1 .. Len(s) : q[i] = s[i]
  OBVIOUS
<1>2. \A k \in 0 .. Len(s) : IsText(q, k) = IsText(s, k) /\ TextOf(q, t, k) = TextOf(s, t, k)
  BY <1>1 DEF IsText, TextOf
<1>3. ~IsText(q, Len(q))
  BY <1>1 DEF IsText
<1> HIDE DEF q
<1>4. ASSUME NEW n \in 0 .. Len(s), Shown(s, t, n, b) PROVE Shown(q, t, n, b)
  BY <1>1, <1>2, <1>4 DEF Shown
<1>5. Shown(q, t, Len(q), b)
  <2>1. PICK i \in 0 .. Len(s) : /\ IsText(s, i) /\ Grew(TextOf(s, t, i), b)
                                 /\ \A k \in i + 1 .. Len(s) : ~IsText(s, k)
    BY DEF QueueFits, Shown
  <2>2. \A k \in i + 1 .. Len(q) : ~IsText(q, k)
    BY <1>1, <1>2, <1>3, <2>1
  <2> QED BY <1>1, <1>2, <2>1, <2>2 DEF Shown
<1>6. ASSUME NEW n \in 1 .. Len(q), q[n].type = "snapshotRequest", q[n].ask \in more
      PROVE  Shown(q, t, n - 1, b)
  <2>1. CASE n = Len(q)
    <3>1. n - 1 = Len(s) /\ Shown(s, t, n - 1, b)
      BY <1>1, <2>1 DEF QueueFits
    <3> QED BY <1>1, <1>4, <3>1
  <2>2. CASE n # Len(q)
    <3>1. n \in 1 .. Len(s) /\ q[n] = s[n] /\ s[n] \in Range(s)
      BY <1>1, <2>2 DEF Range
    <3>2. s[n].ask \in asks
      BY <1>6, <3>1
    <3>3. Shown(s, t, n - 1, b) /\ n - 1 \in 0 .. Len(s)
      BY <1>6, <3>1, <3>2 DEF QueueFits
    <3> QED BY <1>4, <3>3
  <2> QED BY <2>1, <2>2
<1> QED BY <1>5, <1>6 DEF QueueFits, q

LEMMA MessageShown ==
  ASSUME NEW s \in Seq(ToPage), s # <<>>, NEW t, NEW asks, NEW b, QueueFits(s, t, asks, b)
  PROVE  /\ Head(s).type = "content" => QueueFits(Tail(s), Head(s).text, asks, b)
         /\ Head(s).type # "content" => QueueFits(Tail(s), t, asks, b)
         /\ Head(s).type = "snapshotRequest" /\ Head(s).ask \in asks => Grew(t, b)
<1> DEFINE q == Tail(s)
           u == IF Head(s).type = "content" THEN Head(s).text ELSE t
<1>1. /\ Len(s) \in Nat \ {0} /\ Len(q) = Len(s) - 1 /\ Head(s) = s[1]
      /\ \A i \in 1 .. Len(q) : q[i] = s[i + 1]
  OBVIOUS
<1>2. \A k \in 1 .. Len(q) : IsText(q, k) = IsText(s, k + 1) /\ TextOf(q, u, k) = TextOf(s, t, k + 1)
  BY <1>1 DEF IsText, TextOf
<1>3. IsText(q, 0) /\ TextOf(q, u, 0) = u /\ TextOf(s, t, 0) = t /\ TextOf(s, t, 1) = Head(s).text
  BY <1>1 DEF IsText, TextOf
<1>4. (Head(s).type = "content") = IsText(s, 1)
  BY <1>1 DEF IsText
<1>5. /\ Head(s).type = "content" => u = Head(s).text
      /\ Head(s).type # "content" => u = t
  OBVIOUS
<1> HIDE DEF q, u
<1>6. ASSUME NEW n \in 1 .. Len(s), Shown(s, t, n, b) PROVE Shown(q, u, n - 1, b)
  <2>1. PICK i \in 0 .. n : /\ IsText(s, i) /\ Grew(TextOf(s, t, i), b)
                            /\ \A k \in i + 1 .. n : ~IsText(s, k)
    BY <1>6 DEF Shown
  <2>2. \A j \in 1 .. n - 1 : j + 1 \in 1 .. n /\ IsText(q, j) = IsText(s, j + 1)
    BY <1>1, <1>2
  <2>3. CASE i = 0
    <3>1. 1 \in i + 1 .. n /\ ~IsText(s, 1)
      BY <1>1, <2>1, <2>3
    <3>2. Grew(TextOf(q, u, 0), b)
      BY <1>3, <1>4, <1>5, <2>1, <2>3, <3>1
    <3>3. \A k \in 0 + 1 .. n - 1 : ~IsText(q, k)
      BY <1>1, <2>1, <2>2, <2>3
    <3>4. 0 \in 0 .. n - 1
      BY <1>1
    <3> QED BY <1>3, <3>2, <3>3, <3>4 DEF Shown
  <2>4. CASE i = 1
    <3>1. Grew(TextOf(q, u, 0), b)
      BY <1>3, <1>4, <1>5, <2>1, <2>4
    <3>2. \A k \in 0 + 1 .. n - 1 : ~IsText(q, k)
      BY <1>1, <2>1, <2>2, <2>4
    <3>3. 0 \in 0 .. n - 1
      BY <1>1
    <3> QED BY <1>3, <3>1, <3>2, <3>3 DEF Shown
  <2>5. CASE i > 1
    <3>1. i - 1 \in 1 .. Len(q) /\ i - 1 \in 0 .. n - 1
      BY <1>1, <2>1, <2>5
    <3>2. IsText(q, i - 1) /\ Grew(TextOf(q, u, i - 1), b)
      BY <1>1, <1>2, <2>1, <3>1
    <3>3. \A k \in (i - 1) + 1 .. n - 1 : ~IsText(q, k)
      BY <1>1, <2>1, <2>2, <2>5
    <3> QED BY <3>1, <3>2, <3>3 DEF Shown
  <2> QED BY <1>1, <2>1, <2>3, <2>4, <2>5
<1>7. Shown(q, u, Len(q), b)
  <2>1. Shown(s, t, Len(s), b) /\ Len(s) \in 1 .. Len(s)
    BY <1>1 DEF QueueFits
  <2> QED BY <1>1, <1>6, <2>1
<1>8. ASSUME NEW n \in 1 .. Len(q), q[n].type = "snapshotRequest", q[n].ask \in asks
      PROVE  Shown(q, u, n - 1, b)
  <2>1. n + 1 \in 1 .. Len(s) /\ q[n] = s[n + 1] /\ n \in 1 .. Len(s)
    BY <1>1
  <2>2. Shown(s, t, (n + 1) - 1, b)
    BY <1>8, <2>1 DEF QueueFits
  <2>3. (n + 1) - 1 = n
    BY <2>1
  <2> QED BY <1>6, <2>1, <2>2, <2>3
<1>9. QueueFits(q, u, asks, b)
  BY <1>7, <1>8 DEF QueueFits
<1>10. Head(s).type = "snapshotRequest" /\ Head(s).ask \in asks => Grew(t, b)
  <2> SUFFICES ASSUME Head(s).type = "snapshotRequest", Head(s).ask \in asks PROVE Grew(t, b)
    OBVIOUS
  <2>1. 1 \in 1 .. Len(s) /\ Shown(s, t, 1 - 1, b)
    BY <1>1 DEF QueueFits
  <2> QED BY <1>3, <2>1 DEF Shown
<1> QED BY <1>5, <1>9, <1>10 DEF q

-----------------------------------------------------------------------------
(* What a step has to show.                                                *)

\* Every answer under way was under way, to the same call.
Remaining ==
  \A g \in Generations : \A c \in Range(calls'[g]) :
    c \in Range(calls[g]) /\ ops'[c.op] = ops[c.op]

LEMMA AnswersRemain ==
  ASSUME IInv, KeepsInv, Remaining, doc'.gen = doc.gen
  PROVE  MethodsAre' /\ \A b \in Texts : WritesFit(b) => WritesFit(b)'
<1>1. MethodsAre'
  BY DEF Remaining, MethodsAre, KeepsInv
<1>2. ASSUME NEW b \in Texts, WritesFit(b) PROVE WritesFit(b)'
  BY <1>2 DEF Remaining, WritesFit
<1> QED BY <1>1, <1>2

\* Of a document that is not gone the version is the same.
SameBase == doc'.stale = doc.stale /\ doc'.etag = doc.etag

LEMMA RootedStays ==
  ASSUME Typed, Grows, NEW etag \in Nat, etag <= Now, NEW text, Rooted(etag, text)
  PROVE  Rooted(etag, text)'
<1>1. etag >= 1 => etag \in 1 .. Now /\ versions'[etag] = versions[etag]
  BY Sizes DEF Grows
<1>2. Plain' => Plain
  BY DEF Grows
<1> QED BY <1>1, <1>2 DEF Rooted

LEMMA BackupStays ==
  ASSUME IInv, KeepsInv, Grows, draft' = draft \/ draft'.base = 0,
         ops'["backup"].at = "called" => ops'["backup"] = ops["backup"]
  PROVE  BackupOK'
<1>1. /\ draft.base \in Nat /\ draft.base <= Now /\ "backup" \in Op /\ Typed
      /\ ops["backup"].etag \in Nat /\ ops["backup"].etag <= Now /\ BackupOK
  BY Sizes DEF IInv, DraftOK, OpsOK, OpOK, KeepsInv, Op, AskPage, Operation
<1>2. PICK e \in Nat : e = draft.base
  BY <1>1
<1>3. PICK k \in Nat : k = ops["backup"].etag
  BY <1>1
<1>4. Rooted(draft.base, draft.text)'
  <2> PICK t : t = draft.text
    OBVIOUS
  <2>1. Rooted(e, t)'
    BY <1>1, <1>2, RootedStays DEF BackupOK
  <2> QED BY <1>2, <2>1 DEF Rooted
<1>5. ASSUME ops'["backup"].at = "called" PROVE Rooted(ops["backup"].etag, ops["backup"].text)'
  <2> PICK u : u = ops["backup"].text
    OBVIOUS
  <2>1. ops'["backup"] = ops["backup"] /\ Rooted(k, u)
    BY <1>1, <1>3, <1>5 DEF BackupOK
  <2>2. Rooted(k, u)'
    BY <1>1, <1>3, <2>1, RootedStays
  <2> QED BY <1>3, <2>1, <2>2 DEF Rooted
<1> QED BY <1>4, <1>5 DEF BackupOK

LEMMA KeepStep ==
  ASSUME IInv, Typed', KeepsInv, Grows, PageIs', HostIs', WaitingIs', MethodsAre', BackupOK',
         Plain' /\ Present' =>
           /\ Present /\ SameBase
           /\ \A b \in Texts : Based(b) => TextsFit(b)' /\ WritesFit(b)'
  PROVE  KeepsInv'
<1>1. ASSUME Plain', Present' PROVE \E b \in Texts : Based(b)'
  <2>1. Plain /\ Present /\ SameBase
    BY <1>1 DEF Grows
  <2>2. PICK b \in Texts : Based(b)
    BY <2>1 DEF KeepsInv, BaseOK
  <2>3. doc.etag \in 1 .. Now /\ versions'[doc.etag] = versions[doc.etag]
    BY <2>1, Sizes DEF IInv, DocOK, Grows
  <2>4. ~doc'.stale => Grew(versions'[doc'.etag].text, b)
    BY <2>1, <2>2, <2>3 DEF Based, SameBase
  <2>5. TextsFit(b)' /\ WritesFit(b)'
    BY <1>1, <2>2
  <2> QED BY <2>2, <2>4, <2>5 DEF Based
<1>2. BaseOK'
  BY <1>1 DEF BaseOK
<1>3. Careful'
  BY DEF KeepsInv, Careful
<1> QED BY <1>2, <1>3 DEF KeepsInv

\* Nobody begins to wait, and whoever goes on waiting waits for what it did.
WaitsLess ==
  /\ \A o \in Op : ops[o].at = "idle" => ops'[o].at = "idle"
  /\ \A o \in Op : ops'[o].at \in Flushing \cup {"asking"} => ops'[o] = ops[o]

LEMMA WaitsStay ==
  ASSUME IInv, Typed', WaitingIs, WaitsLess,
         Waiting' # {} => /\ doc.is \in {"open", "locked"} => doc'.is \in {"open", "locked"}
                          /\ doc.asked <= doc'.asked /\ (doc'.stale => doc.stale)
                          /\ UNCHANGED session,
         doc.is = "closed" => doc'.is = "closed" \/ ops'["open"].at = "idle"
  PROVE  WaitingIs' /\ Waiting' \subseteq Waiting /\ Awaited' \subseteq Awaited
<1>1. /\ Waiting' \subseteq Waiting /\ Awaited' \subseteq Awaited
      /\ \A o \in Waiting' : o \in Waiting /\ ops'[o] = ops[o]
  BY DEF WaitsLess, Waiting, Awaited
<1>2. \A o \in Op : ops[o] \in Operation /\ ops[o].ask \in Nat
  BY Sizes DEF IInv, Operation
<1>3. doc.asked \in Nat /\ doc'.asked \in Nat
  BY DEF IInv, Typed, Document
<1>4. ASSUME NEW o \in Waiting'
      PROVE  /\ o \in AskPage /\ ops'[o].ask <= doc'.asked /\ doc'.is \in {"open", "locked"}
             /\ session'.is = "unlocked" /\ ops'[o].session = session'.gen
             /\ o = "backup" => ~doc'.stale
  <2>1. o \in Waiting /\ o \in Op /\ ops'[o] = ops[o]
    BY <1>1 DEF Waiting
  <2>2. /\ o \in AskPage /\ ops[o].ask <= doc.asked /\ doc.is \in {"open", "locked"}
        /\ session.is = "unlocked" /\ ops[o].session = session.gen
        /\ o = "backup" => ~doc.stale
    BY <2>1 DEF WaitingIs
  <2>3. ops'[o].ask <= doc'.asked
    BY <1>2, <1>3, <2>1, <2>2
  <2> QED BY <2>1, <2>2, <2>3
<1>5. ops'["open"].at # "idle" => doc'.is = "closed"
  BY DEF WaitingIs, WaitsLess, Op
<1>6. ops'["revert"].at # "idle" => \A o \in AskPage : ops'[o].at = "idle"
  BY DEF WaitingIs, WaitsLess, Op
<1>7. \A o \in Op : ops'[o].at = "asking" => o \in {"rename", "lock"}
  BY DEF WaitingIs, WaitsLess
<1>8. ops'["backup"].at \notin {"saveFlush", "flushAgain"}
  BY DEF WaitingIs, WaitsLess, Op, AskPage, Flushing
<1> QED BY <1>1, <1>4, <1>5, <1>6, <1>7, <1>8 DEF WaitingIs

\* Steps that leave the calls alone: a call that waits for its answer goes on.
LEMMA StillRemaining ==
  ASSUME IInv, UNCHANGED calls, \A o \in Op : ops[o].at = "called" => ops'[o] = ops[o]
  PROVE  Remaining
<1>1. ASSUME NEW g \in Generations, NEW c \in Range(calls[g])
      PROVE  ops'[c.op] = ops[c.op]
  <2>1. CallOK(g, c)
    BY DEF IInv, CallsOK
  <2>2. c \in Answers
    BY DEF IInv, Typed, Range
  <2> QED BY <2>1, <2>2 DEF CallOK, Answers
<1> QED BY <1>1 DEF Remaining

\* Steps without a call or an answer that leave a present document's version.
LEMMA StillKeeps ==
  ASSUME IInv, Typed', KeepsInv, UNCHANGED <<versions, calls>>,
         draft' = draft \/ draft'.base = 0,
         \A o \in Op : ops'[o] = ops[o] \/ (ops[o].at # "called" /\ ops'[o].at # "called"),
         PageIs', HostIs', WaitingIs', doc'.gen = doc.gen,
         Present' => Present /\ SameBase,
         Present' => \A b \in Texts : Based(b) => TextsFit(b)'
  PROVE  KeepsInv'
<1>1. Grows
  BY GrowsNot DEF IInv
<1>2. Remaining
  BY StillRemaining
<1>3. MethodsAre' /\ \A b \in Texts : WritesFit(b) => WritesFit(b)'
  BY <1>2, AnswersRemain
<1>4. BackupOK'
  BY <1>1, BackupStays DEF Op, AskPage
<1> QED BY <1>1, <1>3, <1>4, KeepStep DEF Based

LEMMA FewerAnswers ==
  ASSUME NEW s, NEW r, NEW asks, NEW fewer, NEW b, Range(r) \subseteq Range(s),
         fewer \subseteq asks, AnswersFit(s, asks, b)
  PROVE  AnswersFit(r, fewer, b)
BY DEF AnswersFit

LEMMA Posted ==
  ASSUME NEW s \in Seq(ToHost), NEW m \in ToHost
  PROVE  Append(s, m) \in Seq(ToHost) /\ Range(Append(s, m)) = Range(s) \cup {m}
<1>1. /\ Len(Append(s, m)) = Len(s) + 1 /\ Len(s) \in Nat /\ Append(s, m)[Len(s) + 1] = m
      /\ \A i \in 1 .. Len(s) : Append(s, m)[i] = s[i]
  OBVIOUS
<1> QED BY <1>1 DEF Range

LEMMA Sent ==
  ASSUME NEW s \in Seq(ToPage), NEW m \in ToPage
  PROVE  Append(s, m) \in Seq(ToPage) /\ Range(Append(s, m)) = Range(s) \cup {m}
<1>1. /\ Len(Append(s, m)) = Len(s) + 1 /\ Len(s) \in Nat /\ Append(s, m)[Len(s) + 1] = m
      /\ \A i \in 1 .. Len(s) : Append(s, m)[i] = s[i]
  OBVIOUS
<1> QED BY <1>1 DEF Range

LEMMA PostTaken ==
  ASSUME NEW s \in Seq(ToHost), s # <<>>
  PROVE  /\ Tail(s) \in Seq(ToHost) /\ Head(s) \in ToHost /\ Head(s) \in Range(s)
         /\ Range(Tail(s)) \subseteq Range(s)
<1>1. /\ Len(s) \in Nat \ {0} /\ Len(Tail(s)) = Len(s) - 1 /\ Head(s) = s[1]
      /\ \A i \in 1 .. Len(Tail(s)) : Tail(s)[i] = s[i + 1]
  OBVIOUS
<1> QED BY <1>1 DEF Range

LEMMA SentTaken ==
  ASSUME NEW s \in Seq(ToPage), s # <<>>
  PROVE  /\ Tail(s) \in Seq(ToPage) /\ Head(s) \in ToPage /\ Head(s) \in Range(s)
         /\ Range(Tail(s)) \subseteq Range(s)
<1>1. /\ Len(s) \in Nat \ {0} /\ Len(Tail(s)) = Len(s) - 1 /\ Head(s) = s[1]
      /\ \A i \in 1 .. Len(Tail(s)) : Tail(s)[i] = s[i + 1]
  OBVIOUS
<1> QED BY <1>1 DEF Range

LEMMA OpsSame ==
  ASSUME UNCHANGED ops
  PROVE  /\ WaitsLess /\ Waiting' = Waiting /\ Awaited' = Awaited
         /\ \A o \in Op : ops'[o] = ops[o] \/ (ops[o].at # "called" /\ ops'[o].at # "called")
BY DEF WaitsLess, Waiting, Awaited

LEMMA NoMessage == Range(<<>>) = {}
BY DEF Range

LEMMA PageGone ==
  ASSUME page' = Down, toPage' = <<>>
  PROVE  PageIs' /\ \A asks, b : QueueFits(toPage', page'.text, asks, b)
<1>1. ~page'.up /\ page'.text = {} /\ ~page'.timer
  BY DEF Down
<1>2. PageIs'
  BY <1>1, NoMessage DEF PageIs
<1>3. ASSUME NEW asks, NEW b PROVE QueueFits(toPage', page'.text, asks, b)
  BY <1>1, NothingSent DEF Grew
<1> QED BY <1>2, <1>3

LEMMA PageStarts ==
  ASSUME Typed, StartPage
  PROVE  /\ PageIs' /\ \A asks, b : QueueFits(toPage', page'.text, asks, b)
         /\ toHost' = Append(toHost, [type |-> "ready", epoch |-> 0, text |-> {}, ask |-> 0])
         /\ [type |-> "ready", epoch |-> 0, text |-> {}, ask |-> 0] \in ToHost
<1>1. page'.up /\ page'.text = {} /\ ~page'.timer /\ toPage' = <<>>
  BY DEF StartPage, Down
<1>2. PageIs'
  BY <1>1, NoMessage DEF PageIs
<1>3. ASSUME NEW asks, NEW b PROVE QueueFits(toPage', page'.text, asks, b)
  BY <1>1, NothingSent DEF Grew
<1>4. {} \in Texts
  BY Bounds
<1> QED BY <1>2, <1>3, <1>4 DEF StartPage, ToHost

\* A message that nobody waits for is posted.
LEMMA PostKeeps ==
  ASSUME Typed, HostIs, NEW m \in ToHost, toHost' = Append(toHost, m), m.ask <= doc.asked,
         UNCHANGED doc, doc.is # "closed",
         m.type = "edit" => m.epoch >= 1, m.type = "ready" => m.epoch = 0
  PROVE  /\ HostIs'
         /\ \A asks, b : /\ AnswersFit(toHost, asks, b)
                         /\ m.type = "snapshot" /\ m.ask \in asks => Grew(m.text, b)
                         => AnswersFit(toHost', asks, b)
<1>1. Range(toHost') = Range(toHost) \cup {m}
  BY Posted DEF Typed
<1> QED BY <1>1 DEF HostIs, AnswersFit

-----------------------------------------------------------------------------
(* The page.                                                               *)

LEMMA HideKeeps == IInv /\ Typed' /\ KeepsInv /\ Hide => KeepsInv'
<1> SUFFICES ASSUME IInv, Typed', KeepsInv, Hide PROVE KeepsInv'
  OBVIOUS
<1>1. /\ page' = Down /\ toPage' = <<>>
      /\ UNCHANGED <<versions, session, umbra, doc, toHost, ops, calls, draft, spent>>
  BY DEF Hide
<1>2. PageIs' /\ \A b : QueueFits(toPage', page'.text, Awaited', b)
  BY <1>1, PageGone
<1>3. WaitingIs' /\ Awaited' = Awaited
  BY <1>1, OpsSame, WaitsStay DEF KeepsInv, IInv, Typed, Document
<1>4. HostIs' /\ SameBase /\ (Present' => Present) /\ doc'.gen = doc.gen
  BY <1>1 DEF KeepsInv, HostIs, SameBase, Present
<1>5. ASSUME NEW b \in Texts, Based(b) PROVE TextsFit(b)'
  BY <1>1, <1>2, <1>3, <1>5 DEF Based, TextsFit
<1> QED BY <1>1, <1>2, <1>3, <1>4, <1>5, OpsSame, StillKeeps

LEMMA ShowKeeps == IInv /\ Typed' /\ KeepsInv /\ Show => KeepsInv'
<1> SUFFICES ASSUME IInv, Typed', KeepsInv, Show PROVE KeepsInv'
  OBVIOUS
<1>1. /\ doc.is = "open" /\ StartPage /\ Typed /\ HostIs /\ doc.asked \in Nat
      /\ UNCHANGED <<versions, session, umbra, doc, ops, calls, draft>>
  BY DEF Show, IInv, KeepsInv, Typed, Document
<1>2. PageIs' /\ \A b : QueueFits(toPage', page'.text, Awaited', b)
  BY <1>1, PageStarts
<1>3. WaitingIs' /\ Awaited' = Awaited
  BY <1>1, OpsSame, WaitsStay DEF KeepsInv, IInv, Typed, Document
<1>4. PICK m \in ToHost : m.type = "ready" /\ m.epoch = 0 /\ m.ask = 0 /\ toHost' = Append(toHost, m)
  BY <1>1, PageStarts
<1>5. HostIs' /\ \A b : AnswersFit(toHost, Awaited, b) => AnswersFit(toHost', Awaited, b)
  BY <1>1, <1>4, PostKeeps
<1>6. SameBase /\ (Present' => Present) /\ doc'.gen = doc.gen
  BY <1>1 DEF SameBase, Present
<1>7. ASSUME NEW b \in Texts, Based(b) PROVE TextsFit(b)'
  BY <1>1, <1>2, <1>3, <1>5, <1>7 DEF Based, TextsFit
<1> QED BY <1>1, <1>2, <1>3, <1>5, <1>6, <1>7, OpsSame, StillKeeps

\* What the user types is not of others.
LEMMA TypedGrew ==
  ASSUME NEW t, NEW b, NEW x \in 1 .. MaxTyped, Grew(t, b)
  PROVE  Grew(t \cup {x}, b)
<1>1. MaxTyped \in Nat
  BY Bounds
<1>2. x # 0 /\ x \in 0 .. MaxTyped
  BY <1>1
<1>3. Theirs(t \cup {x}) = Theirs(t)
  BY <1>2 DEF Theirs
<1> QED BY <1>2, <1>3 DEF Grew

LEMMA TypeKeeps == IInv /\ Typed' /\ KeepsInv /\ Type => KeepsInv'
<1> SUFFICES ASSUME IInv, Typed', KeepsInv, Type PROVE KeepsInv'
  OBVIOUS
<1>1. /\ page.up /\ spent.typed < MaxTyped /\ Typed /\ page \in Page /\ page.epoch \in Nat
      /\ page' = [page EXCEPT !.text = @ \cup {NewTyped}, !.epoch = @ + 1, !.timer = TRUE]
      /\ UNCHANGED <<versions, session, umbra, doc, toHost, toPage, ops, calls, draft>>
  BY DEF Type, IInv, Typed, Page
<1>2. page'.up /\ page'.text = page.text \cup {NewTyped} /\ page'.epoch >= 1
  BY <1>1 DEF Page
<1>3. NewTyped \in 1 .. MaxTyped
  BY <1>1, MarkIs
<1>4. PageIs' /\ HostIs'
  BY <1>1, <1>2 DEF KeepsInv, PageIs, HostIs
<1>5. WaitingIs' /\ Awaited' = Awaited
  BY <1>1, OpsSame, WaitsStay DEF KeepsInv, IInv, Typed, Document
<1>6. SameBase /\ (Present' => Present) /\ doc'.gen = doc.gen
  BY <1>1 DEF SameBase, Present
<1>7. ASSUME NEW b \in Texts, Based(b) PROVE TextsFit(b)'
  <2>1. QueueFits(toPage, page.text, Awaited, b) /\ toPage \in Seq(ToPage)
    BY <1>1, <1>7 DEF Based, TextsFit, Typed
  <2>2. Grew(page.text, b) => Grew(page'.text, b)
    BY <1>2, <1>3, TypedGrew
  <2>3. QueueFits(toPage, page'.text, Awaited, b)
    BY <2>1, <2>2, FewerAsked
  <2> QED BY <1>1, <1>5, <1>7, <2>3 DEF Based, TextsFit
<1> QED BY <1>1, <1>4, <1>5, <1>6, <1>7, OpsSame, StillKeeps

LEMMA SendEditKeeps == IInv /\ Typed' /\ KeepsInv /\ SendEdit => KeepsInv'
<1> SUFFICES ASSUME IInv, Typed', KeepsInv, SendEdit PROVE KeepsInv'
  OBVIOUS
<1>1. /\ page.timer /\ page' = [page EXCEPT !.timer = FALSE] /\ Post("edit", 0)
      /\ UNCHANGED <<versions, session, umbra, doc, toPage, ops, calls, draft, spent>>
      /\ Typed /\ HostIs /\ PageIs /\ page \in Page /\ doc.asked \in Nat
  BY DEF SendEdit, IInv, KeepsInv, Typed, Document
<1>2. /\ page'.up = page.up /\ page'.text = page.text /\ ~page'.timer
      /\ page.epoch \in Nat /\ page.epoch >= 1 /\ page.text \in Texts /\ page.up
  BY <1>1 DEF Page, PageIs
<1>3. doc.is # "closed"
  BY <1>2 DEF IInv, DocOK, Present
<1>4. PICK m \in ToHost : m.type = "edit" /\ m.epoch >= 1 /\ m.ask = 0 /\ toHost' = Append(toHost, m)
  BY <1>1, <1>2 DEF Post, ToHost
<1>5. HostIs' /\ \A b : AnswersFit(toHost, Awaited, b) => AnswersFit(toHost', Awaited, b)
  BY <1>1, <1>3, <1>4, PostKeeps
<1>6. PageIs'
  BY <1>1, <1>2 DEF PageIs
<1>7. WaitingIs' /\ Awaited' = Awaited
  BY <1>1, OpsSame, WaitsStay DEF KeepsInv, IInv, Typed, Document
<1>8. SameBase /\ (Present' => Present) /\ doc'.gen = doc.gen
  BY <1>1 DEF SameBase, Present
<1>9. ASSUME NEW b \in Texts, Based(b) PROVE TextsFit(b)'
  BY <1>1, <1>2, <1>5, <1>7, <1>9 DEF Based, TextsFit
<1> QED BY <1>1, <1>5, <1>6, <1>7, <1>8, <1>9, OpsSame, StillKeeps

LEMMA PageReceivesKeeps == IInv /\ Typed' /\ KeepsInv /\ PageReceives => KeepsInv'
<1> SUFFICES ASSUME IInv, Typed', KeepsInv, PageReceives PROVE KeepsInv'
  OBVIOUS
<1>1. /\ page.up /\ toPage # <<>> /\ toPage' = Tail(toPage)
      /\ UNCHANGED <<versions, session, umbra, doc, ops, calls, draft, spent>>
      /\ Typed /\ HostIs /\ PageIs /\ page \in Page /\ doc.asked \in Nat /\ toPage \in Seq(ToPage)
  BY DEF PageReceives, IInv, KeepsInv, Typed, Document
<1>2. /\ Head(toPage) \in ToPage /\ Head(toPage) \in Range(toPage)
      /\ Range(toPage') \subseteq Range(toPage)
  BY <1>1, SentTaken
<1>3. PICK m \in ToPage : m = Head(toPage) /\ m.ask <= doc.asked
  BY <1>1, <1>2 DEF PageIs
<1>4. WaitingIs' /\ Awaited' = Awaited
  BY <1>1, OpsSame, WaitsStay DEF KeepsInv, IInv, Typed, Document
<1>5. SameBase /\ (Present' => Present) /\ doc'.gen = doc.gen /\ doc.is # "closed"
  BY <1>1 DEF SameBase, Present, IInv, DocOK
<1>6. CASE /\ m.type = "content" /\ UNCHANGED toHost
           /\ page' = [page EXCEPT !.text = m.text, !.locked = m.locked, !.timer = FALSE]
  <2>1. page'.up /\ page'.text = m.text /\ ~page'.timer
    BY <1>1, <1>6 DEF Page
  <2>2. PageIs' /\ HostIs'
    BY <1>1, <1>2, <1>6, <2>1 DEF PageIs, HostIs
  <2>3. ASSUME NEW b \in Texts, Based(b) PROVE TextsFit(b)'
    <3>1. QueueFits(toPage', m.text, Awaited, b)
      BY <1>1, <1>3, <1>6, <2>3, MessageShown DEF Based, TextsFit
    <3> QED BY <1>1, <1>4, <1>6, <2>1, <2>3, <3>1 DEF Based, TextsFit
  <2> QED BY <1>1, <1>4, <1>5, <2>2, <2>3, OpsSame, StillKeeps
<1>7. CASE /\ m.type = "snapshotRequest" /\ Post("snapshot", m.ask)
           /\ page' = [page EXCEPT !.timer = FALSE]
  <2>1. page'.up /\ page'.text = page.text /\ ~page'.timer
    BY <1>1, <1>7 DEF Page
  <2>2. PageIs'
    BY <1>1, <1>2, <2>1 DEF PageIs
  <2>3. PICK n \in ToHost : /\ n.type = "snapshot" /\ n.text = page.text /\ n.ask = m.ask
                            /\ toHost' = Append(toHost, n)
    BY <1>1, <1>3, <1>7 DEF Post, ToHost, ToPage, Page
  <2>4. /\ HostIs'
        /\ \A asks, b : AnswersFit(toHost, asks, b) /\ (m.ask \in asks => Grew(page.text, b))
                        => AnswersFit(toHost', asks, b)
    BY <1>1, <1>3, <1>5, <2>3, PostKeeps
  <2>5. ASSUME NEW b \in Texts, Based(b) PROVE TextsFit(b)'
    <3>1. /\ QueueFits(toPage', page.text, Awaited, b)
          /\ m.ask \in Awaited => Grew(page.text, b)
      BY <1>1, <1>3, <1>7, <2>5, MessageShown DEF Based, TextsFit
    <3>2. AnswersFit(toHost', Awaited, b)
      BY <2>4, <2>5, <3>1 DEF Based, TextsFit
    <3> QED BY <1>1, <1>4, <2>1, <2>5, <3>1, <3>2 DEF Based, TextsFit
  <2> QED BY <1>1, <1>4, <1>5, <2>2, <2>4, <2>5, OpsSame, StillKeeps
<1> QED BY <1>3, <1>6, <1>7 DEF PageReceives

-----------------------------------------------------------------------------
(* What the page posted.                                                   *)

LEMMA AtEpochIs ==
  ASSUME IInv, KeepsInv, toHost # <<>>
  PROVE  LET m == Head(toHost)
         IN  /\ m \in ToHost /\ m \in Range(toHost) /\ Tail(toHost) \in Seq(ToHost)
             /\ Range(Tail(toHost)) \subseteq Range(toHost)
             /\ m.ask <= doc.asked /\ m.epoch \in Nat
             /\ m.type = "edit" => m.epoch >= 1
             /\ m.type = "ready" => m.epoch = 0
             /\ doc.is # "closed" /\ doc.epoch \in Nat
             /\ AtEpoch(m).is = doc.is /\ AtEpoch(m).asked = doc.asked
             /\ AtEpoch(m).stale = doc.stale /\ AtEpoch(m).etag = doc.etag
             /\ AtEpoch(m).gen = doc.gen /\ AtEpoch(m).text = doc.text
             /\ AtEpoch(m).epoch = m.epoch
<1>1. toHost \in Seq(ToHost) /\ doc \in Document /\ HostIs
  BY DEF IInv, Typed, KeepsInv
<1>2. PICK m \in ToHost : m = Head(toHost) /\ m \in Range(toHost)
  BY <1>1, PostTaken
<1>3. /\ m.ask <= doc.asked /\ m.epoch \in Nat /\ m.type = "edit" => m.epoch >= 1
  BY <1>1, <1>2 DEF HostIs, ToHost
<1>4. /\ AtEpoch(m).is = doc.is /\ AtEpoch(m).asked = doc.asked
      /\ AtEpoch(m).stale = doc.stale /\ AtEpoch(m).etag = doc.etag
      /\ AtEpoch(m).gen = doc.gen /\ AtEpoch(m).text = doc.text
      /\ AtEpoch(m).epoch = m.epoch /\ doc.epoch \in Nat
  BY <1>1, <1>3 DEF AtEpoch, Document
<1> QED BY <1>1, <1>2, <1>3, <1>4, PostTaken DEF HostIs, ToHost

\* Every message carries a number, which is 0 where it asks nothing.
LEMMA AsksAre ==
  ASSUME Typed
  PROVE  /\ \A m \in Range(toPage) : m \in ToPage /\ m.ask \in Nat
         /\ \A m \in Range(toHost) : m \in ToHost /\ m.ask \in Nat
<1>1. toPage \in Seq(ToPage) /\ toHost \in Seq(ToHost)
  BY DEF Typed
<1>2. (\A m \in ToPage : m.ask \in Nat) /\ (\A m \in ToHost : m.ask \in Nat)
  BY DEF ToPage, ToHost
<1>3. \A m \in Range(toPage) : m \in ToPage
  BY <1>1 DEF Range
<1>4. \A m \in Range(toHost) : m \in ToHost
  BY <1>1 DEF Range
<1> QED BY <1>2, <1>3, <1>4

\* The document d takes what the page posted.
LEMMA TakenKeeps ==
  ASSUME IInv, KeepsInv, toHost # <<>>, toHost' = Tail(toHost),
         doc'.is # "closed", doc.asked <= doc'.asked, doc'.asked \in Nat, doc.asked \in Nat
  PROVE  HostIs'
<1>1. toHost \in Seq(ToHost) /\ HostIs
  BY DEF IInv, Typed, KeepsInv
<1>2. Range(toHost') \subseteq Range(toHost) /\ \A m \in Range(toHost) : m \in ToHost
  BY <1>1, PostTaken DEF Range
<1>3. \A m \in ToHost : m.ask \in Nat
  BY DEF ToHost
<1> QED BY <1>1, <1>2, <1>3 DEF HostIs

LEMMA IgnoreKeeps == IInv /\ Typed' /\ KeepsInv /\ Ignore => KeepsInv'
<1> SUFFICES ASSUME IInv, Typed', KeepsInv, Ignore PROVE KeepsInv'
  OBVIOUS
<1>1. /\ toHost # <<>> /\ toHost' = Tail(toHost)
      /\ UNCHANGED <<versions, session, umbra, page, toPage, ops, calls, draft, spent>>
      /\ Typed /\ PageIs /\ doc.asked \in Nat
  BY DEF Ignore, IInv, KeepsInv, Typed, Document
<1>2. PICK m \in ToHost : m = Head(toHost) /\ (doc' = doc \/ (Accepted(m) /\ doc' = AtEpoch(m)))
  BY <1>1, AtEpochIs DEF Ignore
<1>3. /\ doc'.is = doc.is /\ doc'.asked = doc.asked /\ doc'.text = doc.text
      /\ SameBase /\ doc'.gen = doc.gen /\ doc.is # "closed" /\ (doc'.epoch = 0 => doc.epoch = 0)
  BY <1>1, <1>2, AtEpochIs DEF Accepted, SameBase
<1>4. HostIs' /\ PageIs' /\ (Present' => Present)
  BY <1>1, <1>3, TakenKeeps DEF PageIs, Present
<1>5. WaitingIs' /\ Awaited' = Awaited
  BY <1>1, <1>3, OpsSame, WaitsStay DEF KeepsInv, SameBase
<1>6. ASSUME NEW b \in Texts, Based(b) PROVE TextsFit(b)'
  <2>1. AnswersFit(toHost', Awaited, b)
    BY <1>1, <1>6, AtEpochIs, FewerAnswers DEF Based, TextsFit
  <2> QED BY <1>1, <1>3, <1>5, <1>6, <2>1 DEF Based, TextsFit
<1> QED BY <1>1, <1>3, <1>4, <1>5, <1>6, OpsSame, StillKeeps

LEMMA ContentIs ==
  ASSUME NEW d \in Document
  PROVE  Content(d) \in ToPage /\ Content(d).type = "content" /\ Content(d).text = d.text
         /\ Content(d).ask = 0
BY DEF Content, ToPage, Document

\* The page is sent a text that grew out of the base.
LEMMA SendKeeps ==
  ASSUME Typed, PageIs, NEW d \in Document, Send(d), UNCHANGED page,
         doc.asked <= doc'.asked, doc'.asked \in Nat, doc.asked \in Nat
  PROVE  /\ PageIs'
         /\ \A asks, b : /\ QueueFits(toPage, page.text, asks, b) \/ asks = {}
                         /\ Grew(d.text, b)
                         => QueueFits(toPage', page'.text, asks, b)
<1>1. toPage \in Seq(ToPage) /\ \A m \in ToPage : m.ask \in Nat
  BY DEF Typed, ToPage
<1>2. PICK x \in ToPage : x = Content(d) /\ x.type = "content" /\ x.text = d.text /\ x.ask = 0
  BY ContentIs
<1>3. CASE page.up
  <2>1. toPage' = Append(toPage, x)
    BY <1>2, <1>3 DEF Send
  <2>2. Range(toPage') = Range(toPage) \cup {x} /\ \A m \in Range(toPage) : m \in ToPage
    BY <1>1, <2>1, Sent DEF Range
  <2>3. PageIs'
    BY <1>1, <1>2, <1>3, <2>2 DEF PageIs
  <2> QED BY <1>1, <1>2, <2>1, <2>3, ContentSent
<1>4. CASE ~page.up
  <2>1. toPage' = toPage /\ toPage = <<>> /\ page.text = {}
    BY <1>4 DEF Send, PageIs
  <2>2. PageIs'
    BY <1>4, <2>1, NoMessage DEF PageIs
  <2> QED BY <2>1, <2>2, NothingSent DEF Grew
<1> QED BY <1>3, <1>4

LEMMA ReceiveReadyKeeps == IInv /\ Typed' /\ KeepsInv /\ ReceiveReady => KeepsInv'
<1> SUFFICES ASSUME IInv, Typed', KeepsInv, ReceiveReady PROVE KeepsInv'
  OBVIOUS
<1>1. /\ toHost # <<>> /\ toHost' = Tail(toHost)
      /\ UNCHANGED <<versions, session, umbra, page, ops, calls, draft, spent>>
      /\ Typed /\ PageIs /\ doc \in Document /\ doc.asked \in Nat /\ Send(doc)
  BY DEF ReceiveReady, IInv, KeepsInv, Typed, Document
<1>2. PICK m \in ToHost : /\ m = Head(toHost) /\ m.type = "ready" /\ Accepted(m)
                          /\ doc' = AtEpoch(m) /\ doc.is = "open"
  BY <1>1, AtEpochIs DEF ReceiveReady
<1>3. /\ doc'.is = doc.is /\ doc'.asked = doc.asked /\ doc'.text = doc.text
      /\ SameBase /\ doc'.gen = doc.gen /\ doc.epoch = 0
  BY <1>1, <1>2, AtEpochIs DEF Accepted, SameBase
<1>4. HostIs' /\ PageIs' /\ (Present' => Present)
  BY <1>1, <1>2, <1>3, TakenKeeps, SendKeeps DEF Present
<1>5. WaitingIs' /\ Awaited' = Awaited
  BY <1>1, <1>2, <1>3, OpsSame, WaitsStay DEF KeepsInv, SameBase
<1>6. ASSUME NEW b \in Texts, Based(b) PROVE TextsFit(b)'
  <2>1. AnswersFit(toHost', Awaited, b) /\ Grew(doc.text, b)
    BY <1>1, <1>3, <1>6, AtEpochIs, FewerAnswers DEF Based, TextsFit
  <2>2. QueueFits(toPage', page'.text, Awaited, b)
    BY <1>1, <1>3, <1>6, <2>1, SendKeeps DEF Based, TextsFit
  <2> QED BY <1>3, <1>5, <2>1, <2>2 DEF TextsFit
<1> QED BY <1>1, <1>3, <1>4, <1>5, <1>6, OpsSame, StillKeeps

\* What Edited leaves.
LEMMA EditedKeeps ==
  ASSUME IInv, KeepsInv, toHost # <<>>
  PROVE  LET m == Head(toHost)
             d == Edited(AtEpoch(m), m.text)
         IN  /\ d \in Document /\ d.is = doc.is /\ d.asked = doc.asked /\ d.stale = doc.stale
             /\ d.etag = doc.etag /\ d.gen = doc.gen /\ d.epoch = m.epoch /\ d.text = m.text
<1>1. PICK m \in ToHost : m = Head(toHost) /\ m.text \in Texts
  BY AtEpochIs DEF ToHost
<1>2. PICK e \in Document : e = AtEpoch(m)
  BY <1>1, EditedIs DEF IInv
<1>3. /\ e.is = doc.is /\ e.asked = doc.asked /\ e.stale = doc.stale
      /\ e.etag = doc.etag /\ e.gen = doc.gen /\ e.epoch = m.epoch /\ e.text = doc.text
  BY <1>1, <1>2, AtEpochIs
<1>4. LET d == Edited(e, m.text)
      IN  /\ d \in Document /\ d.is = doc.is /\ d.asked = doc.asked /\ d.stale = doc.stale
          /\ d.etag = doc.etag /\ d.gen = doc.gen /\ d.epoch = m.epoch /\ d.text = m.text
  <2>1. CASE m.text = e.text
    <3>1. Edited(e, m.text) = e
      BY <2>1 DEF Edited
    <3> QED BY <1>2, <1>3, <2>1, <3>1
  <2>2. CASE m.text # e.text
    <3>1. PICK x \in Nat : x = e.revision + 1
      BY DEF Document
    <3>2. PICK t \in Texts : t = m.text
      BY <1>1
    <3>3. PICK f \in Document : f = [e EXCEPT !.text = t, !.revision = x]
      BY DEF Document
    <3>4. /\ f.is = e.is /\ f.asked = e.asked /\ f.stale = e.stale
          /\ f.etag = e.etag /\ f.gen = e.gen /\ f.epoch = e.epoch /\ f.text = m.text
      BY <3>2, <3>3 DEF Document
    <3>5. Edited(e, m.text) = f
      BY <2>2, <3>1, <3>2, <3>3 DEF Edited
    <3> QED BY <1>3, <3>4, <3>5
  <2> QED BY <2>1, <2>2
<1> QED BY <1>1, <1>2, <1>4

LEMMA ReceiveEditKeeps == IInv /\ Typed' /\ KeepsInv /\ ReceiveEdit => KeepsInv'
<1> SUFFICES ASSUME IInv, Typed', KeepsInv, ReceiveEdit PROVE KeepsInv'
  OBVIOUS
<1>1. /\ toHost # <<>> /\ toHost' = Tail(toHost)
      /\ UNCHANGED <<versions, session, umbra, page, toPage, ops, calls, draft, spent>>
      /\ Typed /\ PageIs /\ doc.asked \in Nat
  BY DEF ReceiveEdit, IInv, KeepsInv, Typed, Document
<1>2. PICK m \in ToHost : /\ m = Head(toHost) /\ m.type = "edit" /\ doc.is = "open"
                          /\ doc' = Edited(AtEpoch(m), m.text)
  BY <1>1, AtEpochIs DEF ReceiveEdit
<1>3. /\ doc'.is = doc.is /\ doc'.asked = doc.asked /\ SameBase /\ doc'.gen = doc.gen
      /\ doc'.epoch # 0
  BY <1>1, <1>2, AtEpochIs, EditedKeeps DEF SameBase
<1>4. HostIs' /\ PageIs' /\ (Present' => Present)
  BY <1>1, <1>2, <1>3, TakenKeeps DEF PageIs, Present
<1>5. WaitingIs' /\ Awaited' = Awaited
  BY <1>1, <1>2, <1>3, OpsSame, WaitsStay DEF KeepsInv, SameBase
<1>6. ASSUME NEW b \in Texts, Based(b) PROVE TextsFit(b)'
  <2>1. AnswersFit(toHost', Awaited, b)
    BY <1>1, <1>6, AtEpochIs, FewerAnswers DEF Based, TextsFit
  <2> QED BY <1>1, <1>3, <1>5, <1>6, <2>1 DEF Based, TextsFit
<1> QED BY <1>1, <1>3, <1>4, <1>5, <1>6, OpsSame, StillKeeps

-----------------------------------------------------------------------------
(* Nobody answers; the page is asked.                                      *)

\* An operation that makes no call ends.
LEMMA EndKeeps ==
  ASSUME IInv, Typed', KeepsInv, NEW o \in Op, End(o), ops[o].at # "called",
         UNCHANGED <<versions, session, doc, page, toHost, toPage, calls, draft>>
  PROVE  KeepsInv'
<1>1. /\ ops' \in [Op -> Operation] /\ ops'[o] = Idle /\ Idle.at = "idle"
      /\ \A p \in Op : p # o => ops'[p] = ops[p]
  BY IdleIs DEF IInv, Typed, End, Set
<1>2. WaitsLess
  BY <1>1 DEF WaitsLess, Flushing
<1>3. WaitingIs' /\ Awaited' \subseteq Awaited
  BY <1>2, WaitsStay DEF KeepsInv, IInv, Typed, Document
<1>4. PageIs' /\ HostIs' /\ SameBase /\ (Present' => Present) /\ doc'.gen = doc.gen
  BY DEF KeepsInv, PageIs, HostIs, SameBase, Present
<1>5. ASSUME NEW b \in Texts, Based(b) PROVE TextsFit(b)'
  <2>1. /\ toPage \in Seq(ToPage) /\ QueueFits(toPage, page.text, Awaited, b)
        /\ AnswersFit(toHost, Awaited, b)
    BY <1>5 DEF IInv, Typed, Based, TextsFit
  <2>2. QueueFits(toPage, page.text, Awaited', b) /\ AnswersFit(toHost, Awaited', b)
    BY <1>3, <2>1, FewerAsked, FewerAnswers
  <2> QED BY <1>5, <2>2 DEF Based, TextsFit
<1>6. \A p \in Op : ops'[p] = ops[p] \/ (ops[p].at # "called" /\ ops'[p].at # "called")
  BY <1>1
<1> QED BY <1>3, <1>4, <1>5, <1>6, StillKeeps

LEMMA FlushFailsKeeps == \A o \in Op : IInv /\ Typed' /\ KeepsInv /\ FlushFails(o) => KeepsInv'
BY EndKeeps DEF FlushFails, Flushing

LEMMA GiveUpKeeps == \A o \in Op : IInv /\ Typed' /\ KeepsInv /\ GiveUp(o) => KeepsInv'
BY EndKeeps DEF GiveUp

\* A page is asked: its number is new.
LEMMA PageAsked ==
  ASSUME IInv, Typed', KeepsInv, UNCHANGED <<session, page>>,
         NEW o \in AskPage, NEW r \in Operation, NEW at \in Flushing, NEW d \in Document,
         Flushes(o, r, at, d),
         toHost' = toHost \/ (toHost # <<>> /\ toHost' = Tail(toHost)),
         d.is = "open", doc.is = "open", session.is = "unlocked", r.session = session.gen,
         d.asked = doc.asked, d.stale => doc.stale,
         o = "backup" => ~doc.stale /\ at = "flush", ops["revert"].at = "idle"
  PROVE  /\ PageIs' /\ HostIs' /\ WaitingIs'
         /\ ops' \in [Op -> Operation] /\ ops'[o].at \in Flushing
         /\ \A p \in Op : p # o => ops'[p] = ops[p]
         /\ doc'.is = "open" /\ doc'.stale = d.stale /\ doc'.etag = d.etag /\ doc'.gen = d.gen
         /\ \A b : TextsFit(b) /\ (d.epoch = 0 => Grew(d.text, b)) => TextsFit(b)'
<1>1. /\ Typed /\ PageIs /\ HostIs /\ WaitingIs /\ page.up /\ doc.asked \in Nat
      /\ toPage \in Seq(ToPage) /\ toHost \in Seq(ToHost) /\ o \in Op
      /\ \A p \in Op : ops[p] \in Operation /\ ops[p].ask \in Nat
  BY Sizes DEF IInv, KeepsInv, Typed, Document, Flushes, Op, Operation
<1>2. /\ doc' = [d EXCEPT !.asked = d.asked + 1]
      /\ doc'.is = "open" /\ doc'.asked = doc.asked + 1 /\ doc'.stale = d.stale /\ doc'.etag = d.etag /\ doc'.gen = d.gen
      /\ doc'.epoch = d.epoch /\ doc'.text = d.text
  BY <1>1 DEF Flushes, Document
<1>3. PICK n \in Nat : n = doc.asked + 1
  BY <1>1
<1>4. PICK x \in ToPage : /\ x.type = "snapshotRequest" /\ x.ask = n /\ toPage' = Append(toPage, x)
  BY <1>3, Bounds DEF Flushes, ToPage
<1>5. /\ ops' \in [Op -> Operation] /\ ops'[o].at = at /\ ops'[o].ask = n
      /\ ops'[o].session = session.gen /\ \A p \in Op : p # o => ops'[p] = ops[p]
  <2>1. PICK w \in Operation : w = [r EXCEPT !.at = at, !.ask = d.asked + 1]
    <3>1. d.asked + 1 \in Nat /\ at \in Steps
      BY <1>1 DEF Steps
    <3> QED BY <3>1 DEF Operation
  <2>2. w.at = at /\ w.ask = n /\ w.session = r.session
    BY <1>3, <2>1 DEF Operation
  <2>3. ops' = [ops EXCEPT ![o] = w]
    BY <2>1 DEF Flushes, Set
  <2> QED BY <1>1, <2>2, <2>3 DEF Typed
<1>6. Waiting' \subseteq Waiting \cup {o} /\ Awaited' \subseteq Awaited \cup {n}
  BY <1>5 DEF Waiting, Awaited
<1>7. WaitingIs'
  <2> "asking" \notin Flushing
    BY DEF Flushing
  <2>1. ASSUME NEW p \in Waiting'
        PROVE  /\ p \in AskPage /\ ops'[p].ask <= doc'.asked /\ doc'.is \in {"open", "locked"}
               /\ session'.is = "unlocked" /\ ops'[p].session = session'.gen
               /\ p = "backup" => ~doc'.stale
    <3>1. CASE p = o
      BY <1>1, <1>2, <1>3, <1>5, <3>1
    <3>2. CASE p # o
      <4>1. p \in Waiting /\ p \in Op /\ ops'[p] = ops[p]
        BY <1>5, <1>6, <3>2 DEF Waiting
      <4>2. /\ p \in AskPage /\ ops[p].ask <= doc.asked /\ ops[p].session = session.gen
            /\ p = "backup" => ~doc.stale
        BY <1>1, <4>1 DEF WaitingIs
      <4>3. ops[p].ask <= doc.asked + 1
        BY <1>1, <4>1, <4>2
      <4> QED BY <1>2, <4>1, <4>2, <4>3
    <3> QED BY <3>1, <3>2
  <2>2. ops'["open"].at = "idle" /\ ops'["revert"].at = "idle"
    BY <1>1, <1>5 DEF WaitingIs, Op, AskPage, Mutation
  <2>3. \A p \in Op : ops'[p].at = "asking" => p \in {"rename", "lock"}
    BY <1>1, <1>5 DEF WaitingIs
  <2>4. ops'["backup"].at \notin {"saveFlush", "flushAgain"}
    BY <1>1, <1>5 DEF WaitingIs, Op, AskPage
  <2> QED BY <2>1, <2>2, <2>3, <2>4 DEF WaitingIs
<1>8. PageIs'
  <2>1. Range(toPage') = Range(toPage) \cup {x}
    BY <1>1, <1>4, Sent
  <2>2. \A m \in Range(toPage) : m \in ToPage /\ m.ask \in Nat /\ m.ask <= doc.asked
    BY <1>1, AsksAre DEF PageIs
  <2>3. \A m \in Range(toPage') : m.ask <= doc'.asked
    BY <1>1, <1>2, <1>3, <1>4, <2>1, <2>2
  <2> QED BY <1>1, <2>3 DEF PageIs
<1>9. HostIs'
  <2>1. CASE toHost' = toHost
    <3>1. \A m \in Range(toHost) : m \in ToHost /\ m.ask \in Nat
      BY <1>1, AsksAre
    <3> QED BY <1>1, <1>2, <2>1, <3>1 DEF HostIs
  <2>2. CASE toHost # <<>> /\ toHost' = Tail(toHost)
    BY <1>1, <1>2, <2>2, TakenKeeps
  <2> QED BY <2>1, <2>2
<1>10. ASSUME NEW b, TextsFit(b), d.epoch = 0 => Grew(d.text, b) PROVE TextsFit(b)'
  <2>1. QueueFits(toPage, page.text, Awaited, b) /\ AnswersFit(toHost, Awaited, b)
    BY <1>10 DEF TextsFit
  <2>2. \A m \in Range(toPage) : m.ask # n
    <3>1. \A m \in Range(toPage) : m \in ToPage /\ m.ask \in Nat /\ m.ask <= doc.asked
      BY <1>1, AsksAre DEF PageIs
    <3> QED BY <1>1, <1>3, <3>1
  <2>3. QueueFits(toPage', page'.text, Awaited', b)
    BY <1>1, <1>4, <1>6, <2>1, <2>2, RequestSent
  <2>4. \A m \in Range(toHost) : m.ask # n
    <3>1. \A m \in Range(toHost) : m \in ToHost /\ m.ask \in Nat /\ m.ask <= doc.asked
      BY <1>1, AsksAre DEF HostIs
    <3> QED BY <1>1, <1>3, <3>1
  <2>5. Range(toHost') \subseteq Range(toHost)
    BY <1>1, PostTaken
  <2>6. AnswersFit(toHost', Awaited', b)
    BY <1>6, <2>1, <2>4, <2>5 DEF AnswersFit
  <2> QED BY <1>2, <1>10, <2>3, <2>6 DEF TextsFit
<1> QED BY <1>2, <1>5, <1>7, <1>8, <1>9, <1>10

\* A page is asked, by an operation that is not called.
LEMMA AskKeeps ==
  ASSUME IInv, Typed', KeepsInv, UNCHANGED <<versions, session, page, calls, draft>>,
         NEW o \in AskPage, NEW r \in Operation, NEW at \in Flushing, NEW d \in Document,
         Flushes(o, r, at, d), ops[o].at # "called",
         toHost' = toHost \/ (toHost # <<>> /\ toHost' = Tail(toHost)),
         d.is = "open", doc.is = "open", session.is = "unlocked", r.session = session.gen,
         d.asked = doc.asked, d.stale = doc.stale, d.etag = doc.etag, d.gen = doc.gen,
         o = "backup" => ~doc.stale /\ at = "flush", ops["revert"].at = "idle",
         \A b \in Texts : Based(b) /\ d.epoch = 0 => Grew(d.text, b)
  PROVE  KeepsInv'
<1>1. /\ PageIs' /\ HostIs' /\ WaitingIs'
      /\ ops' \in [Op -> Operation] /\ ops'[o].at \in Flushing
      /\ \A p \in Op : p # o => ops'[p] = ops[p]
      /\ doc'.is = "open" /\ doc'.gen = doc.gen /\ SameBase
      /\ \A b : TextsFit(b) /\ (d.epoch = 0 => Grew(d.text, b)) => TextsFit(b)'
  BY PageAsked DEF SameBase
<1>2. \A p \in Op : ops'[p] = ops[p] \/ (ops[p].at # "called" /\ ops'[p].at # "called")
  BY <1>1 DEF Flushing
<1>3. Present /\ \A b \in Texts : Based(b) => TextsFit(b)'
  BY <1>1 DEF Present, Based
<1> QED BY <1>1, <1>2, <1>3, StillKeeps

LEMMA StartFlushKeeps == \A o \in Op : IInv /\ Typed' /\ KeepsInv /\ StartFlush(o) => KeepsInv'
<1> SUFFICES ASSUME NEW o \in Op, IInv, Typed', KeepsInv, StartFlush(o) PROVE KeepsInv'
  OBVIOUS
<1>1. /\ doc.is = "open" /\ Starts(o) /\ o \in AskPage /\ Typed /\ doc \in Document
      /\ ops[o].at # "called" /\ ~Overlap /\ ~StaleBackup
      /\ UNCHANGED <<versions, session, umbra, page, toHost, calls, draft>>
  BY DEF StartFlush, Starts, IInv, Typed, KeepsInv, Careful
<1>2. session.is = "unlocked"
  BY <1>1 DEF IInv, DocOK, Present
<1>3. PICK at \in Flushing : Flushes(o, Entered(o), at, doc) /\ (o = "backup" => at = "flush")
  BY DEF StartFlush, Flushing
<1>4. Entered(o) \in Operation /\ Entered(o).session = session.gen
  BY <1>1, EnteredIs
<1>5. (o = "backup" => ~doc.stale) /\ ops["revert"].at = "idle"
  BY <1>1 DEF Starts
<1>6. \A b \in Texts : Based(b) /\ doc.epoch = 0 => Grew(doc.text, b)
  BY DEF Based, TextsFit
<1> QED BY <1>1, <1>2, <1>3, <1>4, <1>5, <1>6, AskKeeps

LEMMA SaveFirstKeeps == \A o \in Op : IInv /\ Typed' /\ KeepsInv /\ SaveFirst(o) => KeepsInv'
<1> SUFFICES ASSUME NEW o \in Op, IInv, Typed', KeepsInv, SaveFirst(o) PROVE KeepsInv'
  OBVIOUS
<1>1. /\ ops[o].at = "asking" /\ Current(o) /\ doc.is = "open" /\ Flushes(o, ops[o], "saveFlush", doc)
      /\ doc \in Document /\ ops[o] \in Operation /\ "saveFlush" \in Flushing /\ WaitingIs
      /\ UNCHANGED <<versions, session, umbra, page, toHost, calls, draft>>
  BY Sizes DEF SaveFirst, Usable, IInv, Typed, KeepsInv, Flushing
<1>2. o \in AskPage /\ o # "backup" /\ ops["revert"].at = "idle"
  BY <1>1 DEF WaitingIs, AskPage, Mutation
<1>3. \A b \in Texts : Based(b) /\ doc.epoch = 0 => Grew(doc.text, b)
  BY DEF Based, TextsFit
<1> QED BY <1>1, <1>2, <1>3, AskKeeps DEF Current
-----------------------------------------------------------------------------
(* The document goes, sessions end.                                        *)

LEMMA FewerMethods ==
  ASSUME KeepsInv, \A g \in Generations : Range(calls'[g]) \subseteq Range(calls[g])
  PROVE  MethodsAre'
BY DEF KeepsInv, MethodsAre

\* No document is shown after the step.
LEMMA LeftKeeps ==
  ASSUME IInv, Typed', KeepsInv, UNCHANGED versions, ~Present', PageIs', HostIs', WaitingIs',
         \A g \in Generations : Range(calls'[g]) \subseteq Range(calls[g]),
         draft' = draft \/ draft'.base = 0,
         ops'["backup"].at = "called" => ops'["backup"] = ops["backup"]
  PROVE  KeepsInv'
<1>1. Grows
  BY GrowsNot DEF IInv
<1>2. MethodsAre' /\ BackupOK'
  BY <1>1, FewerMethods, BackupStays
<1> QED BY <1>1, <1>2, KeepStep

\* What waits for a snapshot ends.
LEMMA NobodyWaits ==
  ASSUME IInv, Typed', KeepsInv,
         \A o \in Op : ops'[o] = Idle \/ (ops'[o] = ops[o] /\ ops[o].at \notin Flushing),
         doc.is = "closed" => doc'.is = "closed"
  PROVE  /\ WaitingIs' /\ Waiting' = {} /\ Awaited' = {}
         /\ ops'["backup"].at = "called" => ops'["backup"] = ops["backup"]
<1>1. Idle.at = "idle" /\ "idle" \notin Flushing \cup {"asking"}
  BY IdleIs DEF Flushing
<1>2. Waiting' = {} /\ WaitsLess
  BY <1>1 DEF Waiting, WaitsLess
<1>3. Awaited' = {}
  BY <1>2 DEF Awaited
<1>4. WaitingIs'
  BY <1>2, WaitsStay DEF KeepsInv
<1>5. ops'["backup"].at = "called" => ops'["backup"] = ops["backup"]
  BY <1>1 DEF Op, AskPage
<1> QED BY <1>2, <1>3, <1>4, <1>5

LEMMA HostEmpty ==
  ASSUME toHost' = <<>>
  PROVE  HostIs' /\ \A asks, b : AnswersFit(toHost', asks, b)
BY NoMessage DEF HostIs, AnswersFit

LEMMA HostSame ==
  ASSUME KeepsInv, UNCHANGED toHost, doc'.asked = doc.asked, doc'.is = "closed" => doc.is = "closed"
  PROVE  HostIs'
BY DEF KeepsInv, HostIs

LEMMA WipedKeeps ==
  ASSUME NEW d \in Document
  PROVE  /\ Wiped(d).asked = d.asked /\ Wiped(d).gen = d.gen /\ Wiped(d).stale = d.stale
         /\ Wiped(d).is \in {"closed", "locked"}
         /\ Wiped(d).is = "closed" <=> d.is = "closed"
<1>1. CASE d.is \in {"open", "frozen"}
  <2>1. Wiped(d) = [d EXCEPT !.is = "locked", !.text = {}, !.umbra = FALSE]
    BY <1>1 DEF Wiped
  <2> QED BY <1>1, <2>1 DEF Document
<1>2. CASE d.is \notin {"open", "frozen"}
  BY <1>2 DEF Wiped, Document
<1> QED BY <1>1, <1>2

LEMMA DisposeKeeps ==
  ASSUME Dispose
  PROVE  PageIs' /\ HostIs' /\ ~Present' /\ doc'.is = "closed" /\ draft'.base = 0
<1>1. /\ page' = Down /\ toPage' = <<>> /\ toHost' = <<>> /\ doc'.is = "closed"
      /\ draft'.base = 0
  BY DEF Dispose, Closed, NoDraft
<1> QED BY <1>1, PageGone, HostEmpty DEF Present

LEMMA DiscardKeeps == IInv /\ Typed' /\ KeepsInv /\ Discard => KeepsInv'
<1> SUFFICES ASSUME IInv, Typed', KeepsInv, Discard PROVE KeepsInv'
  OBVIOUS
<1>1. /\ Dispose /\ ops' = [p \in Op |-> IF Rejected(p) THEN Idle ELSE ops[p]]
      /\ UNCHANGED <<versions, calls>>
  BY DEF Discard
<1>2. PageIs' /\ HostIs' /\ ~Present' /\ doc'.is = "closed" /\ draft'.base = 0
  BY <1>1, DisposeKeeps
<1>3. WaitingIs' /\ (ops'["backup"].at = "called" => ops'["backup"] = ops["backup"])
  BY <1>1, <1>2, NobodyWaits DEF Rejected
<1> QED BY <1>1, <1>2, <1>3, LeftKeeps

LEMMA CloseTabKeeps == IInv /\ Typed' /\ KeepsInv /\ CloseTab => KeepsInv'
<1> SUFFICES ASSUME IInv, Typed', KeepsInv, CloseTab PROVE KeepsInv'
  OBVIOUS
<1>1. /\ Dispose /\ ops' = [p \in Op |-> IF Rejected(p) THEN Idle ELSE ops[p]]
      /\ UNCHANGED <<versions, calls>>
  BY DEF CloseTab
<1>2. PageIs' /\ HostIs' /\ ~Present' /\ doc'.is = "closed" /\ draft'.base = 0
  BY <1>1, DisposeKeeps
<1>3. WaitingIs' /\ (ops'["backup"].at = "called" => ops'["backup"] = ops["backup"])
  BY <1>1, <1>2, NobodyWaits DEF Rejected
<1> QED BY <1>1, <1>2, <1>3, LeftKeeps

LEMMA CrashKeeps == IInv /\ Typed' /\ KeepsInv /\ Crash => KeepsInv'
<1> SUFFICES ASSUME IInv, Typed', KeepsInv, Crash PROVE KeepsInv'
  OBVIOUS
<1>1. /\ page' = Down /\ toHost' = <<>> /\ toPage' = <<>> /\ doc'.is = "closed"
      /\ ops' = [o \in Op |-> Idle] /\ calls' = [g \in Generations |-> <<>>]
      /\ UNCHANGED <<versions, draft>>
  BY DEF Crash, Closed
<1>2. PageIs' /\ HostIs' /\ ~Present'
  BY <1>1, PageGone, HostEmpty DEF Present
<1>3. WaitingIs' /\ (ops'["backup"].at = "called" => ops'["backup"] = ops["backup"])
  BY <1>1, NobodyWaits
<1>4. \A g \in Generations : Range(calls'[g]) \subseteq Range(calls[g])
  BY <1>1, NoneFollowed
<1> QED BY <1>1, <1>2, <1>3, <1>4, LeftKeeps

LEMMA ExpireKeeps == IInv /\ Typed' /\ KeepsInv /\ Expire => KeepsInv'
<1> SUFFICES ASSUME IInv, Typed', KeepsInv, Expire PROVE KeepsInv'
  OBVIOUS
<1>1. /\ doc' = Wiped(doc) /\ page' = Down /\ toPage' = <<>>
      /\ ops' = [o \in Op |-> IF Current(o) THEN Idle ELSE ops[o]]
      /\ calls' = [calls EXCEPT ![session.gen] = <<>>] /\ UNCHANGED <<versions, toHost, draft>>
      /\ doc \in Document /\ WaitingIs
  BY DEF Expire, WipeForLock, IInv, Typed, KeepsInv
<1>2. /\ ~Present' /\ PageIs' /\ HostIs'
      /\ doc'.is = "closed" <=> doc.is = "closed"
  BY <1>1, WipedKeeps, PageGone, HostSame DEF Present
<1>3. \A o \in Op : ops'[o] = Idle \/ (ops'[o] = ops[o] /\ ops[o].at \notin Flushing)
  BY <1>1 DEF WaitingIs, Waiting, Current
<1>4. WaitingIs' /\ (ops'["backup"].at = "called" => ops'["backup"] = ops["backup"])
  BY <1>2, <1>3, NobodyWaits
<1>5. \A g \in Generations : calls'[g] = <<>> \/ calls'[g] = calls[g]
  BY <1>1 DEF IInv, Typed
<1>6. \A g \in Generations : Range(calls'[g]) \subseteq Range(calls[g])
  BY <1>5, NoneFollowed
<1> QED BY <1>1, <1>2, <1>4, <1>6, LeftKeeps

LEMMA LockClosedKeeps == IInv /\ Typed' /\ KeepsInv /\ LockClosed => KeepsInv'
<1> SUFFICES ASSUME IInv, Typed', KeepsInv, LockClosed PROVE KeepsInv'
  OBVIOUS
<1>1. /\ doc.is = "closed" /\ PageIs /\ HostIs /\ WaitingIs
      /\ UNCHANGED <<versions, doc, page, toHost, toPage, ops, calls, draft>>
  BY DEF LockClosed, KeepsInv
<1>2. PageIs' /\ HostIs' /\ ~Present'
  BY <1>1 DEF PageIs, HostIs, Present
<1>3. WaitingIs'
  BY <1>1, NobodyWaits DEF WaitingIs, Waiting
<1> QED BY <1>1, <1>2, <1>3, LeftKeeps

LEMMA UnlockKeeps == IInv /\ Typed' /\ KeepsInv /\ Unlock => KeepsInv'
<1> SUFFICES ASSUME IInv, Typed', KeepsInv, Unlock PROVE KeepsInv'
  OBVIOUS
<1>1. /\ session.is # "unlocked" /\ PageIs /\ HostIs /\ WaitingIs
      /\ UNCHANGED <<versions, doc, page, toHost, toPage, ops, calls, draft>>
  BY DEF Unlock, KeepsInv
<1>2. PageIs' /\ HostIs' /\ ~Present'
  BY <1>1 DEF PageIs, HostIs, Present, IInv, DocOK
<1>3. WaitingIs'
  BY <1>1, NobodyWaits DEF WaitingIs, Waiting
<1> QED BY <1>1, <1>2, <1>3, LeftKeeps
-----------------------------------------------------------------------------
(* Calls.                                                                  *)

\* A projection that was read, or annotated, is one.
LEMMA ProjectionRead ==
  ASSUME Typed, NEW o \in Op, NEW r \in Operation, NEW queue \in Seq(Answers),
         NEW method \in {"project", "annotate"}, NEW etag, NEW text,
         r.session \in Generations, Call(o, r, queue, method, etag, text),
         NEW x \in Answers, x.ok, calls' = [calls EXCEPT ![r.session] = Append(queue, x)]
  PROVE  versions'[Now'].kind = "umbra"
<1>1. CASE calls' = [calls EXCEPT ![r.session] =
             Append(queue, [op |-> o, method |-> method, ok |-> FALSE,
                            etag |-> 0, text |-> {}, umbra |-> FALSE])]
  <2>1. method \in Methods
    BY DEF Methods
  <2>2. PICK y \in Answers : y = [op |-> o, method |-> method, ok |-> FALSE,
                                  etag |-> 0, text |-> {}, umbra |-> FALSE]
    BY <2>1, Bounds DEF Answers
  <2>3. ~y.ok
    BY <2>2
  <2>4. calls'[r.session] = Append(queue, x) /\ calls'[r.session] = Append(queue, y)
    BY <1>1, <2>2 DEF Typed
  <2>5. Append(queue, x)[Len(queue) + 1] = x /\ Append(queue, y)[Len(queue) + 1] = y
    OBVIOUS
  <2> QED BY <2>3, <2>4, <2>5
<1>2. CASE Allowed(method, r.session, etag, text) /\ versions' = versions \o Commits(method, text)
  <2>1. /\ Latest \in Version /\ Latest = versions[Now] /\ Latest.kind = "umbra"
        /\ versions \in Seq(Version) /\ Len(versions) > 0
    BY <1>2, LatestIs DEF Typed, Allowed
  <2>2. CASE method = "annotate"
    <3>1. versions' = versions \o <<Latest>>
      BY <1>2, <2>2 DEF Commits
    <3>2. Plain <=> Latest.kind = "plain"
      BY LatestIs
    <3> QED BY <2>1, <3>1, <3>2, AddedGrows
  <2>3. CASE method = "project"
    <3>1. versions' = versions \o <<>>
      BY <1>2, <2>3 DEF Commits
    <3>2. versions' = versions
      BY <2>1, <3>1
    <3> QED BY <2>1, <3>2 DEF Now
  <2> QED BY <2>2, <2>3
<1> QED BY <1>1, <1>2 DEF Call

\* The operation o may make such a call.
Makes(o, method) ==
  /\ o = "lockUmbra" <=> method = "lockUmbra"
  /\ method = "read" => o = "revert"
  /\ method = "write" => o \in AskPage
  /\ method = "draft" => o = "backup"
  /\ method \in {"open", "decrypt"} => o = "open"
  /\ method \in {"release", "convert"} => o = "convert"

LEMMA CallAnswered ==
  ASSUME IInv, KeepsInv, NEW o \in Op, NEW r \in Operation, NEW queue \in Seq(Answers),
         NEW method \in Methods, NEW etag \in Nat, NEW text \in Texts,
         r.session \in Generations, Makes(o, method), Free(o, r.session, queue),
         Call(o, r, queue, method, etag, text)
  PROVE  /\ Grows /\ MethodsAre' /\ ops' \in [Op -> Operation]
         /\ ops'[o].at = "called" /\ ops'[o].doc = r.doc
         /\ ops'[o].etag = r.etag /\ ops'[o].text = r.text
         /\ \A p \in Op : p # o => ops'[p] = ops[p]
         /\ \A b \in Texts : /\ WritesFit(b) /\ doc'.gen = doc.gen
                             /\ method = "write" => Grew(text, b)
                             => WritesFit(b)'
<1>1. Typed /\ CallsOK /\ MethodsAre
  BY DEF IInv, KeepsInv
<1>2. o = "lockUmbra" <=> method = "lockUmbra"
  BY DEF Makes
<1>3. Grows /\ ops' = [ops EXCEPT ![o] = [r EXCEPT !.at = "called"]] /\ ops' \in [Op -> Operation]
  BY <1>1, <1>2, CallIs
<1>4. PICK x \in Answers : Made(o, r, queue, method, etag, text, x)
  BY <1>1, <1>2, CallIs
<1>5. PICK w \in Operation : w = [r EXCEPT !.at = "called"]
  BY DEF Operation, Steps
<1>6. w.at = "called" /\ w.doc = r.doc /\ w.etag = r.etag /\ w.text = r.text
  BY <1>5 DEF Operation
<1>7. ops'[o] = w /\ \A p \in Op : p # o => ops'[p] = ops[p]
  BY <1>1, <1>3, <1>5 DEF Typed
<1>8. x.op = o /\ x.method = method /\ calls' = [calls EXCEPT ![r.session] = Append(queue, x)]
  BY <1>4 DEF Made
<1>9. Range(Append(queue, x)) = Range(queue) \cup {x}
  BY <1>8, Adding DEF Free
<1>10. ASSUME NEW g \in Generations, NEW c \in Range(calls'[g])
       PROVE  c = x \/ (c \in Range(calls[g]) /\ c.op # o)
  <2>1. CASE g = r.session
    <3>1. calls'[g] = Append(queue, x)
      BY <1>1, <1>8, <2>1 DEF Typed
    <3> QED BY <1>9, <1>10, <2>1, <3>1 DEF Free
  <2>2. CASE g # r.session
    <3>1. calls'[g] = calls[g]
      BY <1>1, <1>8, <2>2 DEF Typed
    <3> QED BY <1>10, <2>2, <3>1 DEF Free
  <2> QED BY <2>1, <2>2
<1>11. MethodIs(x)
  <2>1. x.ok /\ method \in {"project", "annotate"} => x.umbra
    <3> SUFFICES ASSUME x.ok, method \in {"project", "annotate"} PROVE x.umbra
      OBVIOUS
    <3>1. versions'[Now'].kind = "umbra"
      BY <1>1, <1>8, ProjectionRead
    <3>2. x.umbra = (versions'[Now'].kind = "umbra")
      BY <1>4 DEF Made, Served
    <3> QED BY <3>1, <3>2
  <2> QED BY <1>8, <2>1 DEF Makes, MethodIs
<1>12. MethodsAre'
  BY <1>1, <1>10, <1>11 DEF MethodsAre
<1>13. ASSUME NEW b \in Texts, WritesFit(b), doc'.gen = doc.gen, method = "write" => Grew(text, b)
       PROVE  WritesFit(b)'
  <2> SUFFICES ASSUME NEW g \in Generations, NEW c \in Range(calls'[g]), c.ok,
                      c.method = "write", ops'[c.op].doc = doc'.gen
               PROVE  Grew(c.text, b)
    BY DEF WritesFit
  <2>1. CASE c = x
    <3>1. c.text = text
      BY <1>4, <2>1 DEF Made, Served
    <3> QED BY <1>8, <1>13, <2>1, <3>1
  <2>2. CASE c \in Range(calls[g]) /\ c.op # o
    <3>1. calls[g] \in Seq(Answers)
      BY <1>1 DEF Typed
    <3>2. c \in Answers
      BY <2>2, <3>1 DEF Range
    <3>3. c.op \in Op
      BY <3>2 DEF Answers
    <3>4. ops[c.op].doc = doc.gen
      BY <1>7, <1>13, <2>2, <3>3
    <3> QED BY <1>13, <2>2, <3>4 DEF WritesFit
  <2> QED BY <1>10, <2>1, <2>2
<1> QED BY <1>3, <1>6, <1>7, <1>12, <1>13

\* An operation goes on without waiting for the page.
LEMMA GoesOn ==
  ASSUME IInv, Typed', KeepsInv, NEW o \in Op,
         ops'[o].at \in {"called", "asking", "idle"},
         ops'[o].at = "asking" => o \in {"rename", "lock"},
         \A p \in Op : p # o => ops'[p] = ops[p],
         o = "open" \/ ops["open"].at # "idle" => doc'.is = "closed",
         o = "revert" => \A p \in AskPage : ops[p].at = "idle",
         o \in AskPage => ops["revert"].at = "idle",
         Waiting # {} => /\ doc'.is \in {"open", "locked"} /\ doc.asked <= doc'.asked
                         /\ (doc'.stale => doc.stale) /\ UNCHANGED session
  PROVE  WaitingIs' /\ Waiting' \subseteq Waiting /\ Awaited' \subseteq Awaited
<1> ops'[o].at \notin Flushing
  BY DEF Flushing
<1>1. WaitingIs /\ doc.asked \in Nat /\ doc'.asked \in Nat
      /\ \A p \in Op : ops[p].ask \in Nat
  BY Sizes DEF IInv, KeepsInv, Typed, Document, Operation
<1>2. /\ \A p \in Waiting' : p \in Waiting /\ p \in Op /\ ops'[p] = ops[p]
      /\ Waiting' \subseteq Waiting /\ Awaited' \subseteq Awaited
  BY DEF Waiting, Awaited
<1>3. ASSUME NEW p \in Waiting'
      PROVE  /\ p \in AskPage /\ ops'[p].ask <= doc'.asked /\ doc'.is \in {"open", "locked"}
             /\ session'.is = "unlocked" /\ ops'[p].session = session'.gen
             /\ p = "backup" => ~doc'.stale
  <2>1. p \in Waiting /\ p \in Op /\ ops'[p] = ops[p]
    BY <1>2
  <2>2. /\ p \in AskPage /\ ops[p].ask <= doc.asked /\ session.is = "unlocked"
        /\ ops[p].session = session.gen
        /\ p = "backup" => ~doc.stale
    BY <1>1, <2>1 DEF WaitingIs
  <2>3. ops'[p].ask <= doc'.asked
    BY <1>1, <2>1, <2>2
  <2> QED BY <2>1, <2>2, <2>3
<1>4. \A p \in Op : ops'[p].at = "asking" => p \in {"rename", "lock"}
  BY <1>1 DEF WaitingIs
<1>5. ops'["open"].at # "idle" => doc'.is = "closed"
  BY DEF Op
<1>6. ops'["revert"].at # "idle" => \A p \in AskPage : ops'[p].at = "idle"
  BY <1>1 DEF WaitingIs, Op, AskPage, Mutation
<1>7. ops'["backup"].at \notin {"saveFlush", "flushAgain"}
  BY <1>1 DEF WaitingIs, Op, AskPage
<1> QED BY <1>2, <1>3, <1>4, <1>5, <1>6, <1>7 DEF WaitingIs

\* Fewer wait, for what the page was asked and what it answered.
LEMMA FewerWait ==
  ASSUME IInv, NEW b, TextsFit(b), Awaited' \subseteq Awaited, UNCHANGED <<page, toPage>>,
         Range(toHost') \subseteq Range(toHost), doc'.epoch = 0 => Grew(doc'.text, b)
  PROVE  TextsFit(b)'
<1>1. /\ toPage \in Seq(ToPage) /\ QueueFits(toPage, page.text, Awaited, b)
      /\ AnswersFit(toHost, Awaited, b)
  BY DEF IInv, Typed, TextsFit
<1>2. PICK fewer : fewer = Awaited'
  OBVIOUS
<1>3. QueueFits(toPage, page.text, fewer, b) /\ AnswersFit(toHost', fewer, b)
  BY <1>1, <1>2, FewerAsked, FewerAnswers
<1> QED BY <1>2, <1>3 DEF TextsFit

\* A call, while the document and the page stay as they are.
LEMMA CallKeeps ==
  ASSUME IInv, Typed', KeepsInv, NEW o \in Op, NEW r \in Operation, NEW queue \in Seq(Answers),
         NEW method \in Methods, NEW etag \in Nat, NEW text \in Texts,
         r.session \in Generations, Makes(o, method), Free(o, r.session, queue),
         Call(o, r, queue, method, etag, text), method # "write", o # "backup",
         o = "open" => doc.is = "closed",
         o = "revert" => \A p \in AskPage : ops[p].at = "idle",
         o \in AskPage => ops["revert"].at = "idle",
         UNCHANGED <<session, doc, page, toHost, toPage, draft>>
  PROVE  KeepsInv'
<1>1. /\ Grows /\ MethodsAre' /\ ops'[o].at = "called" /\ \A p \in Op : p # o => ops'[p] = ops[p]
      /\ \A b \in Texts : WritesFit(b) => WritesFit(b)'
  BY CallAnswered
<1>2. /\ PageIs /\ HostIs /\ WaitingIs /\ doc.asked \in Nat
  BY DEF KeepsInv, IInv, Typed, Document
<1>3. PageIs' /\ HostIs' /\ SameBase /\ (Present' => Present)
  BY <1>2 DEF PageIs, HostIs, SameBase, Present
<1>4. o = "open" \/ ops["open"].at # "idle" => doc'.is = "closed"
  BY <1>2 DEF WaitingIs
<1>5. Waiting # {} => /\ doc'.is \in {"open", "locked"} /\ doc.asked <= doc'.asked
                      /\ doc'.stale = doc.stale /\ UNCHANGED session
  BY <1>2 DEF WaitingIs
<1>6. WaitingIs' /\ Awaited' \subseteq Awaited
  BY <1>1, <1>4, <1>5, GoesOn
<1>7. BackupOK'
  BY <1>1, BackupStays DEF Op, AskPage
<1>8. ASSUME NEW b \in Texts, Based(b) PROVE TextsFit(b)' /\ WritesFit(b)'
  <2>1. TextsFit(b) /\ WritesFit(b)
    BY <1>8 DEF Based
  <2>2. TextsFit(b)'
    BY <1>6, <2>1, FewerWait DEF TextsFit
  <2> QED BY <1>1, <2>1, <2>2
<1> QED BY <1>1, <1>3, <1>6, <1>7, <1>8, KeepStep
-----------------------------------------------------------------------------
(* Operations start.                                                       *)

LEMMA StartsAlone ==
  ASSUME KeepsInv, NEW o \in Op, Starts(o)
  PROVE  /\ ops[o].at = "idle"
         /\ o = "revert" => \A p \in AskPage : ops[p].at = "idle"
         /\ o \in AskPage => ops["revert"].at = "idle"
BY DEF KeepsInv, Careful, Starts

LEMMA StartOpenKeeps == IInv /\ Typed' /\ KeepsInv /\ StartOpen => KeepsInv'
<1> SUFFICES ASSUME IInv, Typed', KeepsInv, StartOpen PROVE KeepsInv'
  OBVIOUS
<1>1. /\ Typed /\ "open" \in Op /\ "open" \in Methods /\ ops["open"].at = "idle"
      /\ doc.is = "closed" /\ "open" \notin AskPage
      /\ UNCHANGED <<session, doc, page, toHost, toPage, draft>>
  BY DEF IInv, StartOpen, Starts, Op, Methods, AskPage, Mutation
<1>2. PICK r \in Operation : r = Entered("open") /\ r.session \in 1 .. session.gen
  BY <1>1, EnteredIs
<1>3. PICK queue \in Seq(Answers) : queue = calls[r.session] /\ r.session \in Generations
  BY <1>1, <1>2, SendsIn DEF Typed
<1>4. Call("open", r, queue, "open", 0, {}) /\ {} \in Texts /\ 0 \in Nat
  BY <1>2, <1>3, Bounds DEF StartOpen, Calls
<1>5. Free("open", r.session, queue) /\ Makes("open", "open")
  BY <1>1, <1>3, NotCalled DEF Makes
<1> QED BY <1>1, <1>3, <1>4, <1>5, CallKeeps

LEMMA StartLockUmbraKeeps == IInv /\ Typed' /\ KeepsInv /\ StartLockUmbra => KeepsInv'
<1> SUFFICES ASSUME IInv, Typed', KeepsInv, StartLockUmbra PROVE KeepsInv'
  OBVIOUS
<1> DEFINE o == "lockUmbra"
<1>1. /\ Typed /\ o \in Op /\ o \in Methods /\ ops[o].at = "idle" /\ o \notin AskPage
      /\ UNCHANGED <<session, doc, page, toHost, toPage, draft>>
  BY DEF IInv, StartLockUmbra, Starts, Op, Methods, AskPage, Mutation
<1>2. PICK r \in Operation : r = Entered(o) /\ r.session \in 1 .. session.gen
  BY <1>1, EnteredIs
<1>3. PICK queue \in Seq(Answers) : queue = calls[r.session] /\ r.session \in Generations
  BY <1>1, <1>2, SendsIn DEF Typed
<1>4. Call(o, r, queue, o, 0, {}) /\ {} \in Texts /\ 0 \in Nat
  BY <1>2, <1>3, Bounds DEF StartLockUmbra, Calls
<1>5. Free(o, r.session, queue) /\ Makes(o, o)
  BY <1>1, <1>3, NotCalled DEF Makes
<1> QED BY <1>1, <1>3, <1>4, <1>5, CallKeeps

LEMMA StartCallKeeps == \A o \in Op : IInv /\ Typed' /\ KeepsInv /\ StartCall(o) => KeepsInv'
<1> SUFFICES ASSUME NEW o \in Op, IInv, Typed', KeepsInv, StartCall(o) PROVE KeepsInv'
  OBVIOUS
<1>1. /\ Typed /\ doc \in Document /\ Starts(o) /\ o \in {"revert", "annotate"}
      /\ UNCHANGED <<session, doc, page, toHost, toPage, draft>>
  BY DEF IInv, Typed, StartCall
<1>2. PICK r \in Operation : r = Entered(o) /\ r.session \in 1 .. session.gen
  BY <1>1, EnteredIs
<1>3. PICK queue \in Seq(Answers) : queue = calls[r.session] /\ r.session \in Generations
  BY <1>1, <1>2, SendsIn DEF Typed
<1>4. PICK method \in {"project", "read", "annotate"}, etag \in Nat, text \in Texts :
        Call(o, r, queue, method, etag, text) /\ (method = "read" => o = "revert")
  <2>1. CASE o = "revert"
               /\ Calls(o, Entered(o), IF doc.umbra THEN "project" ELSE "read", 0, {})
    <3>1. 0 \in Nat /\ {} \in Texts
      BY Bounds
    <3>2. PICK method \in {"project", "read", "annotate"} :
            method = IF doc.umbra THEN "project" ELSE "read"
      OBVIOUS
    <3> QED BY <1>2, <1>3, <2>1, <3>1, <3>2 DEF Calls
  <2>2. CASE Calls(o, Entered(o), "annotate", doc.etag, doc.text)
    <3>1. doc.etag \in Nat /\ doc.text \in Texts
      BY <1>1 DEF Document
    <3> QED BY <1>2, <1>3, <2>2, <3>1 DEF Calls
  <2> QED BY <2>1, <2>2 DEF StartCall
<1>5. /\ method \in Methods /\ method # "write" /\ Makes(o, method)
      /\ o \notin AskPage /\ o # "open" /\ o # "backup"
  BY <1>1, <1>4 DEF Methods, Makes, AskPage, Mutation
<1>6. Free(o, r.session, queue) /\ (o = "revert" => \A p \in AskPage : ops[p].at = "idle")
  <2>1. ops[o].at = "idle" /\ (o = "revert" => \A p \in AskPage : ops[p].at = "idle")
    BY <1>1, StartsAlone
  <2> QED BY <1>3, <2>1, NotCalled
<1> QED BY <1>1, <1>3, <1>4, <1>5, <1>6, CallKeeps

LEMMA OtherCommitsKeeps == IInv /\ Typed' /\ KeepsInv /\ OtherCommits => KeepsInv'
<1> SUFFICES ASSUME IInv, Typed', KeepsInv, OtherCommits PROVE KeepsInv'
  OBVIOUS
<1>1. /\ Typed /\ PageIs /\ HostIs /\ WaitingIs
      /\ UNCHANGED <<session, umbra, doc, page, toHost, toPage, ops, calls, draft>>
  BY DEF OtherCommits, IInv, KeepsInv
<1>2. Grows
  <2>1. /\ Latest \in Version /\ Latest.text \in Texts /\ (Plain <=> Latest.kind = "plain")
        /\ versions \in Seq(Version)
    BY <1>1, LatestIs DEF Typed
  <2>2. NewTheirs \in 0 .. MaxTyped + MaxOthers
    BY <1>1, MarkIs DEF OtherCommits
  <2>3. PICK t \in Texts : t = Latest.text \cup {NewTheirs}
    BY <2>1, <2>2 DEF Texts
  <2>4. PICK v \in Version : v = [Latest EXCEPT !.text = t]
    BY <2>1 DEF Version
  <2>5. v.kind = Latest.kind
    BY <2>1, <2>4 DEF Version
  <2>6. versions' = Append(versions, v)
    BY <2>3, <2>4 DEF OtherCommits
  <2>7. versions' = versions \o <<v>>
    BY <2>1, <2>6
  <2> QED BY <1>1, <2>1, <2>5, <2>7, AddedGrows
<1>3. WaitingIs' /\ Awaited' = Awaited
  BY <1>1, OpsSame, WaitsStay DEF Typed, Document
<1>4. PageIs' /\ HostIs' /\ SameBase /\ (Present' => Present)
  BY <1>1 DEF PageIs, HostIs, SameBase, Present
<1>5. MethodsAre' /\ \A b \in Texts : WritesFit(b) => WritesFit(b)'
  BY <1>1, StillRemaining, AnswersRemain
<1>6. BackupOK'
  BY <1>1, <1>2, BackupStays
<1>7. ASSUME NEW b \in Texts, Based(b) PROVE TextsFit(b)'
  BY <1>1, <1>3, <1>7 DEF Based, TextsFit
<1> QED BY <1>2, <1>3, <1>4, <1>5, <1>6, <1>7, KeepStep DEF Based

LEMMA CloseForMutationKeeps ==
  \A o \in Op : IInv /\ Typed' /\ KeepsInv /\ CloseForMutation(o) => KeepsInv'
<1> SUFFICES ASSUME NEW o \in Op, IInv, Typed', KeepsInv, CloseForMutation(o) PROVE KeepsInv'
  OBVIOUS
<1>1. /\ Typed /\ WaitingIs /\ HostIs /\ doc \in Document /\ doc.is = "frozen" /\ o \in Mutation
      /\ ops[o].at = "closing" /\ UNCHANGED session /\ doc.asked \in Nat /\ toHost \in Seq(ToHost)
  BY DEF IInv, Typed, KeepsInv, CloseForMutation, Document
<1>2. Waiting = {} /\ \A p \in Op : ops[p].at \notin Flushing
  BY <1>1 DEF WaitingIs, Waiting
<1>3. CASE Dispose /\ Calls(o, ops[o], o, ops[o].etag, {})
  <2>1. PICK r \in Operation, etag \in Nat : r = ops[o] /\ etag = r.etag
    BY <1>1, Sizes
  <2>2. r.session \in 1 .. session.gen
    BY <1>1, <2>1, Sizes DEF IInv, OpsOK, OpOK
  <2>3. PICK queue \in Seq(Answers) : queue = calls[r.session] /\ r.session \in Generations
    BY <1>1, <2>2, SendsIn DEF Typed
  <2>4. Call(o, r, queue, o, etag, {}) /\ {} \in Texts
    BY <1>3, <2>1, <2>3, Bounds DEF Calls
  <2>5. /\ o \in Methods /\ Makes(o, o) /\ o \in AskPage /\ o \notin {"open", "revert", "backup"}
    BY <1>1 DEF Methods, Makes, AskPage, Mutation
  <2>6. Free(o, r.session, queue)
    BY <1>1, <2>3, NotCalled
  <2>7. /\ Grows /\ MethodsAre' /\ ops'[o].at = "called"
        /\ \A p \in Op : p # o => ops'[p] = ops[p]
    BY <2>3, <2>4, <2>5, <2>6, CallAnswered
  <2>8. PageIs' /\ HostIs' /\ ~Present' /\ doc'.is = "closed" /\ draft'.base = 0
    BY <1>3, DisposeKeeps
  <2>9. ops["revert"].at = "idle"
    BY <1>1, <2>5 DEF WaitingIs
  <2>10. WaitingIs'
    BY <1>2, <2>5, <2>7, <2>8, <2>9, GoesOn
  <2>11. BackupOK'
    BY <2>5, <2>7, <2>8, BackupStays DEF Op, AskPage
  <2> QED BY <2>7, <2>8, <2>10, <2>11, KeepStep
<1>4. CASE doc' = [doc EXCEPT !.is = "open"] /\ StartPage /\ End(o)
           /\ UNCHANGED <<versions, umbra, calls, draft>>
  <2>1. /\ doc'.is = "open" /\ doc'.asked = doc.asked /\ doc'.gen = doc.gen /\ SameBase
        /\ doc'.epoch = doc.epoch /\ doc'.text = doc.text
    BY <1>1, <1>4 DEF Document, SameBase
  <2>2. PageIs' /\ \A b : QueueFits(toPage', page'.text, Awaited', b)
    BY <1>1, <1>4, PageStarts
  <2>3. PICK m \in ToHost : m.type = "ready" /\ m.epoch = 0 /\ m.ask = 0 /\ toHost' = Append(toHost, m)
    BY <1>1, <1>4, PageStarts
  <2>4. Range(toHost') = Range(toHost) \cup {m}
    BY <1>1, <2>3, Posted
  <2>5. HostIs'
    BY <1>1, <2>1, <2>3, <2>4 DEF HostIs
  <2>6. \A p \in Op : ops'[p] = Idle \/ (ops'[p] = ops[p] /\ ops[p].at \notin Flushing)
    BY <1>1, <1>2, <1>4 DEF End, Set, Typed
  <2>7. WaitingIs' /\ Awaited' = {}
    BY <1>1, <2>6, NobodyWaits
  <2>8. \A p \in Op : ops'[p] = ops[p] \/ (ops[p].at # "called" /\ ops'[p].at # "called")
    BY <1>1, <1>4, IdleIs DEF End, Set, Typed
  <2>9. ASSUME NEW b \in Texts, Based(b) PROVE TextsFit(b)'
    <3>1. doc'.epoch = 0 => Grew(doc'.text, b)
      BY <2>1, <2>9 DEF Based, TextsFit
    <3>2. AnswersFit(toHost', Awaited', b)
      BY <2>7 DEF AnswersFit
    <3> QED BY <2>2, <3>1, <3>2 DEF TextsFit
  <2>10. Present
    BY <1>1 DEF Present
  <2> QED BY <1>4, <2>1, <2>2, <2>5, <2>7, <2>8, <2>9, <2>10, StillKeeps
<1> QED BY <1>3, <1>4 DEF CloseForMutation
-----------------------------------------------------------------------------
(* Answers are taken.                                                      *)

LEMMA TakingLeaves ==
  ASSUME IInv, KeepsInv, NEW g \in Generations, calls[g] # <<>>, NEW o \in Op,
         o = Head(calls[g]).op, Taken(g), \A p \in Op : p # o => ops'[p] = ops[p]
  PROVE  Remaining
<1>1. /\ Free(o, g, Tail(calls[g])) /\ calls \in [Generations -> Seq(Answers)]
  BY AnswerIs DEF IInv, Typed
<1>2. PICK t \in Seq(Answers) : t = Tail(calls[g])
  BY <1>1 DEF Free
<1>3. calls'[g] = t /\ \A k \in Generations : k # g => calls'[k] = calls[k]
  BY <1>1, <1>2 DEF Taken
<1>4. ASSUME NEW k \in Generations, NEW c \in Range(calls'[k])
      PROVE  c \in Range(calls[k]) /\ ops'[c.op] = ops[c.op]
  <2>1. c \in Range(calls[k]) /\ c.op # o
    <3>1. CASE k = g
      BY <1>1, <1>2, <1>3, <1>4, <3>1 DEF Free
    <3>2. CASE k # g
      BY <1>1, <1>3, <1>4, <3>2 DEF Free
    <3> QED BY <3>1, <3>2
  <2>2. calls[k] \in Seq(Answers)
    BY <1>1
  <2>3. c \in Answers
    BY <2>1, <2>2 DEF Range
  <2>4. c.op \in Op
    BY <2>3 DEF Answers
  <2> QED BY <2>1, <2>4
<1> QED BY <1>4 DEF Remaining

\* An answer ends its operation; the document stays as it is, or goes.
LEMMA AnswerKeeps ==
  ASSUME IInv, Typed', KeepsInv, NEW g \in Generations, calls[g] # <<>>, NEW o \in Op,
         o = Head(calls[g]).op, Taken(g), End(o), UNCHANGED <<versions, session, toHost>>,
         BackupOK',
         UNCHANGED <<doc, page, toPage>> \/ WipeForLock
  PROVE  KeepsInv'
<1>1. /\ Typed /\ PageIs /\ HostIs /\ WaitingIs /\ doc \in Document /\ doc.asked \in Nat
  BY DEF IInv, KeepsInv, Typed, Document
<1>2. ops'[o] = Idle /\ \A p \in Op : p # o => ops'[p] = ops[p]
  BY TakenIs
<1>3. Remaining /\ Grows
  BY <1>1, <1>2, TakingLeaves, GrowsNot
<1>4. WaitsLess
  BY <1>2, IdleIs DEF WaitsLess, Flushing
<1>5. CASE UNCHANGED <<doc, page, toPage>>
  <2>1. PageIs' /\ HostIs' /\ SameBase /\ (Present' => Present)
    BY <1>1, <1>5 DEF PageIs, HostIs, SameBase, Present
  <2>2. WaitingIs' /\ Awaited' \subseteq Awaited
    BY <1>1, <1>4, <1>5, WaitsStay
  <2>3. MethodsAre' /\ \A b \in Texts : WritesFit(b) => WritesFit(b)'
    BY <1>3, <1>5, AnswersRemain
  <2>4. ASSUME NEW b \in Texts, Based(b) PROVE TextsFit(b)' /\ WritesFit(b)'
    <3>1. TextsFit(b)'
      BY <1>5, <2>2, <2>4, FewerWait DEF Based, TextsFit
    <3> QED BY <2>3, <2>4, <3>1 DEF Based
  <2> QED BY <1>3, <2>1, <2>2, <2>3, <2>4, KeepStep
<1>6. CASE WipeForLock
  <2>1. /\ doc' = Wiped(doc) /\ page' = Down /\ toPage' = <<>>
    BY <1>6 DEF WipeForLock
  <2>2. /\ doc'.asked = doc.asked /\ doc'.stale = doc.stale /\ doc'.gen = doc.gen
        /\ doc'.is \in {"closed", "locked"}
        /\ doc'.is = "closed" <=> doc.is = "closed"
    BY <1>1, <2>1, WipedKeeps
  <2>3. ~Present' /\ PageIs' /\ HostIs'
    BY <2>1, <2>2, PageGone, HostSame DEF Present
  <2>4. WaitingIs'
    BY <1>1, <1>4, <2>2, WaitsStay
  <2>5. MethodsAre'
    BY <1>3, <2>2, AnswersRemain
  <2> QED BY <1>3, <2>3, <2>4, <2>5, KeepStep
<1> QED BY <1>5, <1>6

LEMMA DropKeeps == \A g \in Generations : IInv /\ Typed' /\ KeepsInv /\ Drop(g) => KeepsInv'
<1> SUFFICES ASSUME NEW g \in Generations, IInv, Typed', KeepsInv, Drop(g) PROVE KeepsInv'
  OBVIOUS
<1>1. calls[g] # <<>> /\ Typed
  BY DEF Drop, IInv
<1>2. PICK o \in Op : o = Head(calls[g]).op
  BY <1>1, AnswerIs
<1>3. /\ End(o) /\ Taken(g) /\ UNCHANGED <<versions, session, toHost, draft>>
      /\ UNCHANGED <<doc, page, toPage>> \/ WipeForLock
  BY <1>2 DEF Drop
<1>4. ops'[o] = Idle /\ \A p \in Op : p # o => ops'[p] = ops[p]
  BY <1>1, <1>2, <1>3, TakenIs
<1>5. BackupOK'
  BY <1>1, <1>3, <1>4, GrowsNot, BackupStays, IdleIs DEF Op, AskPage
<1> QED BY <1>1, <1>2, <1>3, <1>5, AnswerKeeps

LEMMA LockedUmbraKeeps ==
  \A g \in Generations : IInv /\ Typed' /\ KeepsInv /\ LockedUmbra(g) => KeepsInv'
<1> SUFFICES ASSUME NEW g \in Generations, IInv, Typed', KeepsInv, LockedUmbra(g) PROVE KeepsInv'
  OBVIOUS
<1>1. calls[g] # <<>> /\ Typed
  BY DEF LockedUmbra, Answer, IInv
<1>2. PICK o \in Op : o = Head(calls[g]).op
  BY <1>1, AnswerIs
<1>3. /\ End(o) /\ Taken(g) /\ UNCHANGED <<versions, session, toHost, draft>>
      /\ UNCHANGED <<doc, page, toPage>> \/ WipeForLock
  BY <1>2 DEF LockedUmbra
<1>4. ops'[o] = Idle /\ \A p \in Op : p # o => ops'[p] = ops[p]
  BY <1>1, <1>2, <1>3, TakenIs
<1>5. BackupOK'
  BY <1>1, <1>3, <1>4, GrowsNot, BackupStays, IdleIs DEF Op, AskPage
<1> QED BY <1>1, <1>2, <1>3, <1>5, AnswerKeeps

\* The operation of the answer at the head, by the method.
LEMMA MethodOf ==
  ASSUME IInv, KeepsInv, NEW g \in Generations, calls[g] # <<>>
  PROVE  /\ MethodIs(Head(calls[g])) /\ ops[Head(calls[g]).op].at = "called"
         /\ Head(calls[g]) \in Range(calls[g])
<1>1. calls[g] \in Seq(Answers) /\ OneEach(calls[g]) /\ MethodsAre
  BY DEF IInv, Typed, OneCall, KeepsInv
<1>2. Head(calls[g]) \in Range(calls[g])
  BY <1>1, Taking
<1>3. CallOK(g, Head(calls[g]))
  BY AnswerIs
<1> QED BY <1>1, <1>2, <1>3 DEF MethodsAre, CallOK

LEMMA BackedUpKeeps ==
  \A g \in Generations : IInv /\ Typed' /\ KeepsInv /\ BackedUp(g) => KeepsInv'
<1> SUFFICES ASSUME NEW g \in Generations, IInv, Typed', KeepsInv, BackedUp(g) PROVE KeepsInv'
  OBVIOUS
<1>1. calls[g] # <<>> /\ Head(calls[g]).method = "draft" /\ Typed /\ BackupOK
  BY DEF BackedUp, Answer, IInv, KeepsInv
<1>2. /\ Head(calls[g]).op = "backup" /\ ops["backup"].at = "called" /\ "backup" \in Op
  BY <1>1, MethodOf DEF MethodIs, Op, AskPage
<1>3. /\ End("backup") /\ Taken(g)
      /\ draft' = [base |-> ops["backup"].etag, text |-> ops["backup"].text]
      /\ UNCHANGED <<versions, session, doc, page, toHost, toPage>>
  BY <1>2 DEF BackedUp
<1>4. ops'["backup"] = Idle
  BY <1>1, <1>2, <1>3, TakenIs
<1>5. Rooted(draft'.base, draft'.text)
  BY <1>1, <1>2, <1>3 DEF BackupOK
<1>6. BackupOK'
  BY <1>3, <1>4, <1>5, IdleIs DEF BackupOK, Rooted, Plain
<1> QED BY <1>1, <1>2, <1>3, <1>6, AnswerKeeps

LEMMA ConvertOnKeeps ==
  \A g \in Generations : IInv /\ Typed' /\ KeepsInv /\ ConvertOn(g) => KeepsInv'
<1> SUFFICES ASSUME NEW g \in Generations, IInv, Typed', KeepsInv, ConvertOn(g) PROVE KeepsInv'
  OBVIOUS
<1>1. /\ Typed /\ doc \in Document /\ calls[g] # <<>> /\ WaitingIs
      /\ Head(calls[g]).method \in {"release", "convert"}
      /\ UNCHANGED <<session, doc, page, toHost, toPage, draft>>
  BY DEF IInv, Typed, KeepsInv, ConvertOn, Answer
<1>2. PICK c \in Answers : c = Head(calls[g]) /\ c.etag \in Nat
  BY <1>1, AnswerIs
<1>3. /\ c.op = "convert" /\ ops["convert"].at = "called" /\ "convert" \in Op
      /\ "convert" \in AskPage /\ ops["revert"].at = "idle"
  BY <1>1, <1>2, MethodOf DEF MethodIs, Op, AskPage, WaitingIs
<1>4. PICK r \in Operation, queue \in Seq(Answers) :
        /\ r = ops["convert"] /\ queue = Tail(calls[g]) /\ r.session = g
        /\ Free("convert", r.session, queue)
  BY <1>1, <1>2, <1>3, NextSends
<1>5. PICK method \in {"convert", "project"}, etag \in Nat :
        Call("convert", r, queue, method, etag, {})
  <2>1. CASE c.method = "release"
    <3>1. PICK etag \in Nat : etag = IF Usable("convert") THEN doc.etag ELSE c.etag
      BY <1>1, <1>2, Sizes
    <3>2. CallsNext("convert", r, "convert", etag, {})
      BY <1>2, <1>3, <1>4, <2>1, <3>1 DEF ConvertOn
    <3> QED BY <1>4, <3>2 DEF CallsNext
  <2>2. CASE c.method # "release"
    <3>1. CallsNext("convert", r, "project", 0, {})
      BY <1>2, <1>3, <1>4, <2>2 DEF ConvertOn
    <3> QED BY <1>4, <3>1 DEF CallsNext
  <2> QED BY <2>1, <2>2
<1>6. method \in Methods /\ method # "write" /\ Makes("convert", method) /\ {} \in Texts
  BY Bounds DEF Methods, Makes
<1> QED BY <1>1, <1>3, <1>4, <1>5, <1>6, CallKeeps

-----------------------------------------------------------------------------
(* The document takes a version for its own.                               *)

\* While a document is reverted nobody waits and nothing is being written.
LEMMA RevertAlone ==
  ASSUME IInv, KeepsInv, ops["revert"].at # "idle"
  PROVE  /\ Waiting = {} /\ Awaited = {}
         /\ \A g \in Generations : \A c \in Range(calls[g]) : c.method # "write"
<1>1. WaitingIs /\ MethodsAre /\ CallsOK /\ \A o \in AskPage : ops[o].at = "idle"
  BY DEF KeepsInv, IInv, WaitingIs
<1>2. Waiting = {}
  BY <1>1 DEF WaitingIs, Waiting, Flushing
<1>3. ASSUME NEW g \in Generations, NEW c \in Range(calls[g]) PROVE c.method # "write"
  BY <1>1 DEF CallsOK, CallOK, MethodsAre, MethodIs
<1> QED BY <1>2, <1>3 DEF Awaited

LEMMA AdoptKeeps == \A g \in Generations : IInv /\ Typed' /\ KeepsInv /\ Adopt(g) => KeepsInv'
<1> SUFFICES ASSUME NEW g \in Generations, IInv, Typed', KeepsInv, Adopt(g) PROVE KeepsInv'
  OBVIOUS
<1>1. /\ Typed /\ doc \in Document /\ doc.asked \in Nat /\ calls[g] # <<>> /\ PageIs /\ HostIs
      /\ WaitingIs /\ Head(calls[g]).method \in {"read", "project", "annotate"}
  BY DEF IInv, Typed, Document, Adopt, Answer, KeepsInv
<1>2. PICK c \in Answers, o \in Op :
        c = Head(calls[g]) /\ o = c.op /\ c.text \in Texts /\ c.etag \in Nat /\ c.umbra \in BOOLEAN
  BY <1>1, AnswerIs
<1>3. /\ Good(c) /\ doc.is = "open" /\ Replace(c) /\ End(o) /\ Taken(g)
      /\ draft' = draft \/ draft' = NoDraft
      /\ UNCHANGED <<versions, session, page, toHost>>
  BY <1>2 DEF Adopt, Usable
<1>4. /\ Told(c) /\ (c.umbra => ~Plain) /\ c.ok /\ MethodIs(c) /\ ops[o].at = "called"
  BY <1>1, <1>2, <1>3, GoodIs, AnswerShown, MethodOf
<1>5. PICK revision \in Nat : revision = doc.revision + 1
  BY <1>1, Sizes
<1>6. PICK d \in Document :
        d = [doc EXCEPT !.text = c.text, !.etag = c.etag, !.umbra = c.umbra,
                        !.revision = revision, !.saved = revision, !.stale = FALSE]
  BY <1>1, <1>2 DEF Document
<1>7. /\ d.text = c.text /\ d.etag = c.etag /\ d.gen = doc.gen /\ d.is = doc.is
      /\ d.asked = doc.asked /\ d.stale = FALSE
  BY <1>1, <1>6 DEF Document
<1>8. doc' = d /\ Send(d)
  BY <1>3, <1>5, <1>6 DEF Replace, Replaced
<1>9. ops'[o] = Idle /\ \A p \in Op : p # o => ops'[p] = ops[p]
  BY <1>1, <1>2, <1>3, TakenIs
<1>10. Remaining /\ Grows
  BY <1>1, <1>2, <1>3, <1>9, TakingLeaves, GrowsNot
<1>11. MethodsAre'
  BY <1>7, <1>8, <1>10, AnswersRemain
<1>12. WaitsLess
  BY <1>9, IdleIs DEF WaitsLess, Flushing
<1>13. WaitingIs' /\ Awaited' \subseteq Awaited
  BY <1>1, <1>3, <1>7, <1>8, <1>12, WaitsStay
<1>14. BackupOK'
  BY <1>3, <1>9, <1>10, Defaults, IdleIs, BackupStays DEF Op, AskPage
<1>15. PageIs'
  BY <1>1, <1>3, <1>7, <1>8, SendKeeps
<1>16. HostIs'
  BY <1>1, <1>3, <1>7, <1>8, HostSame
<1>17. ASSUME Plain', Present' PROVE \E b \in Texts : Based(b)'
  <2>1. Plain
    BY <1>3, <1>17 DEF Plain
  <2>2. o = "revert"
    BY <1>1, <1>2, <1>4, <2>1 DEF MethodIs
  <2>3. /\ Awaited' = {}
        /\ \A k \in Generations : \A x \in Range(calls[k]) : x.method # "write"
    BY <1>4, <1>13, <2>2, RevertAlone
  <2>4. PICK b \in Texts : b = Theirs(c.text)
    BY <1>2 DEF Theirs, Texts
  <2>5. Grew(c.text, b)
    BY <2>4 DEF Grew
  <2>6. QueueFits(toPage', page'.text, {}, b)
    BY <1>1, <1>3, <1>7, <1>8, <2>5, SendKeeps
  <2>7. TextsFit(b)'
    BY <1>7, <1>8, <2>3, <2>5, <2>6 DEF TextsFit, AnswersFit
  <2>8. WritesFit(b)'
    BY <1>10, <2>3 DEF Remaining, WritesFit
  <2>9. versions'[doc'.etag].text = c.text
    BY <1>3, <1>4, <1>7, <1>8 DEF Told
  <2> QED BY <2>5, <2>7, <2>8, <2>9 DEF Based
<1>18. BaseOK' /\ Careful'
  BY <1>17 DEF BaseOK, KeepsInv, Careful
<1> QED BY <1>11, <1>13, <1>14, <1>15, <1>16, <1>18 DEF KeepsInv

LEMMA SaveAnsweredKeeps ==
  \A g \in Generations : IInv /\ Typed' /\ KeepsInv /\ SaveAnswered(g) => KeepsInv'
<1> SUFFICES ASSUME NEW g \in Generations, IInv, Typed', KeepsInv, SaveAnswered(g) PROVE KeepsInv'
  OBVIOUS
<1>1. /\ Typed /\ doc \in Document /\ doc.asked \in Nat /\ PageIs /\ HostIs /\ WaitingIs
      /\ calls[g] # <<>> /\ Head(calls[g]).method = "write"
      /\ Good(Head(calls[g])) /\ Usable(Head(calls[g]).op)
  BY DEF IInv, Typed, Document, KeepsInv, SaveAnswered, Answer
<1>2. PICK c \in Answers, o \in Op, r \in Operation, queue \in Seq(Answers) :
        /\ c = Head(calls[g]) /\ o = c.op /\ r = ops[o] /\ queue = Tail(calls[g])
        /\ r.session = g /\ Free(o, r.session, queue) /\ c.etag \in Nat
  <2>1. PICK c \in Answers : c = Head(calls[g]) /\ c.op \in Op /\ c.etag \in Nat
    BY <1>1, AnswerIs
  <2>2. PICK o \in Op, r \in Operation, queue \in Seq(Answers) :
          /\ o = c.op /\ r = ops[o] /\ queue = Tail(calls[g])
          /\ r.session = g /\ Free(o, r.session, queue)
    BY <1>1, <2>1, NextSends
  <2> QED BY <2>1, <2>2
<1>3. /\ c \in Range(calls[g]) /\ CallOK(g, c) /\ c.ok /\ Told(c) /\ o \in AskPage
      /\ doc.is = "open" /\ session.is = "unlocked" /\ session.gen = g /\ ops[o].doc = doc.gen
      /\ ops["revert"].at = "idle" /\ ops["open"].at = "idle"
  <2>1. c.ok /\ session.is = "unlocked" /\ session.gen = g /\ CallOK(g, c)
    BY <1>1, <1>2, GoodIs, AnswerIs
  <2>2. MethodIs(c) /\ c \in Range(calls[g]) /\ ops[o].at = "called"
    BY <1>1, <1>2, MethodOf
  <2>3. o \in AskPage
    BY <1>1, <1>2, <2>2 DEF MethodIs
  <2>4. ops["revert"].at = "idle"
    BY <1>1, <2>2, <2>3 DEF WaitingIs
  <2>5. doc.is = "open" /\ ops[o].doc = doc.gen
    BY <1>1, <1>2 DEF Usable
  <2>6. ops["open"].at = "idle"
    BY <1>1, <2>5 DEF WaitingIs
  <2>7. Told(c)
    BY <1>1, <1>2, <2>1 DEF CallOK
  <2> QED BY <2>1, <2>2, <2>3, <2>4, <2>5, <2>6, <2>7
<1>4. PICK d \in Document : d = Saved(doc, r, c.etag) /\ d.gen = doc.gen
  BY <1>1, <1>2, SavedIs
<1>5. /\ d.is = "open" /\ d.text = doc.text /\ d.asked = doc.asked /\ d.epoch = doc.epoch
      /\ d.etag = c.etag /\ d.stale = FALSE /\ d.etag \in Nat
  <2>1. PICK rev \in Nat : rev = r.rev
    BY DEF Operation
  <2>2. d = [doc EXCEPT !.etag = c.etag, !.saved = rev, !.stale = FALSE]
    BY <1>4, <2>1 DEF Saved
  <2> QED BY <1>1, <1>2, <1>3, <2>2 DEF Document
<1>6. /\ draft' = draft \/ draft'.base = 0
      /\ UNCHANGED toHost
  BY Defaults DEF SaveAnswered
<1>7. ASSUME NEW b \in Texts, Based(b)
      PROVE  /\ TextsFit(b) /\ WritesFit(b) /\ Grew(c.text, b) /\ (doc.epoch = 0 => Grew(doc.text, b))
  BY <1>1, <1>2, <1>3, <1>7 DEF Based, TextsFit, WritesFit
<1>8. \* The version is that of the answer.
      ASSUME Grows, PageIs', HostIs', WaitingIs', MethodsAre', BackupOK', doc'.etag = c.etag,
             \A b \in Texts : Based(b) => TextsFit(b)' /\ WritesFit(b)'
      PROVE  KeepsInv'
  <2>1. ASSUME Plain', Present' PROVE \E b \in Texts : Based(b)'
    <3>1. Plain /\ Present
      BY <1>3, <1>8, <2>1 DEF Grows, Present
    <3>2. PICK b \in Texts : Based(b)
      BY <3>1 DEF KeepsInv, BaseOK
    <3>3. versions'[doc'.etag].text = c.text
      BY <1>3, <1>8 DEF Told, Grows
    <3> QED BY <1>7, <1>8, <3>2, <3>3 DEF Based
  <2> QED BY <1>8, <2>1 DEF BaseOK, KeepsInv, Careful
<1>9. CASE /\ doc' = d /\ End(o) /\ Taken(g) /\ o # "backup"
           /\ UNCHANGED <<versions, umbra, session, page, toPage>>
  <2>1. ops'[o] = Idle /\ \A p \in Op : p # o => ops'[p] = ops[p]
    BY <1>1, <1>2, <1>9, TakenIs
  <2>2. Remaining /\ Grows
    BY <1>1, <1>2, <1>9, <2>1, TakingLeaves, GrowsNot
  <2>3. MethodsAre' /\ \A b \in Texts : WritesFit(b) => WritesFit(b)'
    BY <1>4, <1>9, <2>2, AnswersRemain
  <2>4. PageIs' /\ HostIs'
    BY <1>1, <1>3, <1>5, <1>6, <1>9, HostSame DEF PageIs
  <2>5. WaitsLess
    BY <2>1, IdleIs DEF WaitsLess, Flushing
  <2>6. WaitingIs' /\ Awaited' \subseteq Awaited
    BY <1>1, <1>3, <1>5, <1>9, <2>5, WaitsStay
  <2>7. BackupOK'
    BY <1>6, <1>9, <2>1, <2>2, BackupStays DEF Op, AskPage
  <2>8. ASSUME NEW b \in Texts, Based(b) PROVE TextsFit(b)' /\ WritesFit(b)'
    <3>1. TextsFit(b)'
      BY <1>5, <1>6, <1>7, <1>9, <2>6, <2>8, FewerWait
    <3> QED BY <1>7, <2>3, <2>8, <3>1
  <2> QED BY <1>5, <1>8, <1>9, <2>2, <2>3, <2>4, <2>6, <2>7, <2>8
<1>10. CASE /\ o = "convert" /\ doc' = d
            /\ CallsNext(o, r, "release", d.etag, {}) /\ UNCHANGED <<session, page, toPage>>
  <2>1. Call(o, r, queue, "release", d.etag, {}) /\ "release" \in Methods /\ {} \in Texts
        /\ Makes(o, "release")
    BY <1>2, <1>10, Bounds DEF CallsNext, Methods, Makes
  <2> PICK etag \in Nat : etag = d.etag
    BY <1>5
  <2>. /\ r.session \in Generations /\ Free(o, r.session, queue) /\ doc'.gen = doc.gen
       /\ Call(o, r, queue, "release", etag, {})
    BY <1>2, <1>4, <1>10, <2>1
  <2>2. /\ Grows /\ MethodsAre' /\ ops'[o].at = "called" /\ \A p \in Op : p # o => ops'[p] = ops[p]
        /\ \A b \in Texts : WritesFit(b) => WritesFit(b)'
    BY <2>1, CallAnswered
  <2>3. PageIs' /\ HostIs'
    BY <1>1, <1>3, <1>5, <1>6, <1>10, HostSame DEF PageIs
  <2>4. WaitingIs' /\ Awaited' \subseteq Awaited
    BY <1>1, <1>3, <1>5, <1>10, <2>2, GoesOn
  <2>5. BackupOK'
    BY <1>6, <1>10, <2>2, BackupStays DEF Op, AskPage
  <2>6. ASSUME NEW b \in Texts, Based(b) PROVE TextsFit(b)' /\ WritesFit(b)'
    <3>1. TextsFit(b)'
      BY <1>5, <1>6, <1>7, <1>10, <2>4, <2>6, FewerWait
    <3> QED BY <1>7, <2>2, <2>6, <3>1
  <2> QED BY <1>5, <1>8, <1>10, <2>2, <2>3, <2>4, <2>5, <2>6
<1>11. CASE /\ o = "rename" /\ Taken(g) /\ Flushes(o, r, "flushAgain", d)
            /\ UNCHANGED <<versions, umbra, session, page>>
  <2>1. "flushAgain" \in Flushing
    BY DEF Flushing
  <2>2. /\ PageIs' /\ HostIs' /\ WaitingIs' /\ ops'[o].at \in Flushing
        /\ \A p \in Op : p # o => ops'[p] = ops[p]
        /\ doc'.etag = d.etag /\ doc'.gen = d.gen
        /\ \A b : TextsFit(b) /\ (d.epoch = 0 => Grew(d.text, b)) => TextsFit(b)'
    BY <1>2, <1>3, <1>5, <1>6, <1>11, <2>1, PageAsked
  <2>3. Remaining /\ Grows
    BY <1>1, <1>2, <1>11, <2>2, TakingLeaves, GrowsNot
  <2>4. MethodsAre' /\ \A b \in Texts : WritesFit(b) => WritesFit(b)'
    BY <1>4, <2>2, <2>3, AnswersRemain
  <2>5. BackupOK'
    BY <1>6, <1>11, <2>2, <2>3, BackupStays DEF Op, AskPage
  <2>6. ASSUME NEW b \in Texts, Based(b) PROVE TextsFit(b)' /\ WritesFit(b)'
    BY <1>5, <1>7, <2>2, <2>4, <2>6
  <2> QED BY <1>5, <1>8, <2>2, <2>3, <2>4, <2>5, <2>6
<1>12. CASE /\ Taken(g) /\ UNCHANGED versions
            /\ doc' = Wiped(d) /\ page' = Down /\ toPage' = <<>>
            /\ ops' = [p \in Op |-> IF p = o \/ Rejected(p) THEN Idle ELSE ops[p]]
  <2>1. /\ doc'.asked = doc.asked /\ doc'.is \in {"closed", "locked"} /\ doc'.is # "closed"
    BY <1>5, <1>12, WipedKeeps
  <2>2. ~Present' /\ PageIs' /\ HostIs'
    BY <1>6, <1>12, <2>1, PageGone, HostSame DEF Present
  <2>3. \A p \in Op : ops'[p] = Idle \/ (ops'[p] = ops[p] /\ ops[p].at \notin Flushing)
    BY <1>12 DEF Rejected
  <2>4. WaitingIs' /\ (ops'["backup"].at = "called" => ops'["backup"] = ops["backup"])
    BY <1>3, <2>3, NobodyWaits
  <2>5. \A k \in Generations : Range(calls'[k]) \subseteq Range(calls[k])
    <3>1. calls' = [calls EXCEPT ![g] = queue] /\ Range(queue) \subseteq Range(calls[g])
      BY <1>2, <1>12 DEF Taken, Free
    <3> QED BY <1>1, <3>1 DEF Typed
  <2> QED BY <1>6, <1>12, <2>2, <2>4, <2>5, LeftKeeps
<1> QED
  <2>1. d = Saved(doc, ops[o], c.etag)
    BY <1>2, <1>4
  <2> HIDE DEF End, Taken, Flushes, CallsNext, Wiped, Saved, Dirty, Rejected
  <2> QED BY <1>2, <2>1, <1>9, <1>10, <1>11, <1>12 DEF SaveAnswered

\* A document is opened: nothing is left of one before it.
LEMMA AttachKeeps ==
  ASSUME IInv, Typed', KeepsInv, NEW g \in Generations, calls[g] # <<>>,
         Head(calls[g]).op = "open", ops["open"].at = "called",
         Taken(g), End("open"), StartPage, UNCHANGED <<versions, session, draft>>,
         NEW text \in Texts, NEW etag \in Nat, NEW isUmbra \in BOOLEAN,
         NEW restored \in BOOLEAN, NEW stale \in BOOLEAN,
         Attach(text, etag, isUmbra, restored, stale),
         Plain => \E b \in Texts : Grew(text, b) /\ (~stale => Grew(versions[etag].text, b))
  PROVE  KeepsInv'
<1>1. /\ Typed /\ WaitingIs /\ HostIs /\ doc.is = "closed" /\ toHost = <<>> /\ "open" \in Op
      /\ doc.gen \in Nat
  BY Sizes DEF IInv, KeepsInv, WaitingIs, HostIs, Op
<1>2. Waiting = {}
  BY <1>1 DEF WaitingIs, Waiting
<1>3. /\ doc'.is = "open" /\ doc'.text = text /\ doc'.etag = etag /\ doc'.gen = doc.gen + 1
      /\ doc'.stale = stale /\ doc'.asked = 0
  BY DEF Attach
<1>4. ops'["open"] = Idle /\ \A p \in Op : p # "open" => ops'[p] = ops[p]
  BY <1>1, TakenIs
<1>5. Remaining /\ Grows
  BY <1>1, <1>4, TakingLeaves, GrowsNot
<1>6. WaitsLess
  BY <1>4, IdleIs DEF WaitsLess, Flushing
<1>7. Waiting' = {}
  BY <1>2, <1>4, IdleIs DEF Waiting, Flushing
<1>8. WaitingIs' /\ Awaited' = {}
  BY <1>1, <1>4, <1>6, <1>7, IdleIs, WaitsStay DEF Awaited
<1>9. MethodsAre' /\ BackupOK'
  BY <1>4, <1>5, BackupStays, FewerMethods DEF Remaining, Op, AskPage
<1>10. PageIs' /\ \A asks, b : QueueFits(toPage', page'.text, asks, b)
  BY <1>1, PageStarts
<1>11. HostIs'
  <2>1. PICK m \in ToHost : /\ m = [type |-> "ready", epoch |-> 0, text |-> {}, ask |-> 0]
                            /\ toHost' = Append(toHost, m) /\ toHost \in Seq(ToHost)
    BY <1>1, PageStarts DEF Typed
  <2>2. Range(toHost') = {m} /\ m.type = "ready" /\ m.epoch = 0 /\ m.ask = 0
    BY <1>1, <2>1, Posted, NoMessage
  <2> QED BY <1>3, <2>2 DEF HostIs
<1>12. ASSUME NEW b PROVE WritesFit(b)'
  <2>1. ASSUME NEW k \in Generations, NEW c \in Range(calls'[k]) PROVE ops'[c.op].doc # doc'.gen
    <3>1. c \in Range(calls[k]) /\ ops'[c.op] = ops[c.op]
      BY <1>5, <2>1 DEF Remaining
    <3>2. c \in Answers
      BY <1>1, <3>1 DEF Typed, Range
    <3>3. c.op \in Op
      BY <3>2 DEF Answers
    <3>4. ops[c.op].doc <= doc.gen /\ ops[c.op].doc \in Nat
      BY <1>1, <3>3, Sizes DEF IInv, OpsOK, OpOK
    <3> QED BY <1>1, <1>3, <3>1, <3>4
  <2> QED BY <2>1 DEF WritesFit
<1>13. ASSUME Plain' PROVE \E b \in Texts : Based(b)'
  <2>1. Plain
    BY <1>13 DEF Plain
  <2>2. PICK b \in Texts : Grew(text, b) /\ (~stale => Grew(versions[etag].text, b))
    BY <2>1
  <2>3. TextsFit(b)'
    BY <1>3, <1>8, <1>10, <2>2 DEF TextsFit, AnswersFit
  <2> QED BY <1>3, <1>12, <2>2, <2>3 DEF Based
<1> QED BY <1>8, <1>9, <1>10, <1>11, <1>13 DEF KeepsInv, BaseOK, Careful

\* A text grew out of what it holds of others' changes.
LEMMA GrewOutOf ==
  ASSUME NEW t \in Texts
  PROVE  Theirs(t) \in Texts /\ Grew(t, Theirs(t))
BY DEF Theirs, Texts, Grew

LEMMA OpenedKeeps == \A g \in Generations : IInv /\ Typed' /\ KeepsInv /\ Opened(g) => KeepsInv'
<1> SUFFICES ASSUME NEW g \in Generations, IInv, Typed', KeepsInv, Opened(g) PROVE KeepsInv'
  OBVIOUS
<1>1. /\ Typed /\ WaitingIs /\ BackupOK /\ calls[g] # <<>>
      /\ Head(calls[g]).method \in {"open", "decrypt"}
      /\ draft.text \in Texts /\ draft.base \in Nat /\ UNCHANGED <<session, draft>>
  BY DEF IInv, Typed, KeepsInv, Opened, Answer
<1>2. PICK c \in Answers : /\ c = Head(calls[g]) /\ c.text \in Texts /\ c.etag \in Nat
                           /\ c.umbra \in BOOLEAN /\ CallOK(g, c) /\ Good(c)
  BY <1>1, AnswerIs DEF Opened
<1>3. /\ c.op = "open" /\ ops["open"].at = "called" /\ "open" \in Op /\ c.ok
      /\ doc.is = "closed" /\ "open" \notin AskPage
  BY <1>1, <1>2, MethodOf, GoodIs DEF MethodIs, Op, AskPage, Mutation, WaitingIs
<1>4. CASE /\ c.method = "open" /\ Attach(c.text, c.etag, c.umbra, FALSE, FALSE)
           /\ StartPage /\ End("open") /\ Taken(g) /\ UNCHANGED versions
  <2>1. c.text = versions[c.etag].text
    BY <1>2, <1>3, <1>4 DEF CallOK, Told
  <2>2. \E b \in Texts : Grew(c.text, b) /\ Grew(versions[c.etag].text, b)
    BY <1>2, <2>1, GrewOutOf
  <2> QED BY <1>1, <1>2, <1>3, <1>4, <2>2, AttachKeeps
<1>5. CASE CallsNext("open", ops["open"], "decrypt", c.etag, {})
           /\ UNCHANGED <<doc, page, toHost, toPage>>
  <2>1. PICK r \in Operation, queue \in Seq(Answers) :
          /\ r = ops["open"] /\ queue = Tail(calls[g]) /\ r.session = g
          /\ Free("open", r.session, queue)
    BY <1>1, <1>2, <1>3, NextSends
  <2>2. /\ Call("open", r, queue, "decrypt", c.etag, {}) /\ "decrypt" \in Methods
        /\ Makes("open", "decrypt") /\ {} \in Texts
    BY <1>5, <2>1, Bounds DEF CallsNext, Methods, Makes
  <2> QED BY <1>1, <1>2, <1>3, <1>5, <2>1, <2>2, CallKeeps
<1>6. CASE /\ End("open") /\ Taken(g) /\ UNCHANGED <<versions, doc, page, toHost, toPage>>
  <2>1. ops'["open"] = Idle /\ \A p \in Op : p # "open" => ops'[p] = ops[p]
    BY <1>1, <1>2, <1>3, <1>6, TakenIs
  <2>2. BackupOK'
    BY <1>1, <1>6, <2>1, GrowsNot, BackupStays DEF Op, AskPage
  <2> QED BY <1>1, <1>2, <1>3, <1>6, <2>2, AnswerKeeps
<1>7. CASE /\ c.method = "decrypt" /\ End("open") /\ Taken(g) /\ UNCHANGED versions
           /\ Attach(draft.text, c.etag, FALSE, TRUE, draft.base # c.etag) /\ StartPage
  <2>1. c.etag \in 1 .. Now /\ Now \in Nat
    BY <1>1, <1>2, <1>3, <1>7, Sizes DEF CallOK
  <2> PICK text \in Texts : text = draft.text
    BY <1>1
  <2>2. PICK stale \in BOOLEAN : stale = (draft.base # c.etag)
    OBVIOUS
  <2>3. versions[c.etag].text \in Texts
    <3>1. versions[c.etag] \in Version
      BY <1>1, <2>1 DEF Typed, Now
    <3> QED BY <3>1 DEF Version
  <2>4. ASSUME Plain
        PROVE  \E b \in Texts : Grew(text, b) /\ (~stale => Grew(versions[c.etag].text, b))
    <3>1. CASE ~stale /\ 0 \in versions[c.etag].text
      <4>1. Grew(text, Theirs(versions[c.etag].text))
        <5>1. draft.base = c.etag
          BY <2>2, <3>1
        <5>2. c.etag >= 1
          BY <2>1
        <5> QED BY <1>1, <2>4, <3>1, <5>1, <5>2 DEF BackupOK, Rooted
      <4> QED BY <2>3, <4>1, GrewOutOf
    <3>2. CASE stale \/ 0 \notin versions[c.etag].text
      <4>1. \A b : ~stale => Grew(versions[c.etag].text, b)
        BY <3>2 DEF Grew
      <4> QED BY <1>1, <4>1, GrewOutOf
    <3> QED BY <3>1, <3>2
  <2> QED BY <1>1, <1>2, <1>3, <1>7, <2>2, <2>4, AttachKeeps
<1> QED
  <2> HIDE DEF End, Taken, Attach, CallsNext, StartPage
  <2> QED BY <1>1, <1>2, <1>3, <1>4, <1>5, <1>6, <1>7 DEF Opened

-----------------------------------------------------------------------------
(* A snapshot that somebody waits for.                                     *)

LEMMA SynchronizedKeeps ==
  ASSUME IInv, Typed', KeepsInv, NEW o \in Op, NEW r \in Operation, r = ops[o],
         ops[o].at \in Flushing, NEW m \in ToHost, toHost # <<>>, m = Head(toHost),
         m.type = "snapshot", m.ask = ops[o].ask, doc.is = "open",
         NEW d \in Document, d.is = "open", d.asked = doc.asked, d.stale = doc.stale,
         d.etag = doc.etag, d.gen = doc.gen, d.text = m.text,
         toHost' = Tail(toHost), UNCHANGED draft, Synchronized(o, r, d)
  PROVE  KeepsInv'
<1>1. /\ Typed /\ PageIs /\ WaitingIs /\ doc.asked \in Nat /\ Present /\ d.etag \in Nat
      /\ d.text \in Texts /\ d.revision \in Nat
  BY DEF IInv, Typed, KeepsInv, Document, Present
<1>2. /\ o \in AskPage /\ session.is = "unlocked" /\ r.session = session.gen
      /\ o = "backup" => ~doc.stale
      /\ ops["revert"].at = "idle" /\ ops["open"].at = "idle" /\ ops[o].at # "called"
      /\ o \notin {"open", "revert", "lockUmbra"}
      /\ o = "backup" => ops[o].at # "saveFlush"
  BY <1>1 DEF WaitingIs, Waiting, Flushing, AskPage, Mutation
<1>3. m.ask \in Awaited /\ m \in Range(toHost) /\ Range(toHost') \subseteq Range(toHost)
  BY AtEpochIs DEF Awaited, Waiting
<1>4. ASSUME NEW b \in Texts, Based(b)
      PROVE  TextsFit(b) /\ WritesFit(b) /\ Grew(d.text, b)
  BY <1>3, <1>4 DEF Based, TextsFit, AnswersFit
<1>5. PICK queue \in Seq(Answers) : queue = calls[r.session] /\ r.session \in Generations
  BY <1>1, <1>2, Sizes DEF Typed, Generations
<1>6. Free(o, r.session, queue)
  BY <1>2, <1>5, NotCalled
<1>7. \* The operation calls.
      ASSUME doc' = d, UNCHANGED <<session, page, toPage>>, NEW w \in Operation,
             NEW method \in Methods, NEW etag \in Nat, NEW text \in Texts,
             w.session = r.session, Call(o, w, queue, method, etag, text), Makes(o, method),
             method = "write" => text = d.text,
             o = "backup" => w.etag = d.etag /\ w.text = d.text
      PROVE  KeepsInv'
  <2>1. /\ Grows /\ MethodsAre' /\ ops'[o].at = "called" /\ ops'[o].etag = w.etag
        /\ ops'[o].text = w.text /\ \A p \in Op : p # o => ops'[p] = ops[p]
        /\ \A b \in Texts : /\ WritesFit(b) /\ doc'.gen = doc.gen
                            /\ method = "write" => Grew(text, b)
                            => WritesFit(b)'
    BY <1>5, <1>6, <1>7, CallAnswered
  <2>2. WaitingIs' /\ Awaited' \subseteq Awaited
    BY <1>1, <1>2, <1>7, <2>1, GoesOn
  <2>3. PageIs' /\ HostIs' /\ SameBase
    BY <1>1, <1>7, TakenKeeps DEF PageIs, SameBase
  <2>4. ASSUME NEW b \in Texts, Based(b) PROVE TextsFit(b)' /\ WritesFit(b)'
    <3>1. TextsFit(b)'
      BY <1>3, <1>4, <1>7, <2>2, <2>4, FewerWait
    <3> QED BY <1>4, <1>7, <2>1, <2>4, <3>1
  <2>5. BackupOK'
    <3>1. CASE o # "backup"
      BY <2>1, <3>1, BackupStays DEF Op, AskPage
    <3>2. CASE o = "backup"
      <4>1. Rooted(d.etag, d.text)
        <5>1. ASSUME Plain, 0 \in versions[d.etag].text
              PROVE  Grew(d.text, Theirs(versions[d.etag].text))
          <6>1. PICK b \in Texts : Based(b)
            BY <1>1, <5>1 DEF KeepsInv, BaseOK
          <6>2. Grew(versions[d.etag].text, b) /\ Grew(d.text, b)
            BY <1>2, <1>4, <3>2, <6>1 DEF Based
          <6> QED BY <5>1, <6>2 DEF Grew
        <5> QED BY <5>1 DEF Rooted
      <4>2. /\ draft.base \in Nat /\ draft.base <= Now /\ d.etag <= Now
            /\ Rooted(draft.base, draft.text)
        BY <1>1, Sizes DEF IInv, DraftOK, DocOK, KeepsInv, BackupOK
      <4> PICK base \in Nat, now \in Nat : base = draft.base /\ now = d.etag
        BY <1>1, <4>2
      <4> PICK old, new : old = draft.text /\ new = d.text
        OBVIOUS
      <4>3. Rooted(base, old)' /\ Rooted(now, new)'
        BY <1>1, <2>1, <4>1, <4>2, RootedStays
      <4>4. draft'.base = base /\ draft'.text = old
        OBVIOUS
      <4>5. ops'["backup"].etag = now /\ ops'["backup"].text = new
        BY <1>7, <2>1, <3>2
      <4> QED BY <4>3, <4>4, <4>5 DEF BackupOK, Rooted
    <3> QED BY <3>1, <3>2
  <2> QED BY <1>1, <2>1, <2>2, <2>3, <2>4, <2>5, KeepStep
<1>8. CASE doc' = d /\ Calls(o, [r EXCEPT !.rev = d.revision], "write", d.etag, d.text)
           /\ UNCHANGED <<session, page, toPage>> /\ r.at = "saveFlush"
  <2>1. PICK w \in Operation : w = [r EXCEPT !.rev = d.revision]
    BY <1>1 DEF Operation
  <2>2. w.session = r.session
    BY <2>1 DEF Operation
  <2>3. Call(o, w, queue, "write", d.etag, d.text)
    BY <1>5, <1>8, <2>1, <2>2 DEF Calls
  <2>4. "write" \in Methods /\ Makes(o, "write") /\ o # "backup"
    BY <1>2, <1>8 DEF Methods, Makes
  <2> QED BY <1>1, <1>7, <1>8, <2>2, <2>3, <2>4
<1>9. CASE /\ o = "backup" /\ doc' = d
           /\ Calls(o, [r EXCEPT !.etag = d.etag, !.text = d.text], "draft", d.etag, d.text)
           /\ UNCHANGED <<session, page, toPage>>
  <2>1. PICK w \in Operation : w = [r EXCEPT !.etag = d.etag, !.text = d.text]
    BY <1>1 DEF Operation
  <2>2. w.session = r.session /\ w.etag = d.etag /\ w.text = d.text
    BY <2>1 DEF Operation
  <2>3. Call(o, w, queue, "draft", d.etag, d.text) /\ "draft" \in Methods /\ Makes(o, "draft")
    BY <1>2, <1>5, <1>9, <2>1, <2>2 DEF Calls, Methods, Makes
  <2> QED BY <1>1, <1>7, <1>9, <2>2, <2>3
<1>10. CASE /\ o = "convert" /\ doc' = d /\ Calls(o, r, "release", d.etag, {})
            /\ UNCHANGED <<session, page, toPage>>
  <2>1. Call(o, r, queue, "release", d.etag, {}) /\ "release" \in Methods /\ Makes(o, "release")
        /\ {} \in Texts
    BY <1>2, <1>5, <1>10, Bounds DEF Calls, Methods, Makes
  <2> QED BY <1>1, <1>7, <1>10, <2>1
<1>11. CASE /\ o = "convert" /\ Flushes(o, r, "saveFlush", d)
            /\ UNCHANGED <<versions, session, page, calls>>
  <2>1. "saveFlush" \in Flushing
    BY DEF Flushing
  <2>2. \A b \in Texts : Based(b) /\ d.epoch = 0 => Grew(d.text, b)
    BY <1>4
  <2> QED BY <1>2, <1>11, <2>1, <2>2, AskKeeps
<1>12. CASE /\ doc' = [d EXCEPT !.is = "frozen"] /\ page' = Down /\ toPage' = <<>>
            /\ ops' = [p \in Op |-> IF p = o THEN [r EXCEPT !.at = "closing", !.etag = d.etag]
                                   ELSE IF ops[p].at \in Flushing THEN Idle ELSE ops[p]]
            /\ UNCHANGED <<versions, session, calls>>
  <2>1. /\ doc'.is = "frozen" /\ doc'.asked = doc.asked /\ doc'.gen = doc.gen /\ SameBase
        /\ doc'.text = d.text
    BY <1>12 DEF Document, SameBase
  <2>2. ops'[o].at = "closing"
    BY <1>12 DEF Operation
  <2>3. \A p \in Op : \/ ops'[p] = ops[p] /\ ops[p].at \notin Flushing
                      \/ /\ ops[p].at \in Flushing
                         /\ ops'[p].at \in {"closing", "idle"}
    BY <1>12, <2>2, IdleIs
  <2>4. Waiting' = {} /\ WaitsLess
        /\ \A p \in Op : ops'[p] = ops[p] \/ (ops[p].at # "called" /\ ops'[p].at # "called")
    BY <2>3 DEF Waiting, WaitsLess, Flushing
  <2>5. WaitingIs' /\ Awaited' = {}
    BY <1>1, <2>4, WaitsStay DEF Awaited
  <2>6. PageIs' /\ \A asks, b : QueueFits(toPage', page'.text, asks, b)
    BY <1>12, PageGone
  <2>7. HostIs'
    BY <1>1, <2>1, TakenKeeps
  <2>8. ASSUME NEW b \in Texts, Based(b) PROVE TextsFit(b)'
    BY <1>4, <2>1, <2>5, <2>6, <2>8 DEF TextsFit, AnswersFit
  <2> QED BY <1>1, <1>12, <2>1, <2>4, <2>5, <2>6, <2>7, <2>8, StillKeeps
<1>13. \* The operation asks the user, or ends.
       CASE /\ doc' = d /\ ops'[o].at \in {"asking", "idle"}
            /\ ops'[o].at = "asking" => o \in {"rename", "lock"}
            /\ \A p \in Op : p # o => ops'[p] = ops[p]
            /\ UNCHANGED <<versions, session, page, toPage, calls>>
  <2>1. WaitingIs' /\ Awaited' \subseteq Awaited
    <3>1. doc'.is = "open" /\ doc'.asked = doc.asked /\ doc'.stale = doc.stale
      BY <1>13
    <3>2. ops'[o].at \in {"called", "asking", "idle"} /\ doc.asked <= doc'.asked
      BY <1>1, <1>13, <3>1
    <3> QED BY <1>2, <1>13, <3>1, <3>2, GoesOn
  <2>2. PageIs' /\ HostIs' /\ SameBase
    BY <1>1, <1>13, TakenKeeps DEF PageIs, SameBase
  <2>3. ASSUME NEW b \in Texts, Based(b) PROVE TextsFit(b)'
    BY <1>3, <1>4, <1>13, <2>1, <2>3, FewerWait
  <2>4. \A p \in Op : ops'[p] = ops[p] \/ (ops[p].at # "called" /\ ops'[p].at # "called")
    BY <1>2, <1>13
  <2> QED BY <1>1, <1>13, <2>1, <2>2, <2>3, <2>4, StillKeeps
<1>14. CASE o \in {"rename", "lock"} /\ doc' = d /\ Set(o, [r EXCEPT !.at = "asking"])
            /\ UNCHANGED <<versions, session, page, toPage, calls>>
  <2>1. ops'[o].at = "asking" /\ \A p \in Op : p # o => ops'[p] = ops[p]
    BY <1>1, <1>14 DEF Set, Typed, Operation
  <2> QED BY <1>13, <1>14, <2>1
<1>15. CASE doc' = d /\ End(o) /\ UNCHANGED <<versions, session, page, toPage, calls>>
  <2>1. ops'[o].at = "idle" /\ \A p \in Op : p # o => ops'[p] = ops[p]
    BY <1>1, <1>15, IdleIs DEF End, Set, Typed
  <2> QED BY <1>13, <1>15, <2>1
<1>16. CASE /\ doc' = Wiped(d) /\ page' = Down /\ toPage' = <<>>
            /\ ops' = [p \in Op |-> IF p = o \/ Rejected(p) THEN Idle ELSE ops[p]]
            /\ UNCHANGED <<versions, calls>>
  <2>1. doc'.asked = doc.asked /\ doc'.is \in {"closed", "locked"} /\ doc'.is # "closed"
    BY <1>16, WipedKeeps
  <2>2. ~Present' /\ PageIs' /\ HostIs'
    BY <1>1, <1>16, <2>1, PageGone, TakenKeeps DEF Present
  <2>3. \A p \in Op : ops'[p] = Idle \/ (ops'[p] = ops[p] /\ ops[p].at \notin Flushing)
    BY <1>16 DEF Rejected
  <2>4. WaitingIs' /\ (ops'["backup"].at = "called" => ops'["backup"] = ops["backup"])
    BY <2>3, NobodyWaits
  <2> QED BY <1>16, <2>2, <2>4, LeftKeeps
<1> HIDE DEF Calls, Flushes, Set, End, Wiped, Rejected
<1> QED BY <1>8, <1>9, <1>10, <1>11, <1>12, <1>14, <1>15, <1>16 DEF Synchronized

LEMMA ReceiveSnapshotKeeps == IInv /\ Typed' /\ KeepsInv /\ ReceiveSnapshot => KeepsInv'
<1> SUFFICES ASSUME IInv, Typed', KeepsInv, ReceiveSnapshot PROVE KeepsInv'
  OBVIOUS
<1>1. /\ toHost # <<>> /\ toHost' = Tail(toHost) /\ UNCHANGED <<draft, spent>>
  BY DEF ReceiveSnapshot
<1>2. PICK m \in ToHost, d \in Document :
        /\ m = Head(toHost) /\ d = Edited(AtEpoch(m), m.text)
        /\ d.is = doc.is /\ d.asked = doc.asked /\ d.stale = doc.stale
        /\ d.etag = doc.etag /\ d.gen = doc.gen /\ d.text = m.text
  BY <1>1, AtEpochIs, EditedKeeps
<1>3. PICK o \in Op : /\ m.type = "snapshot" /\ doc.is = "open" /\ ops[o].at \in Flushing
                      /\ ops[o].ask = m.ask /\ Synchronized(o, ops[o], d)
  BY <1>2 DEF ReceiveSnapshot
<1>4. PICK r \in Operation : r = ops[o]
  BY Sizes DEF IInv
<1> QED BY <1>1, <1>2, <1>3, <1>4, SynchronizedKeeps

-----------------------------------------------------------------------------
(* The second invariant, and what it says of commits.                      *)

LEMMA InitKeeps == Init /\ Careful => KeepsInv
<1> SUFFICES ASSUME Init, Careful PROVE KeepsInv
  OBVIOUS
<1>1. /\ toHost = <<>> /\ toPage = <<>>
      /\ ops = [o \in Op |-> Idle] /\ calls = [g \in Generations |-> <<>>]
  BY DEF Init
<1>2. \A o \in Op : ops[o].at = "idle"
  BY <1>1, IdleIs
<1>3. Waiting = {} /\ Awaited = {}
  BY <1>2 DEF Waiting, Awaited, Flushing
<1>4. WaitingIs
  BY <1>2, <1>3 DEF WaitingIs, Op, AskPage
<1>5. MethodsAre /\ HostIs /\ \A b : WritesFit(b)
  BY <1>1, NoMessage DEF MethodsAre, HostIs, WritesFit
<1>6. ops["backup"].at # "called"
  BY <1>2 DEF Op, AskPage
<1>7. CASE OpenAtFirst
  <2>1. /\ page.up /\ ~page.timer /\ page.text = {0} /\ draft.base = 0
    BY <1>7 DEF OpenAtFirst, Down, NoDraft
  <2>2. /\ doc.text = {0} /\ doc.etag = 1
    BY <1>7 DEF OpenAtFirst, Closed
  <2>3. versions[doc.etag].text = {0}
    BY <1>7, <2>2 DEF OpenAtFirst
  <2>4. Grew({0}, {}) /\ {} \in Texts
    BY Bounds DEF Grew, Theirs
  <2>5. TextsFit({})
    BY <1>1, <1>3, <2>1, <2>2, <2>4, NothingSent DEF TextsFit, AnswersFit
  <2>6. BaseOK
    BY <1>5, <2>3, <2>4, <2>5 DEF BaseOK, Based
  <2>7. PageIs
    BY <1>1, <2>1, NoMessage DEF PageIs
  <2>8. BackupOK
    BY <1>6, <2>1 DEF BackupOK, Rooted
  <2> QED BY <1>4, <1>5, <2>6, <2>7, <2>8 DEF KeepsInv
<1>8. CASE BackupLeft
  <2>1. /\ doc.is = "closed" /\ page = Down /\ draft = [base |-> 1, text |-> {0, 1}]
        /\ 1 \in 1 .. MaxTyped
    BY <1>8, Bounds DEF BackupLeft, Closed
  <2>2. BaseOK /\ PageIs
    BY <1>1, <2>1, PageGone, NoMessage DEF BaseOK, Present, PageIs, Down
  <2>3. versions[1].text = {0}
    <3>1. PICK v : v = [text |-> {0}, kind |-> "plain"]
      OBVIOUS
    <3>2. PICK others \in 0 .. MaxOthers, kind \in {"plain", "umbra"} :
            versions = <<v>> \o [i \in 1 .. others |->
                                   [text |-> {0} \cup (MaxTyped + 1 .. MaxTyped + i), kind |-> kind]]
      BY <1>8, <3>1 DEF BackupLeft
    <3>3. PICK s : s = [i \in 1 .. others |->
                          [text |-> {0} \cup (MaxTyped + 1 .. MaxTyped + i), kind |-> kind]]
      OBVIOUS
    <3>4. others \in Nat
      BY <3>2, Bounds
    <3>5. PICK S : v \in S /\ s \in Seq(S)
      <4> DEFINE S == {v} \cup {s[i] : i \in 1 .. others}
      <4>1. s \in [1 .. others -> S]
        BY <3>3
      <4>2. s \in Seq(S)
        BY <3>4, <4>1, Listed
      <4> QED BY <4>2
    <3>6. <<v>> \in Seq(S) /\ Len(<<v>>) = 1 /\ <<v>>[1] = v
      BY <3>5
    <3>7. (<<v>> \o s)[1] = v
      BY <3>5, <3>6
    <3> QED BY <3>1, <3>2, <3>3, <3>7
  <2>4. Grew({0, 1}, Theirs({0}))
    BY <2>1, Bounds DEF Grew, Theirs
  <2>5. BackupOK
    BY <1>6, <2>1, <2>3, <2>4 DEF BackupOK, Rooted
  <2> QED BY <1>4, <1>5, <2>2, <2>5 DEF KeepsInv
<1> QED BY <1>7, <1>8 DEF Init

LEMMA StutterKeeps == IInv /\ Typed' /\ KeepsInv /\ UNCHANGED vars => KeepsInv'
<1> SUFFICES ASSUME IInv, Typed', KeepsInv, UNCHANGED vars PROVE KeepsInv'
  OBVIOUS
<1>1. UNCHANGED <<versions, session, umbra, doc, page, toHost, toPage, ops, calls, draft, spent>>
  BY DEF vars
<1>2. /\ PageIs' /\ HostIs' /\ WaitingIs' /\ SameBase /\ (Present' => Present)
      /\ Awaited' = Awaited
  BY <1>1 DEF KeepsInv, PageIs, HostIs, WaitingIs, Waiting, Awaited, SameBase, Present
<1>3. \A b \in Texts : Based(b) => TextsFit(b)'
  BY <1>1, <1>2 DEF Based, TextsFit
<1> QED BY <1>1, <1>2, <1>3, StillKeeps

LEMMA StepKeeps == IInv /\ KeepsInv /\ [Next]_vars => KeepsInv'
<1> SUFFICES ASSUME IInv, KeepsInv, [Next]_vars PROVE KeepsInv'
  OBVIOUS
<1> Typed'
  BY StepHolds DEF IInv
<1>1. CASE UNCHANGED vars
  BY <1>1, StutterKeeps
<1>2. CASE Hide \/ Show \/ Type \/ SendEdit \/ PageReceives
  BY <1>2, HideKeeps, ShowKeeps, TypeKeeps, SendEditKeeps, PageReceivesKeeps
<1>3. CASE Ignore \/ ReceiveReady \/ ReceiveEdit \/ ReceiveSnapshot
  BY <1>3, IgnoreKeeps, ReceiveReadyKeeps, ReceiveEditKeeps, ReceiveSnapshotKeeps
<1>4. CASE StartOpen \/ StartLockUmbra \/ Discard \/ CloseTab \/ LockClosed
  BY <1>4, StartOpenKeeps, StartLockUmbraKeeps, DiscardKeeps, CloseTabKeeps, LockClosedKeeps
<1>5. CASE Expire \/ Unlock \/ Crash \/ OtherCommits
  BY <1>5, ExpireKeeps, UnlockKeeps, CrashKeeps, OtherCommitsKeeps
<1>6. ASSUME NEW o \in Op,
             \/ FlushFails(o) \/ StartFlush(o) \/ StartCall(o)
             \/ SaveFirst(o) \/ GiveUp(o) \/ CloseForMutation(o)
      PROVE  KeepsInv'
  BY <1>6, FlushFailsKeeps, StartFlushKeeps, StartCallKeeps, SaveFirstKeeps, GiveUpKeeps,
     CloseForMutationKeeps
<1>7. ASSUME NEW g \in Generations,
             \/ Drop(g) \/ SaveAnswered(g) \/ Adopt(g)
             \/ BackedUp(g) \/ ConvertOn(g) \/ Opened(g) \/ LockedUmbra(g)
      PROVE  KeepsInv'
  BY <1>7, DropKeeps, SaveAnsweredKeeps, AdoptKeeps, BackedUpKeeps, ConvertOnKeeps, OpenedKeeps,
     LockedUmbraKeeps
<1> QED BY <1>1, <1>2, <1>3, <1>4, <1>5, <1>6, <1>7 DEF Next

\* A commit that keeps what others had written into the version it replaces.
Replaces == Len(versions') > Len(versions) /\ 0 \in Latest.text \cap Last(versions').text
KeepsOthers == Replaces => Theirs(Latest.text) \subseteq Last(versions').text \/ doc.stale

LEMMA NoneCommitted ==
  ASSUME Typed, UNCHANGED versions
  PROVE  KeepsOthers
BY Sizes DEF KeepsOthers, Replaces, Now

LEMMA AddedKeeps ==
  ASSUME Typed, NEW v \in Version, versions' = versions \o <<v>>,
         0 \in Latest.text \cap v.text => Theirs(Latest.text) \subseteq v.text \/ doc.stale
  PROVE  KeepsOthers
<1>1. versions \in Seq(Version) /\ Len(versions) > 0
  BY DEF Typed
<1>2. versions'[Len(versions')] = v
  BY <1>1, Added
<1>3. Last(versions') = v
  BY <1>2 DEF Last
<1> QED BY <1>3 DEF KeepsOthers, Replaces

\* Of the calls only a write has a text of its own.
LEMMA CallKeepsOthers ==
  ASSUME Typed, NEW o, NEW r, NEW queue, NEW method \in Methods, NEW etag, NEW text \in Texts,
         Call(o, r, queue, method, etag, text),
         method = "write" /\ Plain /\ etag = Now /\ 0 \in Latest.text \cap text
           => Theirs(Latest.text) \subseteq text \/ doc.stale
  PROVE  KeepsOthers
<1>0. Theirs(Latest.text) \subseteq Latest.text
  BY DEF Theirs
<1>1. CASE UNCHANGED versions
  BY <1>1, NoneCommitted
<1>2. CASE Allowed(method, r.session, etag, text) /\ versions' = versions \o Commits(method, text)
  <2>1. Latest \in Version /\ (Plain <=> Latest.kind = "plain") /\ Latest.text \in Texts
        /\ versions \in Seq(Version)
    BY LatestIs DEF Typed
  <2>2. CASE method = "write"
    <3>1. PICK v \in Version : v = [text |-> text, kind |-> "plain"]
      BY DEF Version, Kinds
    <3>2. versions' = versions \o <<v>> /\ Plain /\ etag = Now /\ v.text = text
      BY <1>2, <2>1, <2>2, <3>1 DEF Commits, Allowed, Now, Version
    <3> QED BY <2>2, <3>2, AddedKeeps
  <2>3. CASE method = "convert"
    <3>1. PICK v \in Version : v = [Latest EXCEPT !.kind = "umbra"]
      BY <2>1 DEF Version, Kinds
    <3>2. versions' = versions \o <<v>>
      BY <1>2, <2>3, <3>1 DEF Commits
    <3>3. v.text = Latest.text
      BY <2>1, <3>1 DEF Version
    <3> QED BY <1>0, <3>2, <3>3, AddedKeeps
  <2>4. CASE method \in {"annotate", "rename"}
    <3>1. versions' = versions \o <<Latest>>
      BY <1>2, <2>4 DEF Commits
    <3> QED BY <1>0, <2>1, <3>1, AddedKeeps
  <2>5. CASE method = "delete"
    <3>1. PICK v \in Version : v = [text |-> {}, kind |-> "gone"]
      BY Bounds DEF Version, Kinds
    <3>2. versions' = versions \o <<v>>
      BY <1>2, <2>5, <3>1 DEF Commits
    <3>3. v.text = {}
      BY <3>1
    <3> QED BY <3>2, <3>3, AddedKeeps
  <2>6. CASE method \notin {"write", "convert", "annotate", "rename", "delete"}
    <3>1. versions' = versions \o <<>>
      BY <1>2, <2>6 DEF Commits
    <3>2. versions' = versions
      BY <2>1, <3>1
    <3> QED BY <3>2, NoneCommitted
  <2> QED BY <2>2, <2>3, <2>4, <2>5, <2>6
<1> QED BY <1>1, <1>2 DEF Call

LEMMA OtherCommitsKeepsOthers == IInv /\ OtherCommits => KeepsOthers
<1> SUFFICES ASSUME IInv, OtherCommits PROVE KeepsOthers
  OBVIOUS
<1>1. Typed /\ Latest \in Version /\ Latest.text \in Texts /\ NewTheirs \in 0 .. MaxTyped + MaxOthers
      /\ Theirs(Latest.text) \subseteq Latest.text
  BY LatestIs, MarkIs DEF IInv, OtherCommits, Theirs
<1>2. Latest.text \cup {NewTheirs} \in Texts
  BY <1>1 DEF Texts
<1>3. PICK v \in Version : v = [Latest EXCEPT !.text = Latest.text \cup {NewTheirs}]
  <2>1. PICK t \in Texts : t = Latest.text \cup {NewTheirs}
    BY <1>2
  <2>2. [Latest EXCEPT !.text = t] \in Version
    BY <1>1 DEF Version
  <2> QED BY <2>1, <2>2
<1>4. versions \in Seq(Version) /\ versions' = Append(versions, v)
  BY <1>1, <1>3 DEF Typed, OtherCommits
<1>5. versions' = versions \o <<v>>
  BY <1>4
<1>6. v.text = Latest.text \cup {NewTheirs}
  BY <1>1, <1>3 DEF Version
<1> QED BY <1>1, <1>5, <1>6, AddedKeeps

\* A save sends the text of the page: it grew out of the version it replaces.
LEMMA SnapshotKeepsOthers == IInv /\ KeepsInv /\ ReceiveSnapshot => KeepsOthers
<1> SUFFICES ASSUME IInv, KeepsInv, ReceiveSnapshot PROVE KeepsOthers
  OBVIOUS
<1>1. Typed /\ toHost # <<>>
  BY DEF IInv, ReceiveSnapshot
<1>2. PICK m \in ToHost, d \in Document :
        /\ m = Head(toHost) /\ m \in Range(toHost) /\ d = Edited(AtEpoch(m), m.text)
        /\ d.etag = doc.etag /\ d.text = m.text
  BY <1>1, AtEpochIs, EditedKeeps
<1>3. PICK o \in Op : /\ m.type = "snapshot" /\ doc.is = "open" /\ ops[o].at \in Flushing
                      /\ ops[o].ask = m.ask /\ Synchronized(o, ops[o], d)
  BY <1>2 DEF ReceiveSnapshot
<1>4. m.ask \in Awaited /\ d.text \in Texts /\ d.etag \in Nat /\ {} \in Texts
  BY <1>3, Bounds DEF Awaited, Waiting, Document
<1>5. ASSUME Plain, d.etag = Now, 0 \in Latest.text \cap d.text
      PROVE  Theirs(Latest.text) \subseteq d.text \/ doc.stale
  <2>1. PICK b \in Texts : Based(b)
    BY <1>3, <1>5 DEF KeepsInv, BaseOK, Present
  <2>2. Grew(d.text, b)
    BY <1>2, <1>3, <1>4, <2>1 DEF Based, TextsFit, AnswersFit
  <2>3. Latest = versions[doc.etag]
    BY <1>1, <1>2, <1>5, LatestIs
  <2>4. ~doc.stale => Grew(Latest.text, b)
    BY <2>1, <2>3 DEF Based
  <2> QED BY <1>5, <2>2, <2>4 DEF Grew, Theirs
<1>6. \/ UNCHANGED versions
      \/ \E r : \E method \in {"write", "draft", "release"}, text \in {d.text, {}} :
           Calls(o, r, method, d.etag, text) /\ (method = "write" => text = d.text)
  <2> HIDE DEF Calls, Dirty, MayFreeze, Wiped, Rejected, Set, End
  <2> QED BY <1>3 DEF Synchronized, Flushes
<1>7. CASE UNCHANGED versions
  BY <1>1, <1>7, NoneCommitted
<1>8. ASSUME NEW r, NEW method \in {"write", "draft", "release"}, NEW text \in {d.text, {}},
             Calls(o, r, method, d.etag, text), method = "write" => text = d.text
      PROVE  KeepsOthers
  <2>1. method \in Methods /\ text \in Texts /\ Call(o, r, calls[r.session], method, d.etag, text)
    BY <1>4, <1>8 DEF Methods, Calls
  <2> QED BY <1>1, <1>5, <1>8, <2>1, CallKeepsOthers
<1> QED BY <1>6, <1>7, <1>8

\* The other calls that are made: none has a text of its own.
LEMMA CallsKeepOthers ==
  ASSUME Typed, NEW o, NEW r, NEW method \in Methods, method # "write", NEW etag, NEW text \in Texts,
         Calls(o, r, method, etag, text) \/ CallsNext(o, r, method, etag, text)
  PROVE  KeepsOthers
BY CallKeepsOthers DEF Calls, CallsNext

LEMMA StartsKeepOthers ==
  ASSUME IInv, StartOpen \/ StartLockUmbra \/ \E o \in Op : StartCall(o) \/ CloseForMutation(o)
  PROVE  KeepsOthers
<1>1. Typed /\ doc.text \in Texts /\ {} \in Texts
  BY Bounds DEF IInv, Typed, Document
<1>2. {"open", "lockUmbra", "project", "read", "annotate"} \cup Mutation \subseteq Methods \ {"write"}
  BY DEF Methods, Mutation
<1>3. CASE StartOpen \/ StartLockUmbra
  BY <1>1, <1>2, <1>3, CallsKeepOthers DEF StartOpen, StartLockUmbra
<1>4. ASSUME NEW o \in Op, StartCall(o) PROVE KeepsOthers
  <2>1. \E method \in {"project", "read", "annotate"}, etag \in {0, doc.etag}, text \in {{}, doc.text} :
          Calls(o, Entered(o), method, etag, text)
    BY <1>4 DEF StartCall
  <2> QED BY <1>1, <1>2, <2>1, CallsKeepOthers
<1>5. ASSUME NEW o \in Op, CloseForMutation(o) PROVE KeepsOthers
  <2>1. UNCHANGED versions \/ (o \in Mutation /\ Calls(o, ops[o], o, ops[o].etag, {}))
    BY <1>5 DEF CloseForMutation
  <2> QED BY <1>1, <1>2, <2>1, CallsKeepOthers, NoneCommitted
<1> QED BY <1>3, <1>4, <1>5

LEMMA AnswersKeepOthers ==
  ASSUME IInv, NEW g \in Generations, SaveAnswered(g) \/ ConvertOn(g) \/ Opened(g)
  PROVE  KeepsOthers
<1>1. Typed /\ {} \in Texts /\ {"release", "convert", "project", "decrypt"} \subseteq Methods \ {"write"}
  BY Bounds DEF IInv, Methods
<1>2. \/ UNCHANGED versions
      \/ \E o, r, etag : \E method \in {"release", "convert", "project", "decrypt"} :
           CallsNext(o, r, method, etag, {})
  <2> HIDE DEF CallsNext, Dirty, Wiped, Rejected, End, Attach, StartPage, Taken, Saved
  <2>1. CASE SaveAnswered(g)
    BY <2>1 DEF SaveAnswered, Flushes
  <2>2. CASE ConvertOn(g)
    BY <2>2 DEF ConvertOn
  <2>3. CASE Opened(g)
    BY <2>3 DEF Opened
  <2> QED BY <2>1, <2>2, <2>3
<1> QED BY <1>1, <1>2, CallsKeepOthers, NoneCommitted

\* What the editor commits holds what other clients had written into the version
\* that it replaces, unless the user let a draft with an old base replace it
\* (SaveKeepsOthers): as long as no revert overlaps with an operation that asks
\* the page, and no draft that is out of date is backed up again.
THEOREM OthersAreKept == ~Overlap /\ ~StaleBackup /\ Spec => SaveKeepsOthers
<1>1. IInv /\ KeepsInv /\ [Next]_vars => [KeepsOthers]_vars
  <2> SUFFICES ASSUME IInv, KeepsInv, Next PROVE KeepsOthers
    OBVIOUS
  <2>1. CASE UNCHANGED versions
    BY <2>1, NoneCommitted DEF IInv
  <2>2. CASE ReceiveSnapshot \/ OtherCommits
    BY <2>2, SnapshotKeepsOthers, OtherCommitsKeepsOthers
  <2>3. CASE \/ StartOpen \/ StartLockUmbra
             \/ \E o \in Op : StartCall(o) \/ CloseForMutation(o)
    BY <2>3, StartsKeepOthers
  <2>4. CASE \E g \in Generations : SaveAnswered(g) \/ ConvertOn(g) \/ Opened(g)
    BY <2>4, AnswersKeepOthers
  <2>5. \/ Hide \/ Show \/ Type \/ SendEdit \/ PageReceives \/ Ignore \/ ReceiveReady
        \/ ReceiveEdit \/ Discard \/ CloseTab \/ LockClosed \/ Expire \/ Unlock \/ Crash
        => UNCHANGED versions
    BY DEF Hide, Show, Type, SendEdit, PageReceives, Ignore, ReceiveReady, ReceiveEdit, Discard,
       CloseTab, LockClosed, Expire, Unlock, Crash
  <2>6. ASSUME NEW o \in Op, FlushFails(o) \/ StartFlush(o) \/ SaveFirst(o) \/ GiveUp(o)
        PROVE  UNCHANGED versions
    BY <2>6 DEF FlushFails, StartFlush, SaveFirst, GiveUp
  <2>7. ASSUME NEW g \in Generations, Drop(g) \/ Adopt(g) \/ BackedUp(g) \/ LockedUmbra(g)
        PROVE  UNCHANGED versions
    BY <2>7 DEF Drop, Adopt, BackedUp, LockedUmbra
  <2> QED BY <2>1, <2>2, <2>3, <2>4, <2>5, <2>6, <2>7 DEF Next
<1>2. [KeepsOthers]_vars =>
        [Len(versions') > Len(versions) /\ 0 \in Latest.text \cap Last(versions').text
           => Theirs(Latest.text) \subseteq Last(versions').text \/ doc.stale]_vars
  BY DEF KeepsOthers, Replaces
<1>3. Careful <=> ~Overlap /\ ~StaleBackup
  BY DEF Careful
<1> QED BY <1>1, <1>2, <1>3, InitHolds, StepHolds, InitKeeps, StepKeeps, PTL
        DEF Spec, SaveKeepsOthers
=============================================================================
