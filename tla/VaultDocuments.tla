----------------------------- MODULE VaultDocuments ----------------------------
(***************************************************************************)
(* The encrypted documents of one vault, edited by several sessions        *)
(* (inex-core/src/vault.rs and the document handlers of inexd), merged and *)
(* synchronized by Git, and indexed for search.                            *)
(*                                                                         *)
(* Reading takes no lock.  An edit reads, checks and encrypts without the  *)
(* lock and commits with one conditional write under it, so an action is   *)
(* the part of an operation around one access to the documents.  That a    *)
(* conditional write or rename is atomic is what VaultStore shows; who may *)
(* hold K_umbra is the subject of DaemonSession.                           *)
(***************************************************************************)
EXTENDS Naturals, FiniteSets

CONSTANTS
  Sessions,    \* vault sessions of any processes
  Searchers,   \* bound: those of them whose client searches
  Paths,       \* logical paths
  Bodies,      \* contents of documents; of a container, what it renders to
  Marked,      \* those of them with a diff3 marker line
  None,        \* no document, nothing shown, nobody
  MaxWrites    \* bound: versions ever written

ASSUME DocumentsAssumption ==
  /\ Marked \subseteq Bodies /\ Searchers \subseteq Sessions
  /\ None \notin Sessions \cup Bodies \cup Nat /\ MaxWrites \in Nat \ {0}

VARIABLES
  docs,    \* the committed version at each path
  writes,  \* versions written so far
  lock,    \* who holds the mutation lock across several accesses
  shown,   \* what the client of each session displays
  op,      \* the operation each session is in
  index    \* the search indexes of each session

vars == <<docs, writes, lock, shown, op, index>>

\* A version.  The etag is a hash of an envelope with a fresh nonce: the
\* number of the write.  The file id is that of the write that created it.
\* An Umbra container requires feature 2, a plain document does not.
Etags == 1 .. MaxWrites
Versions == [etag : Etags, id : Etags, kind : {"plain", "umbra"},
             body : Bodies, merge : {"resolved", "unresolved"}]

\* What a client displays, with the etag it will send back with an edit.
Displays == [path : Paths, etag : Etags, body : Bodies]

Idle == [at |-> "idle"]
Modes == {"outer", "umbra"}
Partial == [Paths -> Bodies \cup {None}]
Fingerprints == [Paths -> Etags \cup {None}]

\* Where an operation is: having rendered a container whose etag it reads
\* next; about to compare projections or to re-read for an annotation; about
\* to commit a version; about to render an annotation it committed under some
\* etag; rebuilding an index.
Ops ==
  {Idle}
    \cup [at : {"open"}, path : Paths, body : Bodies]
    \cup [at : {"project", "reread"}, path : Paths, etag : Etags, body : Bodies]
    \cup [at : {"commit"}, path : Paths, to : Paths, version : Versions]
    \cup [at : {"render"}, path : Paths, etag : Etags]
    \cup [at : {"rebuild"}, mode : Modes, stamp : Fingerprints,
          todo : SUBSET Paths, got : Partial]

NotReady == [ready |-> "no"]
Indexes ==
  {NotReady} \cup [ready : {"yes"}, stamp : Fingerprints, got : Partial]

\* Every variable has its type, and the lock is held across accesses by a
\* session that is rebuilding an index, and by no other.
TypeOK ==
  /\ docs \in [Paths -> Versions \cup {None}]
  /\ writes \in 0 .. MaxWrites
  /\ shown \in [Sessions -> Displays \cup {None}]
  /\ op \in [Sessions -> Ops]
  /\ index \in [Sessions -> [Modes -> Indexes]]
  /\ \A s \in Sessions : op[s].at = "rebuild" <=> lock = s
  /\ lock \in Sessions \cup {None}

NoIndexes == [m \in Modes |-> NotReady]

\* Sessions start on a vault that is empty or that holds a container already.
Init ==
  /\ \/ writes = 0 /\ docs = [p \in Paths |-> None]
     \/ /\ writes = 1
        /\ \E p \in Paths, b \in Bodies :
             docs = [q \in Paths |->
                       IF q = p THEN [etag |-> 1, id |-> 1, kind |-> "umbra",
                                      body |-> b, merge |-> "resolved"]
                       ELSE None]
  /\ lock = None
  /\ shown = [s \in Sessions |-> None]
  /\ op = [s \in Sessions |-> Idle]
  /\ index = [s \in Sessions |-> NoIndexes]

Has(p, kind) == docs[p] # None /\ docs[p].kind = kind
IsAt(p, etag) == docs[p] # None /\ docs[p].etag = etag
Fingerprint == [p \in Paths |-> IF docs[p] = None THEN None ELSE docs[p].etag]

\* A session between operations, and the end of one.
Ready(s) == op[s].at = "idle"
Finish(s) == op' = [op EXCEPT ![s] = Idle]

\* A version is written: the etag is new, whatever else it keeps.
Write(p, v) ==
  /\ writes < MaxWrites /\ writes' = writes + 1
  /\ docs' = [docs EXCEPT ![p] = [v EXCEPT !.etag = writes + 1]]

\* invalidate_search_index.
ClearIndexes(s) == index' = [index EXCEPT ![s] = NoIndexes]

-----------------------------------------------------------------------------
(* Opening.                                                                *)

\* document.open and file.read: one read.
Open(s, p) ==
  /\ Ready(s) /\ Has(p, "plain")
  /\ shown' = [shown EXCEPT ![s] = [path |-> p, etag |-> docs[p].etag,
                                    body |-> docs[p].body]]
  /\ UNCHANGED <<docs, writes, lock, op, index>>

\* umbra.document.open renders the container, and then reads it again for its
\* etag: the two reads may find two versions.
OpenUmbra(s, p) ==
  /\ Ready(s) /\ Has(p, "umbra")
  /\ op' = [op EXCEPT ![s] = [at |-> "open", path |-> p, body |-> docs[p].body]]
  /\ UNCHANGED <<docs, writes, lock, shown, index>>

OpenedUmbra(s) ==
  /\ op[s].at = "open" /\ Finish(s)
  /\ LET p == op[s].path IN
       \/ /\ Has(p, "umbra")
          /\ shown' = [shown EXCEPT ![s] = [path |-> p, etag |-> docs[p].etag,
                                            body |-> op[s].body]]
       \/ ~ Has(p, "umbra") /\ UNCHANGED shown
  /\ UNCHANGED <<docs, writes, lock, index>>

-----------------------------------------------------------------------------
(* Creating, saving, converting, renaming and deleting.                    *)

\* create_document; the client displays what it wrote.
Create(s, p) ==
  /\ Ready(s) /\ lock = None /\ docs[p] = None
  /\ \E b \in Bodies :
       /\ Write(p, [etag |-> 1, id |-> writes + 1, kind |-> "plain", body |-> b,
                    merge |-> "resolved"])
       /\ shown' = [shown EXCEPT ![s] = [path |-> p, etag |-> writes + 1,
                                         body |-> b]]
  /\ ClearIndexes(s)
  /\ UNCHANGED <<lock, op>>

\* The unlocked half of an operation on what the session displays: the
\* version must be of the kind the operation is for, and the displayed one.
Unchanged(s, kind) ==
  /\ Ready(s) /\ shown[s] # None
  /\ Has(shown[s].path, kind) /\ IsAt(shown[s].path, shown[s].etag)

Current(s) == docs[shown[s].path]

ToCommit(s, to, v) ==
  /\ op' = [op EXCEPT ![s] = [at |-> "commit", path |-> shown[s].path,
                              to |-> to, version |-> v]]
  /\ UNCHANGED <<docs, writes, lock, shown, index>>

SaveAnyKind(s) ==
  /\ \E kind \in {"plain", "umbra"} : Unchanged(s, kind)
  /\ \E b \in Bodies :
       ToCommit(s, shown[s].path,
                [Current(s) EXCEPT !.body = b, !.kind = "plain",
                   !.merge = IF b \in Marked THEN @ ELSE "resolved"])

SaveResolves(s) ==
  /\ Unchanged(s, "plain")
  /\ \E b \in Bodies :
       ToCommit(s, shown[s].path, [Current(s) EXCEPT !.body = b,
                                                     !.merge = "resolved"])

\* save_document: the identity is kept, and an unresolved merge is resolved
\* only by a text without markers.
Save(s) ==
  /\ Unchanged(s, "plain")
  /\ \E b \in Bodies :
       ToCommit(s, shown[s].path,
                [Current(s) EXCEPT !.body = b,
                   !.merge = IF b \in Marked THEN @ ELSE "resolved"])

\* convert_document_to_umbra_outer.
Convert(s) ==
  /\ Unchanged(s, "plain")
  /\ ToCommit(s, shown[s].path, [Current(s) EXCEPT !.kind = "umbra"])

\* rename_document: the version is encrypted again for its new path.
Rename(s) ==
  /\ Unchanged(s, "plain")
  /\ \E q \in Paths \ {shown[s].path} : ToCommit(s, q, Current(s))

RenameKeepsSource(s) ==
  /\ op[s].at = "commit" /\ lock = None /\ Finish(s)
  /\ LET p == op[s].path
         q == op[s].to
         v == [op[s].version EXCEPT !.etag = writes + 1]
     IN /\ IsAt(p, op[s].version.etag)
        /\ q # p => docs[q] = None
        /\ writes < MaxWrites /\ writes' = writes + 1
        /\ docs' = [docs EXCEPT ![q] = v]
        /\ ClearIndexes(s)
  /\ UNCHANGED <<lock, shown>>

\* The locked half: IfMatch of the version read, and for a rename IfNoneMatch
\* of the destination.  The write may also fail and change nothing.
Commit(s) ==
  /\ op[s].at = "commit" /\ lock = None
  /\ LET p == op[s].path
         q == op[s].to
         v == [op[s].version EXCEPT !.etag = writes + 1]
     IN \/ /\ IsAt(p, op[s].version.etag)
           /\ q # p => docs[q] = None
           /\ writes < MaxWrites /\ writes' = writes + 1
           /\ docs' = [docs EXCEPT ![p] = None, ![q] = v]
           /\ ClearIndexes(s)
           /\ \/ /\ Has(p, "plain") /\ Finish(s)
                 /\ shown' = [shown EXCEPT ![s] = [path |-> q, etag |-> v.etag,
                                                   body |-> v.body]]
              \/ /\ Has(p, "umbra") /\ UNCHANGED shown
                 /\ op' = [op EXCEPT ![s] = [at |-> "render", path |-> p,
                                             etag |-> v.etag]]
        \/ Finish(s) /\ UNCHANGED <<docs, writes, shown, index>>
  /\ UNCHANGED lock

\* delete_document, of either kind.
Delete(s) ==
  /\ Ready(s) /\ lock = None /\ shown[s] # None
  /\ IsAt(shown[s].path, shown[s].etag)
  /\ docs' = [docs EXCEPT ![shown[s].path] = None]
  /\ shown' = [shown EXCEPT ![s] = None]
  /\ ClearIndexes(s)
  /\ UNCHANGED <<writes, lock, op>>

-----------------------------------------------------------------------------
(* Annotating a container: apply_, edit_ and remove_private_annotations.   *)

\* The container is read and must have the etag the client sent ...
Annotate(s) ==
  /\ Unchanged(s, "umbra")
  /\ op' = [op EXCEPT ![s] = [at |-> "project", path |-> shown[s].path,
                              etag |-> shown[s].etag, body |-> Current(s).body]]
  /\ UNCHANGED <<docs, writes, lock, shown, index>>

\* ... its projection, of that version or of one read anew, must be the one
\* the client displays ...
ProjectUnchecked(s) ==
  /\ op[s].at = "project"
  /\ op' = [op EXCEPT ![s].at = "reread"]
  /\ UNCHANGED <<docs, writes, lock, shown, index>>

Project(s) ==
  /\ op[s].at = "project"
  /\ \/ /\ \/ op[s].body = shown[s].body
           \/ Has(op[s].path, "umbra") /\ docs[op[s].path].body = shown[s].body
        /\ op' = [op EXCEPT ![s].at = "reread"]
     \/ Finish(s)
  /\ UNCHANGED <<docs, writes, lock, shown, index>>

\* ... save_umbra_outer_document reads identity and flags once more ...
Reread(s) ==
  /\ op[s].at = "reread"
  /\ LET p == op[s].path IN
       \/ /\ Has(p, "umbra") /\ IsAt(p, op[s].etag)
          /\ \E b \in Bodies :
               op' = [op EXCEPT ![s] = [at |-> "commit", path |-> p, to |-> p,
                                        version |-> [docs[p] EXCEPT !.body = b]]]
       \/ ~ (Has(p, "umbra") /\ IsAt(p, op[s].etag)) /\ Finish(s)
  /\ UNCHANGED <<docs, writes, lock, shown, index>>

\* ... and after the commit the container is rendered for the client, which
\* displays the projection found then with the etag of its own commit.
Render(s) ==
  /\ op[s].at = "render" /\ Finish(s)
  /\ LET p == op[s].path IN
       \/ /\ Has(p, "umbra")
          /\ shown' = [shown EXCEPT ![s] = [path |-> p, etag |-> op[s].etag,
                                            body |-> docs[p].body]]
       \/ ~ Has(p, "umbra") /\ UNCHANGED shown
  /\ UNCHANGED <<docs, writes, lock, index>>

-----------------------------------------------------------------------------
(* Search.                                                                 *)

\* rebuild_search_index and rebuild_umbra_search_index, under the lock:
\* fingerprint, clear, read one document after another, fingerprint again.
RebuildStart(s, mode) ==
  /\ s \in Searchers /\ Ready(s) /\ lock = None /\ lock' = s
  /\ op' = [op EXCEPT ![s] =
              [at |-> "rebuild", mode |-> mode, stamp |-> Fingerprint,
               todo |-> {p \in Paths : docs[p] # None},
               got |-> [p \in Paths |-> None]]]
  /\ index' = [index EXCEPT ![s] = IF mode = "outer" THEN NoIndexes
                                   ELSE [@ EXCEPT !["umbra"] = NotReady]]
  /\ UNCHANGED <<docs, writes, shown>>

RebuildRead(s, p) ==
  /\ op[s].at = "rebuild" /\ p \in op[s].todo
  /\ \/ /\ docs[p] # None
        /\ op' = [op EXCEPT ![s].todo = @ \ {p}, ![s].got[p] = docs[p].body]
        /\ UNCHANGED lock
     \/ docs[p] = None /\ Finish(s) /\ lock' = None
  /\ UNCHANGED <<docs, writes, shown, index>>

RebuildEndUnchecked(s) ==
  /\ op[s].at = "rebuild" /\ op[s].todo = {}
  /\ index' = [index EXCEPT ![s][op[s].mode] =
                 [ready |-> "yes", stamp |-> Fingerprint, got |-> op[s].got]]
  /\ Finish(s) /\ lock' = None
  /\ UNCHANGED <<docs, writes, shown>>

RebuildEnd(s) ==
  /\ op[s].at = "rebuild" /\ op[s].todo = {}
  /\ \/ /\ Fingerprint = op[s].stamp
        /\ index' = [index EXCEPT ![s][op[s].mode] =
                       [ready |-> "yes", stamp |-> op[s].stamp,
                        got |-> op[s].got]]
     \/ Fingerprint # op[s].stamp /\ UNCHANGED index
  /\ Finish(s) /\ lock' = None
  /\ UNCHANGED <<docs, writes, shown>>

\* search and search_umbra answer from an index only if its fingerprint is
\* that of the vault; otherwise they drop it, and the client asks for a rebuild.
Answers(s, mode) ==
  /\ Ready(s) /\ lock = None
  /\ index[s][mode].ready = "yes" /\ index[s][mode].stamp = Fingerprint

SearchStale(s, mode) ==
  /\ Ready(s) /\ lock = None
  /\ index[s][mode].ready = "yes" /\ index[s][mode].stamp # Fingerprint
  /\ index' = [index EXCEPT ![s] = IF mode = "outer" THEN NoIndexes
                                   ELSE [@ EXCEPT !["umbra"] = NotReady]]
  /\ UNCHANGED <<docs, writes, lock, shown, op>>

-----------------------------------------------------------------------------
(* The rest of the world.                                                  *)

\* The end of a session or of its process, between any two accesses.
Close(s) ==
  /\ shown' = [shown EXCEPT ![s] = None]
  /\ Finish(s)
  /\ ClearIndexes(s)
  /\ lock' = IF lock = s THEN None ELSE lock
  /\ UNCHANGED <<docs, writes>>

\* The merge driver, under the lock: encrypt_merge_result keeps the identity
\* and flags a text that still has conflicts.
Merge(p) ==
  /\ lock = None /\ Has(p, "plain")
  /\ \E b \in Bodies :
       Write(p, [docs[p] EXCEPT !.body = b,
                   !.merge = IF b \in Marked THEN "unresolved" ELSE "resolved"])
  /\ UNCHANGED <<lock, shown, op, index>>

\* git pull, checkout or a file synchronizer replaces a version by one of
\* another clone, or removes it, and takes no lock.
Sync(p) ==
  /\ docs[p] # None
  /\ \/ \E b \in Bodies : Write(p, [docs[p] EXCEPT !.body = b])
     \/ docs' = [docs EXCEPT ![p] = None] /\ UNCHANGED writes
  /\ UNCHANGED <<lock, shown, op, index>>

-----------------------------------------------------------------------------

Edit(s) ==
  \/ \E p \in Paths : Create(s, p)
  \/ Commit(s) \/ Delete(s)

Next ==
  \/ \E s \in Sessions :
       \/ \E p \in Paths : Open(s, p) \/ OpenUmbra(s, p) \/ RebuildRead(s, p)
       \/ \E m \in Modes : RebuildStart(s, m) \/ SearchStale(s, m)
       \/ OpenedUmbra(s) \/ Save(s) \/ Convert(s) \/ Rename(s)
       \/ Annotate(s) \/ Project(s) \/ Reread(s) \/ Render(s)
       \/ RebuildEnd(s) \/ Close(s) \/ Edit(s)
  \/ \E p \in Paths : Merge(p) \/ Sync(p)

Spec == Init /\ [][Next]_vars

-----------------------------------------------------------------------------
(* Properties.                                                             *)

\* A file id is at one path only, and no two versions share an etag, however
\* saves, renames and re-creations of several sessions interleave.
IdentityUnique ==
  \A p, q \in Paths :
    docs[p] # None /\ docs[q] # None /\ p # q =>
      docs[p].id # docs[q].id /\ docs[p].etag # docs[q].etag

\* A client's edit replaces or moves exactly the text the client displayed,
\* also when the text and the etag it displayed came from two reads.
EditsApplyToShown ==
  [][\A s \in Sessions :
       Commit(s) /\ docs' # docs =>
         /\ IsAt(shown[s].path, shown[s].etag)
         /\ docs[shown[s].path].body = shown[s].body]_vars

\* A document with private annotations never becomes a plain one again: a
\* plain save or rename prepared before the conversion is refused.
UmbraNeverDowngraded ==
  [][\A p, q \in Paths :
       Has(p, "umbra") /\ docs'[q] # None /\ docs'[q].id = docs[p].id =>
         docs'[q].kind = "umbra"]_vars

\* The mark of an unresolved merge goes only with the markers.
UnresolvedStaysFlagged ==
  [][\A p, q \in Paths :
       /\ docs[p] # None /\ docs[p].merge = "unresolved"
       /\ docs'[q] # None /\ docs'[q].id = docs[p].id
       /\ docs'[q].merge = "resolved"
       => docs'[q].body \notin Marked]_vars

\* A search that answers, answers from the documents as they are, although
\* other processes write with and without the lock while an index is built.
SearchTellsTruth ==
  \A s \in Sessions, m \in Modes :
    Answers(s, m) =>
      \A p \in Paths :
        index[s][m].got[p] = IF docs[p] = None THEN None ELSE docs[p].body
=============================================================================
