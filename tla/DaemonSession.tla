----------------------------- MODULE DaemonSession -----------------------------
(***************************************************************************)
(* The sidecar daemon: the dispatcher loop (inex-daemon/src/server.rs),    *)
(* the request handlers (handler.rs) and the session store they share      *)
(* (session.rs).                                                           *)
(*                                                                         *)
(* One thread serves one client.  A request handler makes one or several   *)
(* calls on the session store, each of which first destroys a session      *)
(* whose idle allowance has run out and then compares the presented        *)
(* capability; between two of these calls a vault operation (key           *)
(* derivation, decryption, a tree walk) takes any time at all, so the idle *)
(* clock may run out in the middle of a request.  A handler with several   *)
(* calls is therefore modelled one call at a time, and the clock ticks     *)
(* between them.                                                           *)
(*                                                                         *)
(* Capabilities (session tokens, document and asset handles, export        *)
(* confirmations) are random and never repeat: the n-th one generated is   *)
(* the number n, and 0 is a string that is none of them.  A client can     *)
(* present only what a response has told it.                               *)
(***************************************************************************)
EXTENDS Naturals, FiniteSets, Sequences

CONSTANTS
  Paths,         \* logical paths of documents
  IdleTimeout,   \* DEFAULT_IDLE_TIMEOUT, in ticks of the clock
  MaxDocuments,  \* MAX_DOCUMENT_HANDLES
  MaxSize,       \* bound: size of an asset (MAX_ASSET_PLAINTEXT_LEN)
  MaxChunk,      \* MAX_ASSET_CHUNK_BYTES
  MaxCaps        \* bound: capabilities generated

ASSUME ConstantAssumption ==
  /\ IdleTimeout \in Nat \ {0} /\ MaxDocuments \in Nat \ {0}
  /\ MaxSize \in Nat /\ MaxChunk \in Nat \ {0} /\ MaxCaps \in Nat

VARIABLES
  link,     \* hello_complete and shutdown_requested: "new", "ready", "closed"
  pc,       \* where the dispatcher thread is
  call,     \* the request being served, and the capability its answer carries
  tok,      \* the active session's token, 0 when there is none
  idle,     \* ticks since last_activity, saturated at IdleTimeout
  docs,     \* OpenDocument records of the session (their order is not observed)
  asset,    \* its OpenAsset; handle 0 when there is none
  export,   \* its OpenPlaintextExport; confirmation 0 when there is none
  umbra,    \* whether its vault holds K_umbra: "live" or "locked"
  index,    \* its vault's search index: "ready" or "none"
  pindex,   \* its vault's Umbra search index
  caps,     \* capabilities generated so far
  told,     \* those a response has carried to the client
  chunks,   \* history: the chunks returned for the asset opened last
  spent     \* history: confirmations accepted by vault.export.commit

session == <<tok, docs, asset, export, umbra, index, pindex>>
vars == <<link, pc, call, tok, idle, docs, asset, export, umbra, index, pindex,
          caps, told, chunks, spent>>

Caps == 0 .. MaxCaps
Scopes == {"outer", "umbra"}
NoAsset == [h |-> 0, size |-> 0, next |-> 0, eof |-> "no"]
NoExport == [c |-> 0, scope |-> "outer"]

\* Points inside a handler at which it calls a validating method of the
\* session store (validated_session_mut) again, and the points reached
\* while it still borrows the vault or no longer needs the session.
Validating == {"status", "export_list", "export_bind", "export_populate",
               "umbra_unbind", "document_bind", "draft", "asset_load",
               "asset_bind", "search", "compare", "evict_index"}
Borrowing == {"unlock", "rebuild", "search_again", "export_publish"}
Places == {"top", "wait", "reply", "exit"} \cup Validating \cup Borrowing

Methods == {"none", "hello", "shutdown", "probe", "unlock", "lock", "rejected",
            "vault", "umbra_unlock", "umbra_lock", "status",
            "export_prepare", "export_commit", "document_open",
            "document_close", "draft", "asset_open", "asset_read",
            "asset_close", "search", "compare", "evict"}

Calls == [m : Methods, ses : Caps, h : Caps, scope : Scopes,
          path : Paths \cup {"all"}, size : 0 .. MaxSize, out : Caps]

NoCall == [m |-> "none", ses |-> 0, h |-> 0, scope |-> "outer",
           path |-> "all", size |-> 0, out |-> 0]

Request(m, c) == [NoCall EXCEPT !.m = m, !.ses = c]

CommitRequest(c, h, s) ==
  [m |-> "export_commit", ses |-> c, h |-> h, scope |-> s, path |-> "all",
   size |-> 0, out |-> 0]

ASSUME PathAssumption == "all" \notin Paths

HandlesBounded == IsFiniteSet(docs) /\ Cardinality(docs) <= MaxDocuments

TypeOK ==
  /\ link \in {"new", "ready", "closed"}
  /\ pc \in Places
  /\ call \in Calls
  /\ caps \in Caps /\ tok \in 0 .. caps /\ told \subseteq 1 .. caps
  /\ idle \in 0 .. IdleTimeout
  /\ docs \subseteq [h : 1 .. caps, path : Paths]
  /\ HandlesBounded
  /\ asset \in [h : 0 .. caps, size : 0 .. MaxSize, next : 0 .. MaxSize,
                eof : {"no", "yes"}]
  /\ export \in [c : 0 .. caps, scope : Scopes]
  /\ umbra \in {"live", "locked"}
  /\ index \in {"ready", "none"} /\ pindex \in {"ready", "none"}
  /\ chunks \in Seq([from : 0 .. MaxSize, to : 0 .. MaxSize,
                     eof : {"no", "yes"}])
  /\ spent \subseteq 1 .. caps

Init ==
  /\ link = "new" /\ pc = "top" /\ call = NoCall
  /\ tok = 0 /\ idle = 0 /\ docs = {} /\ asset = NoAsset
  /\ export = NoExport /\ umbra = "locked"
  /\ index = "none" /\ pindex = "none"
  /\ caps = 0 /\ told = {} /\ chunks = <<>> /\ spent = {}

-----------------------------------------------------------------------------
(* The session store. *)

\* Drop for ActiveSession: handles, asset, indexes and keys go together.
DropKeepsIndexes ==
  /\ tok' = 0 /\ idle' = 0 /\ docs' = {} /\ asset' = NoAsset
  /\ export' = NoExport /\ umbra' = "locked"
  /\ UNCHANGED <<index, pindex>>

Drop ==
  /\ tok' = 0 /\ idle' = 0 /\ docs' = {} /\ asset' = NoAsset
  /\ export' = NoExport /\ umbra' = "locked"
  /\ index' = "none" /\ pindex' = "none"

\* expire_at: now - last_activity >= DEFAULT_IDLE_TIMEOUT.
Expired == tok # 0 /\ idle = IdleTimeout

ExpireAt == IF Expired THEN Drop ELSE UNCHANGED <<idle, session>>

\* validate_at accepts the presented capability (expire_at has spared it).
Valid(c) == tok # 0 /\ tok = c /\ ~Expired

\* validated_session_mut: an accepted call is activity.
Touch(c) == Valid(c) /\ idle' = 0

Presented == told \cup {0}

-----------------------------------------------------------------------------
(* The dispatcher loop and the requests that need no session.              *)

\* The clock advances while the dispatcher waits or a vault operation runs.
Tick ==
  /\ pc # "exit" /\ tok # 0 /\ idle < IdleTimeout
  /\ idle' = idle + 1
  /\ UNCHANGED <<link, pc, call, session, caps, told, chunks, spent>>

\* The top of the loop: expire_idle_session, then wait for an event.
PollSkipsExpiry ==
  /\ pc = "top" /\ pc' = "wait" /\ call' = NoCall
  /\ UNCHANGED <<idle, session, link, caps, told, chunks, spent>>

Poll ==
  /\ pc = "top" /\ pc' = "wait" /\ call' = NoCall
  /\ ExpireAt
  /\ UNCHANGED <<link, caps, told, chunks, spent>>

\* recv_timeout elapses; or an event that changes no state: an aligned
\* framing error, a rejected request object, malformed parameters, or any
\* method but hello and shutdown before hello.
NoRequest ==
  /\ pc = "wait" /\ pc' = "top"
  /\ UNCHANGED <<link, call, idle, session, caps, told, chunks, spent>>

\* End of input, or a framing error that loses the frame boundary: the
\* loop returns and drops the service.
Hangup ==
  /\ pc = "wait" /\ pc' = "exit"
  /\ Drop
  /\ UNCHANGED <<link, call, caps, told, chunks, spent>>

\* write_response: the answer reaches the client; a requested shutdown ends
\* the loop.  When the write fails, the loop ends as well.
Reply ==
  /\ pc = "reply"
  /\ told' = IF call.out = 0 THEN told ELSE told \cup {call.out}
  /\ \/ link # "closed" /\ pc' = "top" /\ UNCHANGED <<idle, session>>
     \/ link = "closed" /\ pc' = "exit" /\ Drop
  /\ UNCHANGED <<link, call, caps, chunks, spent>>

ReplyFails ==
  /\ pc = "reply" /\ pc' = "exit"
  /\ Drop
  /\ UNCHANGED <<link, call, caps, told, chunks, spent>>

\* The editor starts a new sidecar after the old one ended.
Restart ==
  /\ pc = "exit" /\ pc' = "top" /\ link' = "new" /\ call' = NoCall
  /\ UNCHANGED <<idle, session, caps, told, chunks, spent>>

\* system.hello: a different protocol major shuts the daemon down, whatever
\* session is active.
Hello ==
  /\ pc = "wait" /\ pc' = "reply" /\ call' = Request("hello", 0)
  /\ \/ link' = "ready" /\ UNCHANGED <<idle, session>>
     \/ link' = "closed" /\ Drop
  /\ UNCHANGED <<caps, told, chunks, spent>>

Shutdown ==
  /\ pc = "wait" /\ pc' = "reply" /\ call' = Request("shutdown", 0)
  /\ link' = "closed" /\ Drop
  /\ UNCHANGED <<caps, told, chunks, spent>>

\* system.ping without a session, and vault.create (which is refused while a
\* session is active and otherwise keeps none): is_active expires first.
Probe ==
  /\ pc = "wait" /\ link = "ready" /\ pc' = "reply"
  /\ call' = Request("probe", 0)
  /\ ExpireAt
  /\ UNCHANGED <<link, caps, told, chunks, spent>>

\* vault.unlock: Busy while a session is active, otherwise the password is
\* tried, which takes long.
Unlock ==
  /\ pc = "wait" /\ link = "ready"
  /\ call' = Request("unlock", 0)
  /\ ExpireAt
  /\ pc' = IF tok # 0 /\ ~Expired THEN "reply" ELSE "unlock"
  /\ UNCHANGED <<link, caps, told, chunks, spent>>

\* SessionStore::unlock: a fresh token and an empty session, in place of
\* whatever was there; or the password, the vault or the paths are refused.
UnlockBindReusesToken ==
  /\ pc = "unlock" /\ pc' = "reply"
  /\ \/ /\ caps < MaxCaps /\ caps' = caps + 1
        /\ tok' = IF told = {} THEN caps + 1 ELSE CHOOSE c \in told : TRUE
        /\ call' = [call EXCEPT !.out = tok']
        /\ idle' = 0 /\ docs' = {} /\ asset' = NoAsset /\ export' = NoExport
        /\ umbra' = "locked" /\ index' = "none" /\ pindex' = "none"
     \/ UNCHANGED <<caps, call, idle, session>>
  /\ UNCHANGED <<link, told, chunks, spent>>

UnlockBind ==
  /\ pc = "unlock" /\ pc' = "reply"
  /\ \/ /\ caps < MaxCaps /\ caps' = caps + 1
        /\ tok' = caps + 1
        /\ call' = [call EXCEPT !.out = tok']
        /\ idle' = 0 /\ docs' = {} /\ asset' = NoAsset /\ export' = NoExport
        /\ umbra' = "locked" /\ index' = "none" /\ pindex' = "none"
     \/ UNCHANGED <<caps, call, idle, session>>
  /\ UNCHANGED <<link, told, chunks, spent>>

-----------------------------------------------------------------------------
(* Requests that present a session capability.                             *)

\* The first store call of a handler accepts the capability c ...
Accept(c) == pc = "wait" /\ link = "ready" /\ Touch(c)

\* ... or refuses it, after destroying an expired session.
Reject ==
  /\ pc = "wait" /\ link = "ready" /\ pc' = "reply"
  /\ \E c \in Presented :
       ~Valid(c) /\ call' = Request("rejected", c)
  /\ ExpireAt
  /\ UNCHANGED <<link, caps, told, chunks, spent>>

\* A later call of the same handler refuses: the session expired meanwhile.
RejectMidway ==
  /\ pc \in Validating /\ ~Valid(call.ses) /\ pc' = "reply"
  /\ ExpireAt
  /\ UNCHANGED <<link, call, caps, told, chunks, spent>>

\* A later call is accepted.
Resume(place) == pc = place /\ Touch(call.ses)

\* vault.lock.
Lock ==
  /\ \E c \in Presented : Valid(c) /\ call' = Request("lock", c)
  /\ pc = "wait" /\ link = "ready" /\ pc' = "reply"
  /\ Drop
  /\ UNCHANGED <<link, caps, told, chunks, spent>>

\* The vault cleared its search indexes, or left them alone.
ClearIndexes == index' = "none" /\ pindex' = "none"
MayClearIndexes == ClearIndexes \/ UNCHANGED <<index, pindex>>

\* Handlers that make one call on the vault and keep nothing in the session:
\* authenticated ping, tree listing, reads, draft.decrypt, the file and Umbra
\* document and configuration operations, Umbra password change and enable.
\* A committed mutation, and any operation that recovers an interrupted
\* rename first, clears the indexes.
VaultCall ==
  /\ \E c \in Presented : Accept(c) /\ call' = Request("vault", c)
  /\ pc' = "reply"
  /\ MayClearIndexes
  /\ UNCHANGED <<link, tok, docs, asset, export, umbra, caps, told, chunks,
                 spent>>

\* vault.status: the tree is listed, then the counts are taken.
Status ==
  /\ \E c \in Presented : Accept(c) /\ call' = Request("status", c)
  /\ pc' \in {"status", "reply"}
  /\ UNCHANGED <<link, session, caps, told, chunks, spent>>

StatusCounts ==
  /\ Resume("status") /\ pc' = "reply"
  /\ UNCHANGED <<link, call, session, caps, told, chunks, spent>>

-----------------------------------------------------------------------------
(* Umbra: the second key, and what depends on it.                          *)

\* umbra.initialize and umbra.unlock install K_umbra, or fail.
UmbraUnlock ==
  /\ \E c \in Presented : Accept(c) /\ call' = Request("umbra_unlock", c)
  /\ pc' = "reply"
  /\ umbra' \in {umbra, "live"}
  /\ MayClearIndexes
  /\ UNCHANGED <<link, tok, docs, asset, export, caps, told, chunks, spent>>

\* umbra.lock: lock_umbra, then invalidate_umbra_export.
UmbraLock ==
  /\ \E c \in Presented : Accept(c) /\ call' = Request("umbra_lock", c)
  /\ pc' = "umbra_unbind"
  /\ umbra' = "locked" /\ pindex' = "none"
  /\ UNCHANGED <<link, tok, docs, asset, export, index, caps, told, chunks,
                 spent>>

UmbraUnbindSkipped ==
  /\ Resume("umbra_unbind") /\ pc' = "reply"
  /\ UNCHANGED <<link, call, session, caps, told, chunks, spent>>

UmbraUnbind ==
  /\ Resume("umbra_unbind") /\ pc' = "reply"
  /\ export' = IF export.scope = "umbra" THEN NoExport ELSE export
  /\ UNCHANGED <<link, call, tok, docs, asset, umbra, index, pindex, caps,
                 told, chunks, spent>>

-----------------------------------------------------------------------------
(* Plaintext export: a confirmation issued by one request and consumed by  *)
(* another.                                                                *)

\* vault.export.prepare: ensure_export_slot ...
ExportPrepare ==
  /\ \E c \in Presented, s \in Scopes :
       /\ Accept(c)
       /\ call' = [Request("export_prepare", c) EXCEPT !.scope = s]
  /\ pc' = IF export.c # 0 THEN "reply" ELSE "export_list"
  /\ UNCHANGED <<link, session, caps, told, chunks, spent>>

\* ... the tree and the Umbra status are read and an empty staging directory
\* is made (an Umbra export needs a live K_umbra; all of it may fail) ...
ExportList ==
  /\ Resume("export_list")
  /\ \/ pc' = "reply"
     \/ (call.scope = "umbra" => umbra = "live") /\ pc' = "export_bind"
  /\ MayClearIndexes
  /\ UNCHANGED <<link, call, tok, docs, asset, export, umbra, caps, told,
                 chunks, spent>>

\* ... and prepare_export binds both to the session.
ExportBind ==
  /\ Resume("export_bind") /\ pc' = "reply"
  /\ \/ /\ export.c = 0 /\ caps < MaxCaps /\ caps' = caps + 1
        /\ export' = [c |-> caps + 1, scope |-> call.scope]
        /\ call' = [call EXCEPT !.out = caps + 1]
     \/ UNCHANGED <<caps, export, call>>
  /\ UNCHANGED <<link, tok, docs, asset, umbra, index, pindex, told, chunks,
                 spent>>

\* vault.export.commit: take_export consumes the confirmation ...
TakeExportByReference ==
  \E c \in Presented, h \in Presented :
    /\ Accept(c)
    /\ call' = CommitRequest(c, h, export.scope)
    /\ \/ /\ h # 0 /\ export.c = h /\ pc' = "export_populate"
          /\ export' = export /\ spent' = spent \cup {h}
       \/ /\ (h = 0 \/ export.c # h) /\ pc' = "reply"
          /\ UNCHANGED <<export, spent>>
    /\ UNCHANGED <<link, tok, docs, asset, umbra, index, pindex, caps, told,
                   chunks>>

TakeExport ==
  \E c \in Presented, h \in Presented :
    /\ Accept(c)
    /\ call' = CommitRequest(c, h, export.scope)
    /\ \/ /\ h # 0 /\ export.c = h /\ pc' = "export_populate"
          /\ export' = NoExport /\ spent' = spent \cup {h}
       \/ /\ (h = 0 \/ export.c # h) /\ pc' = "reply"
          /\ UNCHANGED <<export, spent>>
    /\ UNCHANGED <<link, tok, docs, asset, umbra, index, pindex, caps, told,
                   chunks>>

\* ... every document is decrypted into the staging directory (reading an
\* asset clears the indexes) ...
ExportPopulate ==
  /\ Resume("export_populate")
  /\ \/ pc' = "reply"
     \/ (call.scope = "umbra" => umbra = "live") /\ pc' = "export_publish"
  /\ MayClearIndexes
  /\ UNCHANGED <<link, call, tok, docs, asset, export, umbra, caps, told,
                 chunks, spent>>

\* ... which is then published, or not; the session is not consulted again.
ExportPublish ==
  /\ pc = "export_publish" /\ pc' = "reply"
  /\ UNCHANGED <<link, call, idle, session, caps, told, chunks, spent>>

-----------------------------------------------------------------------------
(* Document handles.                                                       *)

\* document.open: the document is read, then open_document binds a handle.
DocumentOpen ==
  /\ \E c \in Presented, p \in Paths :
       Accept(c) /\ call' = [Request("document_open", c) EXCEPT !.path = p]
  /\ pc' \in {"document_bind", "reply"}
  /\ UNCHANGED <<link, session, caps, told, chunks, spent>>

DocumentBind ==
  /\ Resume("document_bind") /\ pc' = "reply"
  /\ \/ /\ Cardinality(docs) < MaxDocuments
        /\ caps < MaxCaps /\ caps' = caps + 1
        /\ docs' = docs \cup {[h |-> caps + 1, path |-> call.path]}
        /\ call' = [call EXCEPT !.out = caps + 1]
     \/ UNCHANGED <<caps, docs, call>>
  /\ UNCHANGED <<link, tok, asset, export, umbra, index, pindex, told, chunks,
                 spent>>

\* document.close: close_document removes the one handle presented.
DocumentClose ==
  /\ \E c \in Presented, h \in Presented :
       /\ Accept(c)
       /\ call' = [Request("document_close", c) EXCEPT !.h = h]
       /\ docs' = {d \in docs : d.h # h}
  /\ pc' = "reply"
  /\ UNCHANGED <<link, tok, asset, export, umbra, index, pindex, caps, told,
                 chunks, spent>>

\* draft.encrypt with a handle: the binding is looked up, then the vault
\* encrypts against it.
DraftEncrypt ==
  /\ \E c \in Presented, h \in Presented :
       /\ Accept(c)
       /\ call' = [Request("draft", c) EXCEPT !.h = h]
       /\ pc' = IF \E d \in docs : d.h = h THEN "draft" ELSE "reply"
  /\ UNCHANGED <<link, session, caps, told, chunks, spent>>

DraftEncrypted ==
  /\ Resume("draft") /\ pc' = "reply"
  /\ UNCHANGED <<link, call, session, caps, told, chunks, spent>>

\* cache.evict: the handles of one path or all of them, then the indexes.
Evict ==
  /\ \E c \in Presented, p \in Paths \cup {"all"} :
       /\ Accept(c)
       /\ call' = [Request("evict", c) EXCEPT !.path = p]
       /\ docs' = {d \in docs : p # "all" /\ d.path # p}
  /\ pc' = "evict_index"
  /\ UNCHANGED <<link, tok, asset, export, umbra, index, pindex, caps, told,
                 chunks, spent>>

EvictIndexes ==
  /\ Resume("evict_index") /\ pc' = "reply"
  /\ ClearIndexes
  /\ UNCHANGED <<link, call, tok, docs, asset, export, umbra, caps, told,
                 chunks, spent>>

-----------------------------------------------------------------------------
(* Opaque assets: one at a time, read strictly in sequence.                *)

\* asset.open: ensure_asset_slot ...
AssetOpen ==
  /\ \E c \in Presented : Accept(c) /\ call' = Request("asset_open", c)
  /\ pc' = IF asset.h # 0 THEN "reply" ELSE "asset_load"
  /\ UNCHANGED <<link, session, caps, told, chunks, spent>>

\* ... read_asset clears the indexes before it decrypts the whole asset ...
AssetLoad ==
  /\ Resume("asset_load")
  /\ \/ pc' = "reply" /\ UNCHANGED call
     \/ /\ pc' = "asset_bind"
        /\ \E n \in 0 .. MaxSize : call' = [call EXCEPT !.size = n]
  /\ ClearIndexes
  /\ UNCHANGED <<link, tok, docs, asset, export, umbra, caps, told, chunks,
                 spent>>

\* ... and open_asset binds a handle.
AssetBind ==
  /\ Resume("asset_bind") /\ pc' = "reply"
  /\ \/ /\ asset.h = 0 /\ caps < MaxCaps /\ caps' = caps + 1
        /\ asset' = [NoAsset EXCEPT !.h = caps + 1, !.size = call.size]
        /\ chunks' = <<>>
        /\ call' = [call EXCEPT !.out = caps + 1]
     \/ UNCHANGED <<caps, asset, chunks, call>>
  /\ UNCHANGED <<link, tok, docs, export, umbra, index, pindex, told, spent>>

AtMost(a, b) == IF a < b THEN a ELSE b

\* asset.readChunk: read_asset_chunk answers only the next offset, and
\* nothing after the end was reported.
AssetReadPastEnd ==
  /\ \E c \in Presented, h \in Presented, n \in 0 .. MaxSize, m \in 1 .. MaxChunk :
       /\ Accept(c)
       /\ call' = [Request("asset_read", c) EXCEPT !.h = h]
       /\ LET end == AtMost(n + m, asset.size)
              eof == IF end = asset.size THEN "yes" ELSE "no"
          IN  \/ /\ h # 0 /\ asset.h = h /\ n = asset.next
                 /\ asset' = [asset EXCEPT !.next = end, !.eof = eof]
                 /\ Len(chunks) <= MaxSize + 1
                 /\ chunks' = Append(chunks, [from |-> n, to |-> end, eof |-> eof])
              \/ UNCHANGED <<asset, chunks>>
  /\ pc' = "reply"
  /\ UNCHANGED <<link, tok, docs, export, umbra, index, pindex, caps, told,
                 spent>>

AssetRead ==
  /\ \E c \in Presented, h \in Presented, n \in 0 .. MaxSize, m \in 1 .. MaxChunk :
       /\ Accept(c)
       /\ call' = [Request("asset_read", c) EXCEPT !.h = h]
       /\ LET ok  == h # 0 /\ asset.h = h /\ asset.eof = "no" /\ n = asset.next
              end == AtMost(n + m, asset.size)
              eof == IF end = asset.size THEN "yes" ELSE "no"
          IN  \/ /\ ok
                 /\ asset' = [asset EXCEPT !.next = end, !.eof = eof]
                 /\ chunks' = Append(chunks, [from |-> n, to |-> end, eof |-> eof])
              \/ ~ok /\ UNCHANGED <<asset, chunks>>
  /\ pc' = "reply"
  /\ UNCHANGED <<link, tok, docs, export, umbra, index, pindex, caps, told,
                 spent>>

\* asset.close.
AssetClose ==
  /\ \E c \in Presented, h \in Presented :
       /\ Accept(c)
       /\ call' = [Request("asset_close", c) EXCEPT !.h = h]
       /\ asset' = IF h # 0 /\ asset.h = h THEN NoAsset ELSE asset
  /\ pc' = "reply"
  /\ UNCHANGED <<link, tok, docs, export, umbra, index, pindex, caps, told,
                 chunks, spent>>

-----------------------------------------------------------------------------
(* Search and comparison: refused while an asset is open.                  *)

\* revision.compare*: asset_count, then the vault reads both sides.
Compare ==
  /\ \E c \in Presented : Accept(c) /\ call' = Request("compare", c)
  /\ pc' = IF asset.h # 0 THEN "reply" ELSE "compare"
  /\ UNCHANGED <<link, session, caps, told, chunks, spent>>

Compared ==
  /\ Resume("compare") /\ pc' = "reply"
  /\ UNCHANGED <<link, call, session, caps, told, chunks, spent>>

\* search.query and umbra.search.query: asset_count ...
Search ==
  /\ \E c \in Presented, s \in Scopes :
       Accept(c) /\ call' = [Request("search", c) EXCEPT !.scope = s]
  /\ pc' = IF asset.h # 0 THEN "reply" ELSE "search"
  /\ UNCHANGED <<link, session, caps, told, chunks, spent>>

\* SearchIndexNotReady: there is no index, or it does not match the
\* repository.  A stale Outer index takes the Umbra index with it, and so
\* does the recovery of an interrupted rename.
NotReady ==
  \/ /\ call.scope = "outer" /\ index' = "none"
     /\ pindex' \in IF index = "ready" THEN {"none"} ELSE {pindex, "none"}
  \/ /\ call.scope = "umbra" /\ umbra = "live" /\ pindex' = "none"
     /\ index' \in {index, "none"}

\* ... a query, which answers or fails; on SearchIndexNotReady ...
SearchTry ==
  /\ Resume("search")
  /\ \/ pc' = "reply" /\ MayClearIndexes
     \/ pc' = "rebuild" /\ NotReady
  /\ UNCHANGED <<link, call, tok, docs, asset, export, umbra, caps, told,
                 chunks, spent>>

\* ... the index is rebuilt (rebuilding the Outer index clears both first),
\* while the handler still holds the vault ...
Rebuild ==
  /\ pc = "rebuild"
  /\ \/ pc' = "reply" /\ MayClearIndexes
     \/ /\ pc' = "search_again" /\ call.scope = "outer"
        /\ index' = "ready" /\ pindex' = "none"
     \/ /\ pc' = "search_again" /\ call.scope = "umbra"
        /\ pindex' = "ready" /\ index' \in {index, "none"}
  /\ UNCHANGED <<link, call, idle, tok, docs, asset, export, umbra, caps, told,
                 chunks, spent>>

\* ... and queried once more; a second SearchIndexNotReady is the answer.
SearchAgain ==
  /\ pc = "search_again" /\ pc' = "reply"
  /\ MayClearIndexes \/ NotReady
  /\ UNCHANGED <<link, call, idle, tok, docs, asset, export, umbra, caps, told,
                 chunks, spent>>

-----------------------------------------------------------------------------

\* What the client sends; the transport delivers it or not.
Incoming ==
  \/ Hangup \/ Hello \/ Shutdown \/ Probe \/ Unlock \/ Lock \/ Reject
  \/ VaultCall \/ Status \/ UmbraUnlock \/ UmbraLock
  \/ ExportPrepare \/ TakeExport
  \/ DocumentOpen \/ DocumentClose \/ DraftEncrypt \/ Evict
  \/ AssetOpen \/ AssetRead \/ AssetClose \/ Compare \/ Search

\* The rest of the handler that is running.
Handler ==
  \/ UnlockBind \/ RejectMidway \/ StatusCounts \/ UmbraUnbind
  \/ ExportList \/ ExportBind \/ ExportPopulate \/ ExportPublish
  \/ DocumentBind \/ DraftEncrypted \/ EvictIndexes
  \/ AssetLoad \/ AssetBind \/ Compared
  \/ SearchTry \/ Rebuild \/ SearchAgain

Dispatcher == Poll \/ NoRequest \/ Handler \/ Reply

Next == Tick \/ Dispatcher \/ Incoming \/ ReplyFails \/ Restart

Spec == Init /\ [][Next]_vars

\* The dispatcher thread is scheduled, recv_timeout returns after its poll
\* interval, and every vault operation and every write ends.
FairSpec == Spec /\ WF_vars(Dispatcher)

-----------------------------------------------------------------------------
(* Properties.                                                             *)

\* The capabilities the store would accept now.
Live ==
  ({tok, asset.h, export.c} \cup {d.h : d \in docs}) \ {0}

\* Everything a session owns dies with it, however it ends (lock, expiry,
\* shutdown, a failed negotiation, end of input), and every capability that
\* is accepted was generated by the session that is active: handles of an
\* earlier session are not honoured in a later one.
NothingOutlivesSession ==
  /\ tok = 0 => Live = {} /\ umbra = "locked" /\ index = "none" /\ pindex = "none"
  /\ \A c \in Live : c >= tok

\* Outside a completed negotiation no session exists: none before
\* system.hello, none once shutdown was requested, none after the loop ended.
NoSessionWithoutLink ==
  tok # 0 => link = "ready" /\ pc # "exit"

\* A capability that stopped being accepted (closed, consumed, evicted,
\* locked, expired) is never accepted again, in this process or the next.
DeadStaysDead ==
  [][\A c \in 1 .. caps : c \notin Live => c \notin Live']_vars

\* No request replaces an active session: a second vault.unlock is refused
\* until the first session ended.
NoTakeover ==
  [][tok # 0 /\ tok' # 0 => tok' = tok]_vars

\* Only a request that presents the session's own token, before its
\* deadline, restarts the idle clock; refused requests and anonymous pings
\* never keep a vault unlocked.
ExtendedOnlyByHolder ==
  [][tok # 0 /\ tok' = tok /\ idle' < idle
       => call'.ses = tok /\ idle < IdleTimeout]_vars

\* A document handle disappears only with its session, by document.close of
\* that handle, or by an eviction that covers its path; and while it is
\* accepted it names the same path.
HandleDiesOnlyByName ==
  [][\A d \in docs :
       \/ d \in docs'
       \/ tok' # tok
       \/ call'.m = "document_close" /\ call'.h = d.h
       \/ call'.m = "evict" /\ call'.path \in {d.path, "all"}]_vars

\* The chunks answered for one asset handle, put together in the order they
\* were answered, are the asset: they start at 0, each begins where the last
\* one ended, the end is reported exactly when the last byte was returned
\* and nothing is answered after that (an empty asset has one empty chunk).
StreamExact ==
  \A i \in DOMAIN chunks :
    /\ chunks[i].from = IF i = 1 THEN 0 ELSE chunks[i - 1].to
    /\ chunks[i].eof = "yes" => i = Len(chunks)
    /\ asset.h # 0 => (chunks[i].eof = "yes" <=> chunks[i].to = asset.size)

\* The daemon holds the plaintext of an asset or a search index, never both.
PlaintextExclusive ==
  asset.h # 0 => index = "none" /\ pindex = "none"

\* Whatever depends on K_umbra goes with it: there is no private index and
\* no confirmation for an Umbra export while Umbra is locked, so a
\* confirmation given before umbra.lock is void after the next umbra.unlock.
PrivateNeedsKey ==
  umbra = "locked" =>
    /\ pindex = "none"
    /\ export.scope = "umbra" => pc = "umbra_unbind"

\* The daemon never holds more plaintext than the protocol allows at a time:
\* both of the above.
PlaintextConfined == PlaintextExclusive /\ PrivateNeedsKey

\* A plaintext export confirmation is accepted once: whether the export
\* succeeds, fails or the session ends in the middle, the same confirmation
\* never starts a second one.
ConfirmationSpentOnce ==
  [][pc # "export_populate" /\ pc' = "export_populate" => call'.h \notin spent]_vars

\* A session whose idle allowance ran out is destroyed, even if the client
\* never sends another byte, and whatever request is running then.
IdleSessionEnds ==
  Expired ~> tok = 0

=============================================================================
