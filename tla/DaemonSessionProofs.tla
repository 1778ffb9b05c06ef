-------------------------- MODULE DaemonSessionProofs --------------------------
(***************************************************************************)
(* Proofs about the daemon's session store, for any idle timeout, handle   *)
(* limit, asset size, chunk size and number of capabilities.               *)
(***************************************************************************)
EXTENDS DaemonSession, FiniteSetTheorems, SequenceTheorems, TLAPS

-----------------------------------------------------------------------------
(* The inductive invariant.  First the types, in parts.                    *)

ControlOK == link \in {"new", "ready", "closed"} /\ pc \in Places

\* The request record is well formed; the capability an answer will carry
\* has been generated; a handle is bound to a real path.
CallOK ==
  /\ call \in Calls /\ call.out <= caps
  /\ pc = "document_bind" => call.path \in Paths

StoreOK ==
  /\ caps \in Caps /\ tok \in 0 .. caps /\ told \subseteq 1 .. caps
  /\ idle \in 0 .. IdleTimeout
  /\ docs \subseteq [h : 1 .. caps, path : Paths]
  /\ asset \in [h : 0 .. caps, size : 0 .. MaxSize, next : 0 .. MaxSize,
                eof : {"no", "yes"}]
  /\ export \in [c : 0 .. caps, scope : Scopes]
  /\ umbra \in {"live", "locked"}
  /\ index \in {"ready", "none"} /\ pindex \in {"ready", "none"}
  /\ spent \subseteq 1 .. caps

Chunk == [from : 0 .. MaxSize, to : 0 .. MaxSize, eof : {"no", "yes"}]

ChunksOK == chunks \in Seq(Chunk)

Types == ControlOK /\ CallOK /\ StoreOK /\ ChunksOK /\ HandlesBounded

\* A session exists only while the negotiated daemon runs, never while a
\* password is being tried, and handlers run only when it was negotiated.
LinkInv ==
  /\ tok # 0 => link = "ready" /\ pc \notin {"exit", "unlock"}
  /\ pc \in Validating \cup Borrowing => link = "ready"
  /\ pc = "rebuild" => tok # 0

\* What a session owns goes with it and was generated after its token.
OwnerInv ==
  /\ tok = 0 => /\ docs = {} /\ asset.h = 0 /\ export.c = 0
                /\ umbra = "locked" /\ index = "none" /\ pindex = "none"
  /\ asset.h # 0 => asset.h >= tok
  /\ export.c # 0 => export.c >= tok
  /\ \A d \in docs : d.h >= tok

\* An asset and an index exclude each other, also between the steps that
\* check for one and install the other.
AssetInv ==
  /\ PlaintextExclusive
  /\ pc \in {"asset_load", "asset_bind", "search", "rebuild", "search_again"}
       => asset.h = 0
  /\ pc = "asset_bind" => index = "none" /\ pindex = "none"

\* What needs K_umbra is installed only while it is live.
KeyInv ==
  /\ PrivateNeedsKey
  /\ pc \in {"rebuild", "search_again", "export_bind"} /\ call.scope = "umbra"
       => umbra = "live"

\* A pending confirmation has not been accepted before.
SpentInv == export.c \notin spent

\* The open asset stands where its last chunk ended.
StreamInv ==
  /\ StreamExact
  /\ asset.h # 0 /\ chunks = <<>> => asset.next = 0 /\ asset.eof = "no"
  /\ asset.h # 0 /\ chunks # <<>> =>
       /\ asset.next = chunks[Len(chunks)].to
       /\ asset.eof = chunks[Len(chunks)].eof

\* Until a handler ends, the session that its first call accepted is still
\* there, or would be if its idle allowance had not run out.
HolderInv ==
  pc \in Validating => tok # 0 /\ call.ses = tok

IInv ==
  Types /\ LinkInv /\ HolderInv /\ OwnerInv /\ AssetInv /\ KeyInv
  /\ SpentInv /\ StreamInv

\* The parts make up the type invariant.
LEMMA TypesGiveTypeOK == Types => TypeOK
BY DEF Types, ControlOK, CallOK, StoreOK, ChunksOK, Chunk, TypeOK

-----------------------------------------------------------------------------
(* The request record.                                                     *)

\* The request records the handlers build are well typed.
LEMMA NoCallType == NoCall \in Calls /\ NoCall.out = 0
BY ConstantAssumption DEF NoCall, Calls, Methods, Caps, Scopes

LEMMA RequestType ==
  ASSUME NEW m \in Methods, NEW c \in Caps
  PROVE  /\ Request(m, c) \in Calls
         /\ Request(m, c).m = m /\ Request(m, c).ses = c
         /\ Request(m, c).out = 0
BY NoCallType DEF Request, NoCall, Calls, Caps

LEMMA RequestScope ==
  ASSUME NEW m \in Methods, NEW c \in Caps, NEW s \in Scopes
  PROVE  LET r == [Request(m, c) EXCEPT !.scope = s]
         IN  /\ r \in Calls /\ r.m = m /\ r.ses = c /\ r.scope = s
             /\ r.out = 0
BY RequestType DEF Calls

LEMMA RequestHandle ==
  ASSUME NEW m \in Methods, NEW c \in Caps, NEW h \in Caps
  PROVE  LET r == [Request(m, c) EXCEPT !.h = h]
         IN  r \in Calls /\ r.m = m /\ r.ses = c /\ r.h = h /\ r.out = 0
BY RequestType DEF Calls

LEMMA RequestCommit ==
  ASSUME NEW c \in Caps, NEW h \in Caps, NEW s \in Scopes
  PROVE  /\ CommitRequest(c, h, s) \in Calls
         /\ CommitRequest(c, h, s).ses = c /\ CommitRequest(c, h, s).h = h
         /\ CommitRequest(c, h, s).out = 0
BY ConstantAssumption DEF CommitRequest, Calls, Methods, Caps

LEMMA RequestPath ==
  ASSUME NEW m \in Methods, NEW c \in Caps, NEW p \in Paths \cup {"all"}
  PROVE  LET r == [Request(m, c) EXCEPT !.path = p]
         IN  /\ r \in Calls /\ r.m = m /\ r.ses = c /\ r.path = p
             /\ r.out = 0
BY RequestType DEF Calls

LEMMA MethodNames ==
  /\ {"none", "hello", "shutdown", "probe", "unlock", "lock", "rejected",
      "vault", "umbra_unlock", "umbra_lock", "status"} \subseteq Methods
  /\ {"export_prepare", "export_commit", "document_open", "document_close",
      "draft", "asset_open", "asset_read", "asset_close", "search",
      "compare", "evict"} \subseteq Methods
BY DEF Methods

LEMMA CallFields ==
  ASSUME NEW x \in Calls
  PROVE  /\ x.m \in Methods /\ x.ses \in Caps /\ x.h \in Caps
         /\ x.scope \in Scopes /\ x.size \in 0 .. MaxSize /\ x.out \in Caps
BY DEF Calls

\* Every action ends at a place of the dispatcher.
LEMMA ControlStep ==
  ASSUME ControlOK, Next
  PROVE  ControlOK'
<1>1. CASE Tick \/ Poll \/ NoRequest \/ Hangup \/ Reply \/ ReplyFails \/
           Restart
    BY <1>1 DEF Tick, Poll, NoRequest, Hangup, Reply, ReplyFails, Restart,
       ControlOK, Places, Validating, Borrowing
<1>2. CASE Hello \/ Shutdown \/ Probe \/ Unlock \/ UnlockBind \/ Reject
           \/ RejectMidway
    BY <1>2 DEF Hello, Shutdown, Probe, Unlock, UnlockBind, Reject,
       RejectMidway, ControlOK, Places, Validating, Borrowing
<1>3. CASE Lock \/ ExportPublish \/ Rebuild \/ SearchAgain
    BY <1>3 DEF Lock, ExportPublish, Rebuild, SearchAgain, ControlOK,
       Places, Validating, Borrowing
<1>4. CASE VaultCall \/ Status \/ UmbraUnlock \/ UmbraLock \/
           ExportPrepare \/ TakeExport \/ DocumentOpen
    BY <1>4 DEF VaultCall, Status, UmbraUnlock, UmbraLock, ExportPrepare,
       TakeExport, DocumentOpen, Accept, ControlOK, Places, Validating,
       Borrowing
<1>5. CASE StatusCounts \/ UmbraUnbind \/ ExportList \/ ExportBind \/
           ExportPopulate \/ DocumentBind \/ DraftEncrypted
    BY <1>5 DEF StatusCounts, UmbraUnbind, ExportList, ExportBind,
       ExportPopulate, DocumentBind, DraftEncrypted, Resume, ControlOK,
       Places, Validating, Borrowing
<1>6. CASE DocumentClose \/ DraftEncrypt \/ Evict \/ AssetOpen \/
           AssetRead \/ AssetClose \/ Compare
    BY <1>6 DEF DocumentClose, DraftEncrypt, Evict, AssetOpen, AssetRead,
       AssetClose, Compare, Accept, ControlOK, Places, Validating, Borrowing
<1>7. CASE EvictIndexes \/ AssetLoad \/ AssetBind \/ Compared \/
           SearchTry
    BY <1>7 DEF EvictIndexes, AssetLoad, AssetBind, Compared, SearchTry,
       Resume, ControlOK, Places, Validating, Borrowing
<1>8. CASE Search
    BY <1>8 DEF Search, Accept, ControlOK, Places, Validating, Borrowing
<1> QED
    BY <1>1, <1>2, <1>3, <1>4, <1>5, <1>6, <1>7, <1>8
       DEF Next, Dispatcher, Incoming, Handler

\* What a read of the asset does to the stream.
LEMMA ReadStep ==
  ASSUME StoreOK, AssetRead
  PROVE  \/ UNCHANGED <<asset, chunks>>
         \/ \E end \in 0 .. MaxSize :
              LET eof == IF end = asset.size THEN "yes" ELSE "no"
              IN  /\ asset.h # 0 /\ asset.eof = "no"
                  /\ asset' = [asset EXCEPT !.next = end, !.eof = eof]
                  /\ chunks' = Append(chunks, [from |-> asset.next,
                                               to |-> end, eof |-> eof])
<1>1. PICK h \in Presented, n \in 0 .. MaxSize, m \in 1 .. MaxChunk :
         \/ UNCHANGED <<asset, chunks>>
         \/ LET end == AtMost(n + m, asset.size)
                eof == IF end = asset.size THEN "yes" ELSE "no"
            IN  /\ h # 0 /\ asset.h = h /\ asset.eof = "no"
                /\ n = asset.next
                /\ asset' = [asset EXCEPT !.next = end, !.eof = eof]
                /\ chunks' = Append(chunks, [from |-> n, to |-> end,
                                             eof |-> eof])
    BY ZenonT(60) DEF AssetRead
<1>2. AtMost(n + m, asset.size) \in 0 .. MaxSize
    BY <1>1, ConstantAssumption DEF StoreOK, AtMost
<1> QED BY <1>1, <1>2

\* Binding an asset starts an empty stream.
LEMMA BindStep ==
  ASSUME AssetBind
  PROVE  \/ UNCHANGED <<asset, chunks>>
         \/ /\ chunks' = <<>>
            /\ asset' = [h |-> caps + 1, size |-> call.size, next |-> 0,
                         eof |-> "no"]
BY DEF AssetBind, NoAsset

\* A read and a binding leave the rest of the store alone.
LEMMA ReadKeeps ==
  ASSUME StoreOK, AssetRead
  PROVE  /\ idle' = 0 /\ asset'.h = asset.h
         /\ UNCHANGED <<link, tok, docs, export, umbra, index, pindex, caps,
                       told, spent>>
<1>1. asset'.h = asset.h
    BY ReadStep DEF StoreOK
<1>2. idle' = 0
    BY DEF AssetRead, Accept, Touch
<1> QED BY <1>1, <1>2 DEF AssetRead

LEMMA BindKeeps ==
  ASSUME AssetBind
  PROVE  /\ idle' = 0
         /\ UNCHANGED <<link, tok, docs, export, umbra, index, pindex, told,
                       spent>>
BY DEF AssetBind, Resume, Touch

\* The session store keeps its types; generated capabilities stay below caps.
LEMMA StoreStep ==
  ASSUME StoreOK, CallOK, Next
  PROVE  StoreOK'
<1>1. CASE Tick \/ NoRequest \/ Restart \/ UnlockBind \/ ExportPublish
    BY ConstantAssumption, CallFields, <1>1 DEF Tick, NoRequest, Restart,
       UnlockBind, ExportPublish, StoreOK, CallOK, Caps, Scopes, session,
       NoAsset, NoExport, Presented
<1>2. CASE Poll
    BY ConstantAssumption, CallFields, <1>2 DEF Poll, ExpireAt, Expired,
       Drop, StoreOK, CallOK, Caps, Scopes, session, NoAsset, NoExport,
       Presented
<1>3. CASE Hangup
    BY ConstantAssumption, CallFields, <1>3 DEF Hangup, Drop, StoreOK,
       CallOK, Caps, Scopes, session, NoAsset, NoExport, Presented
<1>4. CASE Reply
  <2>1. call.out # 0 => call.out \in 1 .. caps
      BY CallFields DEF CallOK, StoreOK, Caps
  <2>2. told' \subseteq 1 .. caps' /\ UNCHANGED <<caps, spent>>
      BY <1>4, <2>1 DEF Reply, StoreOK
  <2> QED
      BY <1>4, <2>2, ConstantAssumption
         DEF Reply, Drop, StoreOK, session, NoAsset, NoExport, Scopes, Caps
<1>5. CASE ReplyFails
    BY ConstantAssumption, CallFields, <1>5 DEF ReplyFails, Drop, StoreOK,
       CallOK, Caps, Scopes, session, NoAsset, NoExport, Presented
<1>6. CASE Hello
    BY ConstantAssumption, CallFields, <1>6 DEF Hello, Drop, StoreOK,
       CallOK, Caps, Scopes, session, NoAsset, NoExport, Presented
<1>7. CASE Shutdown
    BY ConstantAssumption, CallFields, <1>7 DEF Shutdown, Drop, StoreOK,
       CallOK, Caps, Scopes, session, NoAsset, NoExport, Presented
<1>8. CASE Probe
    BY ConstantAssumption, CallFields, <1>8 DEF Probe, ExpireAt, Expired,
       Drop, StoreOK, CallOK, Caps, Scopes, session, NoAsset, NoExport,
       Presented
<1>9. CASE Unlock
    BY ConstantAssumption, CallFields, <1>9 DEF Unlock, ExpireAt, Expired,
       Drop, StoreOK, CallOK, Caps, Scopes, session, NoAsset, NoExport,
       Presented
<1>10. CASE Reject
    BY ConstantAssumption, CallFields, <1>10 DEF Reject, ExpireAt, Expired,
       Drop, Valid, StoreOK, CallOK, Caps, Scopes, session, NoAsset,
       NoExport, Presented
<1>11. CASE RejectMidway
    BY ConstantAssumption, CallFields, <1>11 DEF RejectMidway, ExpireAt,
       Expired, Drop, Valid, StoreOK, CallOK, Caps, Scopes, session,
       NoAsset, NoExport, Presented
<1>12. CASE Lock
    BY ConstantAssumption, CallFields, <1>12 DEF Lock, Drop, Valid, Expired,
       StoreOK, CallOK, Caps, Scopes, session, NoAsset, NoExport, Presented
<1>13. CASE VaultCall
    BY ConstantAssumption, CallFields, <1>13 DEF VaultCall, Accept, Touch,
       Valid, Expired, MayClearIndexes, ClearIndexes, StoreOK, CallOK, Caps,
       Scopes, session, NoAsset, NoExport, Presented
<1>14. CASE Status \/ UmbraLock \/ ExportPrepare \/ DocumentOpen \/
           DocumentClose \/ DraftEncrypt \/ Evict
    BY ConstantAssumption, CallFields, <1>14 DEF Status, UmbraLock,
       ExportPrepare, DocumentOpen, DocumentClose, DraftEncrypt, Evict,
       Accept, Touch, Valid, Expired, StoreOK, CallOK, Caps, Scopes,
       session, NoAsset, NoExport, Presented
<1>15. CASE StatusCounts \/ UmbraUnbind \/ ExportBind \/ DocumentBind \/
           DraftEncrypted \/ Compared
    BY ConstantAssumption, CallFields, <1>15 DEF StatusCounts, UmbraUnbind,
       ExportBind, DocumentBind, DraftEncrypted, Compared, Resume, Touch,
       Valid, Expired, StoreOK, CallOK, Caps, Scopes, session, NoAsset,
       NoExport, Presented
<1>16. CASE UmbraUnlock
    BY ConstantAssumption, CallFields, <1>16 DEF UmbraUnlock, Accept, Touch,
       Valid, Expired, MayClearIndexes, ClearIndexes, StoreOK, CallOK, Caps,
       Scopes, session, NoAsset, NoExport, Presented
<1>17. CASE ExportList
    BY ConstantAssumption, CallFields, <1>17 DEF ExportList, Resume, Touch,
       Valid, Expired, MayClearIndexes, ClearIndexes, StoreOK, CallOK, Caps,
       Scopes, session, NoAsset, NoExport, Presented
<1>18. CASE TakeExport
  <2>1. PICK c \in Presented, h \in Presented :
           /\ Accept(c)
           /\ \/ export' = NoExport /\ h # 0 /\ spent' = spent \cup {h}
              \/ UNCHANGED <<export, spent>>
      BY <1>18 DEF TakeExport
  <2>2. UNCHANGED <<link, tok, docs, asset, umbra, index, pindex, caps, told>>
      BY <1>18 DEF TakeExport
  <2>3. idle' \in 0 .. IdleTimeout
      BY <2>1, ConstantAssumption DEF Accept, Touch
  <2>4. export' \in [c : 0 .. caps, scope : Scopes]
      BY <2>1 DEF StoreOK, NoExport, Scopes, Caps
  <2>5. spent' \subseteq 1 .. caps
      BY <2>1 DEF StoreOK, Presented
  <2> QED BY <2>2, <2>3, <2>4, <2>5 DEF StoreOK
<1>19. CASE ExportPopulate
    BY ConstantAssumption, CallFields, <1>19 DEF ExportPopulate, Resume,
       Touch, Valid, Expired, MayClearIndexes, ClearIndexes, StoreOK,
       CallOK, Caps, Scopes, session, NoAsset, NoExport, Presented
<1>20. CASE EvictIndexes \/ AssetLoad
    BY ConstantAssumption, CallFields, <1>20 DEF EvictIndexes, AssetLoad,
       Resume, Touch, Valid, Expired, ClearIndexes, StoreOK, CallOK, Caps,
       Scopes, session, NoAsset, NoExport, Presented
<1>21. CASE AssetOpen \/ AssetClose \/ Compare \/ Search
    BY ConstantAssumption, CallFields, <1>21 DEF AssetOpen, AssetClose,
       Compare, Search, Accept, Touch, Valid, Expired, StoreOK, CallOK,
       Caps, Scopes, session, NoAsset, NoExport, Presented
<1>22. CASE AssetBind
  <2>1. caps' \in Caps /\ caps <= caps' /\ caps' \in Nat
      BY <1>22, ConstantAssumption DEF AssetBind, StoreOK, Caps
  <2>2. asset' \in [h : 0 .. caps', size : 0 .. MaxSize, next : 0 .. MaxSize,
                    eof : {"no", "yes"}]
    <3>1. CASE asset' = asset
        BY <2>1, <3>1 DEF StoreOK, Caps
    <3>2. CASE /\ asset' = [NoAsset EXCEPT !.h = caps + 1, !.size = call.size]
               /\ caps' = caps + 1
      <4>1. asset' = [h |-> caps + 1, size |-> call.size, next |-> 0,
                      eof |-> "no"]
          BY <3>2 DEF NoAsset
      <4>2. call.size \in 0 .. MaxSize
          BY CallFields DEF CallOK
      <4>3. caps + 1 \in 0 .. caps' /\ 0 \in 0 .. MaxSize
          BY <3>2, ConstantAssumption DEF StoreOK, Caps
      <4> QED BY <4>1, <4>2, <4>3
    <3> QED BY <1>22, <3>1, <3>2 DEF AssetBind
  <2>3. /\ idle' \in 0 .. IdleTimeout
        /\ UNCHANGED <<tok, docs, export, umbra, index, pindex, told, spent>>
      BY <1>22, BindKeeps, ConstantAssumption
  <2>4. 0 .. caps \subseteq 0 .. caps' /\ 1 .. caps \subseteq 1 .. caps'
      BY <2>1 DEF StoreOK, Caps
  <2> HIDE <1>22
  <2> QED BY <2>1, <2>2, <2>3, <2>4 DEF StoreOK
<1>23. CASE AssetRead
  <2>1. asset' \in [h : 0 .. caps, size : 0 .. MaxSize, next : 0 .. MaxSize,
                    eof : {"no", "yes"}]
    <3>1. PICK n \in 0 .. MaxSize, m \in 1 .. MaxChunk :
             \/ asset' = asset
             \/ asset' = [asset EXCEPT
                            !.next = AtMost(n + m, asset.size),
                            !.eof = IF AtMost(n + m, asset.size) = asset.size
                                      THEN "yes" ELSE "no"]
        BY <1>23 DEF AssetRead
    <3>2. AtMost(n + m, asset.size) \in 0 .. MaxSize
        BY <3>1, ConstantAssumption DEF StoreOK, AtMost
    <3> QED BY <3>1, <3>2 DEF StoreOK
  <2>2. idle' \in 0 .. IdleTimeout
      BY <1>23, ReadKeeps, ConstantAssumption
  <2> QED BY <1>23, <2>1, <2>2, ReadKeeps DEF StoreOK
<1>24. CASE SearchTry
    BY ConstantAssumption, CallFields, <1>24 DEF SearchTry, Resume, Touch,
       Valid, Expired, MayClearIndexes, ClearIndexes, NotReady, StoreOK,
       CallOK, Caps, Scopes, session, NoAsset, NoExport, Presented
<1>25. CASE Rebuild
    BY ConstantAssumption, CallFields, <1>25 DEF Rebuild, MayClearIndexes,
       ClearIndexes, StoreOK, CallOK, Caps, Scopes, session, NoAsset,
       NoExport, Presented
<1>26. CASE SearchAgain
    BY ConstantAssumption, CallFields, <1>26 DEF SearchAgain,
       MayClearIndexes, ClearIndexes, NotReady, StoreOK, CallOK, Caps,
       Scopes, session, NoAsset, NoExport, Presented
<1> QED
    BY <1>1, <1>2, <1>3, <1>4, <1>5, <1>6, <1>7, <1>8, <1>9, <1>10, <1>11,
       <1>12, <1>13, <1>14, <1>15, <1>16, <1>17, <1>18, <1>19, <1>20, <1>21,
       <1>22, <1>23, <1>24, <1>25, <1>26
       DEF Next, Dispatcher, Incoming, Handler

\* Sessions exist only on a negotiated link.
LEMMA LinkStep ==
  ASSUME LinkInv, StoreOK, Next
  PROVE  LinkInv'
<1>1. CASE Tick \/ NoRequest \/ Restart \/ UnlockBind \/ ExportPublish
    BY <1>1 DEF Tick, NoRequest, Restart, UnlockBind, ExportPublish,
       LinkInv, StoreOK, Validating, Borrowing, session
<1>2. CASE Poll \/ Probe \/ Unlock
    BY <1>2 DEF Poll, Probe, Unlock, ExpireAt, Expired, Drop, LinkInv,
       StoreOK, Validating, Borrowing, session
<1>3. CASE Hangup \/ Reply \/ ReplyFails \/ Hello \/ Shutdown
    BY <1>3 DEF Hangup, Reply, ReplyFails, Hello, Shutdown, Drop, LinkInv,
       StoreOK, Validating, Borrowing, session
<1>4. CASE Reject \/ RejectMidway
    BY <1>4 DEF Reject, RejectMidway, ExpireAt, Expired, Drop, Valid,
       LinkInv, StoreOK, Validating, Borrowing, session
<1>5. CASE Lock
    BY <1>5 DEF Lock, Drop, Valid, Expired, LinkInv, StoreOK, Validating,
       Borrowing, session
<1>6. CASE VaultCall \/ Status \/ UmbraUnlock \/ UmbraLock \/
           ExportPrepare \/ TakeExport \/ DocumentOpen
    BY <1>6 DEF VaultCall, Status, UmbraUnlock, UmbraLock, ExportPrepare,
       TakeExport, DocumentOpen, Accept, LinkInv, StoreOK, Validating,
       Borrowing, session
<1>7. CASE StatusCounts \/ UmbraUnbind \/ ExportList \/ ExportBind \/
           ExportPopulate \/ DocumentBind \/ DraftEncrypted
    BY <1>7 DEF StatusCounts, UmbraUnbind, ExportList, ExportBind,
       ExportPopulate, DocumentBind, DraftEncrypted, Resume, LinkInv,
       StoreOK, Validating, Borrowing, session
<1>8. CASE DocumentClose \/ DraftEncrypt \/ Evict \/ AssetOpen \/
           AssetRead \/ AssetClose \/ Compare
    BY <1>8 DEF DocumentClose, DraftEncrypt, Evict, AssetOpen, AssetRead,
       AssetClose, Compare, Accept, LinkInv, StoreOK, Validating, Borrowing,
       session
<1>9. CASE EvictIndexes \/ AssetLoad \/ AssetBind \/ Compared
    BY <1>9 DEF EvictIndexes, AssetLoad, AssetBind, Compared, Resume,
       LinkInv, StoreOK, Validating, Borrowing, session
<1>10. CASE Search
    BY <1>10 DEF Search, Accept, LinkInv, StoreOK, Validating, Borrowing,
       session
<1>11. CASE SearchTry
    BY <1>11 DEF SearchTry, Resume, Touch, Valid, LinkInv, StoreOK, Validating, Borrowing,
       session
<1>12. CASE Rebuild
    BY <1>12 DEF Rebuild, MayClearIndexes, ClearIndexes, LinkInv, StoreOK,
       Validating, Borrowing, session
<1>13. CASE SearchAgain
    BY <1>13 DEF SearchAgain, MayClearIndexes, ClearIndexes, NotReady,
       LinkInv, StoreOK, Validating, Borrowing, session
<1> QED
    BY <1>1, <1>2, <1>3, <1>4, <1>5, <1>6, <1>7, <1>8, <1>9, <1>10, <1>11,
       <1>12, <1>13
       DEF Next, Dispatcher, Incoming, Handler

\* What is bound belongs to the active session.
LEMMA OwnerStep ==
  ASSUME OwnerInv, StoreOK, LinkInv, Next
  PROVE  OwnerInv'
<1>1. CASE Tick \/ NoRequest \/ Restart \/ UnlockBind \/ ExportPublish
    BY <1>1 DEF Tick, NoRequest, Restart, UnlockBind, ExportPublish,
       OwnerInv, StoreOK, LinkInv, session, NoAsset, NoExport, Caps
<1>2. CASE Poll \/ Probe \/ Unlock
    BY <1>2 DEF Poll, Probe, Unlock, ExpireAt, Expired, Drop, OwnerInv,
       StoreOK, LinkInv, session, NoAsset, NoExport, Caps
<1>3. CASE Hangup \/ Reply \/ ReplyFails \/ Hello \/ Shutdown
    BY <1>3 DEF Hangup, Reply, ReplyFails, Hello, Shutdown, Drop, OwnerInv,
       StoreOK, LinkInv, session, NoAsset, NoExport, Caps
<1>4. CASE Reject \/ RejectMidway
    BY <1>4 DEF Reject, RejectMidway, ExpireAt, Expired, Drop, Valid,
       OwnerInv, StoreOK, LinkInv, session, NoAsset, NoExport, Caps
<1>5. CASE Lock
    BY <1>5 DEF Lock, Drop, Valid, Expired, OwnerInv, StoreOK, LinkInv,
       session, NoAsset, NoExport, Caps
<1>6. CASE VaultCall \/ UmbraUnlock
    BY <1>6 DEF VaultCall, UmbraUnlock, Accept, Touch, Valid, Expired,
       MayClearIndexes, ClearIndexes, OwnerInv, StoreOK, LinkInv, session,
       NoAsset, NoExport, Caps
<1>7. CASE Status \/ UmbraLock \/ ExportPrepare \/ TakeExport \/
           DocumentOpen \/ DocumentClose \/ DraftEncrypt
    BY <1>7 DEF Status, UmbraLock, ExportPrepare, TakeExport, DocumentOpen,
       DocumentClose, DraftEncrypt, Accept, Touch, Valid, Expired, OwnerInv,
       StoreOK, LinkInv, session, NoAsset, NoExport, Caps
<1>8. CASE StatusCounts \/ UmbraUnbind \/ ExportBind \/ DocumentBind \/
           DraftEncrypted \/ Compared
    BY <1>8 DEF StatusCounts, UmbraUnbind, ExportBind, DocumentBind,
       DraftEncrypted, Compared, Resume, Touch, Valid, Expired, OwnerInv,
       StoreOK, LinkInv, session, NoAsset, NoExport, Caps
<1>9. CASE ExportList \/ ExportPopulate
    BY <1>9 DEF ExportList, ExportPopulate, Resume, Touch, Valid, Expired,
       MayClearIndexes, ClearIndexes, OwnerInv, StoreOK, LinkInv, session,
       NoAsset, NoExport, Caps
<1>10. CASE Evict \/ AssetOpen \/ AssetClose \/ Compare \/ Search
    BY <1>10 DEF Evict, AssetOpen, AssetClose, Compare, Search, Accept,
       Touch, Valid, Expired, OwnerInv, StoreOK, LinkInv, session, NoAsset,
       NoExport, Caps
<1>11. CASE EvictIndexes \/ AssetLoad
    BY <1>11 DEF EvictIndexes, AssetLoad, Resume, Touch, Valid, Expired,
       ClearIndexes, OwnerInv, StoreOK, LinkInv, session, NoAsset, NoExport,
       Caps
<1>12. CASE AssetBind
  <2>1. CASE UNCHANGED <<caps, asset, chunks, call>>
      BY <1>12, <2>1 DEF AssetBind, OwnerInv, StoreOK, Caps, Resume, Touch, Valid
  <2>2. CASE ~UNCHANGED <<caps, asset, chunks, call>>
    <3>1. asset' = [h |-> caps + 1, size |-> call.size, next |-> 0,
                    eof |-> "no"]
        BY <1>12, <2>2 DEF AssetBind, NoAsset
    <3> QED BY <1>12, <2>2, <3>1 DEF AssetBind, OwnerInv, StoreOK, Caps, Resume, Touch, Valid
  <2> QED BY <2>1, <2>2
<1>13. CASE AssetRead
    BY <1>13, ReadKeeps DEF OwnerInv
<1>14. CASE SearchTry
    BY <1>14 DEF SearchTry, Resume, Touch, Valid, Expired, MayClearIndexes,
       ClearIndexes, NotReady, OwnerInv, StoreOK, LinkInv, session, NoAsset,
       NoExport, Caps
<1>15. CASE Rebuild
    BY <1>15 DEF Rebuild, MayClearIndexes, ClearIndexes, OwnerInv, StoreOK,
       LinkInv, session, NoAsset, NoExport, Caps
<1>16. CASE SearchAgain
    BY <1>16 DEF SearchAgain, MayClearIndexes, ClearIndexes, NotReady,
       OwnerInv, StoreOK, LinkInv, session, NoAsset, NoExport, Caps
<1> QED
    BY <1>1, <1>2, <1>3, <1>4, <1>5, <1>6, <1>7, <1>8, <1>9, <1>10, <1>11,
       <1>12, <1>13, <1>14, <1>15, <1>16
       DEF Next, Dispatcher, Incoming, Handler

\* The open asset excludes the indexes, also between check and installation.
LEMMA AssetStep ==
  ASSUME AssetInv, OwnerInv, StoreOK, Next
  PROVE  AssetInv'
<1>1. CASE Tick \/ NoRequest \/ Restart \/ UnlockBind \/ ExportPublish
    BY <1>1 DEF Tick, NoRequest, Restart, UnlockBind, ExportPublish,
       AssetInv, PlaintextExclusive, OwnerInv, StoreOK, session, NoAsset,
       Validating
<1>2. CASE Poll \/ Probe \/ Unlock
    BY <1>2 DEF Poll, Probe, Unlock, ExpireAt, Expired, Drop, AssetInv,
       PlaintextExclusive, OwnerInv, StoreOK, session, NoAsset, Validating
<1>3. CASE Hangup \/ Reply \/ ReplyFails \/ Hello \/ Shutdown
    BY <1>3 DEF Hangup, Reply, ReplyFails, Hello, Shutdown, Drop, AssetInv,
       PlaintextExclusive, OwnerInv, StoreOK, session, NoAsset, Validating
<1>4. CASE Reject \/ RejectMidway
    BY <1>4 DEF Reject, RejectMidway, ExpireAt, Expired, Drop, Valid,
       AssetInv, PlaintextExclusive, OwnerInv, StoreOK, session, NoAsset,
       Validating
<1>5. CASE Lock
    BY <1>5 DEF Lock, Drop, Valid, Expired, AssetInv, PlaintextExclusive,
       OwnerInv, StoreOK, session, NoAsset, Validating
<1>6. CASE VaultCall \/ UmbraUnlock
    BY <1>6 DEF VaultCall, UmbraUnlock, Accept, Touch, Valid, Expired,
       MayClearIndexes, ClearIndexes, AssetInv, PlaintextExclusive,
       OwnerInv, StoreOK, session, NoAsset, Validating
<1>7. CASE Status \/ UmbraLock \/ ExportPrepare \/ TakeExport \/
           DocumentOpen \/ DocumentClose \/ DraftEncrypt
    BY <1>7 DEF Status, UmbraLock, ExportPrepare, TakeExport, DocumentOpen,
       DocumentClose, DraftEncrypt, Accept, Touch, Valid, Expired, AssetInv,
       PlaintextExclusive, OwnerInv, StoreOK, session, NoAsset, Validating
<1>8. CASE StatusCounts \/ UmbraUnbind \/ ExportBind \/ DocumentBind \/
           DraftEncrypted \/ AssetBind \/ Compared
    BY <1>8 DEF StatusCounts, UmbraUnbind, ExportBind, DocumentBind,
       DraftEncrypted, AssetBind, Compared, Resume, Touch, Valid, Expired,
       AssetInv, PlaintextExclusive, OwnerInv, StoreOK, session, NoAsset,
       Validating
<1>9. CASE ExportList \/ ExportPopulate
    BY <1>9 DEF ExportList, ExportPopulate, Resume, Touch, Valid, Expired,
       MayClearIndexes, ClearIndexes, AssetInv, PlaintextExclusive,
       OwnerInv, StoreOK, session, NoAsset, Validating
<1>10. CASE Evict \/ AssetOpen \/ AssetClose \/ Compare \/ Search
    BY <1>10 DEF Evict, AssetOpen, AssetClose, Compare, Search, Accept,
       Touch, Valid, Expired, AssetInv, PlaintextExclusive, OwnerInv,
       StoreOK, session, NoAsset, Validating
<1>11. CASE EvictIndexes \/ AssetLoad
    BY <1>11 DEF EvictIndexes, AssetLoad, Resume, Touch, Valid, Expired,
       ClearIndexes, AssetInv, PlaintextExclusive, OwnerInv, StoreOK,
       session, NoAsset, Validating
<1>12. CASE AssetRead
    BY <1>12 DEF AssetRead, Accept, Touch, Valid, Expired, AtMost, AssetInv,
       PlaintextExclusive, OwnerInv, StoreOK, session, NoAsset, Validating
<1>13. CASE SearchTry
    BY <1>13 DEF SearchTry, Resume, Touch, Valid, Expired, MayClearIndexes,
       ClearIndexes, NotReady, AssetInv, PlaintextExclusive, OwnerInv,
       StoreOK, session, NoAsset, Validating
<1>14. CASE Rebuild
    BY <1>14 DEF Rebuild, MayClearIndexes, ClearIndexes, AssetInv,
       PlaintextExclusive, OwnerInv, StoreOK, session, NoAsset, Validating
<1>15. CASE SearchAgain
    BY <1>15 DEF SearchAgain, MayClearIndexes, ClearIndexes, NotReady,
       AssetInv, PlaintextExclusive, OwnerInv, StoreOK, session, NoAsset,
       Validating
<1> QED
    BY <1>1, <1>2, <1>3, <1>4, <1>5, <1>6, <1>7, <1>8, <1>9, <1>10, <1>11,
       <1>12, <1>13, <1>14, <1>15
       DEF Next, Dispatcher, Incoming, Handler

\* The private index and the Umbra confirmation depend on the live key.
LEMMA KeyStep ==
  ASSUME KeyInv, OwnerInv, HolderInv, StoreOK, CallOK, Next
  PROVE  KeyInv'
<1>1. CASE Tick \/ NoRequest \/ Restart \/ UnlockBind \/ ExportPublish
    BY RequestType, MethodNames, CallFields, <1>1 DEF Tick, NoRequest,
       Restart, UnlockBind, ExportPublish, KeyInv, PrivateNeedsKey,
       OwnerInv, HolderInv, StoreOK, CallOK, session, NoExport, Scopes,
       Presented, Validating
<1>2. CASE Poll \/ Probe \/ Unlock
    BY RequestType, MethodNames, CallFields, <1>2 DEF Poll, Probe, Unlock,
       ExpireAt, Expired, Drop, KeyInv, PrivateNeedsKey, OwnerInv,
       HolderInv, StoreOK, CallOK, session, NoExport, Scopes, Presented,
       Validating
<1>3. CASE Hangup \/ Reply \/ ReplyFails \/ Hello \/ Shutdown
    BY RequestType, MethodNames, CallFields, <1>3 DEF Hangup, Reply,
       ReplyFails, Hello, Shutdown, Drop, KeyInv, PrivateNeedsKey, OwnerInv,
       HolderInv, StoreOK, CallOK, session, NoExport, Scopes, Presented,
       Validating
<1>4. CASE Reject \/ RejectMidway
    BY RequestType, MethodNames, CallFields, <1>4 DEF Reject, RejectMidway,
       ExpireAt, Expired, Drop, Valid, KeyInv, PrivateNeedsKey, OwnerInv,
       HolderInv, StoreOK, CallOK, session, NoExport, Scopes, Presented,
       Validating
<1>5. CASE Lock
    BY RequestType, MethodNames, CallFields, <1>5 DEF Lock, Drop, Valid,
       Expired, KeyInv, PrivateNeedsKey, OwnerInv, HolderInv, StoreOK,
       CallOK, session, NoExport, Scopes, Presented, Validating
<1>6. CASE VaultCall \/ UmbraUnlock
    BY RequestType, MethodNames, CallFields, <1>6 DEF VaultCall,
       UmbraUnlock, Accept, Touch, Valid, Expired, MayClearIndexes,
       ClearIndexes, KeyInv, PrivateNeedsKey, OwnerInv, HolderInv, StoreOK,
       CallOK, session, NoExport, Scopes, Presented, Validating
<1>7. CASE Status \/ UmbraLock \/ ExportPrepare \/ TakeExport \/
           DocumentOpen \/ DocumentClose \/ DraftEncrypt
    BY RequestType, MethodNames, CallFields, <1>7 DEF Status, UmbraLock,
       ExportPrepare, TakeExport, DocumentOpen, DocumentClose, DraftEncrypt,
       Accept, Touch, Valid, Expired, KeyInv, PrivateNeedsKey, OwnerInv,
       HolderInv, StoreOK, CallOK, session, NoExport, Scopes, Presented,
       Validating
<1>8. CASE StatusCounts \/ UmbraUnbind \/ ExportBind \/ DocumentBind \/
           DraftEncrypted \/ AssetBind \/ Compared
    BY RequestType, MethodNames, CallFields, <1>8 DEF StatusCounts,
       UmbraUnbind, ExportBind, DocumentBind, DraftEncrypted, AssetBind,
       Compared, Resume, Touch, Valid, Expired, KeyInv, PrivateNeedsKey,
       OwnerInv, HolderInv, StoreOK, CallOK, session, NoExport, Scopes,
       Presented, Validating
<1>9. CASE ExportList \/ ExportPopulate
    BY RequestType, MethodNames, CallFields, <1>9 DEF ExportList,
       ExportPopulate, Resume, Touch, Valid, Expired, MayClearIndexes,
       ClearIndexes, KeyInv, PrivateNeedsKey, OwnerInv, HolderInv, StoreOK,
       CallOK, session, NoExport, Scopes, Presented, Validating
<1>10. CASE Evict \/ AssetOpen \/ AssetClose \/ Compare \/ Search
    BY RequestType, MethodNames, CallFields, <1>10 DEF Evict, AssetOpen,
       AssetClose, Compare, Search, Accept, Touch, Valid, Expired, KeyInv,
       PrivateNeedsKey, OwnerInv, HolderInv, StoreOK, CallOK, session,
       NoExport, Scopes, Presented, Validating
<1>11. CASE EvictIndexes \/ AssetLoad
    BY RequestType, MethodNames, CallFields, <1>11 DEF EvictIndexes,
       AssetLoad, Resume, Touch, Valid, Expired, ClearIndexes, KeyInv,
       PrivateNeedsKey, OwnerInv, HolderInv, StoreOK, CallOK, session,
       NoExport, Scopes, Presented, Validating
<1>12. CASE AssetRead
    BY RequestType, MethodNames, CallFields, <1>12 DEF AssetRead, Accept,
       Touch, Valid, Expired, AtMost, KeyInv, PrivateNeedsKey, OwnerInv,
       HolderInv, StoreOK, CallOK, session, NoExport, Scopes, Presented,
       Validating
<1>13. CASE SearchTry
    BY RequestType, MethodNames, CallFields, <1>13 DEF SearchTry, Resume,
       Touch, Valid, Expired, MayClearIndexes, ClearIndexes, NotReady,
       KeyInv, PrivateNeedsKey, OwnerInv, HolderInv, StoreOK, CallOK,
       session, NoExport, Scopes, Presented, Validating
<1>14. CASE Rebuild
    BY RequestType, MethodNames, CallFields, <1>14 DEF Rebuild,
       MayClearIndexes, ClearIndexes, KeyInv, PrivateNeedsKey, OwnerInv,
       HolderInv, StoreOK, CallOK, session, NoExport, Scopes, Presented,
       Validating
<1>15. CASE SearchAgain
    BY RequestType, MethodNames, CallFields, <1>15 DEF SearchAgain,
       MayClearIndexes, ClearIndexes, NotReady, KeyInv, PrivateNeedsKey,
       OwnerInv, HolderInv, StoreOK, CallOK, session, NoExport, Scopes,
       Presented, Validating
<1> QED
    BY <1>1, <1>2, <1>3, <1>4, <1>5, <1>6, <1>7, <1>8, <1>9, <1>10, <1>11,
       <1>12, <1>13, <1>14, <1>15
       DEF Next, Dispatcher, Incoming, Handler

\* A confirmation that was taken is not pending again: a new one is fresh.
LEMMA SpentStep ==
  ASSUME SpentInv, StoreOK, Next
  PROVE  SpentInv'
<1>1. CASE Tick \/ NoRequest \/ Restart \/ UnlockBind \/ ExportPublish
    BY ConstantAssumption, <1>1 DEF Tick, NoRequest, Restart, UnlockBind,
       ExportPublish, SpentInv, StoreOK, session, NoExport, Caps
<1>2. CASE Poll \/ Probe \/ Unlock
    BY ConstantAssumption, <1>2 DEF Poll, Probe, Unlock, ExpireAt, Expired,
       Drop, SpentInv, StoreOK, session, NoExport, Caps
<1>3. CASE Hangup \/ Reply \/ ReplyFails \/ Hello \/ Shutdown
    BY ConstantAssumption, <1>3 DEF Hangup, Reply, ReplyFails, Hello,
       Shutdown, Drop, SpentInv, StoreOK, session, NoExport, Caps
<1>4. CASE Reject \/ RejectMidway
    BY ConstantAssumption, <1>4 DEF Reject, RejectMidway, ExpireAt, Expired,
       Drop, Valid, SpentInv, StoreOK, session, NoExport, Caps
<1>5. CASE Lock
    BY ConstantAssumption, <1>5 DEF Lock, Drop, Valid, Expired, SpentInv,
       StoreOK, session, NoExport, Caps
<1>6. CASE VaultCall \/ UmbraUnlock
    BY ConstantAssumption, <1>6 DEF VaultCall, UmbraUnlock, Accept, Touch,
       Valid, Expired, MayClearIndexes, ClearIndexes, SpentInv, StoreOK,
       session, NoExport, Caps
<1>7. CASE Status \/ UmbraLock \/ ExportPrepare \/ TakeExport \/
           DocumentOpen \/ DocumentClose \/ DraftEncrypt
    BY ConstantAssumption, <1>7 DEF Status, UmbraLock, ExportPrepare,
       TakeExport, DocumentOpen, DocumentClose, DraftEncrypt, Accept, Touch,
       Valid, Expired, SpentInv, StoreOK, session, NoExport, Caps
<1>8. CASE StatusCounts \/ UmbraUnbind \/ ExportBind \/ DocumentBind \/
           DraftEncrypted \/ AssetBind \/ Compared
    BY ConstantAssumption, <1>8 DEF StatusCounts, UmbraUnbind, ExportBind,
       DocumentBind, DraftEncrypted, AssetBind, Compared, Resume, Touch,
       Valid, Expired, SpentInv, StoreOK, session, NoExport, Caps
<1>9. CASE ExportList \/ ExportPopulate
    BY ConstantAssumption, <1>9 DEF ExportList, ExportPopulate, Resume,
       Touch, Valid, Expired, MayClearIndexes, ClearIndexes, SpentInv,
       StoreOK, session, NoExport, Caps
<1>10. CASE Evict \/ AssetOpen \/ AssetClose \/ Compare \/ Search
    BY ConstantAssumption, <1>10 DEF Evict, AssetOpen, AssetClose, Compare,
       Search, Accept, Touch, Valid, Expired, SpentInv, StoreOK, session,
       NoExport, Caps
<1>11. CASE EvictIndexes \/ AssetLoad
    BY ConstantAssumption, <1>11 DEF EvictIndexes, AssetLoad, Resume, Touch,
       Valid, Expired, ClearIndexes, SpentInv, StoreOK, session, NoExport,
       Caps
<1>12. CASE AssetRead
    BY ConstantAssumption, <1>12 DEF AssetRead, Accept, Touch, Valid,
       Expired, AtMost, SpentInv, StoreOK, session, NoExport, Caps
<1>13. CASE SearchTry
    BY ConstantAssumption, <1>13 DEF SearchTry, Resume, Touch, Valid,
       Expired, MayClearIndexes, ClearIndexes, NotReady, SpentInv, StoreOK,
       session, NoExport, Caps
<1>14. CASE Rebuild
    BY ConstantAssumption, <1>14 DEF Rebuild, MayClearIndexes, ClearIndexes,
       SpentInv, StoreOK, session, NoExport, Caps
<1>15. CASE SearchAgain
    BY ConstantAssumption, <1>15 DEF SearchAgain, MayClearIndexes,
       ClearIndexes, NotReady, SpentInv, StoreOK, session, NoExport, Caps
<1> QED
    BY <1>1, <1>2, <1>3, <1>4, <1>5, <1>6, <1>7, <1>8, <1>9, <1>10, <1>11,
       <1>12, <1>13, <1>14, <1>15
       DEF Next, Dispatcher, Incoming, Handler

\* A client presents capabilities that were generated, or none.
LEMMA PresentedCaps == StoreOK => Presented \subseteq Caps
BY ConstantAssumption DEF StoreOK, Presented, Caps

LEMMA CapsCount == StoreOK => caps \in Nat /\ 0 \in Caps
BY ConstantAssumption DEF StoreOK, Caps

\* The request record keeps its type.
LEMMA CallStep ==
  ASSUME CallOK, StoreOK, Next
  PROVE  CallOK'
<1>1. CASE Tick \/ NoRequest \/ Restart \/ UnlockBind \/ ExportPublish
    BY ConstantAssumption, NoCallType, <1>1 DEF Tick, NoRequest, Restart,
       UnlockBind, ExportPublish, CallOK, StoreOK, Calls, Caps
<1>2. CASE Poll
    BY ConstantAssumption, NoCallType, <1>2 DEF Poll, ExpireAt, Expired,
       Drop, CallOK, StoreOK, Calls, Caps
<1>3. CASE Hangup \/ Reply \/ ReplyFails
    BY ConstantAssumption, NoCallType, <1>3 DEF Hangup, Reply, ReplyFails,
       Drop, CallOK, StoreOK, Calls, Caps
<1>4. CASE Hello
    BY <1>4, RequestType, MethodNames, PresentedCaps, CapsCount DEF Hello,
       Drop, CallOK, session
<1>5. CASE Shutdown
    BY <1>5, RequestType, MethodNames, PresentedCaps, CapsCount DEF Shutdown,
       Drop, CallOK, session
<1>6. CASE Probe
    BY <1>6, RequestType, MethodNames, PresentedCaps, CapsCount DEF Probe,
       ExpireAt, Expired, Drop, CallOK, session
<1>7. CASE Unlock
    BY <1>7, RequestType, MethodNames, PresentedCaps, CapsCount DEF Unlock,
       ExpireAt, Expired, Drop, CallOK, session
<1>8. CASE Reject
    BY <1>8, RequestType, MethodNames, PresentedCaps, CapsCount DEF Reject,
       ExpireAt, Expired, Drop, Valid, CallOK, session
<1>9. CASE RejectMidway
    BY ConstantAssumption, NoCallType, <1>9 DEF RejectMidway, ExpireAt,
       Expired, Drop, Valid, CallOK, StoreOK, Calls, Caps
<1>10. CASE Lock
    BY <1>10, RequestType, MethodNames, PresentedCaps, CapsCount DEF Lock, Drop,
       Valid, Expired, CallOK, session
<1>11. CASE VaultCall
    BY <1>11, RequestType, MethodNames, PresentedCaps, CapsCount DEF VaultCall,
       Accept, Touch, Valid, Expired, CallOK, session
<1>12. CASE Status
    BY <1>12, RequestType, MethodNames, PresentedCaps, CapsCount DEF Status,
       Accept, Touch, Valid, Expired, CallOK, session
<1>13. CASE StatusCounts \/ UmbraUnbind \/ ExportBind \/ DocumentBind \/
           DraftEncrypted \/ Compared
    BY ConstantAssumption, NoCallType, <1>13 DEF StatusCounts, UmbraUnbind,
       ExportBind, DocumentBind, DraftEncrypted, Compared, Resume, Touch,
       Valid, Expired, CallOK, StoreOK, Calls, Caps
<1>14. CASE UmbraUnlock
    BY <1>14, RequestType, MethodNames, PresentedCaps, CapsCount DEF
       UmbraUnlock, Accept, Touch, Valid, Expired, CallOK, session
<1>15. CASE UmbraLock
    BY <1>15, RequestType, MethodNames, PresentedCaps, CapsCount DEF UmbraLock,
       Accept, Touch, Valid, Expired, CallOK, session
<1>16. CASE ExportPrepare
    BY <1>16, RequestScope, MethodNames, PresentedCaps, CapsCount DEF
       ExportPrepare, Accept, Touch, Valid, Expired, CallOK, session
<1>17. CASE ExportList \/ ExportPopulate
    BY ConstantAssumption, NoCallType, <1>17 DEF ExportList, ExportPopulate,
       Resume, Touch, Valid, Expired, MayClearIndexes, ClearIndexes, CallOK,
       StoreOK, Calls, Caps
<1>18. CASE TakeExport
  <2>1. PICK c \in Presented, h \in Presented :
           call' = CommitRequest(c, h, export.scope)
      BY <1>18 DEF TakeExport
  <2>5. /\ c \in Caps /\ h \in Caps /\ export.scope \in Scopes
        /\ "export_commit" \in Methods
      BY MethodNames, PresentedCaps DEF StoreOK
  <2>2. call' \in Calls /\ call'.out = 0
      BY <2>1, <2>5, RequestCommit
  <2> QED BY <1>18, <2>2, CapsCount DEF TakeExport, CallOK
<1>19. CASE DocumentOpen
    BY <1>19, RequestPath, MethodNames, PresentedCaps, CapsCount DEF
       DocumentOpen, Accept, Touch, Valid, Expired, CallOK, session
<1>20. CASE DocumentClose
    BY <1>20, RequestHandle, MethodNames, PresentedCaps, CapsCount DEF
       DocumentClose, Accept, Touch, Valid, Expired, CallOK, session
<1>21. CASE DraftEncrypt
    BY <1>21, RequestHandle, MethodNames, PresentedCaps, CapsCount DEF
       DraftEncrypt, Accept, Touch, Valid, Expired, CallOK, session
<1>22. CASE Evict
  <2>1. PICK c \in Presented, p \in Paths \cup {"all"} :
           call' = [Request("evict", c) EXCEPT !.path = p]
      BY <1>22 DEF Evict
  <2>5. c \in Caps /\ "evict" \in Methods
      BY MethodNames, PresentedCaps
  <2>2. call' \in Calls /\ call'.out = 0
      BY <2>1, <2>5, RequestPath
  <2> QED BY <1>22, <2>2, CapsCount DEF Evict, CallOK
<1>23. CASE EvictIndexes \/ AssetLoad
    BY ConstantAssumption, NoCallType, <1>23 DEF EvictIndexes, AssetLoad,
       Resume, Touch, Valid, Expired, ClearIndexes, CallOK, StoreOK, Calls,
       Caps
<1>24. CASE AssetOpen
    BY <1>24, RequestType, MethodNames, PresentedCaps, CapsCount DEF AssetOpen,
       Accept, Touch, Valid, Expired, CallOK, session
<1>25. CASE AssetBind
  <2>1. caps' \in Caps /\ caps <= caps' /\ caps \in Nat /\ caps' \in Nat
      BY <1>25, ConstantAssumption DEF AssetBind, StoreOK, Caps
  <2>2. call' = call \/ (call' = [call EXCEPT !.out = caps + 1] /\ caps' = caps + 1)
      BY <1>25 DEF AssetBind
  <2>3. call' \in Calls /\ call'.out <= caps'
      BY <2>1, <2>2 DEF CallOK, Calls, Caps
  <2> QED BY <1>25, <2>3 DEF AssetBind, CallOK
<1>26. CASE AssetRead
    BY <1>26, RequestHandle, MethodNames, PresentedCaps, CapsCount DEF
       AssetRead, Accept, Touch, Valid, Expired, CallOK, session
<1>27. CASE AssetClose
    BY <1>27, RequestHandle, MethodNames, PresentedCaps, CapsCount DEF
       AssetClose, Accept, Touch, Valid, Expired, CallOK, session
<1>28. CASE Compare
    BY <1>28, RequestType, MethodNames, PresentedCaps, CapsCount DEF Compare,
       Accept, Touch, Valid, Expired, CallOK, session
<1>29. CASE Search
    BY <1>29, RequestScope, MethodNames, PresentedCaps, CapsCount DEF Search,
       Accept, Touch, Valid, Expired, CallOK, session
<1>30. CASE SearchTry
    BY ConstantAssumption, NoCallType, <1>30 DEF SearchTry, Resume, Touch,
       Valid, Expired, MayClearIndexes, ClearIndexes, NotReady, CallOK,
       StoreOK, Calls, Caps
<1>31. CASE Rebuild
    BY ConstantAssumption, NoCallType, <1>31 DEF Rebuild, MayClearIndexes,
       ClearIndexes, CallOK, StoreOK, Calls, Caps
<1>32. CASE SearchAgain
    BY ConstantAssumption, NoCallType, <1>32 DEF SearchAgain,
       MayClearIndexes, ClearIndexes, NotReady, CallOK, StoreOK, Calls, Caps
<1> QED
    BY <1>1, <1>2, <1>3, <1>4, <1>5, <1>6, <1>7, <1>8, <1>9, <1>10, <1>11,
       <1>12, <1>13, <1>14, <1>15, <1>16, <1>17, <1>18, <1>19, <1>20, <1>21,
       <1>22, <1>23, <1>24, <1>25, <1>26, <1>27, <1>28, <1>29, <1>30, <1>31,
       <1>32
       DEF Next, Dispatcher, Incoming, Handler

\* Inside a handler the accepted session is the active one.
LEMMA HolderStep ==
  ASSUME HolderInv, StoreOK, CallOK, Next
  PROVE  HolderInv'
<1>1. CASE Tick \/ NoRequest \/ Restart \/ UnlockBind \/ ExportPublish
    BY <1>1 DEF Tick, NoRequest, Restart, UnlockBind, ExportPublish,
       HolderInv, CallOK, Calls, Validating, session
<1>2. CASE Poll
    BY <1>2 DEF Poll, ExpireAt, Expired, Drop, HolderInv, CallOK, Calls,
       Validating, session
<1>3. CASE Hangup \/ Reply \/ ReplyFails
    BY <1>3 DEF Hangup, Reply, ReplyFails, Drop, HolderInv, CallOK, Calls,
       Validating, session
<1>4. CASE Hello
    BY <1>4, RequestType, MethodNames, PresentedCaps DEF Hello, Drop,
       HolderInv, Validating, session, Accept, Touch, Valid
<1>5. CASE Shutdown
    BY <1>5, RequestType, MethodNames, PresentedCaps DEF Shutdown, Drop,
       HolderInv, Validating, session, Accept, Touch, Valid
<1>6. CASE Probe
    BY <1>6, RequestType, MethodNames, PresentedCaps DEF Probe, ExpireAt,
       Expired, Drop, HolderInv, Validating, session, Accept, Touch, Valid
<1>7. CASE Unlock
    BY <1>7, RequestType, MethodNames, PresentedCaps DEF Unlock, ExpireAt,
       Expired, Drop, HolderInv, Validating, session, Accept, Touch, Valid
<1>8. CASE Reject
    BY <1>8, RequestType, MethodNames, PresentedCaps DEF Reject, ExpireAt,
       Expired, Drop, Valid, HolderInv, Validating, session, Accept, Touch,
       Valid
<1>9. CASE RejectMidway
    BY <1>9 DEF RejectMidway, ExpireAt, Expired, Drop, Valid, HolderInv,
       CallOK, Calls, Validating, session
<1>10. CASE Lock
    BY <1>10, RequestType, MethodNames, PresentedCaps DEF Lock, Drop, Valid,
       Expired, HolderInv, Validating, session, Accept, Touch, Valid
<1>11. CASE VaultCall
    BY <1>11, RequestType, MethodNames, PresentedCaps DEF VaultCall, Accept,
       Touch, Valid, Expired, HolderInv, Validating, session, Accept, Touch,
       Valid
<1>12. CASE Status
    BY <1>12, RequestType, MethodNames, PresentedCaps DEF Status, Accept, Touch,
       Valid, Expired, HolderInv, Validating, session, Accept, Touch, Valid
<1>13. CASE StatusCounts \/ UmbraUnbind \/ ExportBind \/ DocumentBind \/
           DraftEncrypted \/ AssetBind \/ Compared
    BY <1>13 DEF StatusCounts, UmbraUnbind, ExportBind, DocumentBind,
       DraftEncrypted, AssetBind, Compared, Resume, Touch, Valid, Expired,
       HolderInv, CallOK, Calls, Validating, session
<1>14. CASE UmbraUnlock
    BY <1>14, RequestType, MethodNames, PresentedCaps DEF UmbraUnlock, Accept,
       Touch, Valid, Expired, HolderInv, Validating, session, Accept, Touch,
       Valid
<1>15. CASE UmbraLock
    BY <1>15, RequestType, MethodNames, PresentedCaps DEF UmbraLock, Accept,
       Touch, Valid, Expired, HolderInv, Validating, session, Accept, Touch,
       Valid
<1>16. CASE ExportPrepare
    BY <1>16, RequestScope, MethodNames, PresentedCaps DEF ExportPrepare,
       Accept, Touch, Valid, Expired, HolderInv, Validating, session,
       Accept, Touch, Valid
<1>17. CASE ExportList \/ ExportPopulate
    BY <1>17 DEF ExportList, ExportPopulate, Resume, Touch, Valid, Expired,
       MayClearIndexes, ClearIndexes, HolderInv, CallOK, Calls, Validating,
       session
<1>18. CASE TakeExport
  <2>1. PICK c \in Presented, h \in Presented :
           /\ Accept(c)
           /\ call' = CommitRequest(c, h, export.scope)
      BY <1>18 DEF TakeExport
  <2>5. /\ c \in Caps /\ h \in Caps /\ export.scope \in Scopes
        /\ "export_commit" \in Methods
      BY MethodNames, PresentedCaps DEF StoreOK
  <2>2. call'.ses = c
      BY <2>1, <2>5, RequestCommit
  <2> QED BY <1>18, <2>1, <2>2 DEF TakeExport, Accept, Touch, Valid, HolderInv
<1>19. CASE DocumentOpen
    BY <1>19, RequestPath, MethodNames, PresentedCaps DEF DocumentOpen, Accept,
       Touch, Valid, Expired, HolderInv, Validating, session, Accept, Touch,
       Valid
<1>20. CASE DocumentClose
    BY <1>20, RequestHandle, MethodNames, PresentedCaps DEF DocumentClose,
       Accept, Touch, Valid, Expired, HolderInv, Validating, session,
       Accept, Touch, Valid
<1>21. CASE DraftEncrypt
    BY <1>21, RequestHandle, MethodNames, PresentedCaps DEF DraftEncrypt,
       Accept, Touch, Valid, Expired, HolderInv, Validating, session,
       Accept, Touch, Valid
<1>22. CASE Evict
    BY <1>22, RequestPath, MethodNames, PresentedCaps DEF Evict, Accept, Touch,
       Valid, Expired, HolderInv, Validating, session, Accept, Touch, Valid
<1>23. CASE EvictIndexes \/ AssetLoad
    BY <1>23 DEF EvictIndexes, AssetLoad, Resume, Touch, Valid, Expired,
       ClearIndexes, HolderInv, CallOK, Calls, Validating, session
<1>24. CASE AssetOpen
    BY <1>24, RequestType, MethodNames, PresentedCaps DEF AssetOpen, Accept,
       Touch, Valid, Expired, HolderInv, Validating, session, Accept, Touch,
       Valid
<1>25. CASE AssetRead
    BY <1>25, RequestHandle, MethodNames, PresentedCaps DEF AssetRead, Accept,
       Touch, Valid, Expired, HolderInv, Validating, session, Accept, Touch,
       Valid
<1>26. CASE AssetClose
    BY <1>26, RequestHandle, MethodNames, PresentedCaps DEF AssetClose, Accept,
       Touch, Valid, Expired, HolderInv, Validating, session, Accept, Touch,
       Valid
<1>27. CASE Compare
    BY <1>27, RequestType, MethodNames, PresentedCaps DEF Compare, Accept,
       Touch, Valid, Expired, HolderInv, Validating, session, Accept, Touch,
       Valid
<1>28. CASE Search
    BY <1>28, RequestScope, MethodNames, PresentedCaps DEF Search, Accept,
       Touch, Valid, Expired, HolderInv, Validating, session, Accept, Touch,
       Valid
<1>29. CASE SearchTry
    BY <1>29 DEF SearchTry, Resume, Touch, Valid, Expired, MayClearIndexes,
       ClearIndexes, NotReady, HolderInv, CallOK, Calls, Validating, session
<1>30. CASE Rebuild
    BY <1>30 DEF Rebuild, MayClearIndexes, ClearIndexes, HolderInv, CallOK,
       Calls, Validating, session
<1>31. CASE SearchAgain
    BY <1>31 DEF SearchAgain, MayClearIndexes, ClearIndexes, NotReady,
       HolderInv, CallOK, Calls, Validating, session
<1> QED
    BY <1>1, <1>2, <1>3, <1>4, <1>5, <1>6, <1>7, <1>8, <1>9, <1>10, <1>11,
       <1>12, <1>13, <1>14, <1>15, <1>16, <1>17, <1>18, <1>19, <1>20, <1>21,
       <1>22, <1>23, <1>24, <1>25, <1>26, <1>27, <1>28, <1>29, <1>30, <1>31
       DEF Next, Dispatcher, Incoming, Handler

\* How the handle table changes: emptied, reduced, or one handle below the limit.
LEMMA DocsStep ==
  ASSUME Next
  PROVE  \/ docs' = docs \/ docs' = {} \/ docs' \subseteq docs
         \/ /\ Cardinality(docs) < MaxDocuments
            /\ docs' = docs \cup {[h |-> caps + 1, path |-> call.path]}
<1>1. CASE Tick \/ NoRequest \/ Restart \/ UnlockBind \/ ExportPublish
    BY <1>1 DEF Tick, NoRequest, Restart, UnlockBind, ExportPublish, session
<1>2. CASE Poll \/ Probe \/ Unlock
    BY <1>2 DEF Poll, Probe, Unlock, ExpireAt, Expired, Drop, session
<1>3. CASE Hangup \/ Reply \/ ReplyFails \/ Hello \/ Shutdown
    BY <1>3 DEF Hangup, Reply, ReplyFails, Hello, Shutdown, Drop, session
<1>4. CASE Reject \/ RejectMidway
    BY <1>4 DEF Reject, RejectMidway, ExpireAt, Expired, Drop, Valid,
       session
<1>5. CASE Lock
    BY <1>5 DEF Lock, Drop, Valid, Expired, session
<1>6. CASE VaultCall \/ UmbraUnlock
    BY <1>6 DEF VaultCall, UmbraUnlock, Accept, Touch, Valid, Expired,
       MayClearIndexes, ClearIndexes, session
<1>7. CASE Status \/ UmbraLock \/ ExportPrepare \/ TakeExport \/
           DocumentOpen \/ DocumentClose \/ DraftEncrypt
    BY <1>7 DEF Status, UmbraLock, ExportPrepare, TakeExport, DocumentOpen,
       DocumentClose, DraftEncrypt, Accept, Touch, Valid, Expired, session
<1>8. CASE StatusCounts \/ UmbraUnbind \/ ExportBind \/ DocumentBind \/
           DraftEncrypted \/ AssetBind \/ Compared
    BY <1>8 DEF StatusCounts, UmbraUnbind, ExportBind, DocumentBind,
       DraftEncrypted, AssetBind, Compared, Resume, Touch, Valid, Expired,
       session
<1>9. CASE ExportList \/ ExportPopulate
    BY <1>9 DEF ExportList, ExportPopulate, Resume, Touch, Valid, Expired,
       MayClearIndexes, ClearIndexes, session
<1>10. CASE Evict \/ AssetOpen \/ AssetClose \/ Compare \/ Search
    BY <1>10 DEF Evict, AssetOpen, AssetClose, Compare, Search, Accept,
       Touch, Valid, Expired, session
<1>11. CASE EvictIndexes \/ AssetLoad
    BY <1>11 DEF EvictIndexes, AssetLoad, Resume, Touch, Valid, Expired,
       ClearIndexes, session
<1>12. CASE AssetRead
    BY <1>12 DEF AssetRead, Accept, Touch, Valid, Expired, AtMost, session
<1>13. CASE SearchTry
    BY <1>13 DEF SearchTry, Resume, Touch, Valid, Expired, MayClearIndexes,
       ClearIndexes, NotReady, session
<1>14. CASE Rebuild
    BY <1>14 DEF Rebuild, MayClearIndexes, ClearIndexes, session
<1>15. CASE SearchAgain
    BY <1>15 DEF SearchAgain, MayClearIndexes, ClearIndexes, NotReady,
       session
<1> QED
    BY <1>1, <1>2, <1>3, <1>4, <1>5, <1>6, <1>7, <1>8, <1>9, <1>10, <1>11,
       <1>12, <1>13, <1>14, <1>15
       DEF Next, Dispatcher, Incoming, Handler

\* The handle table stays within MAX_DOCUMENT_HANDLES.
LEMMA HandlesStep ==
  ASSUME HandlesBounded, Next
  PROVE  HandlesBounded'
<1> USE ConstantAssumption DEF HandlesBounded
<1>0. /\ Cardinality(docs) \in Nat
    BY FS_CardinalityType
<1>1. CASE docs' = docs
    BY <1>1
<1>2. CASE docs' = {}
    BY <1>2, FS_EmptySet
<1>3. CASE docs' \subseteq docs
  <2>1. IsFiniteSet(docs') /\ Cardinality(docs') <= Cardinality(docs)
      BY <1>3, FS_Subset
  <2>2. Cardinality(docs') \in Nat
      BY <2>1, FS_CardinalityType
  <2> QED BY <1>0, <2>1, <2>2
<1>4. CASE /\ Cardinality(docs) < MaxDocuments
           /\ docs' = docs \cup {[h |-> caps + 1, path |-> call.path]}
  <2>1. /\ IsFiniteSet(docs')
        /\ Cardinality(docs') \in {Cardinality(docs), Cardinality(docs) + 1}
      BY <1>4, FS_AddElement
  <2> QED BY <1>0, <1>4, <2>1
<1> QED BY <1>1, <1>2, <1>3, <1>4, DocsStep

\* Only binding and reading an asset touch the stream.
LEMMA StreamFrame ==
  ASSUME Next, ~AssetBind, ~AssetRead
  PROVE  chunks' = chunks /\ (asset' = asset \/ asset' = NoAsset)
<1>1. CASE Tick \/ NoRequest \/ Restart \/ UnlockBind \/ ExportPublish
    BY <1>1 DEF Tick, NoRequest, Restart, UnlockBind, ExportPublish, session
<1>2. CASE Poll \/ Probe \/ Unlock
    BY <1>2 DEF Poll, Probe, Unlock, ExpireAt, Expired, Drop, session
<1>3. CASE Hangup \/ Reply \/ ReplyFails \/ Hello \/ Shutdown
    BY <1>3 DEF Hangup, Reply, ReplyFails, Hello, Shutdown, Drop, session
<1>4. CASE Reject \/ RejectMidway
    BY <1>4 DEF Reject, RejectMidway, ExpireAt, Expired, Drop, Valid,
       session
<1>5. CASE Lock
    BY <1>5 DEF Lock, Drop, Valid, Expired, session
<1>6. CASE VaultCall \/ UmbraUnlock
    BY <1>6 DEF VaultCall, UmbraUnlock, Accept, Touch, Valid, Expired,
       MayClearIndexes, ClearIndexes, session
<1>7. CASE Status \/ UmbraLock \/ ExportPrepare \/ TakeExport \/
           DocumentOpen \/ DocumentClose \/ DraftEncrypt
    BY <1>7 DEF Status, UmbraLock, ExportPrepare, TakeExport, DocumentOpen,
       DocumentClose, DraftEncrypt, Accept, Touch, Valid, Expired, session
<1>8. CASE StatusCounts \/ UmbraUnbind \/ ExportBind \/ DocumentBind \/
           DraftEncrypted \/ Compared
    BY <1>8 DEF StatusCounts, UmbraUnbind, ExportBind, DocumentBind,
       DraftEncrypted, Compared, Resume, Touch, Valid, Expired, session
<1>9. CASE ExportList \/ ExportPopulate
    BY <1>9 DEF ExportList, ExportPopulate, Resume, Touch, Valid, Expired,
       MayClearIndexes, ClearIndexes, session
<1>10. CASE Evict \/ AssetOpen \/ AssetClose \/ Compare \/ Search
    BY <1>10 DEF Evict, AssetOpen, AssetClose, Compare, Search, Accept,
       Touch, Valid, Expired, session
<1>11. CASE EvictIndexes \/ AssetLoad
    BY <1>11 DEF EvictIndexes, AssetLoad, Resume, Touch, Valid, Expired,
       ClearIndexes, session
<1>12. CASE SearchTry
    BY <1>12 DEF SearchTry, Resume, Touch, Valid, Expired, MayClearIndexes,
       ClearIndexes, NotReady, session
<1>13. CASE Rebuild
    BY <1>13 DEF Rebuild, MayClearIndexes, ClearIndexes, session
<1>14. CASE SearchAgain
    BY <1>14 DEF SearchAgain, MayClearIndexes, ClearIndexes, NotReady,
       session
<1> QED
    BY <1>1, <1>2, <1>3, <1>4, <1>5, <1>6, <1>7, <1>8, <1>9, <1>10, <1>11,
       <1>12, <1>13, <1>14
       DEF Next, Dispatcher, Incoming, Handler

\* The stream grows by the chunk at its end.
LEMMA StreamStep ==
  ASSUME StoreOK, ChunksOK, StreamInv, Next
  PROVE  ChunksOK' /\ StreamInv'
<1>1. CASE UNCHANGED <<asset, chunks>>
    BY <1>1 DEF ChunksOK, StreamInv, StreamExact
<1>2. CASE chunks' = chunks /\ asset' = NoAsset
    BY <1>2 DEF ChunksOK, StreamInv, StreamExact, NoAsset
<1>3. CASE AssetBind
  <2>1. CASE UNCHANGED <<asset, chunks>>
      BY <1>1, <2>1
  <2>2. CASE chunks' = <<>> /\ asset'.next = 0 /\ asset'.eof = "no"
      BY <2>2 DEF ChunksOK, StreamInv, StreamExact
  <2> QED BY <1>3, <2>1, <2>2, BindStep
<1>4. CASE AssetRead
  <2>1. CASE UNCHANGED <<asset, chunks>>
      BY <1>1, <2>1
  <2>2. CASE ~UNCHANGED <<asset, chunks>>
    <3>1. PICK end \in 0 .. MaxSize, eof \in {"no", "yes"} :
             /\ eof = "yes" <=> end = asset.size
             /\ asset.h # 0 /\ asset.eof = "no"
             /\ asset' = [asset EXCEPT !.next = end, !.eof = eof]
             /\ chunks' = Append(chunks, [from |-> asset.next, to |-> end,
                                          eof |-> eof])
        BY <1>4, <2>2, ReadStep
    <3> DEFINE c == [from |-> asset.next, to |-> end, eof |-> eof]
    <3>2. c \in Chunk /\ c.from = asset.next /\ c.to = end /\ c.eof = eof
        BY <3>1 DEF StoreOK, Chunk
    <3> HIDE DEF c
    <3>3. /\ chunks \in Seq(Chunk) /\ chunks' = Append(chunks, c)
          /\ Len(chunks) \in Nat
        BY <3>1 DEF ChunksOK, c
    <3>4. /\ chunks' \in Seq(Chunk) /\ Len(chunks') = Len(chunks) + 1
          /\ DOMAIN chunks = 1 .. Len(chunks)
          /\ DOMAIN chunks' = 1 .. Len(chunks) + 1
          /\ chunks'[Len(chunks) + 1] = c
          /\ \A i \in 1 .. Len(chunks) : chunks'[i] = chunks[i]
        BY <3>2, <3>3
    <3>5. /\ asset'.h = asset.h /\ asset'.size = asset.size
          /\ asset'.next = end /\ asset'.eof = eof
        BY <3>1 DEF StoreOK
    <3>6. ASSUME NEW i \in 1 .. Len(chunks)
          PROVE  chunks[i].eof # "yes"
      <4>1. CASE i = Len(chunks)
          BY <3>1, <3>3, <3>4, <4>1 DEF StreamInv
      <4>2. CASE i # Len(chunks)
          BY <3>4, <4>2 DEF StreamInv, StreamExact
      <4> QED BY <4>1, <4>2
    <3>7. ASSUME NEW i \in DOMAIN chunks'
          PROVE  /\ chunks'[i].from = IF i = 1 THEN 0 ELSE chunks'[i - 1].to
                 /\ chunks'[i].eof = "yes" => i = Len(chunks')
                 /\ asset'.h # 0 =>
                      (chunks'[i].eof = "yes" <=> chunks'[i].to = asset'.size)
      <4>1. CASE i \in 1 .. Len(chunks)
          BY <3>1, <3>3, <3>4, <3>5, <3>6, <4>1 DEF StreamInv, StreamExact
      <4>2. CASE i = Len(chunks) + 1 /\ i # 1
        <5>1. chunks # <<>> /\ Len(chunks) \in 1 .. Len(chunks)
            BY <3>3, <4>2
        <5>2. chunks'[i - 1] = chunks[Len(chunks)]
            BY <3>3, <3>4, <4>2, <5>1
        <5>3. asset.next = chunks[Len(chunks)].to
            BY <3>1, <5>1 DEF StreamInv
        <5> QED BY <3>1, <3>2, <3>3, <3>4, <3>5, <4>2, <5>2, <5>3
      <4>3. CASE i = Len(chunks) + 1 /\ i = 1
        <5>1. chunks = <<>>
            BY <3>3, <4>3
        <5> QED
            BY <3>1, <3>2, <3>3, <3>4, <3>5, <4>3, <5>1 DEF StreamInv
      <4> QED BY <3>3, <3>4, <4>1, <4>2, <4>3
    <3>8. chunks' # <<>> /\ chunks'[Len(chunks')] = c
        BY <3>3, <3>4
    <3> QED
        BY <3>2, <3>4, <3>5, <3>7, <3>8 DEF ChunksOK, StreamInv, StreamExact
  <2> QED BY <2>1, <2>2
<1> QED BY <1>1, <1>2, <1>3, <1>4, StreamFrame

-----------------------------------------------------------------------------
(* The invariant and the state properties it gives.                        *)

\* Initially the invariant holds ...
LEMMA InitOK == Init => IInv
<1> SUFFICES ASSUME Init PROVE IInv
    OBVIOUS
<1>1. ControlOK /\ LinkInv /\ HolderInv
    BY DEF Init, ControlOK, LinkInv, HolderInv, Places, Validating, Borrowing
<1>2. CallOK
    BY NoCallType DEF Init, CallOK
<1>3. StoreOK
    BY ConstantAssumption
       DEF Init, StoreOK, Caps, Scopes, NoAsset, NoExport
<1>4. ChunksOK /\ StreamInv
    BY DEF Init, ChunksOK, StreamInv, StreamExact, NoAsset
<1>5. HandlesBounded
    BY FS_EmptySet, ConstantAssumption DEF Init, HandlesBounded
<1>6. OwnerInv /\ AssetInv /\ KeyInv /\ SpentInv
    BY DEF Init, OwnerInv, AssetInv, PlaintextExclusive, KeyInv,
           PrivateNeedsKey, SpentInv, NoAsset, NoExport
<1> QED BY <1>1, <1>2, <1>3, <1>4, <1>5, <1>6 DEF IInv, Types

\* ... and every step preserves it.
LEMMA StepOK == IInv /\ [Next]_vars => IInv'
<1> SUFFICES ASSUME IInv, [Next]_vars PROVE IInv'
    OBVIOUS
<1>1. CASE Next
  <2> USE <1>1 DEF IInv, Types
  <2>1. ControlOK' /\ CallOK' /\ StoreOK' /\ HandlesBounded'
      BY ControlStep, CallStep, StoreStep, HandlesStep
  <2>2. LinkInv' /\ HolderInv'
      BY LinkStep, HolderStep
  <2>3. OwnerInv' /\ AssetInv'
      BY OwnerStep, AssetStep
  <2>4. KeyInv' /\ SpentInv'
      BY KeyStep, SpentStep
  <2>5. ChunksOK' /\ StreamInv'
      BY StreamStep
  <2> QED BY <2>1, <2>2, <2>3, <2>4, <2>5
<1>2. CASE UNCHANGED vars
  <2> USE <1>2 DEF IInv, Types, vars
  <2>1. (ControlOK /\ CallOK /\ StoreOK /\ ChunksOK /\ HandlesBounded)'
      BY DEF ControlOK, CallOK, StoreOK, ChunksOK, HandlesBounded
  <2>2. (LinkInv /\ HolderInv /\ OwnerInv /\ SpentInv)'
      BY DEF LinkInv, HolderInv, OwnerInv, SpentInv
  <2>3. (AssetInv /\ KeyInv)'
      BY DEF AssetInv, PlaintextExclusive, KeyInv, PrivateNeedsKey
  <2>4. StreamInv'
      BY DEF StreamInv, StreamExact
  <2> QED BY <2>1, <2>2, <2>3, <2>4
<1> QED BY <1>1, <1>2

(* Every reachable state of the daemon satisfies the inductive invariant,  *)
(* whatever the order of requests, clock ticks, lost answers and restarts. *)
THEOREM InvariantHolds == Spec => []IInv
BY InitOK, StepOK, PTL DEF Spec

(* The store stays well typed; in particular the handle table never        *)
(* exceeds MAX_DOCUMENT_HANDLES.                                           *)
THEOREM TypeCorrect == Spec => []TypeOK
<1>1. IInv => TypeOK
    BY TypesGiveTypeOK DEF IInv
<1> QED BY <1>1, InvariantHolds, PTL

(* Whatever ends a session takes its handles, asset, confirmation, K_umbra *)
(* and indexes with it, and no capability of an earlier session is         *)
(* honoured in a later one.                                                *)
THEOREM SessionOwnsAll == Spec => []NothingOutlivesSession
<1>1. IInv => NothingOutlivesSession
    BY DEF IInv, Types, StoreOK, OwnerInv, NothingOutlivesSession, Live
<1> QED BY <1>1, InvariantHolds, PTL

(* There is no session before system.hello, after a requested shutdown or  *)
(* after the loop has ended.                                               *)
THEOREM LinkGuardsSession == Spec => []NoSessionWithoutLink
<1>1. IInv => NoSessionWithoutLink
    BY DEF IInv, LinkInv, NoSessionWithoutLink
<1> QED BY <1>1, InvariantHolds, PTL

(* The daemon never holds an asset's plaintext and a search index at once, *)
(* although the check for one and the installation of the other are        *)
(* separate calls on the store.                                            *)
THEOREM AssetOrIndex == Spec => []PlaintextExclusive
<1>1. IInv => PlaintextExclusive
    BY DEF IInv, AssetInv
<1> QED BY <1>1, InvariantHolds, PTL

(* Without K_umbra there is no private index, and a pending confirmation   *)
(* of an Umbra export only until umbra.lock's own second call.             *)
THEOREM PrivateGoesWithKey == Spec => []PrivateNeedsKey
<1>1. IInv => PrivateNeedsKey
    BY DEF IInv, KeyInv
<1> QED BY <1>1, InvariantHolds, PTL

(* Both together, for any interleaving of expiry and handlers.             *)
THEOREM PlaintextIsConfined == Spec => []PlaintextConfined
<1>1. IInv => PlaintextConfined
    BY DEF IInv, AssetInv, KeyInv, PlaintextConfined
<1> QED BY <1>1, InvariantHolds, PTL

(* The chunks answered for an asset are the asset, in order and once, for  *)
(* any asset size and any sizes of the chunks asked for.                   *)
THEOREM StreamIsAsset == Spec => []StreamExact
<1>1. IInv => StreamExact
    BY DEF IInv, StreamInv
<1> QED BY <1>1, InvariantHolds, PTL

-----------------------------------------------------------------------------
(* What a step may do.                                                     *)

\* Only a finished unlock sets a token, and none was active then.
LEMMA TakeoverStep ==
  ASSUME LinkInv, Next
  PROVE  tok # 0 /\ tok' # 0 => tok' = tok
<1>1. CASE Tick \/ NoRequest \/ Restart \/ UnlockBind \/ ExportPublish
    BY <1>1 DEF Tick, NoRequest, Restart, UnlockBind, ExportPublish,
       LinkInv, session
<1>2. CASE Poll \/ Probe \/ Unlock
    BY <1>2 DEF Poll, Probe, Unlock, ExpireAt, Expired, Drop, LinkInv,
       session
<1>3. CASE Hangup \/ Reply \/ ReplyFails \/ Hello \/ Shutdown
    BY <1>3 DEF Hangup, Reply, ReplyFails, Hello, Shutdown, Drop, LinkInv,
       session
<1>4. CASE Reject \/ RejectMidway
    BY <1>4 DEF Reject, RejectMidway, ExpireAt, Expired, Drop, Valid,
       LinkInv, session
<1>5. CASE Lock
    BY <1>5 DEF Lock, Drop, Valid, Expired, LinkInv, session
<1>6. CASE VaultCall \/ UmbraUnlock
    BY <1>6 DEF VaultCall, UmbraUnlock, Accept, Touch, Valid, Expired,
       MayClearIndexes, ClearIndexes, LinkInv, session
<1>7. CASE Status \/ UmbraLock \/ ExportPrepare \/ TakeExport \/
           DocumentOpen \/ DocumentClose \/ DraftEncrypt
    BY <1>7 DEF Status, UmbraLock, ExportPrepare, TakeExport, DocumentOpen,
       DocumentClose, DraftEncrypt, Accept, Touch, Valid, Expired, LinkInv,
       session
<1>8. CASE StatusCounts \/ UmbraUnbind \/ ExportBind \/ DocumentBind \/
           DraftEncrypted \/ AssetBind \/ Compared
    BY <1>8 DEF StatusCounts, UmbraUnbind, ExportBind, DocumentBind,
       DraftEncrypted, AssetBind, Compared, Resume, Touch, Valid, Expired,
       LinkInv, session
<1>9. CASE ExportList \/ ExportPopulate
    BY <1>9 DEF ExportList, ExportPopulate, Resume, Touch, Valid, Expired,
       MayClearIndexes, ClearIndexes, LinkInv, session
<1>10. CASE Evict \/ AssetOpen \/ AssetClose \/ Compare \/ Search
    BY <1>10 DEF Evict, AssetOpen, AssetClose, Compare, Search, Accept,
       Touch, Valid, Expired, LinkInv, session
<1>11. CASE EvictIndexes \/ AssetLoad
    BY <1>11 DEF EvictIndexes, AssetLoad, Resume, Touch, Valid, Expired,
       ClearIndexes, LinkInv, session
<1>12. CASE AssetRead
    BY <1>12 DEF AssetRead, Accept, Touch, Valid, Expired, AtMost, LinkInv,
       session
<1>13. CASE SearchTry
    BY <1>13 DEF SearchTry, Resume, Touch, Valid, Expired, MayClearIndexes,
       ClearIndexes, NotReady, LinkInv, session
<1>14. CASE Rebuild
    BY <1>14 DEF Rebuild, MayClearIndexes, ClearIndexes, LinkInv, session
<1>15. CASE SearchAgain
    BY <1>15 DEF SearchAgain, MayClearIndexes, ClearIndexes, NotReady,
       LinkInv, session
<1> QED
    BY <1>1, <1>2, <1>3, <1>4, <1>5, <1>6, <1>7, <1>8, <1>9, <1>10, <1>11,
       <1>12, <1>13, <1>14, <1>15
       DEF Next, Dispatcher, Incoming, Handler

\* A capability becomes live only when it is generated.
LEMMA DeadStep ==
  ASSUME StoreOK, Next, NEW c \in 1 .. caps, c \notin Live
  PROVE  c \notin Live'
<1>1. CASE Tick \/ NoRequest \/ Restart \/ UnlockBind \/ ExportPublish
    BY <1>1 DEF Tick, NoRequest, Restart, UnlockBind, ExportPublish,
       StoreOK, Caps, Live, session, NoAsset, NoExport
<1>2. CASE Poll \/ Probe \/ Unlock
    BY <1>2 DEF Poll, Probe, Unlock, ExpireAt, Expired, Drop, StoreOK, Caps,
       Live, session, NoAsset, NoExport
<1>3. CASE Hangup \/ Reply \/ ReplyFails \/ Hello \/ Shutdown
    BY <1>3 DEF Hangup, Reply, ReplyFails, Hello, Shutdown, Drop, StoreOK,
       Caps, Live, session, NoAsset, NoExport
<1>4. CASE Reject \/ RejectMidway
    BY <1>4 DEF Reject, RejectMidway, ExpireAt, Expired, Drop, Valid,
       StoreOK, Caps, Live, session, NoAsset, NoExport
<1>5. CASE Lock
    BY <1>5 DEF Lock, Drop, Valid, Expired, StoreOK, Caps, Live, session,
       NoAsset, NoExport
<1>6. CASE VaultCall \/ UmbraUnlock
    BY <1>6 DEF VaultCall, UmbraUnlock, Accept, Touch, Valid, Expired,
       MayClearIndexes, ClearIndexes, StoreOK, Caps, Live, session, NoAsset,
       NoExport
<1>7. CASE Status \/ UmbraLock \/ ExportPrepare \/ TakeExport \/
           DocumentOpen \/ DocumentClose \/ DraftEncrypt
    BY <1>7 DEF Status, UmbraLock, ExportPrepare, TakeExport, DocumentOpen,
       DocumentClose, DraftEncrypt, Accept, Touch, Valid, Expired, StoreOK,
       Caps, Live, session, NoAsset, NoExport
<1>8. CASE StatusCounts \/ UmbraUnbind \/ ExportBind \/ DocumentBind \/
           DraftEncrypted \/ Compared
    BY <1>8 DEF StatusCounts, UmbraUnbind, ExportBind, DocumentBind,
       DraftEncrypted, Compared, Resume, Touch, Valid, Expired, StoreOK,
       Caps, Live, session, NoAsset, NoExport
<1>9. CASE ExportList \/ ExportPopulate
    BY <1>9 DEF ExportList, ExportPopulate, Resume, Touch, Valid, Expired,
       MayClearIndexes, ClearIndexes, StoreOK, Caps, Live, session, NoAsset,
       NoExport
<1>10. CASE Evict \/ AssetOpen \/ AssetClose \/ Compare \/ Search
    BY <1>10 DEF Evict, AssetOpen, AssetClose, Compare, Search, Accept,
       Touch, Valid, Expired, StoreOK, Caps, Live, session, NoAsset,
       NoExport
<1>11. CASE EvictIndexes \/ AssetLoad
    BY <1>11 DEF EvictIndexes, AssetLoad, Resume, Touch, Valid, Expired,
       ClearIndexes, StoreOK, Caps, Live, session, NoAsset, NoExport
<1>12. CASE AssetBind
  <2>1. CASE UNCHANGED asset
      BY <1>12, <2>1 DEF AssetBind, Live
  <2>2. asset' = asset \/ asset'.h = caps + 1
      BY BindStep, <1>12
  <2> QED BY <1>12, <2>2 DEF AssetBind, StoreOK, Caps, Live
<1>13. CASE AssetRead
    BY <1>13, ReadKeeps DEF Live
<1>14. CASE SearchTry
    BY <1>14 DEF SearchTry, Resume, Touch, Valid, Expired, MayClearIndexes,
       ClearIndexes, NotReady, StoreOK, Caps, Live, session, NoAsset,
       NoExport
<1>15. CASE Rebuild
    BY <1>15 DEF Rebuild, MayClearIndexes, ClearIndexes, StoreOK, Caps,
       Live, session, NoAsset, NoExport
<1>16. CASE SearchAgain
    BY <1>16 DEF SearchAgain, MayClearIndexes, ClearIndexes, NotReady,
       StoreOK, Caps, Live, session, NoAsset, NoExport
<1> QED
    BY <1>1, <1>2, <1>3, <1>4, <1>5, <1>6, <1>7, <1>8, <1>9, <1>10, <1>11,
       <1>12, <1>13, <1>14, <1>15, <1>16
       DEF Next, Dispatcher, Incoming, Handler

\* An accepted call comes from the holder and before the deadline.
LEMMA TouchInTime ==
  ASSUME StoreOK, NEW c, Touch(c)
  PROVE  tok = c /\ idle < IdleTimeout
BY ConstantAssumption DEF StoreOK, Touch, Valid, Expired

\* Only accepted calls set the clock back.
LEMMA ExtendStep ==
  ASSUME StoreOK, CallOK, Next
  PROVE  tok # 0 /\ tok' = tok /\ idle' < idle
           => call'.ses = tok /\ idle < IdleTimeout
<1>1. CASE Tick \/ NoRequest \/ Restart \/ ExportPublish
    BY ConstantAssumption, <1>1 DEF Tick, NoRequest, Restart, ExportPublish,
       StoreOK, CallOK, Calls, session
<1>2. CASE Poll \/ Probe \/ Unlock
    BY ConstantAssumption, <1>2 DEF Poll, Probe, Unlock, ExpireAt, Expired,
       Drop, StoreOK, CallOK, Calls, session
<1>3. CASE Hangup \/ Reply \/ ReplyFails \/ Hello \/ Shutdown
    BY ConstantAssumption, <1>3 DEF Hangup, Reply, ReplyFails, Hello,
       Shutdown, Drop, StoreOK, CallOK, Calls, session
<1>4. CASE UnlockBind
    BY <1>4 DEF UnlockBind, StoreOK, Caps, session
<1>5. CASE Reject \/ RejectMidway
    BY ConstantAssumption, <1>5 DEF Reject, RejectMidway, ExpireAt, Expired,
       Drop, Valid, StoreOK, CallOK, Calls, session
<1>6. CASE Lock
    BY ConstantAssumption, <1>6 DEF Lock, Drop, Valid, Expired, StoreOK,
       CallOK, Calls, session
<1>7. CASE VaultCall
    BY <1>7, RequestType, MethodNames, PresentedCaps, TouchInTime DEF
       VaultCall, Accept
<1>8. CASE Status
    BY <1>8, RequestType, MethodNames, PresentedCaps, TouchInTime DEF Status,
       Accept
<1>9. CASE StatusCounts \/ UmbraUnbind \/ ExportBind \/ DocumentBind \/
           DraftEncrypted \/ AssetBind \/ Compared
    BY ConstantAssumption, <1>9 DEF StatusCounts, UmbraUnbind, ExportBind,
       DocumentBind, DraftEncrypted, AssetBind, Compared, Resume, Touch,
       Valid, Expired, StoreOK, CallOK, Calls, session
<1>10. CASE UmbraUnlock
    BY <1>10, RequestType, MethodNames, PresentedCaps, TouchInTime DEF
       UmbraUnlock, Accept
<1>11. CASE UmbraLock
    BY <1>11, RequestType, MethodNames, PresentedCaps, TouchInTime DEF
       UmbraLock, Accept
<1>12. CASE ExportPrepare
    BY <1>12, RequestScope, MethodNames, PresentedCaps, TouchInTime DEF
       ExportPrepare, Accept
<1>13. CASE ExportList \/ ExportPopulate
    BY ConstantAssumption, <1>13 DEF ExportList, ExportPopulate, Resume,
       Touch, Valid, Expired, MayClearIndexes, ClearIndexes, StoreOK,
       CallOK, Calls, session
<1>14. CASE TakeExport
  <2>1. PICK c \in Presented, h \in Presented :
           Accept(c) /\ call' = CommitRequest(c, h, export.scope)
      BY <1>14 DEF TakeExport
  <2>2. export.scope \in Scopes
      BY DEF StoreOK
  <2>3. call'.ses = c
      BY <2>1, <2>2, PresentedCaps, RequestCommit
  <2> QED BY <2>1, <2>3, TouchInTime DEF Accept
<1>15. CASE DocumentOpen
    BY <1>15, RequestPath, MethodNames, PresentedCaps, TouchInTime DEF
       DocumentOpen, Accept
<1>16. CASE DocumentClose
    BY <1>16, RequestHandle, MethodNames, PresentedCaps, TouchInTime DEF
       DocumentClose, Accept
<1>17. CASE DraftEncrypt
    BY <1>17, RequestHandle, MethodNames, PresentedCaps, TouchInTime DEF
       DraftEncrypt, Accept
<1>18. CASE Evict
    BY <1>18, RequestPath, MethodNames, PresentedCaps, TouchInTime DEF Evict,
       Accept
<1>19. CASE EvictIndexes \/ AssetLoad
    BY ConstantAssumption, <1>19 DEF EvictIndexes, AssetLoad, Resume, Touch,
       Valid, Expired, ClearIndexes, StoreOK, CallOK, Calls, session
<1>20. CASE AssetOpen
    BY <1>20, RequestType, MethodNames, PresentedCaps, TouchInTime DEF
       AssetOpen, Accept
<1>21. CASE AssetRead
    BY <1>21, RequestHandle, MethodNames, PresentedCaps, TouchInTime DEF
       AssetRead, Accept
<1>22. CASE AssetClose
    BY <1>22, RequestHandle, MethodNames, PresentedCaps, TouchInTime DEF
       AssetClose, Accept
<1>23. CASE Compare
    BY <1>23, RequestType, MethodNames, PresentedCaps, TouchInTime DEF Compare,
       Accept
<1>24. CASE Search
    BY <1>24, RequestScope, MethodNames, PresentedCaps, TouchInTime DEF Search,
       Accept
<1>25. CASE SearchTry
    BY ConstantAssumption, <1>25 DEF SearchTry, Resume, Touch, Valid,
       Expired, MayClearIndexes, ClearIndexes, NotReady, StoreOK, CallOK,
       Calls, session
<1>26. CASE Rebuild
    BY ConstantAssumption, <1>26 DEF Rebuild, MayClearIndexes, ClearIndexes,
       StoreOK, CallOK, Calls, session
<1>27. CASE SearchAgain
    BY ConstantAssumption, <1>27 DEF SearchAgain, MayClearIndexes,
       ClearIndexes, NotReady, StoreOK, CallOK, Calls, session
<1> QED
    BY <1>1, <1>2, <1>3, <1>4, <1>5, <1>6, <1>7, <1>8, <1>9, <1>10, <1>11,
       <1>12, <1>13, <1>14, <1>15, <1>16, <1>17, <1>18, <1>19, <1>20, <1>21,
       <1>22, <1>23, <1>24, <1>25, <1>26, <1>27
       DEF Next, Dispatcher, Incoming, Handler

\* Which steps remove a handle.
LEMMA HandleStep ==
  ASSUME StoreOK, OwnerInv, LinkInv, Next, NEW d \in docs
  PROVE  \/ d \in docs'
         \/ tok' # tok
         \/ call'.m = "document_close" /\ call'.h = d.h
         \/ call'.m = "evict" /\ call'.path \in {d.path, "all"}
<1>1. CASE Tick \/ NoRequest \/ Restart \/ UnlockBind \/ ExportPublish
    BY <1>1 DEF Tick, NoRequest, Restart, UnlockBind, ExportPublish,
       OwnerInv, LinkInv, session
<1>2. CASE Poll \/ Probe \/ Unlock
    BY <1>2 DEF Poll, Probe, Unlock, ExpireAt, Expired, Drop, OwnerInv,
       LinkInv, session
<1>3. CASE Hangup \/ Reply \/ ReplyFails \/ Hello \/ Shutdown
    BY <1>3 DEF Hangup, Reply, ReplyFails, Hello, Shutdown, Drop, OwnerInv,
       LinkInv, session
<1>4. CASE Reject \/ RejectMidway
    BY <1>4 DEF Reject, RejectMidway, ExpireAt, Expired, Drop, Valid,
       OwnerInv, LinkInv, session
<1>5. CASE Lock
    BY <1>5 DEF Lock, Drop, Valid, Expired, OwnerInv, LinkInv, session
<1>6. CASE VaultCall \/ UmbraUnlock
    BY <1>6 DEF VaultCall, UmbraUnlock, Accept, Touch, Valid, Expired,
       MayClearIndexes, ClearIndexes, OwnerInv, LinkInv, session
<1>7. CASE Status \/ UmbraLock \/ ExportPrepare \/ TakeExport \/
           DocumentOpen \/ DraftEncrypt \/ AssetOpen
    BY <1>7 DEF Status, UmbraLock, ExportPrepare, TakeExport, DocumentOpen,
       DraftEncrypt, AssetOpen, Accept, Touch, Valid, Expired, OwnerInv,
       LinkInv, session
<1>8. CASE StatusCounts \/ UmbraUnbind \/ ExportBind \/ DocumentBind \/
           DraftEncrypted \/ AssetBind \/ Compared
    BY <1>8 DEF StatusCounts, UmbraUnbind, ExportBind, DocumentBind,
       DraftEncrypted, AssetBind, Compared, Resume, Touch, Valid, Expired,
       OwnerInv, LinkInv, session
<1>9. CASE ExportList \/ ExportPopulate
    BY <1>9 DEF ExportList, ExportPopulate, Resume, Touch, Valid, Expired,
       MayClearIndexes, ClearIndexes, OwnerInv, LinkInv, session
<1>10. CASE DocumentClose
  <2>1. PICK c \in Presented, h \in Presented :
           /\ call' = [Request("document_close", c) EXCEPT !.h = h]
           /\ docs' = {e \in docs : e.h # h}
      BY <1>10 DEF DocumentClose
  <2>2. call'.m = "document_close" /\ call'.h = h
      BY <2>1, PresentedCaps, MethodNames, RequestHandle
  <2> QED BY <2>1, <2>2
<1>11. CASE Evict
  <2>1. PICK c \in Presented, p \in Paths \cup {"all"} :
           /\ call' = [Request("evict", c) EXCEPT !.path = p]
           /\ docs' = {e \in docs : p # "all" /\ e.path # p}
      BY <1>11 DEF Evict
  <2>2. call'.m = "evict" /\ call'.path = p
      BY <2>1, PresentedCaps, MethodNames, RequestPath
  <2> QED BY <2>1, <2>2
<1>12. CASE EvictIndexes \/ AssetLoad
    BY <1>12 DEF EvictIndexes, AssetLoad, Resume, Touch, Valid, Expired,
       ClearIndexes, OwnerInv, LinkInv, session
<1>13. CASE AssetRead
    BY <1>13 DEF AssetRead, Accept, Touch, Valid, Expired, AtMost, OwnerInv,
       LinkInv, session
<1>14. CASE AssetClose \/ Compare \/ Search
    BY <1>14 DEF AssetClose, Compare, Search, Accept, Touch, Valid, Expired,
       OwnerInv, LinkInv, session
<1>15. CASE SearchTry
    BY <1>15 DEF SearchTry, Resume, Touch, Valid, Expired, MayClearIndexes,
       ClearIndexes, NotReady, OwnerInv, LinkInv, session
<1>16. CASE Rebuild
    BY <1>16 DEF Rebuild, MayClearIndexes, ClearIndexes, OwnerInv, LinkInv,
       session
<1>17. CASE SearchAgain
    BY <1>17 DEF SearchAgain, MayClearIndexes, ClearIndexes, NotReady,
       OwnerInv, LinkInv, session
<1> QED
    BY <1>1, <1>2, <1>3, <1>4, <1>5, <1>6, <1>7, <1>8, <1>9, <1>10, <1>11,
       <1>12, <1>13, <1>14, <1>15, <1>16, <1>17
       DEF Next, Dispatcher, Incoming, Handler

\* The confirmation taken was pending, so not spent.
LEMMA ConfirmStep ==
  ASSUME StoreOK, SpentInv, Next, pc # "export_populate",
         pc' = "export_populate"
  PROVE  call'.h \notin spent
<1>1. CASE Tick \/ NoRequest \/ Restart \/ UnlockBind \/ ExportPublish
    BY <1>1 DEF Tick, NoRequest, Restart, UnlockBind, ExportPublish,
       SpentInv
<1>2. CASE Poll \/ Probe \/ Unlock
    BY <1>2 DEF Poll, Probe, Unlock, ExpireAt, Expired, Drop, SpentInv
<1>3. CASE Hangup \/ Reply \/ ReplyFails \/ Hello \/ Shutdown
    BY <1>3 DEF Hangup, Reply, ReplyFails, Hello, Shutdown, Drop, SpentInv
<1>4. CASE Reject \/ RejectMidway
    BY <1>4 DEF Reject, RejectMidway, ExpireAt, Expired, Drop, Valid,
       SpentInv
<1>5. CASE Lock
    BY <1>5 DEF Lock, Drop, Valid, Expired, SpentInv
<1>6. CASE VaultCall \/ Status \/ UmbraUnlock \/ UmbraLock \/
           ExportPrepare \/ DocumentOpen \/ DocumentClose
    BY <1>6 DEF VaultCall, Status, UmbraUnlock, UmbraLock, ExportPrepare,
       DocumentOpen, DocumentClose, Accept, SpentInv
<1>7. CASE StatusCounts \/ UmbraUnbind \/ ExportList \/ ExportBind \/
           ExportPopulate \/ DocumentBind \/ DraftEncrypted
    BY <1>7 DEF StatusCounts, UmbraUnbind, ExportList, ExportBind,
       ExportPopulate, DocumentBind, DraftEncrypted, Resume, SpentInv
<1>8. CASE TakeExport
  <2>1. PICK c \in Presented, h \in Presented :
           /\ call' = CommitRequest(c, h, export.scope)
           /\ export.c = h
      BY <1>8 DEF TakeExport
  <2>2. call'.h = h
      BY <2>1, PresentedCaps, RequestCommit DEF StoreOK
  <2> QED BY <2>1, <2>2 DEF SpentInv
<1>9. CASE DraftEncrypt \/ Evict \/ AssetOpen \/ AssetRead \/ AssetClose
           \/ Compare \/ Search
    BY <1>9 DEF DraftEncrypt, Evict, AssetOpen, AssetRead, AssetClose,
       Compare, Search, Accept, SpentInv
<1>10. CASE EvictIndexes \/ AssetLoad \/ AssetBind \/ Compared \/
           SearchTry
    BY <1>10 DEF EvictIndexes, AssetLoad, AssetBind, Compared, SearchTry,
       Resume, SpentInv
<1>11. CASE Rebuild
    BY <1>11 DEF Rebuild, MayClearIndexes, ClearIndexes, SpentInv
<1>12. CASE SearchAgain
    BY <1>12 DEF SearchAgain, MayClearIndexes, ClearIndexes, NotReady,
       SpentInv
<1> QED
    BY <1>1, <1>2, <1>3, <1>4, <1>5, <1>6, <1>7, <1>8, <1>9, <1>10, <1>11,
       <1>12
       DEF Next, Dispatcher, Incoming, Handler

(* A request never replaces the active session, also not when the password *)
(* is tried while the idle clock runs.                                     *)
THEOREM OneSession == Spec => NoTakeover
<1>1. IInv /\ [Next]_vars => [tok # 0 /\ tok' # 0 => tok' = tok]_vars
    BY TakeoverStep DEF IInv, Types
<1> QED BY <1>1, InvariantHolds, PTL DEF Spec, NoTakeover

(* A capability that stopped being accepted is never accepted again.       *)
THEOREM CapabilitiesDieOnce == Spec => DeadStaysDead
<1>1. IInv /\ [Next]_vars => [\A c \in 1 .. caps : c \notin Live => c \notin Live']_vars
    BY DeadStep DEF IInv, Types
<1> QED BY <1>1, InvariantHolds, PTL DEF Spec, DeadStaysDead

(* Only an accepted request of the session's holder restarts its clock,    *)
(* and none can after the deadline.                                        *)
THEOREM HolderExtends == Spec => ExtendedOnlyByHolder
<1>1. IInv /\ [Next]_vars => [tok # 0 /\ tok' = tok /\ idle' < idle
         => call'.ses = tok /\ idle < IdleTimeout]_vars
    BY ExtendStep DEF IInv, Types
<1> QED BY <1>1, InvariantHolds, PTL DEF Spec, ExtendedOnlyByHolder

(* A document handle disappears only with its session, by its own close or *)
(* by an eviction that covers its path.                                    *)
THEOREM HandlesDieByName == Spec => HandleDiesOnlyByName
<1>1. IInv /\ [Next]_vars => [\A d \in docs :
         \/ d \in docs'
         \/ tok' # tok
         \/ call'.m = "document_close" /\ call'.h = d.h
         \/ call'.m = "evict" /\ call'.path \in {d.path, "all"}]_vars
    BY HandleStep DEF IInv, Types
<1> QED BY <1>1, InvariantHolds, PTL DEF Spec, HandleDiesOnlyByName

(* A confirmation starts at most one plaintext export.                     *)
THEOREM ConfirmedOnce == Spec => ConfirmationSpentOnce
<1>1. IInv /\ [Next]_vars => [pc # "export_populate" /\ pc' = "export_populate"
         => call'.h \notin spent]_vars
    BY ConfirmStep DEF IInv, Types
<1> QED BY <1>1, InvariantHolds, PTL DEF Spec, ConfirmationSpentOnce

====
