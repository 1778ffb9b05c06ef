-------------------------- MODULE VaultMetadataProofs --------------------------
(***************************************************************************)
(* Proofs about the vault's metadata, for any number of sessions, slots,   *)
(* tags and writes.                                                        *)
(***************************************************************************)
EXTENDS VaultMetadata, FiniteSetTheorems, TLAPS

-----------------------------------------------------------------------------
(* The inductive invariant.                                                *)

\* vault.json has no slots only before it was created, and holds no slot that
\* was not generated.
FileInv ==
  /\ conf.slots = {} => conf = NoConfig
  /\ conf.slots \subseteq born

\* A session's copy has the slots of its etag, and feature 2 at least as soon:
\* the copy is of a later read only when vault.create opened the session, and
\* in between only the feature may have been enabled.
CopyInv ==
  \A s \in Sessions : sess[s].open = "yes" =>
    /\ sess[s].cfg.slots = sess[s].etag.slots /\ sess[s].cfg.slots # {}
    /\ sess[s].cfg.umbra # sess[s].etag.umbra =>
         sess[s].etag.umbra = "no" /\ conf.umbra = "yes"

\* What an operation holds between its accesses is what its first one made,
\* and only the second access of vault.create is made without a session.
StepInv ==
  \A s \in Sessions :
    /\ step[s].at = "reopen" =>
         step[s].cfg = [slots |-> {step[s].slot}, umbra |-> "no"]
    /\ step[s].at = "adopt" => step[s].slot \in step[s].cfg.slots
    /\ step[s].at \in {"adopt", "save"} => sess[s].open = "yes"

\* There is no key and no catalog without a key slot, and a session that is
\* about to write a catalog holds the key.
KeyInv ==
  /\ OneUmbraKey
  /\ keyslot.etag = 0 => keyslot.key = 0 /\ catalog.etag = 0
  /\ \A s \in Sessions : step[s].at = "save" => sess[s].key # 0

\* Numbers of writes are given out once, and a catalog that is about to
\* replace the one it was loaded from has all its tags.
TagInv ==
  /\ TagsKept
  /\ catalog.etag <= commits
  /\ \A s \in Sessions : sess[s].catEtag <= commits
  /\ \A s \in Sessions : step[s].at = "save" =>
       /\ step[s].tag \in step[s].tags
       /\ catalog.etag = sess[s].catEtag => catalog.tags \subseteq step[s].tags

IInv ==
  TypeOK /\ FileInv /\ CopyInv /\ StepInv /\ CredentialsKept /\ KeyInv /\ TagInv

-----------------------------------------------------------------------------
(* Types.                                                                  *)

\* A session that does not exist, and one just opened, are of their type.
LEMMA OpenedType ==
  ASSUME NEW c \in Configs, NEW e \in Configs, NEW x \in SlotIds
  PROVE  /\ Closed \in Sess /\ Opened(c, e, x) \in Sess
         /\ Opened(c, e, x) =
              [open |-> "yes", cfg |-> c, etag |-> e, slot |-> x,
               key |-> 0, keyEtag |-> 0, catEtag |-> 0]
<1>1. Closed.slot \in SlotIds
  BY MetadataAssumption DEF Closed
<1>2. NoConfig \in Configs /\ 0 \in Writes
  BY MetadataAssumption DEF NoConfig, Configs, Writes
<1>3. Closed = [open |-> "no", cfg |-> NoConfig, etag |-> NoConfig,
                slot |-> Closed.slot, key |-> 0, keyEtag |-> 0, catEtag |-> 0]
  BY DEF Closed
<1>4. Closed \in Sess
  BY <1>1, <1>2, <1>3 DEF Sess
<1>5. Opened(c, e, x) = [open |-> "yes", cfg |-> c, etag |-> e, slot |-> x,
                         key |-> 0, keyEtag |-> 0, catEtag |-> 0]
  <2>1. PICK y : Closed = [open |-> "no", cfg |-> NoConfig, etag |-> NoConfig,
                           slot |-> y, key |-> 0, keyEtag |-> 0, catEtag |-> 0]
    BY <1>3
  <2>2. Opened(c, e, x) =
          [[open |-> "no", cfg |-> NoConfig, etag |-> NoConfig, slot |-> y,
            key |-> 0, keyEtag |-> 0, catEtag |-> 0]
             EXCEPT !.open = "yes", !.cfg = c, !.etag = e, !.slot = x]
    BY <2>1 DEF Opened
  <2> QED BY <2>2
<1> QED BY <1>2, <1>4, <1>5 DEF Sess

\* The fields of a session, and of a step by where it is.
LEMMA SessionFields ==
  ASSUME TypeOK, NEW s \in Sessions
  PROVE  /\ sess[s] \in Sess
         /\ sess[s].open \in {"no", "yes"}
         /\ sess[s].cfg \in Configs /\ sess[s].etag \in Configs
         /\ sess[s].slot \in SlotIds
         /\ sess[s].key \in Writes /\ sess[s].keyEtag \in Writes
         /\ sess[s].catEtag \in Writes
BY DEF TypeOK, Sess

LEMMA StepFields ==
  ASSUME TypeOK, NEW s \in Sessions
  PROVE  /\ step[s].at \in {"idle", "reopen", "adopt", "save"}
         /\ step[s].at = "idle" => step[s] = Idle
         /\ step[s].at \in {"reopen", "adopt"} =>
              step[s].slot \in SlotIds /\ step[s].cfg \in Configs
         /\ step[s].at = "save" =>
              step[s].tags \in SUBSET Tags /\ step[s].tag \in Tags
<1>1. step[s] \in Steps
  BY DEF TypeOK
<1> QED BY <1>1 DEF Steps, Idle

\* Sets of slots are finite.
LEMMA SlotsFinite ==
  ASSUME NEW S \in SUBSET SlotIds
  PROVE  IsFiniteSet(S) /\ Cardinality(S) \in Nat
BY MetadataAssumption, FS_Subset, FS_CardinalityType

LEMMA InitInv == Init => IInv
<1> SUFFICES ASSUME Init PROVE IInv
  OBVIOUS
<1> USE DEF Init
<1>1. Cardinality(conf.slots) = 0
  BY FS_EmptySet DEF NoConfig
<1>2. \A s \in Sessions : sess[s] = Closed /\ step[s] = Idle
  OBVIOUS
<1>3. TypeOK
  <2>1. conf \in Configs /\ 0 <= MaxSlots /\ 0 \in Writes
    BY MetadataAssumption DEF NoConfig, Configs, Writes
  <2>2. keyslot \in KeySlots /\ catalog \in Catalogs
    BY <2>1 DEF KeySlots, Catalogs
  <2>3. Closed \in Sess
    BY OpenedType, <2>1, MetadataAssumption
  <2>4. Idle \in Steps
    BY DEF Steps
  <2> QED BY <1>1, <2>1, <2>2, <2>3, <2>4 DEF TypeOK
<1>4. CopyInv /\ StepInv
  BY <1>2 DEF CopyInv, StepInv, Closed, Idle
<1>5. FileInv /\ CredentialsKept
  BY <1>1, <1>3 DEF FileInv, CredentialsKept, TypeOK, NoConfig
<1>6. KeyInv /\ TagInv
  BY <1>2 DEF KeyInv, TagInv, OneUmbraKey, TagsKept, Closed, Idle
<1> QED BY <1>3, <1>4, <1>5, <1>6 DEF IInv

\* The parts of TypeOK that a step of the slots, of the Umbra key slot and
\* catalog, or of the sessions disturbs.
SlotsOK ==
  /\ conf \in Configs /\ Cardinality(conf.slots) <= MaxSlots
  /\ born \subseteq SlotIds /\ relied \subseteq born /\ removed \subseteq born
UmbraOK ==
  /\ keyslot \in KeySlots /\ catalog \in Catalogs /\ commits \in Writes
  /\ tagged \subseteq Tags
SessionsOK == sess \in [Sessions -> Sess]
StepsOK == step \in [Sessions -> Steps]

LEMMA TypeParts == TypeOK <=> SlotsOK /\ UmbraOK /\ SessionsOK /\ StepsOK
BY DEF TypeOK, SlotsOK, UmbraOK, SessionsOK, StepsOK

\* A session whose step ends, or begins, changes nobody's step but its own.
LEMMA StepChange ==
  ASSUME StepsOK, NEW s \in Sessions, NEW new \in Steps,
         step' = [step EXCEPT ![s] = new]
  PROVE  StepsOK' /\ step'[s] = new /\ \A r \in Sessions \ {s} : step'[r] = step[r]
BY DEF StepsOK

LEMMA SessChange ==
  ASSUME SessionsOK, NEW s \in Sessions, NEW new \in Sess,
         sess' = [sess EXCEPT ![s] = new]
  PROVE  SessionsOK' /\ sess'[s] = new /\ \A r \in Sessions \ {s} : sess'[r] = sess[r]
BY DEF SessionsOK

\* An accepted commit of a slot change starts from what is on disk.
LEMMA CurrentCopy ==
  ASSUME TypeOK, CopyInv, NEW s \in Sessions, sess[s].open = "yes",
         conf = sess[s].etag
  PROVE  sess[s].cfg = conf /\ conf.slots # {}
<1>1. sess[s].cfg.slots = conf.slots /\ sess[s].cfg.umbra = conf.umbra /\ conf.slots # {}
  BY DEF CopyInv
<1>2. sess[s].cfg \in Configs /\ conf \in Configs
  BY SessionFields DEF TypeOK
<1> QED BY <1>1, <1>2 DEF Configs

-----------------------------------------------------------------------------
(* What each kind of step does, in the words of the invariant.             *)

\* The steps that replace vault.json: the contents before and after.
Recreated(s) ==
  /\ conf.slots = {} /\ sess' = sess
  /\ \E x \in SlotIds \ born :
       /\ conf' = [slots |-> {x}, umbra |-> "no"] /\ born' = born \cup {x}
       /\ step' = [step EXCEPT ![s] = [at |-> "reopen", slot |-> x, cfg |-> conf']]
  /\ UNCHANGED <<relied, removed>>

Added(s) ==
  /\ sess' = sess /\ sess[s].open = "yes" /\ conf.slots # {}
  /\ Cardinality(conf.slots) < MaxSlots
  /\ \E x \in SlotIds \ born :
       /\ conf' = [slots |-> conf.slots \cup {x}, umbra |-> conf.umbra]
       /\ born' = born \cup {x}
       /\ step' = [step EXCEPT ![s] = [at |-> "adopt", slot |-> x, cfg |-> conf']]
  /\ UNCHANGED <<relied, removed>>

Dropped(s) ==
  /\ sess' = sess /\ sess[s].open = "yes"
  /\ \E x \in conf.slots : \E kept \in conf.slots \ {x} :
       /\ conf' = [slots |-> conf.slots \ {x}, umbra |-> conf.umbra]
       /\ step' = [step EXCEPT ![s] = [at |-> "adopt", slot |-> kept, cfg |-> conf']]
       /\ removed' = removed \cup {x} /\ relied' = relied \cup {kept}
  /\ born' = born

Enabled(s) ==
  /\ sess[s].open = "yes" /\ conf.slots # {}
  /\ conf' = [slots |-> conf.slots, umbra |-> "yes"]
  /\ sess' = [sess EXCEPT ![s].cfg = conf', ![s].etag = conf']
  /\ UNCHANGED <<step, born, relied, removed>>

LEMMA SlotCommits ==
  ASSUME TypeOK, CopyInv, NEW s \in Sessions
  PROVE  /\ Create(s) => Recreated(s)
         /\ AddSlot(s) => Added(s)
         /\ RemoveSlot(s) => Dropped(s)
         /\ EnableUmbra(s) => Enabled(s)
<1>1. conf = [slots |-> conf.slots, umbra |-> conf.umbra]
  BY DEF TypeOK, Configs
<1>2. Create(s) => Recreated(s)
  BY DEF Create, Recreated
<1>3. ASSUME AddSlot(s) PROVE Added(s)
  <2>1. sess[s].cfg = conf /\ conf.slots # {}
    BY <1>3, CurrentCopy DEF AddSlot, Ready, Commit
  <2>2. \A x : [conf EXCEPT !.slots = @ \cup {x}]
                 = [slots |-> conf.slots \cup {x}, umbra |-> conf.umbra]
    BY <1>1
  <2> QED BY <1>3, <2>1, <2>2 DEF AddSlot, Ready, Commit, Added
<1>4. ASSUME RemoveSlot(s) PROVE Dropped(s)
  <2>1. sess[s].cfg = conf /\ conf.slots # {}
    BY <1>4, CurrentCopy DEF RemoveSlot, Ready, Commit
  <2>2. \A x : [conf EXCEPT !.slots = @ \ {x}]
                 = [slots |-> conf.slots \ {x}, umbra |-> conf.umbra]
    BY <1>1
  <2> QED BY <1>4, <2>1, <2>2 DEF RemoveSlot, Ready, Commit, Dropped
<1>5. ASSUME EnableUmbra(s) PROVE Enabled(s)
  <2>1. sess[s].cfg = conf /\ conf.slots # {}
    BY <1>5, CurrentCopy DEF EnableUmbra, Ready
  <2>2. [conf EXCEPT !.umbra = "yes"] = [slots |-> conf.slots, umbra |-> "yes"]
    BY <1>1
  <2> QED BY <1>5, <2>1, <2>2 DEF EnableUmbra, Ready, Enabled, history
<1> QED BY <1>2, <1>3, <1>4, <1>5

-----------------------------------------------------------------------------
(* Steps that leave one half of the metadata alone.                        *)

\* A step that leaves the key slot and the catalog alone, and no key or loaded
\* etag in a session but to forget it, keeps what is said about them.
LEMMA UmbraUntouched ==
  ASSUME UmbraOK, KeyInv, TagInv, UNCHANGED umbraFiles,
         \A r \in Sessions :
           /\ step'[r].at = "save" => step'[r] = step[r]
           /\ \/ /\ sess'[r].key = sess[r].key
                 /\ sess'[r].catEtag = sess[r].catEtag
              \/ /\ step'[r].at # "save"
                 /\ sess'[r].key = 0 /\ sess'[r].catEtag = 0
  PROVE  UmbraOK' /\ KeyInv' /\ TagInv'
<1> USE DEF umbraFiles
<1>1. UmbraOK'
  BY DEF UmbraOK
<1>2. 0 <= commits
  BY MetadataAssumption DEF UmbraOK, Writes
<1>3. KeyInv'
  BY DEF KeyInv, OneUmbraKey
<1>4. TagInv'
  BY <1>2 DEF TagInv, TagsKept
<1> QED BY <1>1, <1>3, <1>4

\* The step of a session that goes on, ends, or is now about to save a catalog.
StepKept(r) ==
  \/ step'[r] = step[r]
  \/ step'[r].at = "idle"
  \/ step'[r].at = "save" /\ sess[r].open = "yes"

\* A step that leaves vault.json alone, and the copies of the sessions, keeps
\* what is said about them.
LEMMA SlotsUntouched ==
  ASSUME SlotsOK, FileInv, CopyInv, StepInv, CredentialsKept,
         UNCHANGED <<conf, history>>,
         \A r \in Sessions :
           /\ StepKept(r)
           /\ sess'[r].open = sess[r].open
           /\ sess'[r].cfg = sess[r].cfg /\ sess'[r].etag = sess[r].etag
  PROVE  SlotsOK' /\ FileInv' /\ CopyInv' /\ StepInv' /\ CredentialsKept'
<1> USE DEF history
<1>1. SlotsOK' /\ FileInv' /\ CredentialsKept'
  BY DEF SlotsOK, FileInv, CredentialsKept
<1>2. CopyInv'
  BY DEF CopyInv
<1>3. StepInv'
  BY DEF StepInv, StepKept
<1> QED BY <1>1, <1>2, <1>3

\* The parts make the whole, before and after a step.
LEMMA Whole ==
  /\ IInv => /\ SlotsOK /\ UmbraOK /\ SessionsOK /\ StepsOK /\ TypeOK
             /\ FileInv /\ CopyInv /\ StepInv /\ CredentialsKept
             /\ KeyInv /\ TagInv
  /\ SlotsOK' /\ UmbraOK' /\ SessionsOK' /\ StepsOK' => TypeOK'
BY DEF IInv, TypeOK, SlotsOK, UmbraOK, SessionsOK, StepsOK

-----------------------------------------------------------------------------
(* Each step keeps the invariant.                                          *)

LEMMA RecreatedInv ==
  ASSUME IInv, NEW s \in Sessions, Recreated(s), UNCHANGED umbraFiles
  PROVE  IInv'
<1> USE Whole
<1>1. PICK x \in SlotIds \ born :
        /\ conf.slots = {} /\ sess' = sess
        /\ conf' = [slots |-> {x}, umbra |-> "no"] /\ born' = born \cup {x}
        /\ step' = [step EXCEPT ![s] = [at |-> "reopen", slot |-> x, cfg |-> conf']]
        /\ UNCHANGED <<relied, removed>>
  BY DEF Recreated
<1>2. conf' \in Configs /\ Cardinality(conf'.slots) <= MaxSlots
      /\ conf'.slots = {x} /\ conf'.umbra = "no"
  <2>1. Cardinality({x}) = 1 /\ 1 <= MaxSlots
    BY FS_Singleton, MetadataAssumption
  <2> QED BY <1>1, <2>1 DEF Configs
<1>3. SlotsOK'
  BY <1>1, <1>2 DEF SlotsOK
<1>4. StepsOK' /\ step'[s] = [at |-> "reopen", slot |-> x, cfg |-> conf']
      /\ \A r \in Sessions \ {s} : step'[r] = step[r]
  <2>1. [at |-> "reopen", slot |-> x, cfg |-> conf'] \in Steps
    BY <1>1, <1>2 DEF Steps
  <2> QED BY <1>1, <2>1, StepChange
<1>5. SessionsOK' /\ UmbraOK' /\ KeyInv' /\ TagInv'
  BY <1>1, <1>4, UmbraUntouched DEF SessionsOK
<1>6. FileInv' /\ CredentialsKept'
  BY <1>1, <1>2 DEF FileInv, CredentialsKept
<1>7. CopyInv'
  <2> SUFFICES ASSUME NEW r \in Sessions, sess[r].open = "yes"
               PROVE  sess[r].cfg.umbra = sess[r].etag.umbra
    BY <1>1 DEF CopyInv
  <2>1. conf.umbra = "no"
    BY <1>1 DEF FileInv, NoConfig
  <2> QED BY <2>1 DEF CopyInv
<1>8. StepInv'
  <2>1. /\ step'[s].at = "reopen" /\ step'[s].slot = x
        /\ step'[s].cfg = [slots |-> {x}, umbra |-> "no"]
    BY <1>1, <1>4
  <2>2. StepInv
    OBVIOUS
  <2> QED BY <1>1, <1>4, <2>1, <2>2 DEF StepInv
<1> QED BY <1>3, <1>4, <1>5, <1>6, <1>7, <1>8 DEF IInv

LEMMA AddedInv ==
  ASSUME IInv, NEW s \in Sessions, Added(s), UNCHANGED umbraFiles
  PROVE  IInv'
<1> USE Whole
<1>1. PICK x \in SlotIds \ born :
        /\ sess' = sess /\ sess[s].open = "yes" /\ conf.slots # {}
        /\ Cardinality(conf.slots) < MaxSlots
        /\ conf' = [slots |-> conf.slots \cup {x}, umbra |-> conf.umbra]
        /\ born' = born \cup {x}
        /\ step' = [step EXCEPT ![s] = [at |-> "adopt", slot |-> x, cfg |-> conf']]
        /\ UNCHANGED <<relied, removed>>
  BY DEF Added
<1>2. conf' \in Configs /\ Cardinality(conf'.slots) <= MaxSlots
      /\ conf'.slots = conf.slots \cup {x} /\ conf'.umbra = conf.umbra
  <2>1. conf.slots \in SUBSET SlotIds /\ conf.umbra \in {"no", "yes"}
    BY DEF SlotsOK, Configs
  <2>2. IsFiniteSet(conf.slots) /\ Cardinality(conf.slots) \in Nat
    BY <2>1, SlotsFinite
  <2>3. x \notin conf.slots
    BY DEF FileInv
  <2>4. Cardinality(conf.slots \cup {x}) = Cardinality(conf.slots) + 1
    BY <2>2, <2>3, FS_AddElement
  <2>5. Cardinality(conf.slots) + 1 <= MaxSlots
    BY <1>1, <2>2, MetadataAssumption
  <2> QED BY <1>1, <2>1, <2>4, <2>5 DEF Configs
<1>3. SlotsOK'
  BY <1>1, <1>2 DEF SlotsOK
<1>4. StepsOK' /\ step'[s] = [at |-> "adopt", slot |-> x, cfg |-> conf']
      /\ \A r \in Sessions \ {s} : step'[r] = step[r]
  <2>1. [at |-> "adopt", slot |-> x, cfg |-> conf'] \in Steps
    BY <1>1, <1>2 DEF Steps
  <2> QED BY <1>1, <2>1, StepChange
<1>5. SessionsOK' /\ UmbraOK' /\ KeyInv' /\ TagInv'
  BY <1>1, <1>4, UmbraUntouched DEF SessionsOK
<1>6. FileInv' /\ CredentialsKept'
  BY <1>1, <1>2 DEF FileInv, CredentialsKept
<1>7. CopyInv'
  BY <1>1, <1>2 DEF CopyInv
<1>8. StepInv'
  BY <1>1, <1>2, <1>4 DEF StepInv
<1> QED BY <1>3, <1>4, <1>5, <1>6, <1>7, <1>8 DEF IInv

LEMMA DroppedInv ==
  ASSUME IInv, NEW s \in Sessions, Dropped(s), UNCHANGED umbraFiles
  PROVE  IInv'
<1> USE Whole
<1>1. PICK x \in conf.slots, kept \in conf.slots :
        /\ kept # x /\ sess' = sess /\ sess[s].open = "yes"
        /\ conf' = [slots |-> conf.slots \ {x}, umbra |-> conf.umbra]
        /\ step' = [step EXCEPT ![s] = [at |-> "adopt", slot |-> kept, cfg |-> conf']]
        /\ removed' = removed \cup {x} /\ relied' = relied \cup {kept} /\ born' = born
  BY DEF Dropped
<1>2. conf' \in Configs /\ Cardinality(conf'.slots) <= MaxSlots
      /\ conf'.slots = conf.slots \ {x} /\ conf'.umbra = conf.umbra
      /\ kept \in SlotIds
  <2>1. conf.slots \in SUBSET SlotIds /\ conf.umbra \in {"no", "yes"}
        /\ Cardinality(conf.slots) <= MaxSlots
    BY DEF SlotsOK, Configs
  <2>2. IsFiniteSet(conf.slots) /\ Cardinality(conf.slots) \in Nat
        /\ Cardinality(conf.slots \ {x}) \in Nat
    BY <2>1, SlotsFinite
  <2>3. Cardinality(conf.slots \ {x}) <= Cardinality(conf.slots)
    BY <2>2, FS_Subset
  <2>4. Cardinality(conf.slots \ {x}) <= MaxSlots
    BY <2>1, <2>2, <2>3, MetadataAssumption
  <2> QED BY <1>1, <2>1, <2>4 DEF Configs
<1>3. SlotsOK'
  BY <1>1, <1>2 DEF SlotsOK, FileInv
<1>4. StepsOK' /\ step'[s] = [at |-> "adopt", slot |-> kept, cfg |-> conf']
      /\ \A r \in Sessions \ {s} : step'[r] = step[r]
  <2>1. [at |-> "adopt", slot |-> kept, cfg |-> conf'] \in Steps
    BY <1>1, <1>2 DEF Steps
  <2> QED BY <1>1, <2>1, StepChange
<1>5. SessionsOK' /\ UmbraOK' /\ KeyInv' /\ TagInv'
  BY <1>1, <1>4, UmbraUntouched DEF SessionsOK
<1>6. FileInv' /\ CredentialsKept'
  BY <1>1, <1>2 DEF FileInv, CredentialsKept
<1>7. CopyInv'
  BY <1>1, <1>2 DEF CopyInv
<1>8. StepInv'
  BY <1>1, <1>2, <1>4 DEF StepInv
<1> QED BY <1>3, <1>4, <1>5, <1>6, <1>7, <1>8 DEF IInv

LEMMA EnabledInv ==
  ASSUME IInv, NEW s \in Sessions, Enabled(s), UNCHANGED umbraFiles
  PROVE  IInv'
<1> USE Whole
<1>1. /\ sess[s].open = "yes" /\ conf.slots # {}
      /\ conf' = [slots |-> conf.slots, umbra |-> "yes"]
      /\ sess' = [sess EXCEPT ![s].cfg = conf', ![s].etag = conf']
      /\ UNCHANGED <<step, born, relied, removed>>
  BY DEF Enabled
<1>2. conf' \in Configs /\ Cardinality(conf'.slots) <= MaxSlots
      /\ conf'.slots = conf.slots /\ conf'.umbra = "yes"
  BY <1>1 DEF SlotsOK, Configs
<1>3. SlotsOK'
  BY <1>1, <1>2 DEF SlotsOK
<1> DEFINE new == [sess[s] EXCEPT !.cfg = conf', !.etag = conf']
<1>4. new \in Sess /\ new.open = "yes" /\ new.cfg = conf' /\ new.etag = conf'
      /\ new.key = sess[s].key /\ new.catEtag = sess[s].catEtag
  BY <1>1, <1>2 DEF SessionsOK, Sess
<1>5. sess' = [sess EXCEPT ![s] = new]
  BY <1>1 DEF SessionsOK
<1> HIDE DEF new
<1>6. SessionsOK' /\ sess'[s] = new
      /\ \A r \in Sessions \ {s} : sess'[r] = sess[r]
  BY <1>4, <1>5, SessChange
<1>7. StepsOK' /\ UmbraOK' /\ KeyInv' /\ TagInv'
  <2>1. \A r \in Sessions :
          sess'[r].key = sess[r].key /\ sess'[r].catEtag = sess[r].catEtag
    BY <1>4, <1>6
  <2>2. UmbraOK' /\ KeyInv' /\ TagInv'
    BY <1>1, <2>1, UmbraUntouched
  <2> QED BY <1>1, <2>2 DEF StepsOK
<1>8. FileInv' /\ CredentialsKept'
  BY <1>1, <1>2 DEF FileInv, CredentialsKept
<1>9. CopyInv'
  <2> SUFFICES ASSUME NEW r \in Sessions, sess'[r].open = "yes"
               PROVE  /\ sess'[r].cfg.slots = sess'[r].etag.slots
                      /\ sess'[r].cfg.slots # {}
                      /\ sess'[r].cfg.umbra # sess'[r].etag.umbra =>
                           sess'[r].etag.umbra = "no"
    BY <1>2 DEF CopyInv
  <2>1. CASE r = s
    BY <1>1, <1>2, <1>4, <1>6, <2>1
  <2>2. CASE r # s
    BY <1>6, <2>2 DEF CopyInv
  <2> QED BY <2>1, <2>2
<1>10. StepInv'
  <2>1. StepInv /\ \A r \in Sessions : sess'[r].open = sess[r].open
    BY <1>1, <1>4, <1>6
  <2> QED BY <1>1, <2>1 DEF StepInv
<1> QED BY <1>3, <1>6, <1>7, <1>8, <1>9, <1>10 DEF IInv

\* Opening, closing and adopting: one session ends what it was doing and holds
\* another copy, and only slots of vault.json are relied on.
LEMMA MovedInv ==
  ASSUME IInv, NEW s \in Sessions, NEW new \in Sess,
         sess' = [sess EXCEPT ![s] = new], step' = [step EXCEPT ![s] = Idle],
         UNCHANGED <<conf, umbraFiles, born>>,
         relied \subseteq relied', relied' \subseteq relied \cup conf.slots,
         removed' = removed,
         new.open = "yes" =>
           /\ new.cfg.slots = new.etag.slots /\ new.cfg.slots # {}
           /\ new.cfg.umbra # new.etag.umbra =>
                new.etag.umbra = "no" /\ conf.umbra = "yes",
         \/ new.key = 0 /\ new.catEtag = 0
         \/ new.key = sess[s].key /\ new.catEtag = sess[s].catEtag
  PROVE  IInv'
<1> USE Whole
<1>1. SessionsOK' /\ sess'[s] = new
      /\ \A r \in Sessions \ {s} : sess'[r] = sess[r]
  BY SessChange
<1>2. StepsOK' /\ step'[s] = Idle
      /\ \A r \in Sessions \ {s} : step'[r] = step[r]
  <2>1. Idle \in Steps
    BY DEF Steps
  <2> QED BY <2>1, StepChange
<1>3. UmbraOK' /\ KeyInv' /\ TagInv'
  BY <1>1, <1>2, UmbraUntouched DEF Idle
<1>4. SlotsOK' /\ FileInv' /\ CredentialsKept'
  BY DEF SlotsOK, FileInv, CredentialsKept
<1>5. CopyInv'
  BY <1>1 DEF CopyInv
<1>6. StepInv'
  BY <1>1, <1>2 DEF StepInv, Idle
<1> QED BY <1>1, <1>2, <1>3, <1>4, <1>5, <1>6 DEF IInv

\* A step that does nothing but end leaves the session as it is.
LEMMA EndedInv ==
  ASSUME IInv, NEW s \in Sessions, step' = [step EXCEPT ![s] = Idle],
         UNCHANGED <<conf, umbraFiles, sess, history>>
  PROVE  IInv'
<1> USE Whole
<1>1. sess[s] \in Sess /\ sess' = [sess EXCEPT ![s] = sess[s]]
  BY DEF SessionsOK
<1>2. CopyInv
  OBVIOUS
<1> QED BY <1>1, <1>2, MovedInv DEF history, CopyInv

LEMMA OpenCloseInv ==
  ASSUME IInv, NEW s \in Sessions
  PROVE  /\ Reopen(s) => IInv'
         /\ Unlock(s) => IInv'
         /\ Close(s) => IInv'
         /\ Adopt(s) => IInv'
<1> USE Whole
<1>t. conf \in Configs /\ conf.slots \subseteq SlotIds
  BY DEF SlotsOK, Configs
<1>1. ASSUME Reopen(s) PROVE IInv'
  <2>1. CASE UNCHANGED <<sess, relied>>
    BY <1>1, <2>1, EndedInv DEF Reopen, history
  <2>2. CASE /\ conf.slots = {step[s].slot}
             /\ sess' = [sess EXCEPT ![s] =
                           Opened(conf, step[s].cfg, step[s].slot)]
             /\ relied' = relied \cup {step[s].slot}
    <3>1. /\ step[s].slot \in SlotIds /\ step[s].cfg \in Configs
          /\ step[s].cfg.slots = conf.slots /\ step[s].cfg.umbra = "no"
      <4>1. step[s].cfg = [slots |-> {step[s].slot}, umbra |-> "no"]
        BY <1>1 DEF Reopen, StepInv
      <4>2. step[s].slot \in SlotIds /\ step[s].cfg \in Configs
        BY <1>1, StepFields DEF Reopen
      <4> QED BY <2>2, <4>1, <4>2
    <3> DEFINE new == Opened(conf, step[s].cfg, step[s].slot)
    <3>2. /\ new \in Sess /\ new.key = 0 /\ new.catEtag = 0
          /\ new.cfg = conf /\ new.etag = step[s].cfg
      BY <3>1, <1>t, OpenedType
    <3> HIDE DEF new
    <3>3. conf.umbra \in {"no", "yes"} /\ conf.slots # {}
      BY <1>t, <2>2 DEF Configs
    <3>4. sess' = [sess EXCEPT ![s] = new]
      BY <2>2 DEF new
    <3> QED BY <1>1, <2>2, <3>1, <3>2, <3>3, <3>4, MovedInv DEF Reopen
  <2> QED BY <1>1, <2>1, <2>2 DEF Reopen
<1>2. ASSUME Unlock(s) PROVE IInv'
  <2>1. PICK x \in conf.slots :
          /\ sess' = [sess EXCEPT ![s] = Opened(conf, conf, x)]
          /\ relied' = relied \cup {x}
    BY <1>2 DEF Unlock
  <2> DEFINE new == Opened(conf, conf, x)
  <2>2. /\ new \in Sess /\ new.key = 0 /\ new.catEtag = 0
        /\ new.cfg = conf /\ new.etag = conf
    BY <1>t, OpenedType
  <2> HIDE DEF new
  <2>3. sess' = [sess EXCEPT ![s] = new]
    BY <2>1 DEF new
  <2>4. step' = [step EXCEPT ![s] = Idle]
    BY <1>2, StepFields DEF Unlock, StepsOK
  <2> QED BY <1>2, <2>1, <2>2, <2>3, <2>4, MovedInv DEF Unlock
<1>3. ASSUME Close(s) PROVE IInv'
  <2>1. Closed \in Sess /\ Closed.open = "no" /\ Closed.key = 0
        /\ Closed.catEtag = 0
    BY <1>t, MetadataAssumption, OpenedType DEF Closed
  <2> QED BY <1>3, <2>1, MovedInv DEF Close, history
<1>4. ASSUME Adopt(s) PROVE IInv'
  <2>1. CASE UNCHANGED <<sess, relied>>
    BY <1>4, <2>1, EndedInv DEF Adopt, history
  <2>2. CASE /\ conf = step[s].cfg
             /\ sess' = [sess EXCEPT ![s].cfg = conf, ![s].etag = conf,
                                     ![s].slot = step[s].slot]
             /\ relied' = relied \cup {step[s].slot}
    <3>1. step[s].slot \in SlotIds /\ step[s].slot \in conf.slots
      BY <1>4, <2>2, StepFields DEF Adopt, StepInv
    <3> DEFINE new == [sess[s] EXCEPT !.cfg = conf, !.etag = conf,
                                      !.slot = step[s].slot]
    <3>2. /\ new \in Sess /\ new.cfg = conf /\ new.etag = conf
          /\ new.key = sess[s].key /\ new.catEtag = sess[s].catEtag
      BY <3>1, <1>t DEF SessionsOK, Sess
    <3>3. sess' = [sess EXCEPT ![s] = new]
      BY <2>2 DEF SessionsOK
    <3> HIDE DEF new
    <3> QED BY <1>4, <2>2, <3>1, <3>2, <3>3, MovedInv DEF Adopt
  <2> QED BY <1>4, <2>1, <2>2 DEF Adopt
<1> QED BY <1>1, <1>2, <1>3, <1>4

\* A step of the Umbra key slot or of the catalog gives one session another
\* key or another loaded etag, and its own step another value or none.
LEMMA KeysMoved ==
  ASSUME IInv, NEW s \in Sessions, NEW new \in Sess, StepsOK',
         sess' = [sess EXCEPT ![s] = new],
         \A r \in Sessions : StepKept(r),
         new.open = sess[s].open, new.cfg = sess[s].cfg, new.etag = sess[s].etag,
         UNCHANGED <<conf, history>>,
         UmbraOK', KeyInv', TagInv'
  PROVE  IInv'
<1> USE Whole
<1>1. SessionsOK' /\ sess'[s] = new
      /\ \A r \in Sessions \ {s} : sess'[r] = sess[r]
  BY SessChange
<1>2. SlotsOK' /\ FileInv' /\ CopyInv' /\ StepInv' /\ CredentialsKept'
  BY <1>1, SlotsUntouched
<1> QED BY <1>1, <1>2 DEF IInv

\* The session of a step of the key slot or the catalog, after it.
Keyed(s, key, keyEtag, catEtag) ==
  [sess[s] EXCEPT !.key = key, !.keyEtag = keyEtag, !.catEtag = catEtag]

LEMMA KeyedType ==
  ASSUME SessionsOK, NEW s \in Sessions,
         NEW k \in Writes, NEW e \in Writes, NEW c \in Writes
  PROVE  /\ Keyed(s, k, e, c) \in Sess
         /\ Keyed(s, k, e, c).open = sess[s].open
         /\ Keyed(s, k, e, c).cfg = sess[s].cfg
         /\ Keyed(s, k, e, c).etag = sess[s].etag
         /\ Keyed(s, k, e, c).key = k /\ Keyed(s, k, e, c).catEtag = c
BY DEF SessionsOK, Sess, Keyed

\* Every number of a write is at most the number of writes.
LEMMA WritesAreOld ==
  ASSUME IInv
  PROVE  /\ commits \in Nat /\ catalog.etag \in Nat /\ catalog.etag <= commits
         /\ \A r \in Sessions :
              sess[r].catEtag \in Nat /\ sess[r].catEtag <= commits
<1>1. Writes \subseteq Nat
  BY MetadataAssumption DEF Writes
<1>2. commits \in Writes /\ catalog.etag \in Writes
  BY Whole DEF UmbraOK, Catalogs
<1>3. \A r \in Sessions : sess[r].catEtag \in Writes
  BY Whole, SessionFields
<1> QED BY <1>1, <1>2, <1>3, Whole DEF TagInv

\* Initializing: there was no key anywhere, so the new one is the only one.
LEMMA InitializeInv ==
  ASSUME IInv, NEW s \in Sessions, InitializeUmbra(s)
  PROVE  IInv'
<1> USE Whole
<1> DEFINE n == commits + 1
           new == Keyed(s, n, n, 0)
<1>1. n \in Writes /\ 0 \in Writes /\ commits \in Writes /\ commits < n
  BY MetadataAssumption DEF InitializeUmbra, UmbraOK, Writes
<1>2. /\ Ready(s) /\ keyslot.etag = 0 /\ commits' = n
      /\ keyslot' = [etag |-> n, key |-> n]
      /\ sess' = [sess EXCEPT ![s].key = n, ![s].keyEtag = n, ![s].catEtag = 0]
      /\ UNCHANGED <<conf, catalog, step, history, tagged>>
  BY DEF InitializeUmbra
<1> HIDE DEF n
<1>3. sess' = [sess EXCEPT ![s] = new]
  BY <1>2 DEF SessionsOK, Keyed
<1>4. /\ new \in Sess /\ new.key = n /\ new.catEtag = 0
      /\ new.open = sess[s].open /\ new.cfg = sess[s].cfg /\ new.etag = sess[s].etag
  BY <1>1, KeyedType
<1> HIDE DEF new
<1>5. sess'[s] = new /\ \A r \in Sessions \ {s} : sess'[r] = sess[r]
  BY <1>3, <1>4, SessChange
<1>6. StepsOK' /\ UNCHANGED <<conf, history>> /\ \A r \in Sessions : StepKept(r)
  BY <1>2 DEF StepsOK, history, StepKept
<1>7. UmbraOK'
  BY <1>1, <1>2 DEF UmbraOK, KeySlots
<1>k. /\ \A r \in Sessions : sess[r].key = 0
      /\ \A r \in Sessions : step'[r].at # "save"
  <2>1. \A r \in Sessions : sess[r].key = 0
    BY <1>2 DEF KeyInv, OneUmbraKey
  <2> QED BY <1>2, <2>1 DEF KeyInv
<1>8. KeyInv'
  <2>2. catalog'.etag = 0 /\ keyslot'.etag # 0 /\ keyslot'.key = n
    BY <1>1, <1>2 DEF KeyInv, Writes
  <2>3. \A r \in Sessions : sess'[r].key \in {0, n}
    BY <1>4, <1>5, <1>k
  <2> QED BY <1>k, <2>2, <2>3 DEF KeyInv, OneUmbraKey
<1>9. TagInv'
  <2>1. catalog.etag <= n /\ 0 <= n /\ \A r \in Sessions : sess[r].catEtag <= n
    <3>1. /\ catalog.etag \in Nat /\ catalog.etag <= commits
          /\ \A r \in Sessions : sess[r].catEtag \in Nat /\ sess[r].catEtag <= commits
      BY WritesAreOld
    <3>2. commits \in Nat /\ n \in Nat
      BY <1>1, MetadataAssumption DEF Writes
    <3> QED BY <1>1, <3>1, <3>2
  <2>2. \A r \in Sessions : sess'[r].catEtag <= commits'
    BY <1>2, <1>4, <1>5, <2>1
  <2>3. TagsKept /\ UNCHANGED <<catalog, tagged>> /\ commits' = n
    BY <1>2 DEF TagInv
  <2> QED BY <1>k, <2>1, <2>2, <2>3 DEF TagInv, TagsKept
<1> QED BY <1>2, <1>3, <1>4, <1>6, <1>7, <1>8, <1>9, KeysMoved

\* Taking the key, forgetting it, and rewrapping it: the key slot's key stays.
LEMMA KeySlotInv ==
  ASSUME IInv, NEW s \in Sessions
  PROVE  /\ UnlockUmbra(s) => IInv'
         /\ LockUmbra(s) => IInv'
         /\ ChangeUmbraPassword(s) => IInv'
<1> USE Whole
<1>w. /\ 0 \in Writes /\ keyslot.key \in Writes /\ keyslot.etag \in Writes
      /\ keyslot = [etag |-> keyslot.etag, key |-> keyslot.key]
  BY MetadataAssumption DEF UmbraOK, KeySlots, Writes
<1>u. commits \in Writes /\ commits <= commits /\ keyslot \in KeySlots
  BY WritesAreOld DEF UmbraOK
<1>i. /\ Ready(s) => step[s].at = "idle"
      /\ UNCHANGED step => StepsOK' /\ \A r \in Sessions : step'[r] = step[r] /\ StepKept(r)
  BY DEF Ready, StepsOK, StepKept
<1>c. 0 <= commits /\ \A r \in Sessions : sess[r].catEtag <= commits
  BY WritesAreOld
\* Whatever changes, s is left with the key of the key slot or with none.
<1>1. ASSUME NEW k \in {0, keyslot.key}, NEW e \in Writes, NEW c \in Writes,
             c = 0 \/ c = sess[s].catEtag,
             Ready(s), UNCHANGED <<conf, catalog, step, history, tagged>>,
             sess' = [sess EXCEPT ![s] = Keyed(s, k, e, c)],
             keyslot'.key = keyslot.key, keyslot' \in KeySlots,
             keyslot'.etag = 0 => keyslot.etag = 0,
             commits' \in Writes, commits <= commits'
      PROVE  IInv'
  <2>1. /\ Keyed(s, k, e, c) \in Sess /\ Keyed(s, k, e, c).key = k
        /\ Keyed(s, k, e, c).catEtag = c /\ Keyed(s, k, e, c).open = sess[s].open
        /\ Keyed(s, k, e, c).cfg = sess[s].cfg
        /\ Keyed(s, k, e, c).etag = sess[s].etag
    BY <1>1, <1>w, KeyedType
  <2>2. sess'[s] = Keyed(s, k, e, c)
        /\ \A r \in Sessions \ {s} : sess'[r] = sess[r]
    BY <1>1, <2>1, SessChange
  <2>3. \A r \in Sessions : step'[r].at = "save" =>
          r # s /\ step'[r] = step[r] /\ sess'[r] = sess[r]
    BY <1>1, <1>i, <2>2
  <2>4. UmbraOK'
    BY <1>1 DEF UmbraOK
  <2>5. KeyInv'
    <3>1. \A r \in Sessions : sess'[r].key \in {0, keyslot.key}
      BY <1>1, <2>1, <2>2 DEF KeyInv, OneUmbraKey
    <3>2. catalog.etag # 0 => catalog.key = keyslot.key
      BY DEF KeyInv, OneUmbraKey
    <3>3. \A r \in Sessions : step'[r].at = "save" => sess'[r].key # 0
      BY <2>3 DEF KeyInv
    <3>4. keyslot.etag = 0 => keyslot.key = 0 /\ catalog.etag = 0
      BY DEF KeyInv
    <3> QED BY <1>1, <3>1, <3>2, <3>3, <3>4 DEF KeyInv, OneUmbraKey
  <2>6. TagInv'
    <3>1. \A r \in Sessions : sess'[r].catEtag <= commits
      BY <1>1, <1>c, <2>1, <2>2
    <3>2. \A r \in Sessions : sess'[r].catEtag \in Writes
      BY <1>1, <2>1, <2>2, SessionFields
    <3>3. /\ catalog.etag <= commits'
          /\ \A r \in Sessions : sess'[r].catEtag <= commits'
      BY <1>1, <3>1, <3>2, WritesAreOld, MetadataAssumption DEF Writes
    <3>4. TagInv
      OBVIOUS
    <3> QED BY <1>1, <2>3, <3>3, <3>4 DEF TagInv, TagsKept
  <2>7. StepsOK' /\ UNCHANGED <<conf, history>> /\ \A r \in Sessions : StepKept(r)
    BY <1>1, <1>i DEF history
  <2> QED BY <1>1, <2>1, <2>4, <2>5, <2>6, <2>7, KeysMoved
<1>2. ASSUME UnlockUmbra(s) PROVE IInv'
  <2>1. sess' = [sess EXCEPT ![s] = Keyed(s, keyslot.key, keyslot.etag, 0)]
    BY <1>2 DEF UnlockUmbra, SessionsOK, Keyed
  <2>2. /\ Ready(s) /\ UNCHANGED <<conf, catalog, step, history, tagged>>
        /\ keyslot' = keyslot /\ commits' = commits
    BY <1>2 DEF UnlockUmbra, umbraFiles
  <2> QED BY <1>1, <1>u, <1>w, <2>1, <2>2
<1>3. ASSUME LockUmbra(s) PROVE IInv'
  <2>1. sess' = [sess EXCEPT ![s] = Keyed(s, 0, 0, 0)]
    BY <1>3 DEF LockUmbra, SessionsOK, Keyed
  <2>2. /\ Ready(s) /\ UNCHANGED <<conf, catalog, step, history, tagged>>
        /\ keyslot' = keyslot /\ commits' = commits
    BY <1>3 DEF LockUmbra, umbraFiles
  <2> QED BY <1>1, <1>u, <1>w, <2>1, <2>2
<1>4. ASSUME ChangeUmbraPassword(s) PROVE IInv'
  <2>1. /\ sess[s].key = keyslot.key /\ sess[s].catEtag \in Writes
        /\ commits + 1 \in Writes /\ commits <= commits + 1 /\ commits + 1 # 0
    <3>1. sess[s].key = keyslot.key
      BY <1>4 DEF ChangeUmbraPassword, KeyInv, OneUmbraKey
    <3>2. commits \in Nat /\ commits < MaxCommits
      BY <1>4, WritesAreOld DEF ChangeUmbraPassword
    <3>3. commits + 1 \in Writes /\ commits <= commits + 1 /\ commits + 1 # 0
      BY <3>2, MetadataAssumption DEF Writes
    <3> QED BY <3>1, <3>3, SessionFields
  <2>2. sess' = [sess EXCEPT ![s] =
                   Keyed(s, keyslot.key, commits + 1, sess[s].catEtag)]
    <3>1. [sess[s] EXCEPT !.keyEtag = commits + 1]
            = Keyed(s, sess[s].key, commits + 1, sess[s].catEtag)
      BY DEF Keyed, SessionsOK, Sess
    <3> QED BY <1>4, <2>1, <3>1 DEF ChangeUmbraPassword, SessionsOK
  <2>3. /\ keyslot' = [etag |-> commits + 1, key |-> keyslot.key]
        /\ Ready(s) /\ commits' = commits + 1
        /\ UNCHANGED <<conf, catalog, step, history, tagged>>
    BY <1>4, <2>1 DEF ChangeUmbraPassword
  <2>4. keyslot' \in KeySlots /\ keyslot'.key = keyslot.key /\ keyslot'.etag # 0
    BY <1>w, <2>1, <2>3 DEF KeySlots
  <2> QED BY <1>1, <2>1, <2>2, <2>3, <2>4
<1> QED BY <1>2, <1>3, <1>4

\* Loading: what the session is about to save has every tag it loaded.
LEMMA LoadInv ==
  ASSUME IInv, NEW s \in Sessions, LoadCatalog(s)
  PROVE  IInv'
<1> USE Whole
<1>1. /\ step[s].at = "idle" /\ sess[s].open = "yes" /\ sess[s].key # 0
      /\ sess' = [sess EXCEPT ![s].catEtag = catalog.etag]
      /\ UNCHANGED <<conf, umbraFiles, history>>
  BY DEF LoadCatalog, Ready
<1> DEFINE new == [sess[s] EXCEPT !.catEtag = catalog.etag]
<1>2. catalog.etag \in Writes /\ catalog.tags \in SUBSET Tags
  BY DEF UmbraOK, Catalogs
<1>3. /\ new \in Sess /\ new.open = sess[s].open /\ new.cfg = sess[s].cfg
      /\ new.etag = sess[s].etag /\ new.key = sess[s].key
      /\ new.catEtag = catalog.etag
  BY <1>2 DEF SessionsOK, Sess
<1>4. sess' = [sess EXCEPT ![s] = new]
  BY <1>1 DEF SessionsOK
<1> HIDE DEF new
<1>5. sess'[s] = new /\ \A r \in Sessions \ {s} : sess'[r] = sess[r]
  BY <1>3, <1>4, SessChange
<1>6. /\ StepsOK' /\ \A r \in Sessions \ {s} : step'[r] = step[r]
      /\ step'[s].at = "save" =>
           step'[s].tag \in step'[s].tags /\ catalog.tags \subseteq step'[s].tags
      /\ step'[s].at \in {"idle", "save"}
  <2>1. CASE UNCHANGED step
    BY <1>1, <2>1 DEF StepsOK
  <2>2. CASE \E t \in Tags \ catalog.tags :
               step' = [step EXCEPT ![s] = [at |-> "save", tag |-> t,
                                            tags |-> catalog.tags \cup {t}]]
    <3>1. PICK t \in Tags :
                 step' = [step EXCEPT ![s] = [at |-> "save", tag |-> t,
                                              tags |-> catalog.tags \cup {t}]]
      BY <2>2
    <3>2. [at |-> "save", tag |-> t, tags |-> catalog.tags \cup {t}] \in Steps
      BY <1>2 DEF Steps
    <3>3. /\ StepsOK' /\ \A r \in Sessions \ {s} : step'[r] = step[r]
          /\ step'[s] = [at |-> "save", tag |-> t, tags |-> catalog.tags \cup {t}]
      BY <3>1, <3>2, StepChange
    <3>4. /\ step'[s].at = "save" /\ step'[s].tag = t
          /\ step'[s].tags = catalog.tags \cup {t}
      BY <3>3
    <3> QED BY <3>3, <3>4
  <2> QED BY <2>1, <2>2 DEF LoadCatalog
<1>7. \A r \in Sessions : StepKept(r)
  BY <1>1, <1>6 DEF StepKept
<1>8. UmbraOK' /\ UNCHANGED <<conf, history>>
  BY <1>1 DEF UmbraOK, umbraFiles
<1>9. KeyInv'
  <2>1. \A r \in Sessions : sess'[r].key = sess[r].key
    BY <1>3, <1>5
  <2>2. UNCHANGED <<keyslot, catalog>>
    BY <1>1 DEF umbraFiles
  <2>3. \A r \in Sessions : step'[r].at = "save" => sess[r].key # 0
    BY <1>1, <1>6 DEF KeyInv
  <2> QED BY <2>1, <2>2, <2>3 DEF KeyInv, OneUmbraKey
<1>10. TagInv'
  <2>1. UNCHANGED <<catalog, commits, tagged>>
    BY <1>1 DEF umbraFiles
  <2>2. \A r \in Sessions : sess'[r].catEtag <= commits
    BY <1>3, <1>5, WritesAreOld
  <2>3. TagInv
    OBVIOUS
  <2>4. \A r \in Sessions : step'[r].at = "save" =>
          /\ step'[r].tag \in step'[r].tags
          /\ catalog.etag = sess'[r].catEtag => catalog.tags \subseteq step'[r].tags
    BY <1>5, <1>6, <2>3 DEF TagInv
  <2> QED BY <2>1, <2>2, <2>3, <2>4 DEF TagInv, TagsKept
<1> QED BY <1>3, <1>4, <1>6, <1>7, <1>8, <1>9, <1>10, KeysMoved

\* Saving: an accepted write has every tag of the catalog it replaces, and is
\* newer than what any other session loaded.
LEMMA SaveInv ==
  ASSUME IInv, NEW s \in Sessions, SaveCatalog(s)
  PROVE  IInv'
<1> USE Whole
<1>1. step[s].at = "save" /\ step' = [step EXCEPT ![s] = Idle]
      /\ UNCHANGED <<conf, keyslot, history>>
  BY DEF SaveCatalog
<1>2. CASE UNCHANGED <<commits, catalog, sess, tagged>>
  BY <1>1, <1>2, EndedInv DEF umbraFiles
<1>3. CASE /\ catalog.etag = sess[s].catEtag
           /\ commits < MaxCommits /\ commits' = commits + 1
           /\ catalog' = [etag |-> commits + 1, key |-> sess[s].key,
                          tags |-> step[s].tags]
           /\ sess' = [sess EXCEPT ![s].catEtag = commits + 1]
           /\ tagged' = tagged \cup {step[s].tag}
  <2> DEFINE n == commits + 1
             new == [sess[s] EXCEPT !.catEtag = n]
  <2>1. n \in Writes /\ n \in Nat /\ commits \in Nat /\ commits < n /\ n # 0
    BY <1>3, WritesAreOld, MetadataAssumption DEF Writes
  <2>2. /\ commits' = n /\ catalog' = [etag |-> n, key |-> sess[s].key,
                                       tags |-> step[s].tags]
        /\ sess' = [sess EXCEPT ![s].catEtag = n]
    BY <1>3
  <2> HIDE DEF n
  <2>3. /\ new \in Sess /\ new.open = sess[s].open /\ new.cfg = sess[s].cfg
        /\ new.etag = sess[s].etag /\ new.key = sess[s].key /\ new.catEtag = n
    BY <2>1 DEF SessionsOK, Sess
  <2>4. sess' = [sess EXCEPT ![s] = new]
    BY <2>2 DEF SessionsOK
  <2> HIDE DEF new
  <2>5. sess'[s] = new /\ \A r \in Sessions \ {s} : sess'[r] = sess[r]
    BY <2>3, <2>4, SessChange
  <2>6. /\ StepsOK' /\ step'[s] = Idle
        /\ \A r \in Sessions \ {s} : step'[r] = step[r]
    <3>1. Idle \in Steps
      BY DEF Steps
    <3> QED BY <1>1, <3>1, StepChange
  <2>7. step'[s].at = "idle" /\ \A r \in Sessions : StepKept(r)
    BY <2>6 DEF Idle, StepKept
  <2>8. /\ step[s].tags \in SUBSET Tags /\ step[s].tag \in step[s].tags
        /\ catalog.tags \subseteq step[s].tags /\ tagged \subseteq catalog.tags
        /\ sess[s].key = keyslot.key /\ sess[s].key # 0 /\ sess[s].key \in Writes
    <3>1. step[s].tags \in SUBSET Tags /\ sess[s].key \in Writes
      BY <1>1, StepFields, SessionFields
    <3>2. step[s].tag \in step[s].tags /\ catalog.tags \subseteq step[s].tags
          /\ tagged \subseteq catalog.tags
      BY <1>1, <1>3 DEF TagInv, TagsKept
    <3>3. sess[s].key = keyslot.key /\ sess[s].key # 0
      BY <1>1 DEF KeyInv, OneUmbraKey
    <3> QED BY <3>1, <3>2, <3>3
  <2>9. UmbraOK'
    <3>1. catalog' \in Catalogs /\ commits' \in Writes
      BY <2>1, <2>2, <2>8 DEF Catalogs
    <3>2. tagged' \subseteq Tags
      BY <1>3, <2>8 DEF UmbraOK
    <3> QED BY <1>1, <3>1, <3>2 DEF UmbraOK
  <2>10. KeyInv'
    <3>1. \A r \in Sessions : sess'[r].key = sess[r].key
      BY <2>3, <2>5
    <3>2. keyslot' = keyslot /\ catalog'.key = keyslot.key /\ keyslot.etag # 0
      BY <1>1, <2>2, <2>8 DEF KeyInv
    <3>3. \A r \in Sessions : step'[r].at = "save" => sess[r].key # 0
      BY <2>6, <2>7 DEF KeyInv
    <3>4. OneUmbraKey
      BY DEF KeyInv
    <3> QED BY <3>1, <3>2, <3>3, <3>4 DEF KeyInv, OneUmbraKey
  <2>11. TagInv'
    <3>1. TagsKept'
      BY <1>3, <2>2, <2>8 DEF TagsKept
    <3>2. \A r \in Sessions \ {s} : sess'[r].catEtag < n
      BY <2>1, <2>5, WritesAreOld
    <3>3. catalog'.etag = n /\ commits' = n /\ sess'[s].catEtag = n /\ n <= n
      BY <2>1, <2>2, <2>3, <2>5
    <3>4. \A r \in Sessions : sess'[r].catEtag <= n
      BY <2>1, <2>5, <3>3, WritesAreOld
    <3>5. \A r \in Sessions : step'[r].at = "save" =>
            step'[r].tag \in step'[r].tags /\ n # sess'[r].catEtag
      <4> SUFFICES ASSUME NEW r \in Sessions, step'[r].at = "save"
                   PROVE  step'[r].tag \in step'[r].tags /\ n # sess'[r].catEtag
        OBVIOUS
      <4>1. r # s /\ step'[r] = step[r]
        BY <2>6, <2>7
      <4>2. sess'[r].catEtag = sess[r].catEtag /\ sess[r].catEtag # n
        BY <2>1, <2>5, <4>1, WritesAreOld
      <4> QED BY <4>1, <4>2 DEF TagInv
    <3> QED BY <3>1, <3>3, <3>4, <3>5 DEF TagInv
  <2>12. UNCHANGED <<conf, history>>
    BY <1>1
  <2> QED BY <2>3, <2>4, <2>6, <2>7, <2>9, <2>10, <2>11, <2>12, KeysMoved
<1> QED BY <1>2, <1>3 DEF SaveCatalog

-----------------------------------------------------------------------------
(* The theorems.                                                           *)

LEMMA SlotInv ==
  ASSUME IInv, NEW s \in Sessions
  PROVE  /\ Create(s) => IInv'
         /\ AddSlot(s) => IInv'
         /\ RemoveSlot(s) => IInv'
         /\ EnableUmbra(s) => IInv'
<1>1. TypeOK /\ CopyInv
  BY Whole
<1>2. Create(s) => UNCHANGED umbraFiles
  BY DEF Create, umbraFiles
<1>3. AddSlot(s) => UNCHANGED umbraFiles
  BY DEF AddSlot, umbraFiles
<1>4. RemoveSlot(s) => UNCHANGED umbraFiles
  BY DEF RemoveSlot, umbraFiles
<1>5. EnableUmbra(s) => UNCHANGED umbraFiles
  BY DEF EnableUmbra, umbraFiles
<1> QED
  BY <1>1, <1>2, <1>3, <1>4, <1>5, SlotCommits,
     RecreatedInv, AddedInv, DroppedInv, EnabledInv

LEMMA NextInv == IInv /\ [Next]_vars => IInv'
<1> SUFFICES ASSUME IInv, [Next]_vars PROVE IInv'
  OBVIOUS
<1>1. CASE UNCHANGED vars
  BY <1>1 DEF vars, IInv, TypeOK, FileInv, CopyInv, StepInv, CredentialsKept,
              KeyInv, OneUmbraKey, TagInv, TagsKept
<1>2. ASSUME NEW s \in Sessions, Session(s) PROVE IInv'
  <2>1. CASE Create(s) \/ AddSlot(s) \/ RemoveSlot(s) \/ EnableUmbra(s)
    BY <2>1, SlotInv
  <2>2. CASE Reopen(s) \/ Unlock(s) \/ Close(s) \/ Adopt(s)
    BY <2>2, OpenCloseInv
  <2>3. CASE InitializeUmbra(s)
    BY <2>3, InitializeInv
  <2>4. CASE UnlockUmbra(s) \/ LockUmbra(s) \/ ChangeUmbraPassword(s)
    BY <2>4, KeySlotInv
  <2>5. CASE LoadCatalog(s)
    BY <2>5, LoadInv
  <2>6. CASE SaveCatalog(s)
    BY <2>6, SaveInv
  <2> QED BY <1>2, <2>1, <2>2, <2>3, <2>4, <2>5, <2>6 DEF Session
<1> QED BY <1>1, <1>2 DEF Next

\* Every reachable state of the metadata is one the inductive invariant
\* describes.
THEOREM InvariantHolds == Spec => []IInv
BY InitInv, NextInv, PTL DEF Spec

\* Every variable keeps its type, and vault.json never holds more slots than
\* MAX_KEY_SLOTS.
THEOREM TypeCorrect == Spec => []TypeOK
<1>1. IInv => TypeOK
  BY DEF IInv
<1> QED BY <1>1, InvariantHolds, PTL

\* A slot that was relied on opens the vault until it is removed by request:
\* no interleaving of adding, removing, changing, enabling and creating from
\* stale copies loses it (vault.rs, add_password_slot, remove_password_slot,
\* change_password, adopt_committed_config).
THEOREM CredentialsAreKept == Spec => []CredentialsKept
<1>1. IInv => CredentialsKept
  BY DEF IInv
<1> QED BY <1>1, InvariantHolds, PTL

\* A session whose etag is that of vault.json holds what vault.json says, also
\* when it was opened by vault.create (vault.rs, commit_created).
THEOREM AcceptedCopies == Spec => []AcceptedCopyIsCurrent
<1>1. IInv => AcceptedCopyIsCurrent
  <2>1. IInv => TypeOK /\ CopyInv
    BY DEF IInv
  <2> QED BY <2>1, CurrentCopy DEF AcceptedCopyIsCurrent
<1> QED BY <1>1, InvariantHolds, PTL

\* There is only ever one Umbra key (vault.rs, initialize_umbra, unlock_umbra,
\* change_umbra_password, save_umbra_config).
THEOREM UmbraKeyIsOne == Spec => []OneUmbraKey
<1>1. IInv => OneUmbraKey
  BY DEF IInv, KeyInv
<1> QED BY <1>1, InvariantHolds, PTL

\* No acknowledged tag is lost to a catalog written from an older copy
\* (vault.rs, load_umbra_config, save_umbra_config).
THEOREM TagsAreKept == Spec => []TagsKept
<1>1. IInv => TagsKept
  BY DEF IInv, TagInv
<1> QED BY <1>1, InvariantHolds, PTL

==============================================================================
