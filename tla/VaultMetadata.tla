----------------------------- MODULE VaultMetadata -----------------------------
(***************************************************************************)
(* The metadata of one vault shared by several sessions (inex-core/src/    *)
(* vault.rs): the password slots and required features in vault.json, the  *)
(* Umbra key slot, and the encrypted catalog of private tags.              *)
(*                                                                         *)
(* A session keeps what it read when it was opened, prepares a change from *)
(* that copy, and commits it with one conditional write under the vault's  *)
(* mutation lock.  An action is the part of an operation around one access *)
(* to a shared file; what an operation does between two accesses is local. *)
(* That a conditional write is atomic is what module VaultStore shows.     *)
(***************************************************************************)
EXTENDS Naturals, FiniteSets

CONSTANTS
  Sessions,    \* vault sessions of any processes (inexd, the CLI)
  MaxSlots,    \* MAX_KEY_SLOTS
  SlotIds,     \* bound: identifiers of password slots, all random
  Tags,        \* private tags somebody may create
  MaxCommits   \* bound: writes of the key slot and of the catalog

ASSUME MetadataAssumption ==
  /\ SlotIds # {} /\ IsFiniteSet(SlotIds)
  /\ MaxSlots \in Nat \ {0} /\ MaxCommits \in Nat

VARIABLES
  conf,      \* vault.json: password slots and feature 2
  keyslot,   \* umbra-default.inex-keyslot: write number and wrapped key
  catalog,   \* config.umbra.inex: write number, tags and their key
  sess,      \* the sessions
  step,      \* where a session's operation is
  commits,   \* writes of the key slot and of the catalog so far
  born,      \* history: slots ever generated
  relied,    \* history: slots somebody was told, or has shown, to work
  removed,   \* history: slots removed by request
  tagged     \* history: tags whose creation was acknowledged

vars == <<conf, keyslot, catalog, sess, step, commits, born, relied, removed,
          tagged>>

\* Contents of vault.json.  Every change is a function of the contents it
\* starts from and of a random slot, and the MAC is deterministic: equal
\* contents are equal bytes, so the contents stand for the etag as well.
Configs == [slots : SUBSET SlotIds, umbra : {"no", "yes"}]
NoConfig == [slots |-> {}, umbra |-> "no"]

\* The key slot and the catalog are encrypted with fresh nonces: every write
\* has an etag of its own, the number of the write; 0 is an absent file.
Writes == 0 .. MaxCommits
KeySlots == [etag : Writes, key : Writes]
Catalogs == [etag : Writes, key : Writes, tags : SUBSET Tags]

\* A session: the configuration it holds, the etag it will demand, the slot
\* it was unlocked with, K_umbra (0 when locked) with the etag of its key
\* slot, and the etag of the catalog it loaded last.
Sess == [open : {"no", "yes"}, cfg : Configs, etag : Configs,
         slot : SlotIds, key : Writes, keyEtag : Writes, catEtag : Writes]

Closed == [open |-> "no", cfg |-> NoConfig, etag |-> NoConfig,
           slot |-> CHOOSE x \in SlotIds : TRUE,
           key |-> 0, keyEtag |-> 0, catEtag |-> 0]

\* Between two accesses: "reopen" after vault.create, "adopt" after a slot
\* change was committed, "save" with the catalog to write.
Idle == [at |-> "idle"]
Steps ==
  {Idle}
    \cup [at : {"reopen"}, slot : SlotIds, cfg : Configs]
    \cup [at : {"adopt"}, slot : SlotIds, cfg : Configs]
    \cup [at : {"save"}, tags : SUBSET Tags, tag : Tags]

\* Every file, session and step has its type, and vault.json never holds more
\* slots than MAX_KEY_SLOTS allows.
TypeOK ==
  /\ conf \in Configs /\ Cardinality(conf.slots) <= MaxSlots
  /\ keyslot \in KeySlots /\ catalog \in Catalogs
  /\ sess \in [Sessions -> Sess] /\ step \in [Sessions -> Steps]
  /\ commits \in Writes
  /\ born \subseteq SlotIds /\ relied \subseteq born /\ removed \subseteq born
  /\ tagged \subseteq Tags

Init ==
  /\ conf = NoConfig
  /\ keyslot = [etag |-> 0, key |-> 0]
  /\ catalog = [etag |-> 0, key |-> 0, tags |-> {}]
  /\ sess = [s \in Sessions |-> Closed]
  /\ step = [s \in Sessions |-> Idle]
  /\ commits = 0 /\ born = {} /\ relied = {} /\ removed = {} /\ tagged = {}

umbraFiles == <<keyslot, catalog, commits, tagged>>
history == <<born, relied, removed>>

Ready(s) == sess[s].open = "yes" /\ step[s].at = "idle"

-----------------------------------------------------------------------------
(* Creating, opening and closing.                                          *)

\* commit_created: vault.json is written if there is none ...
Create(s) ==
  /\ sess[s].open = "no" /\ step[s].at = "idle"
  /\ conf.slots = {}
  /\ \E x \in SlotIds \ born :
       /\ conf' = [slots |-> {x}, umbra |-> "no"]
       /\ step' = [step EXCEPT ![s] = [at |-> "reopen", slot |-> x,
                                       cfg |-> conf']]
       /\ born' = born \cup {x}
  /\ UNCHANGED <<umbraFiles, sess, relied, removed>>

Opened(c, e, x) ==
  [Closed EXCEPT !.open = "yes", !.cfg = c, !.etag = e, !.slot = x]

\* ... and opened again without naming a slot, after the lock was released.
\* The etag is that of the write, whatever was read.
Reopen(s) ==
  /\ step[s].at = "reopen"
  /\ step' = [step EXCEPT ![s] = Idle]
  /\ \/ /\ conf.slots = {step[s].slot}
        /\ sess' = [sess EXCEPT ![s] = Opened(conf, step[s].cfg, step[s].slot)]
        /\ relied' = relied \cup {step[s].slot}
     \/ UNCHANGED <<sess, relied>>   \* ambiguous, another slot, or a read failed
  /\ UNCHANGED <<conf, umbraFiles, born, removed>>

\* Vault::unlock with a password of slot x.
Unlock(s) ==
  /\ sess[s].open = "no" /\ step[s].at = "idle"
  /\ \E x \in conf.slots :
       /\ sess' = [sess EXCEPT ![s] = Opened(conf, conf, x)]
       /\ relied' = relied \cup {x}
  /\ UNCHANGED <<conf, umbraFiles, step, born, removed>>

\* vault.lock, expiry, or the end of the process, between any two accesses.
Close(s) ==
  /\ sess[s].open = "yes" \/ step[s].at # "idle"
  /\ sess' = [sess EXCEPT ![s] = Closed]
  /\ step' = [step EXCEPT ![s] = Idle]
  /\ UNCHANGED <<conf, umbraFiles, history>>

-----------------------------------------------------------------------------
(* Password slots: one conditional write, then the committed file is read  *)
(* back, outside the lock, and adopted.                                    *)

CommitUnconditional(s, c, x) ==
  /\ conf' = c
  /\ step' = [step EXCEPT ![s] = [at |-> "adopt", slot |-> x, cfg |-> c]]

Commit(s, c, x) ==
  /\ conf = sess[s].etag
  /\ conf' = c
  /\ step' = [step EXCEPT ![s] = [at |-> "adopt", slot |-> x, cfg |-> c]]

\* add_password_slot and change_password; a conflict changes nothing.
AddSlot(s) ==
  /\ Ready(s)
  /\ Cardinality(sess[s].cfg.slots) < MaxSlots
  /\ \E x \in SlotIds \ born :
       /\ Commit(s, [sess[s].cfg EXCEPT !.slots = @ \cup {x}], x)
       /\ born' = born \cup {x}
  /\ UNCHANGED <<umbraFiles, sess, relied, removed>>

\* remove_password_slot: the retained slot is tried against the new
\* configuration before it is committed.
RemoveSlot(s) ==
  /\ Ready(s)
  /\ Cardinality(sess[s].cfg.slots) > 1
  /\ \E x \in sess[s].cfg.slots : \E kept \in sess[s].cfg.slots \ {x} :
       /\ Commit(s, [sess[s].cfg EXCEPT !.slots = @ \ {x}], kept)
       /\ removed' = removed \cup {x}
       /\ relied' = relied \cup {kept}
  /\ UNCHANGED <<umbraFiles, sess, born>>

AdoptAnything(s) ==
  /\ step[s].at = "adopt"
  /\ step' = [step EXCEPT ![s] = Idle]
  /\ sess' = [sess EXCEPT ![s].cfg = step[s].cfg, ![s].etag = conf,
                          ![s].slot = step[s].slot]
  /\ relied' = relied \cup {step[s].slot}
  /\ UNCHANGED <<conf, umbraFiles, born, removed>>

\* adopt_committed_config: only the exact bytes that were committed are
\* adopted; otherwise the session keeps its copy, which can never match again
\* before the file returns to it.
Adopt(s) ==
  /\ step[s].at = "adopt"
  /\ step' = [step EXCEPT ![s] = Idle]
  /\ \/ /\ conf = step[s].cfg
        /\ sess' = [sess EXCEPT ![s].cfg = conf, ![s].etag = conf,
                                ![s].slot = step[s].slot]
        /\ relied' = relied \cup {step[s].slot}
     \/ UNCHANGED <<sess, relied>>   \* another commit came first, or a read failed
  /\ UNCHANGED <<conf, umbraFiles, born, removed>>

\* enable_umbra_private_annotations adopts what it wrote without reading it
\* back.
EnableUmbra(s) ==
  /\ Ready(s) /\ sess[s].key # 0
  /\ conf = sess[s].etag
  /\ conf' = [sess[s].cfg EXCEPT !.umbra = "yes"]
  /\ sess' = [sess EXCEPT ![s].cfg = conf', ![s].etag = conf']
  /\ UNCHANGED <<umbraFiles, step, history>>

-----------------------------------------------------------------------------
(* The Umbra key slot.                                                     *)

InitializeUmbraUnlocked(s) ==
  /\ Ready(s)
  /\ commits < MaxCommits /\ commits' = commits + 1
  /\ keyslot' = [etag |-> commits + 1, key |-> commits + 1]
  /\ sess' = [sess EXCEPT ![s].key = commits + 1, ![s].keyEtag = commits + 1,
                          ![s].catEtag = 0]
  /\ UNCHANGED <<conf, catalog, step, history, tagged>>

\* initialize_umbra: under the lock, only when there is no key slot.
InitializeUmbra(s) ==
  /\ Ready(s) /\ keyslot.etag = 0
  /\ commits < MaxCommits /\ commits' = commits + 1
  /\ keyslot' = [etag |-> commits + 1, key |-> commits + 1]
  /\ sess' = [sess EXCEPT ![s].key = commits + 1, ![s].keyEtag = commits + 1,
                          ![s].catEtag = 0]
  /\ UNCHANGED <<conf, catalog, step, history, tagged>>

\* unlock_umbra reads the key slot, outside the lock.
UnlockUmbra(s) ==
  /\ Ready(s) /\ keyslot.etag # 0
  /\ sess' = [sess EXCEPT ![s].key = keyslot.key, ![s].keyEtag = keyslot.etag,
                          ![s].catEtag = 0]
  /\ UNCHANGED <<conf, umbraFiles, step, history>>

LockUmbra(s) ==
  /\ Ready(s)
  /\ sess' = [sess EXCEPT ![s].key = 0, ![s].keyEtag = 0, ![s].catEtag = 0]
  /\ UNCHANGED <<conf, umbraFiles, step, history>>

\* change_umbra_password rewraps the key the session holds.
ChangeUmbraPassword(s) ==
  /\ Ready(s) /\ sess[s].key # 0
  /\ keyslot.etag = sess[s].keyEtag
  /\ commits < MaxCommits /\ commits' = commits + 1
  /\ keyslot' = [etag |-> commits + 1, key |-> sess[s].key]
  /\ sess' = [sess EXCEPT ![s].keyEtag = commits + 1]
  /\ UNCHANGED <<conf, catalog, step, history, tagged>>

-----------------------------------------------------------------------------
(* The catalog: loaded, changed in memory, and written if it is still the  *)
(* one that was loaded.                                                    *)

\* load_umbra_config, alone or as the first half of a change.
LoadCatalog(s) ==
  /\ Ready(s) /\ sess[s].key # 0
  /\ catalog.etag # 0 => catalog.key = sess[s].key
  /\ sess' = [sess EXCEPT ![s].catEtag = catalog.etag]
  /\ \/ UNCHANGED step
     \/ \E t \in Tags \ catalog.tags :
          step' = [step EXCEPT ![s] = [at |-> "save", tag |-> t,
                                       tags |-> catalog.tags \cup {t}]]
  /\ UNCHANGED <<conf, umbraFiles, history>>

SaveCatalogUnconditional(s) ==
  /\ step[s].at = "save"
  /\ step' = [step EXCEPT ![s] = Idle]
  /\ commits < MaxCommits /\ commits' = commits + 1
  /\ catalog' = [etag |-> commits + 1, key |-> sess[s].key,
                 tags |-> step[s].tags]
  /\ sess' = [sess EXCEPT ![s].catEtag = commits + 1]
  /\ tagged' = tagged \cup {step[s].tag}
  /\ UNCHANGED <<conf, keyslot, history>>

\* save_umbra_config: IfMatch of the loaded etag, or IfNoneMatch when there
\* was no catalog.  Renaming, archiving and reordering tags and editing
\* profiles take the same two accesses and remove no tag.
SaveCatalog(s) ==
  /\ step[s].at = "save"
  /\ step' = [step EXCEPT ![s] = Idle]
  /\ \/ /\ catalog.etag = sess[s].catEtag
        /\ commits < MaxCommits /\ commits' = commits + 1
        /\ catalog' = [etag |-> commits + 1, key |-> sess[s].key,
                       tags |-> step[s].tags]
        /\ sess' = [sess EXCEPT ![s].catEtag = commits + 1]
        /\ tagged' = tagged \cup {step[s].tag}
     \/ UNCHANGED <<commits, catalog, sess, tagged>>
  /\ UNCHANGED <<conf, keyslot, history>>

-----------------------------------------------------------------------------

Session(s) ==
  \/ Create(s) \/ Reopen(s) \/ Unlock(s) \/ Close(s)
  \/ AddSlot(s) \/ RemoveSlot(s) \/ Adopt(s) \/ EnableUmbra(s)
  \/ InitializeUmbra(s) \/ UnlockUmbra(s) \/ LockUmbra(s)
  \/ ChangeUmbraPassword(s) \/ LoadCatalog(s) \/ SaveCatalog(s)

Next == \E s \in Sessions : Session(s)

Spec == Init /\ [][Next]_vars

-----------------------------------------------------------------------------
(* Properties.                                                             *)

\* A slot that somebody was told to work, or that was tried as the retained
\* one of a removal, keeps opening the vault until a removal names it,
\* whatever other sessions add, remove or enable from older copies; and the
\* table never grows beyond what every later unlock accepts.
CredentialsKept ==
  relied \ removed \subseteq conf.slots /\ Cardinality(conf.slots) <= MaxSlots

\* A session whose next conditional write would be accepted holds the
\* configuration that is on disk; also when it was opened by vault.create,
\* which takes the etag of its own write and the contents of a later read.
AcceptedCopyIsCurrent ==
  \A s \in Sessions :
    sess[s].open = "yes" /\ conf = sess[s].etag => sess[s].cfg = conf

\* There is one K_umbra: every session that is unlocked, the key slot and the
\* catalog agree on it, however many sessions initialize, unlock and change
\* the password at the same time.
OneUmbraKey ==
  /\ \A s \in Sessions : sess[s].key \in {0, keyslot.key}
  /\ catalog.etag # 0 => catalog.key = keyslot.key

\* A tag whose creation was acknowledged stays in the catalog.
TagsKept == tagged \subseteq catalog.tags

=============================================================================
