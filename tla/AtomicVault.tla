------------------------------ MODULE AtomicVault -----------------------------
(***************************************************************************)
(* What the ciphertext store promises its callers, whatever happens        *)
(* between the file-system calls that VaultStore models: a document        *)
(* changes in one step, a rename moves it from one path to the other in    *)
(* one step, and a power loss takes the vault to one of the worlds that    *)
(* undoing unsynchronized changes, each as a whole, leads to.              *)
(***************************************************************************)
CONSTANTS Docs, Etags, Absent

VARIABLES
  docs,  \* docs[d]: the envelope a reader who finishes recovery finds at d
  worlds \* what docs may be after a power loss

Contents == [Docs -> Etags \cup {Absent}]

Init == docs \in Contents /\ worlds = {docs}

\* A create, save or delete of one document.
Change(d, v) ==
  /\ v # docs[d]
  /\ docs' = [docs EXCEPT ![d] = v]
  /\ worlds' = worlds \cup {[w EXCEPT ![d] = v] : w \in worlds}

\* A rename.  A world that has the renamed version at s has it at s or at d,
\* never at both or neither; only a world that has an older, unsynchronized
\* version at s keeps that one.
Moved(w, s, d, v) ==
  [w EXCEPT ![s] = IF w[s] = docs[s] THEN Absent ELSE w[s], ![d] = v]

Rename(s, d, v) ==
  /\ docs[s] # Absent /\ docs[d] = Absent
  /\ docs' = Moved(docs, s, d, v)
  /\ worlds' = worlds \cup {Moved(w, s, d, v) : w \in worlds}

\* Synchronization: some worlds become impossible.
Settle ==
  /\ worlds' \subseteq worlds /\ docs \in worlds'
  /\ docs' = docs

PowerLoss == docs' \in worlds /\ worlds' = {docs'}

Next ==
  \/ \E d \in Docs : \E v \in Etags \cup {Absent} : Change(d, v)
  \/ \E s \in Docs : \E d \in Docs \ {s} : \E v \in Etags : Rename(s, d, v)
  \/ Settle
  \/ PowerLoss

Spec == Init /\ [][Next]_<<docs, worlds>>
===============================================================================
