------------------------------ MODULE LogicalPaths ------------------------------
(***************************************************************************)
(* Names: crates/inex-core/src/path.rs and tree.rs, and the checks that    *)
(* create_document, create_directory, create_import_asset and              *)
(* rename_document of vault.rs make before they add a name.                *)
(*                                                                         *)
(* A name is a sequence of tokens, a path a sequence of names, a disk a    *)
(* set of entries [path, dir].  The tokens are pieces of a name that the   *)
(* code tells apart: stems in both cases and with a composed or decomposed *)
(* accent, the suffixes, the reserved names, a Windows device and "?" for  *)
(* what no portable name may hold.                                         *)
(***************************************************************************)
EXTENDS Integers, FiniteSets, SequencesExt

CONSTANTS
  MaxName,   \* MAX_LOGICAL_COMPONENT_BYTES, in tokens; a suffix takes one
  MaxPath,   \* MAX_LOGICAL_PATH_BYTES, in names
  MaxDepth   \* DEFAULT_MAX_TREE_DEPTH

ASSUME LogicalPathsBounds == MaxName \in Nat /\ MaxPath \in Nat /\ MaxDepth \in Nat

\* to_ascii_lowercase; portable_case_fold, which composes as well.
LowerToken(token) ==
  CASE token = "A"     -> "a"     [] token = ".MD"    -> ".md"
    [] token = ".ENC"  -> ".enc"  [] token = ".ASSET" -> ".asset"
    [] token = ".INEX" -> ".inex" [] token = ".GIT"   -> ".git"
    [] token = "VAULT.JSON" -> "vault.json"
    [] OTHER -> token
Lower(name) == [i \in DOMAIN name |-> LowerToken(name[i])]
Composed(name) ==
  [i \in DOMAIN name |-> IF name[i] = "decomposed acute" THEN "acute" ELSE name[i]]
FoldName(name) == Lower(Composed(name))
FoldPath(path) == [i \in DOMAIN path |-> FoldName(path[i])]
IsNfc(path) == \A i \in DOMAIN path : Composed(path[i]) = path[i]

EndsWith(name, suffix) == IsSuffix(suffix, name)
WithoutLast(path, suffix) ==
  Append(Front(path), SubSeq(Last(path), 1, Len(Last(path)) - Len(suffix)))
InLast(path, suffix) == Append(Front(path), Last(path) \o suffix)

-----------------------------------------------------------------------------
(* path.rs *)

\* validate_component.
PortableName(name) ==
  /\ name # <<>> /\ Len(name) <= MaxName
  /\ "?" \notin ToSet(name)
  /\ Lower(name) \notin {<<".git">>, <<".vault-local">>}
  /\ name[1] # "con"

\* validate_common.
PortablePath(path) ==
  /\ path # <<>> /\ Len(path) <= MaxPath
  /\ \A i \in DOMAIN path : PortableName(path[i])
  /\ Lower(path[1]) # <<"vault.json">>

\* LogicalPath::validate, AssetPath::validate, LogicalDir::validate: a suffix
\* that the physical name will have leaves room for itself.
IsDocument(path) ==
  /\ PortablePath(path) /\ EndsWith(Last(path), <<".md">>)
  /\ Len(Last(path)) <= MaxName - 1
IsAsset(path) ==
  /\ PortablePath(path) /\ ~ EndsWith(Last(path), <<".md">>)
  /\ Len(Last(path)) <= MaxName - 2
IsDirectory(path) == path = <<>> \/ PortablePath(path)

Is(kind, path) ==
  CASE kind = "document"  -> IsDocument(path)
    [] kind = "asset"     -> IsAsset(path)
    [] kind = "directory" -> IsDirectory(path)

\* parse composes what the user types, parse_canonical refuses what it would change.
Parsed(path) == [i \in DOMAIN path |-> Composed(path[i])]
IsCanonical(kind, path) == IsNfc(path) /\ Is(kind, path)

\* to_ciphertext_relative_path.
Physical(kind, path) ==
  CASE kind = "document"  -> InLast(path, <<".enc">>)
    [] kind = "asset"     -> InLast(path, <<".asset", ".enc">>)
    [] kind = "directory" -> path

\* from_ciphertext_relative_path of both; None when it fails.
None == <<"none">>
DocumentOf(path) ==
  LET logical == WithoutLast(path, <<".enc">>)
  IN IF /\ EndsWith(Last(path), <<".md", ".enc">>)
        /\ IsCanonical("document", logical)
     THEN logical ELSE None
AssetOf(path) ==
  LET logical == WithoutLast(path, <<".asset", ".enc">>)
  IN IF /\ EndsWith(Last(path), <<".asset", ".enc">>)
        /\ IsCanonical("asset", logical)
     THEN logical ELSE None

-----------------------------------------------------------------------------
(* tree.rs: what a directory walk takes a disk for. *)

\* reserved_entry_kind: at the root only.
ReservedNames == {<<".git">>, <<".inex">>, <<".vault-local">>, <<"vault.json">>}
Reserved(path) ==
  IF Len(path) # 1 \/ Lower(path[1]) \notin ReservedNames THEN "NotReserved"
  ELSE IF path[1] \in ReservedNames THEN "Canonical" ELSE "Alias"

\* inspect_regular_file: what a file is, or that it may not be there.
FileKind(path, assets) ==
  LET name == Last(path)
  IN CASE EndsWith(name, <<".md", ".enc">>) ->
            IF DocumentOf(path) # None THEN "document" ELSE "refused"
       [] ~ EndsWith(name, <<".md", ".enc">>)
          /\ EndsWith(Lower(name), <<".md", ".enc">>) -> "refused"
       [] EndsWith(name, <<".asset", ".enc">>) ->
            IF AssetOf(path) # None /\ assets THEN "asset" ELSE "refused"
       [] ~ EndsWith(name, <<".asset", ".enc">>)
          /\ EndsWith(Lower(name), <<".asset", ".enc">>) -> "refused"
       [] OTHER ->
            IF \/ ~ IsCanonical("directory", path)
               \/ EndsWith(Lower(name), <<".md">>)
               \/ assets
            THEN "refused" ELSE "ignored"

\* inspect_entry.
EntryKind(entry, assets) ==
  CASE Reserved(entry.path) = "Alias" -> "refused"
    [] Len(entry.path) > MaxDepth -> "refused"
    [] Reserved(entry.path) = "Canonical" /\ Len(entry.path) <= MaxDepth -> "ignored"
    [] OTHER ->
         IF entry.dir
         THEN IF IsCanonical("directory", entry.path) THEN "directory" ELSE "refused"
         ELSE FileKind(entry.path, assets)

\* scan_directory: the walk does not enter what it ignores.
Walked(disk) ==
  {e \in disk : Len(e.path) = 1 \/ Reserved(<<e.path[1]>>) = "NotReserved"}

\* build_tree_from_path_lists_with_assets.
LogicalOf(kind, path) ==
  CASE kind = "document"  -> DocumentOf(path)
    [] kind = "asset"     -> AssetOf(path)
    [] kind = "directory" -> path
Tree(disk, assets) ==
  {[kind |-> EntryKind(e, assets), physical |-> e.path,
    logical |-> LogicalOf(EntryKind(e, assets), e.path)] :
     e \in {w \in Walked(disk) :
              EntryKind(w, assets) \in {"document", "asset", "directory"}}}

\* reject_aliases.
NoAliases(tree) ==
  \A one, two \in tree : one # two =>
    /\ FoldPath(one.logical) # FoldPath(two.logical)
    /\ FoldPath(one.physical) # FoldPath(two.physical)

\* scan_vault_tree_with_profile succeeds.
Scannable(disk, assets) ==
  /\ \A e \in Walked(disk) : EntryKind(e, assets) # "refused"
  /\ NoAliases(Tree(disk, assets))

-----------------------------------------------------------------------------
(* vault.rs: the checks under the mutation guard. *)

\* ensure_directory_spelling.
ParentsSpelled(tree, parent) ==
  \A n \in 1 .. Len(parent) :
    /\ \E e \in tree : e.kind = "directory" /\ e.logical = SubSeq(parent, 1, n)
    /\ \A e \in tree :
         e.kind = "directory" /\ FoldPath(e.logical) = FoldPath(SubSeq(parent, 1, n))
           => e.logical = SubSeq(parent, 1, n)

\* ensure_logical_name_available.
NameAvailable(tree, path) ==
  \A e \in tree : FoldPath(e.logical) # FoldPath(path)

\* exact_child_exists, of a name that must be absent.
ChildAbsent(disk, path) ==
  \A e \in disk : Front(e.path) = Front(path) => FoldName(Last(e.path)) # FoldName(Last(path))

\* ensure_destination_available_locked, create_directory and create_import_asset.
MayCreate(disk, assets, kind, path) ==
  LET tree == Tree(disk, assets)
  IN /\ Is(kind, path) /\ path # <<>>
     /\ kind = "asset" => assets
     /\ Scannable(disk, assets)
     /\ ParentsSpelled(tree, Front(path))
     /\ NameAvailable(tree, path)
     /\ ChildAbsent(disk, Physical(kind, path))

Made(disk, kind, path) ==
  disk \cup {[path |-> Physical(kind, path), dir |-> kind = "directory"]}

\* rename_document.
MayRename(disk, assets, source, destination) ==
  /\ [path |-> Physical("document", source), dir |-> FALSE] \in disk
  /\ IsDocument(source)
  /\ MayCreate(disk, assets, "document", destination)
RenameOnDisk(disk, source, destination) ==
  Made(disk \ {[path |-> Physical("document", source), dir |-> FALSE]},
         "document", destination)

-----------------------------------------------------------------------------
(* Bounds of the checks. *)

Stems == {<<"a">>, <<"A">>, <<"acute">>, <<"decomposed acute">>}
Endings == {<<>>, <<".md">>, <<".MD">>, <<".md", ".enc">>, <<".md", ".ENC">>,
             <<".asset", ".enc">>, <<".ASSET", ".enc">>, <<".asset", ".enc", ".md">>,
             <<".enc">>}
OddNames == ReservedNames \cup
  {<<>>, <<".INEX">>, <<".GIT">>, <<"VAULT.JSON">>, <<"?">>, <<"con", ".md">>,
   <<".inex", ".md">>, <<"vault.json", ".md">>}
NamesOfDisk == {s \o x : s \in Stems, x \in Endings} \cup OddNames
NamesOfUsers == {<<"a">>, <<"A">>, <<"a", ".md">>, <<"A", ".md">>, <<"a", ".md", ".enc">>,
                 <<"acute">>, <<".inex">>, <<".INEX">>, <<"a", ".asset", ".enc">>}
Kinds == {"document", "asset", "directory"}

\* A new vault.
NewVault == {[path |-> <<<<"vault.json">>>>, dir |-> FALSE],
             [path |-> <<<<".vault-local">>>>, dir |-> TRUE]}
UserPaths ==
  {<<n>> : n \in NamesOfUsers}
    \cup {<<<<"a">>, n>> : n \in {<<"a">>, <<"A">>, <<"a", ".md">>, <<".INEX">>}}
    \cup {<<n, <<"a", ".md">>>> : n \in {<<"A">>, <<".inex">>}}
    \cup {<<<<"a">>, <<"a">>, <<"a">>>>}

\* The two kinds of creation after which no walk succeeds: the walk takes the
\* new directory for an alias of .inex, or does not go as deep as a path may.
BreaksWalk(kind, path) ==
  \/ Reserved(Physical(kind, path)) = "Alias"
  \/ Len(path) > MaxDepth

\* A name that was mapped to a file is the name that the file maps to, within the
\* limits; a file is a document, an asset, or neither (to_ciphertext_relative_path
\* against from_ciphertext_relative_path).
ASSUME NamesRoundTrip ==
  \A name \in NamesOfDisk, parent \in {<<>>, <<<<"a">>>>, <<<<".inex">>>>} :
    LET path == Append(parent, name)
    IN /\ IsCanonical("document", path) =>
            DocumentOf(Physical("document", path)) = path
       /\ IsCanonical("asset", path) => AssetOf(Physical("asset", path)) = path
       /\ \A kind \in Kinds \ {"directory"} :
            IsCanonical(kind, path) => PortablePath(Physical(kind, path))
       /\ name # <<>> =>
            /\ DocumentOf(path) # None =>
                 Physical("document", DocumentOf(path)) = path /\ AssetOf(path) = None
            /\ AssetOf(path) # None => Physical("asset", AssetOf(path)) = path
       /\ Is("document", Parsed(path)) => IsCanonical("document", Parsed(path))

\* What a walk accepts, whatever Git checked out, is portable: no listed name is
\* another one's alias, nothing in it may be Markdown in the clear, and a file is
\* listed under the name that opens it (scan_vault_tree_with_profile).
ASSUME WalkedIsPortable ==
  \A one, two \in {n \in NamesOfDisk : n # <<>>}, dirs \in SUBSET {1, 2}, assets \in BOOLEAN :
    LET disk == NewVault \cup {[path |-> <<one>>, dir |-> 1 \in dirs],
                               [path |-> <<two>>, dir |-> 2 \in dirs]}
        tree == Tree(disk, assets)
    IN Scannable(disk, assets) =>
         /\ \A e, f \in tree : e # f =>
              /\ FoldPath(e.logical) # FoldPath(f.logical)
              /\ FoldPath(e.physical) # FoldPath(f.physical)
         /\ \A e \in disk : ~e.dir => ~ EndsWith(Lower(Last(e.path)), <<".md">>)
         /\ \A e \in tree : IsCanonical(e.kind, e.logical)
                            /\ Physical(e.kind, e.logical) = e.physical

\* After two operations that a vault accepts it accepts a third, or refuses it,
\* but its tree can be walked and lists exactly what was made: the checks of
\* create and of the walk agree.  The exceptions are BreaksWalk and a directory
\* .inex, which the walk ignores (create_directory and reserved_entry_kind).
ASSUME CreatedIsListed ==
  \A assets \in BOOLEAN, k1, k2 \in Kinds, p1, p2 \in UserPaths :
    LET one == Made(NewVault, k1, p1)
        two == Made(one, k2, p2)
        listed == {[kind |-> k, logical |-> p] : <<k, p>> \in {<<k1, p1>>, <<k2, p2>>}}
        Seen(disk) == {[kind |-> e.kind, logical |-> e.logical] : e \in Tree(disk, assets)}
        Hidden == {[kind |-> "directory", logical |-> <<<<".inex">>>>]}
    IN MayCreate(NewVault, assets, k1, p1) =>
         /\ Scannable(one, assets) = ~ BreaksWalk(k1, p1)
         /\ MayCreate(one, assets, k2, p2) =>
              /\ Scannable(two, assets) = ~ BreaksWalk(k2, p2)
              /\ ~ BreaksWalk(k2, p2) => Seen(two) = listed \ Hidden
              /\ \A s, d \in {p \in {p1, p2} \cup {<<<<"A", ".md">>>>} : p # <<>>} :
                   MayRename(two, assets, s, d) =>
                     /\ Scannable(RenameOnDisk(two, s, d), assets)
                     /\ Seen(RenameOnDisk(two, s, d)) =
                          (Seen(two) \ {[kind |-> "document", logical |-> s]})
                            \cup {[kind |-> "document", logical |-> d]}
================================================================================
