----------------------------- MODULE UmbraProjection -----------------------------
(***************************************************************************)
(* The text of a private document: crates/inex-core/src/umbra_render.rs,   *)
(* and what apply_private_annotation, remove_private_annotations and       *)
(* edit_private_annotation of vault.rs make of it.                         *)
(*                                                                         *)
(* The Outer Markdown holds a marker for every private slot.  The Umbra    *)
(* projection shows a fenced block with the slot's text in its place; the  *)
(* Outer projection shows what the slot's mode allows.  An editor selects  *)
(* ranges of the Umbra projection, and the vault changes the Outer         *)
(* Markdown.  A text is a sequence of symbols, an offset counts from 0 and *)
(* a range is half open, as in the code.                                   *)
(***************************************************************************)
EXTENDS Integers, FiniteSets, SequencesExt

CONSTANTS
  Letters,  \* bound: the longest text of the checks, letter by letter
  SlotIds   \* bound: identifiers of slots

SlotModes == {"drop", "cover", "placeholder"}

\* MARKER_PREFIX, the identifier, MARKER_SUFFIX.
Marker(id) == <<"{{inex-private-slot:", id, "}}">>

\* append_private_block; the line break before the end belongs to the fence.
Block(id, slot) ==
  <<":::inex-private", id, "---">> \o slot.markdown \o <<":::">>

SliceOf(text, range) == SubSeq(text, range.start + 1, range.end)
ReplaceRange(text, range, by) ==
  SubSeq(text, 1, range.start) \o by \o SubSeq(text, range.end + 1, Len(text))

MarkerStarts(text) == {i \in DOMAIN text : text[i] = Marker("")[1]}
InMarker(text, i)  == \E m \in MarkerStarts(text) : i \in m .. (m + 2)

\* validate_outer_marker_slots: one marker for each slot and no other.
Canonical(doc) ==
  LET starts == MarkerStarts(doc.outer)
  IN /\ \A i \in starts : \E id \in DOMAIN doc.slots :
          SubSeq(doc.outer, i, i + 2) = Marker(id)
     /\ {doc.outer[i + 1] : i \in starts} = DOMAIN doc.slots
     /\ Cardinality(starts) = Cardinality(DOMAIN doc.slots)

\* render_umbra_projection: the projection, the range of every block in it, and
\* for every plain offset the Outer offset that it shows (outer_segments).
RenderUmbra(doc) ==
  LET Step(shown, i) ==
        LET symbol == doc.outer[i]
            here   == Len(shown.markdown)
            block  == Block(doc.outer[i + 1], doc.slots[doc.outer[i + 1]])
        IN IF i \in MarkerStarts(doc.outer)
           THEN [shown EXCEPT
                   !.markdown = @ \o block,
                   !.blocks = Append(@, [id    |-> doc.outer[i + 1],
                                         start |-> here,
                                         end   |-> here + Len(block)])]
           ELSE IF InMarker(doc.outer, i) THEN shown
           ELSE [shown EXCEPT !.markdown = Append(@, symbol),
                              !.place = @ @@ (here :> i - 1)]
  IN FoldLeftDomain(Step, [markdown |-> <<>>, blocks |-> <<>>, place |-> <<>>],
                    doc.outer)

\* render_outer_projection.
OuterProjection(doc) ==
  LET Shown(i) ==
        IF i \in MarkerStarts(doc.outer)
        THEN CASE doc.slots[doc.outer[i + 1]].mode = "drop"  -> <<>>
               [] doc.slots[doc.outer[i + 1]].mode = "cover" -> <<"cover text">>
               [] OTHER -> <<"[Inex private content omitted]">>
        ELSE IF InMarker(doc.outer, i) THEN <<>> ELSE <<doc.outer[i]>>
  IN FlattenSeq([i \in DOMAIN doc.outer |-> Shown(i)])

\* The ranges sorted, those that overlap, or may be joined, made one.
Normalize(selections, mergeAdjacent) ==
  LET Before(a, b) == a.start < b.start \/ (a.start = b.start /\ a.end < b.end)
      Merge(merged, range) ==
        IF /\ merged # <<>>
           /\ \/ range.start < Last(merged).end
              \/ mergeAdjacent /\ range.start = Last(merged).end
        THEN [merged EXCEPT ![Len(merged)].end =
                IF range.end > @ THEN range.end ELSE @]
        ELSE Append(merged, range)
  IN FoldLeft(Merge, <<>>, SetToSortSeq(selections, Before))

\* classify_normalized: what each range is to the block that it touches.
Completes(range, block) == range.start = block.start /\ range.end = block.end
Within(range, block)    == block.start <= range.start /\ range.end <= block.end
Touches(range, block)   == range.start < block.end /\ block.start < range.end

Classify(ranges, blocks) ==
  LET touching == {<<r, b>> \in ToSet(ranges) \X ToSet(blocks) :
                     Touches(r, b)}
      complete == {t \in touching : Completes(t[1], t[2])}
      inside   == {t \in touching : Within(t[1], t[2])} \ complete
      holders  == {t[2].id : t \in inside}
  IN CASE touching # complete \cup inside   -> [kind |-> "Mixed"]
       [] touching = {}                     -> [kind |-> "Plain"]
       [] holders # {} /\ complete = {} /\ Cardinality(holders) = 1 ->
            [kind |-> "Inside", id |-> CHOOSE id \in holders : TRUE]
       [] holders = {} /\ Cardinality(complete) = Len(ranges) ->
            [kind |-> "Complete", ids |-> {t[2].id : t \in complete}]
       [] OTHER                             -> [kind |-> "Mixed"]

\* map_plain_ranges_to_outer.
ToOuter(shown, range) ==
  [start |-> shown.place[range.start], end |-> shown.place[range.end - 1] + 1]

\* apply_private_annotation: from the last range to the first.
Apply(doc, selections, mergeAdjacent, mode) ==
  LET shown  == RenderUmbra(doc)
      ranges == Normalize(selections, mergeAdjacent)
      fresh  == SetToSeq(SlotIds \ DOMAIN doc.slots)
      Wrap(d, k) ==
        [outer |-> ReplaceRange(d.outer, ToOuter(shown, ranges[k]),
                                Marker(fresh[k])),
         slots |-> d.slots @@ (fresh[k] :>
                     [markdown |-> SliceOf(shown.markdown, ranges[k]),
                      mode |-> mode])]
  IN FoldLeft(Wrap, doc, Reverse([k \in DOMAIN ranges |-> k]))

\* remove_private_annotations: each marker is looked for in the changed text.
RemoveAnnotations(doc, ids) ==
  LET Unwrap(d, id) ==
        LET at == (CHOOSE i \in MarkerStarts(d.outer) : d.outer[i + 1] = id) - 1
        IN [outer |-> ReplaceRange(d.outer, [start |-> at, end |-> at + 3],
                                   d.slots[id].markdown),
            slots |-> [other \in DOMAIN d.slots \ {id} |-> d.slots[other]]]
  IN FoldLeft(Unwrap, doc, SetToSeq(ids))

\* edit_private_annotation keeps the identifier and the text of the slot.
EditAnnotation(doc, id, mode) == [doc EXCEPT !.slots[id].mode = mode]

-----------------------------------------------------------------------------
(* Reference definitions: a document is a text of which parts are private. *)

\* The text without fences, each letter with the slot that holds it.
FullText(doc) ==
  LET Part(i) ==
        IF i \in MarkerStarts(doc.outer)
        THEN LET id == doc.outer[i + 1]
             IN [k \in DOMAIN doc.slots[id].markdown |->
                   <<doc.slots[id].markdown[k], id>>]
        ELSE IF InMarker(doc.outer, i) THEN <<>> ELSE << <<doc.outer[i], "">> >>
  IN FlattenSeq([i \in DOMAIN doc.outer |-> Part(i)])

\* Every document whose text is a prefix of Letters: its parts are plain, or
\* one slot that its letters, one after the other, fill.
Documents(modes) ==
  LET Texts == {SubSeq(Letters, 1, n) : n \in 1 .. Len(Letters)}
      Owners(text) ==
        {owner \in [DOMAIN text -> SlotIds \cup {""}] :
           \A i, j \in DOMAIN text : i < j /\ owner[i] = owner[j] /\ owner[i] # ""
             => \A k \in i .. j : owner[k] = owner[i]}
      Make(text, owner, mode) ==
        LET Piece(i) ==
              IF owner[i] = "" THEN <<text[i]>>
              ELSE IF i > 1 /\ owner[i - 1] = owner[i] THEN <<>>
              ELSE Marker(owner[i])
            Held(id) == SelectSeq(text, LAMBDA letter :
                          \E i \in DOMAIN text : text[i] = letter /\ owner[i] = id)
        IN [outer |-> FlattenSeq([i \in DOMAIN text |-> Piece(i)]),
            slots |-> [id \in {owner[i] : i \in DOMAIN text} \ {""} |->
                         [markdown |-> Held(id), mode |-> mode]]]
  IN UNION {{Make(text, owner, mode) : owner \in Owners(text), mode \in modes} :
              text \in Texts}

\* One or two ranges of a projection.
Selections(markdown) ==
  LET ranges == {r \in [start : 0 .. Len(markdown), end : 0 .. Len(markdown)] :
                   r.start < r.end}
  IN {{a, b} : a \in ranges, b \in ranges}

Offsets(ranges) == UNION {r.start .. (r.end - 1) : r \in ranges}

\* render_umbra_projection shows the whole text in order and where it says, and
\* render_outer_projection nothing of what is private.
ASSUME ProjectionsShowText ==
  \A doc \in Documents(SlotModes) :
    LET shown == RenderUmbra(doc)
    IN /\ Canonical(doc)
       /\ SelectSeq(shown.markdown, LAMBDA s : s \in ToSet(Letters))
            = [i \in DOMAIN FullText(doc) |-> FullText(doc)[i][1]]
       /\ \A b \in ToSet(shown.blocks) :
            SliceOf(shown.markdown, b) = Block(b.id, doc.slots[b.id])
       /\ \A p \in DOMAIN shown.place :
            shown.markdown[p + 1] = doc.outer[shown.place[p] + 1]
       /\ \A i \in DOMAIN FullText(doc) : FullText(doc)[i][2] # "" =>
            ~ Contains(OuterProjection(doc), FullText(doc)[i][1])

\* normalize_and_classify_selections: the ranges that it makes cover what was
\* selected, in order and apart; plain ones show no part of a block, complete
\* ones are blocks, and inside ones touch one block.
ASSUME SelectionsAreClassified ==
  \A doc \in Documents({"drop"}) :
    LET shown == RenderUmbra(doc)
    IN \A selections \in Selections(shown.markdown), merge \in BOOLEAN :
         LET ranges == Normalize(selections, merge)
             class  == Classify(ranges, shown.blocks)
             whole  == {b \in ToSet(shown.blocks) : \E r \in ToSet(ranges) : Completes(r, b)}
             fenced == Offsets(ToSet(shown.blocks))
         IN /\ Offsets(ToSet(ranges)) = Offsets(selections)
            /\ \A k \in 1 .. (Len(ranges) - 1) :
                 IF merge THEN ranges[k].end < ranges[k + 1].start
                          ELSE ranges[k].end <= ranges[k + 1].start
            /\ (class.kind = "Plain") = (Offsets(selections) \cap fenced = {})
            /\ class.kind = "Complete" =>
                 /\ Offsets(selections) = Offsets(whole)
                 /\ class.ids = {b.id : b \in whole}
            /\ class.kind = "Inside" =>
                 /\ whole = {}
                 /\ \A b \in ToSet(shown.blocks) :
                      (b.id = class.id) = (Offsets({b}) \cap Offsets(selections) # {})

\* An annotation moves exactly the selected letters into fresh slots, one for
\* each range, and neither loses, repeats nor reorders a letter, although every
\* replacement moves the offsets behind it; the slots that were there stay.
ASSUME AnnotationMovesSelection ==
  \A doc \in Documents({"drop"}), merge \in BOOLEAN :
    LET shown == RenderUmbra(doc)
    IN \A selections \in Selections(shown.markdown) :
         /\ Classify(Normalize(selections, merge), shown.blocks).kind = "Plain"
         /\ Len(Normalize(selections, merge))
              <= Cardinality(SlotIds \ DOMAIN doc.slots)
         => LET after == Apply(doc, selections, merge, "drop")
                letters == {shown.markdown[o + 1] : o \in Offsets(selections)}
                old == FullText(doc)
                new == FullText(after)
            IN /\ Canonical(after)
               /\ DOMAIN new = DOMAIN old
               /\ \A i \in DOMAIN old :
                    /\ new[i][1] = old[i][1]
                    /\ IF old[i][1] \in letters
                       THEN new[i][2] \notin DOMAIN doc.slots \cup {""}
                       ELSE new[i][2] = old[i][2]
               /\ Cardinality(DOMAIN after.slots \ DOMAIN doc.slots)
                    = Len(Normalize(selections, merge))

\* Removing annotations makes exactly their letters plain, in their old places;
\* editing one keeps the text and the identifier of every slot.
ASSUME RemovalRestoresText ==
  \A doc \in Documents(SlotModes) : \A ids \in SUBSET DOMAIN doc.slots :
    LET after == RemoveAnnotations(doc, ids)
    IN /\ Canonical(after)
       /\ FullText(after) =
            [i \in DOMAIN FullText(doc) |->
               IF FullText(doc)[i][2] \in ids
               THEN <<FullText(doc)[i][1], "">> ELSE FullText(doc)[i]]
       /\ \A id \in ids, mode \in SlotModes :
            FullText(EditAnnotation(doc, id, mode)) = FullText(doc)
================================================================================
