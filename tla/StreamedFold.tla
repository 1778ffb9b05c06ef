------------------------------ MODULE StreamedFold ------------------------------
(***************************************************************************)
(* The streamed case fold of path.rs in crates/inex-core/src               *)
(* (stream_portable_case_fold_nfc), which replays the input instead of     *)
(* holding it, against portable_case_fold, which folds the whole name and  *)
(* restores its canonical composition afterwards.                          *)
(*                                                                         *)
(* The Unicode tables are constants; the alphabet of a check has every     *)
(* kind of character that the algorithm tells apart.                       *)
(***************************************************************************)
EXTENDS Integers, SequencesExt

CONSTANTS
  Chars,       \* character -> [fold, parts, class]: its case fold, its canonical
               \* decomposition and its combining class, 0 for a starter
  Composites,  \* pairs of characters -> the character they compose to
  NameChars,   \* bound: the characters of the names that are checked
  MaxChars     \* bound: length of a name

ClassOf(char) == Chars[char].class
Composes(one, two) == <<one, two>> \in DOMAIN Composites

\* PortableCaseFoldChars and CanonicalFoldChars.
CaseFolded(text) == FlattenSeq([i \in DOMAIN text |-> Chars[text[i]].fold])
Decomposed(text) == FlattenSeq([i \in DOMAIN text |-> Chars[text[i]].parts])
Units(text)      == Decomposed(CaseFolded(text))

\* CanonicalSegments: a starter, if there is one, and the marks behind it.
Segments(units) ==
  LET Add(segments, unit) ==
        IF segments = <<>> \/ ClassOf(unit) = 0
        THEN Append(segments, <<unit>>)
        ELSE [segments EXCEPT ![Len(segments)] = Append(@, unit)]
  IN FoldLeft(Add, <<>>, units)

\* for_each_ordered_nonstarter: the segment once for every class that it has.
Ordered(marks) ==
  LET classes == SetToSortSeq({ClassOf(m) : m \in ToSet(marks)}, <)
  IN FlattenSeq([k \in DOMAIN classes |->
                   SelectSeq(marks, LAMBDA m : ClassOf(m) = classes[k])])

\* compose_segment_nonstarters.
ComposeMarks(starter, marks) ==
  LET Mark(state, mark) ==
        IF /\ state.left = <<>> \/ ClassOf(Last(state.left)) < ClassOf(mark)
           /\ Composes(state.starter, mark)
        THEN [state EXCEPT !.starter = Composites[<<@, mark>>]]
        ELSE [state EXCEPT !.left = Append(@, mark)]
  IN FoldLeft(Mark, [starter |-> starter, left |-> <<>>], Ordered(marks))

\* stream_portable_case_fold_nfc: a starter waits, because the next may compose
\* with it, until a mark that stays between them or the end.
Stream(text) ==
  LET Emit(state, chars) == [state EXCEPT !.out = @ \o chars]
      Segment(state, segment) ==
        LET joined == state.waits # <<>> /\ Composes(state.waits[1], segment[1])
            starter == IF joined THEN Composites[<<state.waits[1], segment[1]>>]
                       ELSE segment[1]
            before == IF joined THEN <<>> ELSE state.waits
            done   == ComposeMarks(starter, Tail(segment))
        IN IF ClassOf(segment[1]) # 0 THEN Emit(state, Ordered(segment))
           ELSE IF done.left = <<>>
           THEN [out |-> state.out \o before, waits |-> <<done.starter>>]
           ELSE [out |-> state.out \o before \o <<done.starter>> \o done.left,
                 waits |-> <<>>]
      end == FoldLeft(Segment, [out |-> <<>>, waits |-> <<>>], Segments(Units(text)))
  IN end.out \o end.waits

-----------------------------------------------------------------------------
(* The canonical ordering and composition of the Unicode standard.           *)

Starts(units) == {i \in DOMAIN units : ClassOf(units[i]) = 0}

\* Marks between two starters are sorted by class, stably.
CanonicallyOrdered(units) ==
  LET Sorted(text) == \A i \in 1 .. (Len(text) - 1) :
                        ClassOf(text[i]) <= ClassOf(text[i + 1]) \/ ClassOf(text[i + 1]) = 0
      Swap(text, i) == [text EXCEPT ![i] = text[i + 1], ![i + 1] = text[i]]
      Pass(text, pass) ==
        FoldLeft(LAMBDA t, i : IF 0 < ClassOf(t[i + 1]) /\ ClassOf(t[i]) > ClassOf(t[i + 1])
                               THEN Swap(t, i) ELSE t,
                 text, [i \in 1 .. (Len(text) - 1) |-> i])
  IN FoldLeft(LAMBDA t, n : IF Sorted(t) THEN t ELSE Pass(t, n), units,
              [n \in DOMAIN units |-> n])

\* Each character is composed with the last starter before it unless one that
\* stays between them has the same or a higher class, or is a starter.
Compose(units) ==
  LET Take(out, char) ==
        LET starts == {i \in DOMAIN out : ClassOf(out[i]) = 0}
            last   == CHOOSE i \in starts : \A j \in starts : j <= i
            blocked == \E i \in (last + 1) .. Len(out) : ClassOf(out[i]) >= ClassOf(char)
        IN IF starts # {} /\ ~blocked /\ Composes(out[last], char)
           THEN [out EXCEPT ![last] = Composites[<<@, char>>]]
           ELSE Append(out, char)
  IN FoldLeft(Take, <<>>, units)

\* portable_case_fold.
Whole(text) == Compose(CanonicallyOrdered(Units(text)))

Names == UNION {[1 .. n -> NameChars] : n \in 0 .. MaxChars}

\* The stream is the fold of the whole name, for marks in any order, marks that
\* block one another, marks without a starter, and starters that compose with
\* starters (raw_portable_case_fold_fingerprint against portable_case_fold).
ASSUME StreamIsWhole == \A text \in Names : Stream(text) = Whole(text)

\* A fold is a key: folding it again changes nothing, so two names that collide
\* are one name to every later check.
ASSUME FoldIsStable == \A text \in Names : Whole(Whole(text)) = Whole(text)
================================================================================
