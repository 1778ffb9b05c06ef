------------------------------- MODULE TextSearch -------------------------------
(***************************************************************************)
(* The in-memory search index: crates/inex-core/src/search.rs.  Which      *)
(* documents it holds within its limits, where a query matches, and which  *)
(* line, column and snippet a match is shown with.                         *)
(*                                                                         *)
(* A text is a sequence of characters; Alphabet says how many bytes and    *)
(* UTF-16 units one has and what it is folded to.  Offsets count bytes     *)
(* from 0.  VaultDocuments models when an index may answer.                *)
(***************************************************************************)
EXTENDS Integers, SequencesExt

CONSTANTS
  Alphabet,  \* character -> [bytes, units, fold]
  Words,     \* bound: the characters of the texts that are matched
  Lines,     \* bound: the characters of the texts that positions are found in
  MaxText    \* bound: length of a text; a query is at most half as long

Sum(numbers) == FoldLeft(+, 0, numbers)
Size(text)   == Sum([i \in DOMAIN text |-> Alphabet[text[i]].bytes])
Units(text)  == Sum([i \in DOMAIN text |-> Alphabet[text[i]].units])

Before(text, i)  == Size(SubSeq(text, 1, i - 1))       \* where character i starts
Boundaries(text) == {Before(text, i) : i \in 1 .. (Len(text) + 1)}
Slice(text, from, to) ==
  SelectSeq([i \in DOMAIN text |-> <<text[i], Before(text, i)>>],
            LAMBDA c : from <= c[2] /\ c[2] < to)
CharsOf(text, from, to) ==
  [i \in DOMAIN Slice(text, from, to) |-> Slice(text, from, to)[i][1]]

-----------------------------------------------------------------------------
(* MemorySearchIndex: [documents: path -> size, bytes]. *)

Empty == [documents |-> [path \in {} |-> 0], bytes |-> 0]

Upsert(index, path, size, limits) ==
  LET replaced == IF path \in DOMAIN index.documents
                  THEN index.documents[path] ELSE 0
      after == [documents |-> (path :> size) @@ index.documents,
                bytes     |-> index.bytes - replaced + size]
  IN IF /\ Cardinality(DOMAIN after.documents) <= limits.documents
        /\ after.bytes <= limits.bytes
     THEN after ELSE index

Drop(index, path) ==
  IF path \in DOMAIN index.documents
  THEN [documents |-> [p \in DOMAIN index.documents \ {path} |-> index.documents[p]],
        bytes     |-> index.bytes - index.documents[path]]
  ELSE index

-----------------------------------------------------------------------------
(* StreamingFoldMatcher: Knuth, Morris and Pratt over the folded characters, *)
(* with the original ranges of the last Len(pattern) of them in a ring.      *)

\* The longest shorter prefix that the next symbol continues.
FallBack(pattern, prefix, matched, symbol) ==
  LET from[k \in 0 .. (Len(pattern) - 1)] ==
        IF k > 0 /\ pattern[k + 1] # symbol THEN from[prefix[k]] ELSE k
  IN from[matched]

Advance(pattern, prefix, matched, symbol) ==
  LET kept == FallBack(pattern, prefix, matched, symbol)
  IN IF pattern[kept + 1] = symbol THEN kept + 1 ELSE kept

PrefixTable(pattern) ==
  LET Extend(table, i) ==
        Append(table, IF i = 1 THEN 0
                      ELSE Advance(pattern, table, Last(table), pattern[i]))
  IN FoldLeftDomain(Extend, <<>>, pattern)

Folded(text) == FlattenSeq([i \in DOMAIN text |-> Alphabet[text[i]].fold])

\* fold_character_into for each character, every symbol with the range it is from.
Stream(text) ==
  LET Symbols(i) ==
        [k \in DOMAIN Alphabet[text[i]].fold |->
           [symbol |-> Alphabet[text[i]].fold[k],
            start  |-> Before(text, i),
            end    |-> Before(text, i + 1)]]
  IN FlattenSeq([i \in DOMAIN text |-> Symbols(i)])

\* feed, and what search_folded_document does with the range it returns.
FoldedRanges(text, query) ==
  LET pattern == Folded(query)
      length  == Len(pattern)
      prefix  == PrefixTable(pattern)
      stream  == Stream(text)
      Feed(state, i) ==
        LET matched == Advance(pattern, prefix, state.matched, stream[i].symbol)
            recent  == [state.recent EXCEPT ![(i - 1) % length] = stream[i]]
            range   == [start |-> recent[(i - length) % length].start,
                        end   |-> recent[(i - 1) % length].end]
        IN IF matched < length
           THEN [state EXCEPT !.matched = matched, !.recent = recent]
           ELSE [matched |-> 0, recent |-> recent,
                 found   |-> IF state.found # <<>> /\ Last(state.found) = range
                             THEN state.found ELSE Append(state.found, range)]
  IN FoldLeftDomain(Feed,
       [matched |-> 0, found |-> <<>>,
        recent  |-> [k \in 0 .. (length - 1) |-> [start |-> 0, end |-> 0]]],
       stream).found

\* str::match_indices: the matches from the left that do not overlap.
MatchIndices(text, pattern) ==
  LET Take(found, i) ==
        IF /\ SubSeq(text, i, i + Len(pattern) - 1) = pattern
           /\ found = <<>> \/ Last(found) + Len(pattern) <= i
        THEN Append(found, i) ELSE found
  IN FoldLeft(Take, <<>>, [i \in 1 .. (Len(text) - Len(pattern) + 1) |-> i])

\* search_sensitive_document.
SensitiveRanges(text, query) ==
  LET found == MatchIndices(text, query)
  IN [k \in DOMAIN found |->
        [start |-> Before(text, found[k]),
         end   |-> Before(text, found[k] + Len(query))]]

\* search: the documents in the order of their paths, up to the result limit.
Search(texts, query, sensitive, limit) ==
  LET Ranges(i) == IF sensitive THEN SensitiveRanges(texts[i], query)
                                ELSE FoldedRanges(texts[i], query)
      Push(hits, hit) == IF Len(hits) = limit THEN hits ELSE Append(hits, hit)
      Visit(hits, i) ==
        IF Len(hits) = limit THEN hits
        ELSE FoldLeft(Push, hits,
               [k \in DOMAIN Ranges(i) |-> <<i, Ranges(i)[k]>>])
  IN FoldLeftDomain(Visit, <<>>, texts)

-----------------------------------------------------------------------------
(* PositionCursor and make_snippet. *)

Breaks == {"CR", "LF"}

\* advance_to, character by character: CR LF is one line break, and a target
\* between the two stays on the line before it.
AdvanceTo(text, cursor, target) ==
  LET Step(c, i) ==
        LET next == Before(text, i + 1)
            pair == text[i] = "CR" /\ i < Len(text) /\ text[i + 1] = "LF"
        IN CASE c.offset # Before(text, i) \/ c.offset >= target -> c
             [] pair /\ c.offset + 2 <= target ->
                  [offset |-> c.offset + 2, line |-> c.line + 1,
                   column |-> 0, start |-> c.offset + 2]
             [] pair /\ c.offset + 2 > target -> [c EXCEPT !.offset = next]
             [] text[i] \in Breaks /\ ~pair ->
                  [offset |-> next, line |-> c.line + 1, column |-> 0, start |-> next]
             [] OTHER -> [c EXCEPT !.offset = next,
                                   !.column = @ + Alphabet[text[i]].units]
  IN FoldLeftDomain(Step, cursor, text)

Start == [offset |-> 0, line |-> 0, column |-> 0, start |-> 0]

\* line_bounds: the line goes on to the next character of a line break.
LineEnd(text, start) ==
  LET after == {i \in DOMAIN text : Before(text, i) >= start /\ text[i] \in Breaks}
  IN IF after = {} THEN Size(text)
     ELSE Before(text, CHOOSE i \in after : \A j \in after : i <= j)

\* make_snippet, the ends of the text that it takes; next_char_boundary and
\* previous_char_boundary look at the line only.
Snippet(text, match, limit, start, end) ==
  LET candidate == IF match - start > limit \div 2
                   THEN match - (limit \div 2) ELSE start
      inLine == {b \in Boundaries(text) : start <= b /\ b <= end}
      from == CHOOSE b \in candidate .. match :
                /\ b \in inLine \/ b = match
                /\ \A a \in candidate .. (b - 1) : a \notin inLine
      stop == IF from + limit < end THEN from + limit ELSE end
      to   == IF stop <= from THEN stop
              ELSE CHOOSE b \in from .. stop :
                     /\ b \in inLine \/ b = from
                     /\ \A a \in (b + 1) .. stop : a \notin inLine
  IN IF limit = 0 THEN [start |-> start, end |-> start]
     ELSE IF end - start <= limit THEN [start |-> start, end |-> end]
     ELSE [start |-> from, end |-> to]

-----------------------------------------------------------------------------
Texts(chars, n) == UNION {[1 .. k -> chars] : k \in 1 .. n}

\* The byte count of an index is that of its documents, and its limits hold,
\* after any operations: a replaced document is not counted twice and a
\* rejected one leaves the index as it was.
ASSUME IndexStaysBounded ==
  LET limits == [documents |-> 1, bytes |-> 2]
      Op(index, op) == IF op.size < 0 THEN Drop(index, op.path)
                       ELSE Upsert(index, op.path, op.size, limits)
  IN \A ops \in Texts([path : {"p", "q"}, size : -1 .. 3], 3) :
       LET index == FoldLeft(Op, Empty, ops)
           paths == SetToSeq(DOMAIN index.documents)
       IN /\ index.bytes = Sum([i \in DOMAIN paths |-> index.documents[paths[i]]])
          /\ index.bytes <= limits.bytes
          /\ Len(paths) <= limits.documents

\* The streaming matcher finds what folding the whole text finds: its ring
\* still holds the first range of a match, and a match that begins or ends
\* within the folding of a character takes all of it (the corpus of
\* streaming_fold_matches_reference_mapping_corpus, over every small text).
ASSUME StreamingFindsAll ==
  \A text \in Texts(Words, MaxText), query \in Texts(Words, MaxText \div 2) :
    LET stream  == Stream(text)
        indices == MatchIndices(Folded(text), Folded(query))
        Taken(i) == [start |-> stream[i].start,
                     end   |-> stream[i + Len(Folded(query)) - 1].end]
        Keep(found, i) == IF found # <<>> /\ Last(found) = Taken(i)
                          THEN found ELSE Append(found, Taken(i))
    IN FoldedRanges(text, query) = FoldLeft(Keep, <<>>, indices)

\* A limit cuts the hits off and changes none, whatever document it falls in;
\* hits of one document never go back, which advance_to relies on.
ASSUME LimitsCutHits ==
  \A one, two \in Texts(Words, MaxText - 2), query \in Texts(Words, 1) :
    \A sensitive \in BOOLEAN, limit \in 1 .. MaxText :
      LET all  == Search(<<one, two>>, query, sensitive, 2 * MaxText)
          hits == Search(<<one, two>>, query, sensitive, limit)
      IN /\ hits = SubSeq(all, 1, IF limit < Len(all) THEN limit ELSE Len(all))
         /\ \A k \in 1 .. (Len(all) - 1) :
              all[k][1] = all[k + 1][1] => all[k][2].start <= all[k + 1][2].start

\* The line and column of a match do not depend on the matches before it, the
\* line counts breaks (CR LF once) and the column UTF-16 units of the line.
ASSUME PositionsAreOfTheText ==
  \A text \in Texts(Lines, MaxText) : \A one, two \in Boundaries(text) : one <= two =>
    LET direct == AdvanceTo(text, Start, two)
        breaks == {i \in DOMAIN text :
                     /\ text[i] \in Breaks
                     /\ Before(text, i + 1) <= two
                     /\ ~ (text[i] = "CR" /\ i < Len(text) /\ text[i + 1] = "LF")}
        shown  == SelectSeq(CharsOf(text, direct.start, two),
                            LAMBDA c : c \notin Breaks)
    IN /\ AdvanceTo(text, AdvanceTo(text, Start, one), two) = direct
       /\ direct.offset = two
       /\ direct.line = Cardinality(breaks)
       /\ direct.column = Units(shown)

\* A snippet is whole characters of the matched line, no longer than asked for,
\* and one of eight bytes or more begins at or before the match and shows its
\* first character.  The one exception is of a match that begins between CR
\* and LF: with a limit of one byte it takes the text from behind the end of
\* its line to that end, which the code's slice does not survive.
ASSUME SnippetsShowTheMatch ==
  \A text \in Texts(Lines, MaxText) : \A i \in DOMAIN text, limit \in 0 .. 9 :
    LET match   == Before(text, i)
        cursor  == AdvanceTo(text, Start, match)
        end     == LineEnd(text, cursor.start)
        snippet == Snippet(text, match, limit, cursor.start, end)
        behind  == match > end
    IN IF behind /\ limit = 1 /\ end - cursor.start > 1
       THEN snippet.start > snippet.end
       ELSE /\ {snippet.start, snippet.end} \subseteq Boundaries(text)
            /\ cursor.start <= snippet.start
            /\ snippet.start <= snippet.end
            /\ snippet.end <= end
            /\ snippet.end - snippet.start <= limit
            /\ limit >= 8 /\ match < end =>
                 /\ snippet.start <= match
                 /\ Before(text, i + 1) <= snippet.end
=============================================================================
