-------------------------------- MODULE Framing ---------------------------------
(***************************************************************************)
(* The frames between an editor and the daemon: framing.rs and the reader  *)
(* of server.rs in crates/inex-daemon/src, and the decoders of the         *)
(* clients, which read the answers: editors/vscode/src/rpc.ts,             *)
(* editors/sublime/inex_rpc.py and editors/neovim/lua/inex/rpc.lua.        *)
(*                                                                         *)
(* A stream is a sequence of symbols, a symbol a byte except for the name  *)
(* of the header; a pipe delivers it in chunks, cut anywhere.  The body of *)
(* a frame is an object when it is made of "b", and no JSON otherwise.     *)
(***************************************************************************)
EXTENDS Integers, FiniteSets, SequencesExt

CONSTANTS
  MaxHeader,  \* MAX_HEADER_BYTES
  MaxFrame    \* MAX_FRAME_BYTES, at most 9 here: one digit writes every length

Name   == "Content-Length"
Digits == <<"0", "1", "2", "3", "4", "5", "6", "7", "8", "9">>
Value(digit) == CHOOSE n \in 0 .. 9 : Digits[n + 1] = digit
Symbols == ToSet(Digits) \cup {Name, ":", " ", "CR", "LF", "b", "?"}

IsObject(body) == body # <<>> /\ ToSet(body) = {"b"}

\* write_frame, and encodeRequest, encode_request and request of the clients.
Frame(body) == <<Name, ":", " ", Digits[Len(body) + 1], "CR", "LF", "CR", "LF">> \o body
Frames(bodies) == FlattenSeq([i \in DOMAIN bodies |-> Frame(bodies[i])])

First(text, symbol) ==
  CHOOSE i \in DOMAIN text : text[i] = symbol /\ \A j \in 1 .. (i - 1) : text[j] # symbol
Trim(text, blanks) ==
  LET kept == {i \in DOMAIN text : text[i] \notin blanks}
  IN IF kept = {} THEN <<>>
     ELSE SubSeq(text, CHOOSE i \in kept : \A j \in kept : i <= j,
                       CHOOSE i \in kept : \A j \in kept : i >= j)
Number(digits) == FoldLeft(LAMBDA n, digit : 10 * n + Value(digit), 0, digits)

-----------------------------------------------------------------------------
(* The daemon, which reads a stream frame by frame. *)

\* read_header_line, chunk by chunk: what is left of the stream, the line with
\* its LF, and the number of header bytes so far.
HeaderLine(chunks, used) ==
  LET Read(state, chunk) ==
        LET take == IF "LF" \in ToSet(chunk) THEN First(chunk, "LF") ELSE Len(chunk)
            rest == SubSeq(chunk, take + 1, Len(chunk))
        IN CASE state.kind # "more" -> [state EXCEPT !.rest = Append(@, chunk)]
             [] state.kind = "more" /\ state.used + take > MaxHeader ->
                  [state EXCEPT !.kind = "HeaderTooLarge"]
             [] OTHER ->
                  [kind |-> IF chunk[take] = "LF" THEN "line" ELSE "more",
                   line |-> state.line \o SubSeq(chunk, 1, take),
                   used |-> state.used + take,
                   rest |-> IF rest = <<>> THEN <<>> ELSE <<rest>>]
  IN FoldLeft(Read, [kind |-> "more", line |-> <<>>, used |-> used, rest |-> <<>>],
              chunks)

\* The checks of one header line, without its CR LF; parse_content_length.
LengthOf(line, known) ==
  LET colon == First(line, ":")
      name  == SubSeq(line, 1, colon - 1)
      value == Trim(SubSeq(line, colon + 1, Len(line)), {" "})
  IN CASE ":" \notin ToSet(line)            -> "InvalidHeader"
       [] ":" \in ToSet(line) /\ (name = <<>> \/ ToSet(name) \cap {" ", "CR", "?"} # {})
                                            -> "InvalidHeader"
       [] ":" \in ToSet(line) /\ name # <<Name>> -> "UnknownHeader"
       [] known # -1                        -> "DuplicateContentLength"
       [] value = <<>> \/ ~ ToSet(value) \subseteq ToSet(Digits)
                                            -> "InvalidContentLength"
       [] OTHER                             -> "ok"

\* read_content_length.
ContentLength(chunks) ==
  LET ReadLine(state, n) ==
        LET got  == HeaderLine(state.rest, state.used)
            ends == Len(got.line) >= 2 /\ got.line[Len(got.line) - 1] = "CR"
            line == SubSeq(got.line, 1, Len(got.line) - 2)
            verdict == LengthOf(line, state.length)
        IN CASE state.kind # "more" -> state
             [] got.kind = "HeaderTooLarge" -> [state EXCEPT !.kind = got.kind]
             [] got.kind = "more" ->
                  [state EXCEPT !.kind = IF state.used = 0 /\ got.line = <<>>
                                         THEN "CleanEof" ELSE "UnexpectedEofHeader"]
             [] got.kind = "line" /\ ~ends -> [state EXCEPT !.kind = "InvalidHeader"]
             [] got.kind = "line" /\ ends /\ line = <<>> ->
                  [state EXCEPT !.rest = got.rest,
                                !.kind = IF state.length = -1
                                         THEN "MissingContentLength" ELSE "ok"]
             [] got.kind = "line" /\ ends /\ line # <<>> /\ verdict # "ok" ->
                  [state EXCEPT !.kind = verdict]
             [] OTHER ->
                  [state EXCEPT !.rest = got.rest, !.used = got.used,
                     !.length = Number(Trim(SubSeq(line, First(line, ":") + 1, Len(line)),
                                            {" "}))]
  IN FoldLeft(ReadLine, [kind |-> "more", length |-> -1, used |-> 0, rest |-> chunks],
              [n \in 1 .. (MaxHeader + 1) |-> n])

\* read_frame, with read_body_exact: the body and the stream behind it.
ReadFrame(chunks) ==
  LET header == ContentLength(chunks)
      stream == FlattenSeq(header.rest)
      body   == SubSeq(stream, 1, header.length)
      behind == SubSeq(stream, header.length + 1, Len(stream))
      Result(kind, value, rest) == [kind |-> kind, body |-> value, rest |-> rest]
  IN CASE header.kind # "ok" -> Result(header.kind, <<>>, <<>>)
       [] header.kind = "ok" /\ header.length > MaxFrame -> Result("FrameTooLarge", <<>>, <<>>)
       [] header.kind = "ok" /\ Len(stream) < header.length ->
            Result("UnexpectedEofBody", <<>>, <<>>)
       [] OTHER -> Result(IF IsObject(body) THEN "Frame" ELSE "InvalidJson", body,
                          IF behind = <<>> THEN <<>> ELSE <<behind>>)

\* stream_is_aligned, reader_loop: the events, up to the one that ends the stream.
Aligned(kind) == kind \in {"Frame", "InvalidJson"}
Events(chunks) ==
  LET Loop(state, n) ==
        LET frame == ReadFrame(state.rest)
        IN IF state.ended THEN state
           ELSE [events |-> Append(state.events, [kind |-> frame.kind, body |-> frame.body]),
                 ended  |-> ~ Aligned(frame.kind), rest |-> frame.rest]
  IN FoldLeft(Loop, [events |-> <<>>, ended |-> FALSE, rest |-> chunks],
              [n \in 0 .. Len(FlattenSeq(chunks)) |-> n]).events

-----------------------------------------------------------------------------
(* The clients, which are given a chunk at a time. *)

NoLength == -1
Boundary(text) ==
  LET ends == {i \in 1 .. (Len(text) - 3) :
                 SubSeq(text, i, i + 3) = <<"CR", "LF", "CR", "LF">>}
  IN IF ends = {} THEN 0 ELSE CHOOSE i \in ends : \A j \in ends : i <= j

\* parseContentLength of rpc.ts and _parse_content_length of inex_rpc.py: one
\* line, blanks around the name, the colon and the number.
ClientLength(header) ==
  LET kept  == Trim(header, {" "})
      colon == First(kept, ":")
      value == Trim(SubSeq(kept, colon + 1, Len(kept)), {" "})
  IN IF /\ ":" \in ToSet(kept)
        /\ Trim(SubSeq(kept, 1, colon - 1), {" "}) = <<Name>>
        /\ value # <<>> /\ ToSet(value) \subseteq ToSet(Digits)
        /\ Number(value) <= MaxFrame
     THEN Number(value) ELSE NoLength

\* The pattern of parse_frames in rpc.lua: blanks before the number only.
NeovimLength(header) ==
  LET value == SubSeq(header, 3, Len(header))
      kept  == Trim(value, {" ", "CR", "LF"})
  IN IF /\ Len(header) > 2 /\ SubSeq(header, 1, 2) = <<Name, ":">>
        /\ kept # <<>> /\ Last(value) = Last(kept)
        /\ ToSet(kept) \subseteq ToSet(Digits)
        /\ Number(kept) <= MaxFrame
     THEN Number(kept) ELSE NoLength

Waiting == [pending |-> <<>>, expected |-> NoLength, failed |-> FALSE, bodies |-> <<>>]

\* One turn of the loop of FrameDecoder.push: a header, then a body.
Turn(state) ==
  LET end    == Boundary(state.pending)
      length == ClientLength(SubSeq(state.pending, 1, end - 1))
      behind == SubSeq(state.pending, end + 4, Len(state.pending))
      body   == SubSeq(state.pending, 1, state.expected)
      failed == [Waiting EXCEPT !.failed = TRUE]
  IN CASE state.expected = NoLength /\ end = 0 ->
            IF Len(state.pending) > MaxHeader THEN failed ELSE state
       [] state.expected = NoLength /\ end > 0 ->
            IF end + 3 > MaxHeader \/ length = NoLength THEN failed
            ELSE [state EXCEPT !.expected = length, !.pending = behind]
       [] state.expected # NoLength /\ Len(state.pending) < state.expected -> state
       [] OTHER ->
            IF ~ IsObject(body) THEN failed
            ELSE [state EXCEPT !.expected = NoLength, !.bodies = Append(@, body),
                    !.pending = SubSeq(state.pending, state.expected + 1,
                                       Len(state.pending))]

\* push: a failure anywhere in a chunk discards the responses of that chunk.
Push(state, chunk) ==
  LET turns == [n \in 1 .. (2 * (Len(state.pending) + Len(chunk)) + 1) |-> n]
      after == FoldLeft(LAMBDA s, n : IF s.failed THEN s ELSE Turn(s),
                        [state EXCEPT !.pending = @ \o chunk], turns)
  IN CASE state.failed -> state
       [] after.failed -> [after EXCEPT !.bodies = state.bodies]
       [] OTHER        -> after
Decode(chunks) == FoldLeft(Push, Waiting, chunks)

\* finish.
Partial(state) == state.pending # <<>> \/ state.expected # NoLength

\* parse_frames keeps the header in the buffer until the body is there, and
\* hands each body on at once.
NeovimTurn(state) ==
  LET end    == Boundary(state.pending)
      length == NeovimLength(SubSeq(state.pending, 1, end - 1))
      stop   == end + 3 + length
      body   == SubSeq(state.pending, end + 4, stop)
      failed == [Waiting EXCEPT !.failed = TRUE, !.bodies = state.bodies]
  IN CASE end = 0 -> IF Len(state.pending) > MaxHeader THEN failed ELSE state
       [] end > 0 /\ length = NoLength -> failed
       [] end > 0 /\ length # NoLength /\ Len(state.pending) < stop -> state
       [] OTHER ->
            IF ~ IsObject(body) THEN failed
            ELSE [state EXCEPT !.bodies = Append(@, body),
                    !.pending = SubSeq(state.pending, stop + 1, Len(state.pending))]

NeovimDecode(chunks) ==
  LET Parse(state, chunk) ==
        FoldLeft(LAMBDA s, n : IF s.failed THEN s ELSE NeovimTurn(s),
                 IF state.failed THEN state ELSE [state EXCEPT !.pending = @ \o chunk],
                 [n \in 0 .. (Len(state.pending) + Len(chunk)) |-> n])
  IN FoldLeft(Parse, Waiting, chunks)

-----------------------------------------------------------------------------
Chunks(pieces) == SelectSeq(pieces, LAMBDA chunk : chunk # <<>>)

\* Every way to cut a stream into two chunks, and into at most three.
Halves(stream) ==
  {Chunks(<<SubSeq(stream, 1, i), SubSeq(stream, i + 1, Len(stream))>>) : i \in DOMAIN stream}
Cuts(stream) ==
  UNION {{Chunks(<<SubSeq(stream, 1, i)>> \o half) :
            half \in Halves(SubSeq(stream, i + 1, Len(stream)))} : i \in DOMAIN stream}

Objects == {<<"b">>, <<"b", "b">>}

\* A stream of two frames with one symbol changed, dropped or doubled, with the
\* first line of a header twice or three times, or cut off: what a broken peer or a dying one sends.
Damaged ==
  LET frames == {Frames(bodies) : bodies \in {<<a, <<"b">>>> : a \in Objects}}
      Change(stream, i, by) ==
        SubSeq(stream, 1, i - 1) \o by \o SubSeq(stream, i + 1, Len(stream))
  IN UNION {
       {Change(f, i, <<s>>) : i \in DOMAIN f, s \in {" ", "2", "9", "?"}}
         \cup {Change(f, i, <<>>) : i \in DOMAIN f}
         \cup {Change(f, i, <<f[i], f[i]>>) : i \in DOMAIN f}
         \cup {SubSeq(f, 1, 6) \o f, SubSeq(f, 1, 6) \o SubSeq(f, 1, 6) \o f}
         \cup {SubSeq(f, 1, i) : i \in DOMAIN f} : f \in frames}

\* What one side writes the other reads, body by body, however the pipe cuts it,
\* and ends at the boundary of a frame (write_frame against read_frame, push,
\* feed and parse_frames).
ASSUME FramesAreReadBack ==
  \A a, b \in Objects : \A chunks \in Cuts(Frames(<<a, b>>)) :
    /\ Events(chunks) = <<[kind |-> "Frame", body |-> a], [kind |-> "Frame", body |-> b],
                          [kind |-> "CleanEof", body |-> <<>>]>>
    /\ Decode(chunks).bodies = <<a, b>> /\ ~ Partial(Decode(chunks))
    /\ NeovimDecode(chunks).bodies = <<a, b>>

\* The cuts of a pipe decide nothing about a damaged stream: the daemon handles
\* the same requests and ends the same way; a client fails or does not, and
\* then keeps the responses of the chunks before the one in which it fails.
ASSUME CutsDecideNothing ==
  \A stream \in Damaged : \A chunks \in Halves(stream) :
    LET whole == Decode(<<stream>>)
        cut   == Decode(chunks)
    IN /\ Events(chunks) = Events(<<stream>>)
       /\ cut.failed = whole.failed
       /\ cut.bodies = IF cut.failed THEN Decode(Front(chunks)).bodies ELSE whole.bodies
       /\ NeovimDecode(chunks).bodies = NeovimDecode(<<stream>>).bodies

\* The readers of the two sides agree: a stream that the daemon reads to its end
\* frame by frame gives a client the same bodies, and leaves nothing over.
ASSUME ReadersAgree ==
  \A stream \in Damaged :
    LET events == Events(<<stream>>)
        frames == SelectSeq(events, LAMBDA e : e.kind = "Frame")
        client == Decode(<<stream>>)
    IN /\ Len(frames) = Len(events) - 1
       /\ Last(events).kind = "CleanEof"
       => /\ client.bodies = [i \in DOMAIN frames |-> frames[i].body]
          /\ ~ client.failed /\ ~ Partial(client)
=============================================================================
