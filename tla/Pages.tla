-------------------------------- MODULE Pages --------------------------------
(***************************************************************************)
(* Reading a file or an output in pieces: offset and limit in bytes, and   *)
(* the search for a pattern, line by line, which tells the offsets of the  *)
(* lines it finds.  A text is a sequence of bytes; of these the line feed, *)
(* the carriage return and the second byte of a character are told apart.  *)
(* A pattern is known by the byte it looks for.                            *)
(***************************************************************************)
EXTENDS Naturals, FiniteSets, SequencesExt

CONSTANTS
  LF, CR,
  Second, \* the second byte of a character of two
  NoLimit, \* limit: None
  Panic,  \* the call ends with a panic
  NotText, \* the error of a search in what is not UTF-8
  Endless, \* more for ever
  Letters,   \* other bytes: characters, or the first bytes of one of two
  MaxLength, \* bound: length of the texts read
  Limits     \* limits to read them with

Bytes == Letters \cup {LF, CR, Second}

ASSUME PagesAssumption ==
  /\ Limits \subseteq Nat \cup {NoLimit} /\ NoLimit \notin Nat
  /\ {Panic, Endless} \cap Seq(Bytes) = {} /\ Endless /= Panic
  /\ Panic \notin [offset : Nat, length : Nat, has_more : BOOLEAN, content : Seq(Bytes)]

-----------------------------------------------------------------------------
\* The texts are UTF-8.
Texts ==
  {text \in UNION {[1 .. n -> Bytes] : n \in 0 .. MaxLength} :
     \A i \in DOMAIN text : text[i] = Second => i > 1 /\ text[i - 1] \in Letters}

Least(m, n) == IF m < n THEN m ELSE n
Start(text, offset) == Least(offset, Len(text))
End(text, offset, limit) ==
  IF limit = NoLimit THEN Len(text) ELSE Least(Start(text, offset) + limit, Len(text))

\* session_read_file: the piece is cut from the bytes, and text or base64 after.
Page(text, offset, limit) ==
  LET start == Start(text, offset)  end == End(text, offset, limit)
  IN  [offset |-> start, length |-> end - start, has_more |-> end < Len(text),
       content |-> SubSeq(text, start + 1, end)]

\* session_read_files, and session_read_file without offset and limit.
ReadWhole(text) == Page(text, 0, NoLimit).content

\* checkpoint_read_stdstreams cuts a String, which panics inside of a character.
OnBoundary(text, offset) == offset < Len(text) => text[offset + 1] /= Second
StreamPage(text, offset, limit) ==
  IF OnBoundary(text, Start(text, offset)) /\ OnBoundary(text, End(text, offset, limit))
    THEN Page(text, offset, limit) ELSE Panic

-----------------------------------------------------------------------------
\* split_inclusive('\n'): a line keeps its line feed.
Longer(lines, byte) ==
  IF lines = <<>> \/ Last(Last(lines)) = LF THEN Append(lines, <<byte>>)
  ELSE Append(Front(lines), Append(Last(lines), byte))

RawLines(text) ==
  LET read[n \in 0 .. Len(text)] == IF n = 0 THEN <<>> ELSE Longer(read[n - 1], text[n])
  IN  read[Len(text)]

\* A line without its LF or CR LF, or the CR at the end of the text.
Stripped(line) ==
  LET EndsWith(n, byte) == n > 0 /\ line[n] = byte
      lf == IF EndsWith(Len(line), LF) THEN 1 ELSE 0
      cr == IF EndsWith(Len(line) - lf, CR) THEN 1 ELSE 0
  IN  SubSeq(line, 1, Len(line) - lf - cr)

\* Mutant: the line ends are not counted.
LengthStripped(raw) == Len(Stripped(raw))

LengthOnDisk(raw) == Len(raw)

\* TextParserUtilities::grep.
Searched(found, n, raw, byte) ==
  LET line == Stripped(raw) IN
  [byte_offset |-> found.byte_offset + LengthOnDisk(raw),
   matches |-> IF Contains(line, byte)
                 THEN Append(found.matches,
                             [line_number |-> n, byte_offset |-> found.byte_offset, line |-> line])
                 ELSE found.matches]

Grep(text, byte) ==
  LET lines == RawLines(text)
      found[n \in 0 .. Len(lines)] ==
        IF n = 0 THEN [byte_offset |-> 0, matches |-> <<>>]
        ELSE Searched(found[n - 1], n, lines[n], byte)
  IN  found[Len(lines)].matches

\* With a pattern, session_read_file and checkpoint_read_stdstreams search the piece
\* between offset and limit: lines and offsets count from its start, and a piece that
\* cuts a character is no text.
Piece(text, offset, limit) == SubSeq(text, Start(text, offset) + 1, End(text, offset, limit))
CutsCharacter(text, start, end) ==
  start < end /\ ~(OnBoundary(text, start) /\ OnBoundary(text, end))

Search(text, offset, limit, byte) ==
  IF CutsCharacter(text, Start(text, offset), End(text, offset, limit)) THEN NotText
  ELSE Grep(Piece(text, offset, limit), byte)

-----------------------------------------------------------------------------
(***************************************************************************)
(* What a reader relies on, said of the text itself.                       *)
(***************************************************************************)

\* What a reader gets who reads from an offset and goes on while there is more; one
\* whose pages are empty never gets to the end.
ReadOn(Read(_, _, _), text, offset, limit) ==
  LET got[from \in 0 .. Len(text)] ==
        LET page == Read(text, from, limit)
        IN  IF page = Panic THEN Panic
            ELSE IF ~page.has_more THEN page.content
            ELSE IF page.length = 0 THEN Endless
            ELSE LET rest == got[page.offset + page.length]
                 IN  IF rest \in {Panic, Endless} THEN rest ELSE page.content \o rest
  IN  got[offset]
From(text, offset) == SubSeq(text, offset + 1, Len(text))

\* The lines that hold a byte: first position, number, text.
LineStarts(text) == {i \in 1 .. Len(text) : i = 1 \/ text[i - 1] = LF}
LineEnd(text, i) ==
  LET feeds == {j \in i .. Len(text) : text[j] = LF}
  IN  IF feeds = {} THEN Len(text) ELSE CHOOSE j \in feeds : \A k \in feeds : j <= k
LineAt(text, i) == Stripped(SubSeq(text, i, LineEnd(text, i)))
LinesWith(text, byte) ==
  {[line_number |-> Cardinality({j \in LineStarts(text) : j <= i}), byte_offset |-> i - 1,
    line |-> LineAt(text, i)] : i \in {j \in LineStarts(text) : Contains(LineAt(text, j), byte)}}

\* From the start in pieces gives what is read at once; a stream too, unless a piece
\* ends inside of a character.  Pieces of nothing never get there.
PiecesJoin ==
  \A text \in Texts, limit \in Limits :
    LET all == IF limit = 0 /\ text /= <<>> THEN Endless ELSE ReadWhole(text)
    IN  /\ ReadOn(Page, text, 0, limit) = all
        /\ ReadOn(StreamPage, text, 0, limit) \in {all, Panic}

\* A search, of the whole text or of a piece that cuts no character: it finds the lines
\* of the piece, and who reads on from the byte_offset of one gets to that line, counted
\* from where the piece begins, which the caller has to add.
SearchFinds ==
  \A text \in Texts : \A byte \in Range(text) \ {LF, CR} :
    \A offset \in 0 .. Len(text), limit \in Limits :
      LET found == Search(text, offset, limit, byte) IN
      found /= NotText =>
        /\ Range(found) = LinesWith(Piece(text, offset, limit), byte)
        /\ \A match \in Range(found), step \in Limits \ {0} :
             LET at == offset + match.byte_offset
                 read == ReadOn(Page, text, at, step)
             IN  read = From(text, at) /\ IsPrefix(match.line, read)
=============================================================================
