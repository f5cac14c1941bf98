----------------------------- MODULE EvidenceChunks -----------------------------
(***************************************************************************)
(* packages/analysis: the symbols of a file and the chunks of evidence cut *)
(* from its lines.                                                         *)
(*                                                                         *)
(* A line is [size, word, decl, indent, braces]: its characters with the   *)
(* line break, the word at its start (None: only white space), what it     *)
(* declares ("none", "block", or "alias" for a type alias), its            *)
(* indentation and its braces in order.  Character i of line n is <<n, i>>,*)
(* so that a text is the sequence of its characters.                       *)
(***************************************************************************)
EXTENDS Integers, Sequences, SequencesExt

CONSTANTS MaxChunk, Words, NoWord

ASSUME ChunkAssumption == MaxChunk \in Nat \ {0}

Lines == [size : Nat, word : Words \cup {NoWord}, decl : {"none", "block", "alias"},
          indent : Nat, braces : Seq({"{", "}"})]

-----------------------------------------------------------------------------
\* Python: the block ends before the next line that is not blank and not
\* indented deeper, or with the file.
LineEnd(lines, n) ==
  LET closing == {m \in n + 1 .. Len(lines) :
                    lines[m].word # NoWord /\ lines[m].indent <= lines[n].indent}
  IN  IF closing = {} THEN Len(lines) ELSE Min(closing) - 1

\* TypeScript and JavaScript: the brace that closes the first one from line n
\* on; the file's end if none does, the line itself if there is no brace.
BraceEnd(lines, n) ==
  LET tokens == FlattenSeq([i \in 1 .. Len(lines) - n + 1 |->
                  [b \in DOMAIN lines[n + i - 1].braces |->
                     [line |-> n + i - 1, brace |-> lines[n + i - 1].braces[b]]]])
      opening == {k \in DOMAIN tokens : tokens[k].brace = "{"}
      balance(k) == Cardinality({i \in Min(opening) .. k : tokens[i].brace = "{"})
                    - Cardinality({i \in Min(opening) .. k : tokens[i].brace = "}"})
      closing == {k \in DOMAIN tokens : k > Min(opening) /\ balance(k) = 0}
  IN  IF opening = {} THEN n
      ELSE IF closing = {} THEN Len(lines)
      ELSE tokens[Min(closing)].line

\* extractPython and extractJavaScript: one range for each declaration.
SymbolRanges(language, lines) ==
  LET end(n) == IF language = "python" THEN LineEnd(lines, n)
                ELSE IF lines[n].decl = "alias" THEN n ELSE BraceEnd(lines, n)
  IN  IF language = "text" THEN <<>>
      ELSE FlattenSeq([n \in DOMAIN lines |->
             IF lines[n].decl = "none" THEN <<>> ELSE <<[start |-> n, end |-> end(n)]>>])

-----------------------------------------------------------------------------
Text(lines, n) == [i \in 1 .. lines[n].size |-> <<n, i>>]

\* offset is 0 but in the slices of a line that is longer than a chunk.
Chunk(start, end, offset, content) ==
  [start |-> start, end |-> end, offset |-> offset, content |-> content]

\* A slice's identifier ends in its offset; the first one's is not that of
\* the whole line.
Slices(lines, n) ==
  LET value == Text(lines, n)
  IN  [k \in 1 .. (Len(value) + MaxChunk - 1) \div MaxChunk |->
         Chunk(n, n, k, SubSeq(value, (k - 1) * MaxChunk + 1,
                                      IF k * MaxChunk > Len(value) THEN Len(value) ELSE k * MaxChunk))]

\* Mutant: the chunk that follows a full one keeps its start.
FlushKeepsStart(acc, n) ==
  [acc EXCEPT !.content = <<>>,
              !.chunks = Append(@, Chunk(acc.start, n - 1, 0, acc.content))]

\* A full chunk is emitted and the next one starts at line n.
Flush(acc, n) ==
  [start |-> n, content |-> <<>>,
   chunks |-> Append(acc.chunks, Chunk(acc.start, n - 1, 0, acc.content))]

\* The body of the loop of createChunks, for line n.
AddLine(lines, acc, n) ==
  LET value == Text(lines, n)
      room == acc.content = <<>> \/ Len(acc.content) + Len(value) <= MaxChunk
      open == IF room THEN acc ELSE Flush(acc, n)
  IN  IF Len(value) > MaxChunk
        THEN [start |-> n + 1, content |-> <<>>, chunks |-> open.chunks \o Slices(lines, n)]
        ELSE [open EXCEPT !.content = @ \o value]

\* That loop over the lines of one range, and what it leaves.
Cut(lines, range) ==
  LET after[n \in range.start - 1 .. range.end] ==
        IF n < range.start THEN [start |-> range.start, content |-> <<>>, chunks |-> <<>>]
        ELSE AddLine(lines, after[n - 1], n)
      done == after[range.end]
  IN  IF done.content = <<>> THEN done.chunks
      ELSE Append(done.chunks, Chunk(done.start, range.end, 0, done.content))

\* The ranges that createChunks cuts: the symbols, or the whole file.
Ranges(language, lines) ==
  LET symbols == SymbolRanges(language, lines)
  IN  IF symbols # <<>> THEN symbols
      ELSE IF lines = <<>> THEN <<>> ELSE <<[start |-> 1, end |-> Len(lines)]>>

ChunksOf(language, lines) ==
  FlattenSeq([i \in DOMAIN Ranges(language, lines) |-> Cut(lines, Ranges(language, lines)[i])])

IsBlank(lines, content) == \A i \in DOMAIN content : lines[content[i][1]].word = NoWord
=============================================================================
