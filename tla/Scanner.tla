------------------------------- MODULE Scanner -------------------------------
(***************************************************************************)
(* The editor's reader: the external scanner of the tree-sitter grammar    *)
(* (tree-sitter-ngpl/src/scanner.c) and, as far as layout goes, the parser *)
(* that asks it for tokens.  What the scanner remembers between two calls  *)
(* is what it serialized: every call begins by restoring it, and what a    *)
(* call that finds no token did to the state is lost.                      *)
(***************************************************************************)
EXTENDS LayoutText

CONSTANTS
  MaxDepth,    \* MAX_DEPTH
  Byte,        \* the values a char of the buffer has
  BufferSize   \* TREE_SITTER_SERIALIZATION_BUFFER_SIZE

VARIABLES
  text, literal,   \* what is read, and the literal the piece "string" is
  at,              \* the first piece not read
  saved,           \* the state as it was serialized with the last token
  want,            \* what the parser can go on with
  blocks, brackets,\* what it has open
  out,             \* the tokens it was given
  taken,           \* how many characters the literal was read to have
  done
vars == <<text, literal, at, saved, want, blocks, brackets, out, taken, done>>

Start ==
  /\ at = 1 /\ saved = <<>> /\ want = "item" /\ blocks = 0 /\ brackets = 0
  /\ out = <<>> /\ taken = 0 /\ done = FALSE

-----------------------------------------------------------------------------
\* The state, and how it is kept.  A pending indentation of -1 is none.

create == [indents |-> <<0>>, pending |-> -1, eof_newline |-> FALSE]

Flags(s) == (IF s.pending < 0 THEN 0 ELSE 1) + (IF s.eof_newline THEN 2 ELSE 0)

Wide(v) == <<v % Byte, (v \div Byte) % Byte>>

Written(s) ==
  LET kept == Cardinality({k \in DOMAIN s.indents : 4 + 2 * k <= BufferSize})
  IN <<Len(s.indents), Flags(s)>>
     \o Wide(IF s.pending < 0 THEN 0 ELSE s.pending)
     \o [b \in 1 .. 2 * kept |-> Wide(s.indents[(b + 1) \div 2])[2 - (b % 2)]]

\* Mutant: that the newline at the end of the file was given is not kept.
serialize_no_flag(s) == Written([s EXCEPT !.eof_newline = FALSE])

serialize(s) == Written(s)

Restored(b, length) ==
  LET value(k) == b[k] + Byte * b[k + 1]
      depth == Cardinality({k \in 1 .. b[1] : 4 + 2 * k <= length})
  IN [indents |-> IF depth = 0 THEN <<0>> ELSE [k \in 1 .. depth |-> value(3 + 2 * k)],
      pending |-> IF b[2] % 2 = 1 THEN value(3) ELSE -1,
      eof_newline |-> b[2] \div 2 = 1]

\* Mutant: the last of the indents is taken not to be there.
deserialize_short(b) == IF b = <<>> THEN create ELSE Restored(b, Len(b) - 1)

deserialize(b) == IF b = <<>> THEN create ELSE Restored(b, Len(b))

scanner == deserialize(saved)
depth == Len(scanner.indents)
Top == scanner.indents[depth]

-----------------------------------------------------------------------------
\* What the parser can go on with (grammar.js): an item of the file or of a
\* block, the first of a block, an operand, more of a line, what stands under a
\* head, or the block that opens behind the newline there.

valid_symbols ==
  (IF want \in {"item", "first", "body"} \/ (want = "after" /\ brackets = 0)
   THEN {"newline"} ELSE {})
  \cup (IF want = "indent" THEN {"indent"} ELSE {})
  \cup (IF want = "item" /\ blocks > 0 THEN {"dedent"} ELSE {})
  \cup (IF want \in {"item", "first", "body", "operand"} THEN {"string"} ELSE {})

AfterNewline == IF want = "body" THEN "indent" ELSE "item"

\* What it waits for behind a token, or "error".
AfterToken(piece) ==
  CASE want \in {"item", "first", "body", "operand"} /\ piece \in {"word", "string"} -> "after"
    [] want \in {"item", "first", "body", "operand"} /\ piece = "open" -> "operand"
    [] want \in {"item", "first"} /\ piece = "head" -> "body"
    [] want = "after" /\ piece = "op" -> "operand"
    [] want = "after" /\ piece = "close" /\ brackets > 0 -> "after"
    [] OTHER -> "error"

-----------------------------------------------------------------------------
\* The whitespace in front: skip_gaps.

Gaps(from) == {p \in from .. Len(text) : \A k \in from .. p : text[k] \in Gap}
To == at + Cardinality(Gaps(at))
ended == \E p \in Gaps(at) : text[p] = "newline"

\* The spaces and tabs behind the last line end, whatever is between them.
Measured ==
  {p \in Gaps(at) : text[p] \in {"space", "tab"} /\ \A k \in p .. To - 1 : text[k] # "newline"}
indent == Cardinality(Measured) % (Byte * Byte)

\* A slash that begins no comment has been passed when that is found out.
Past == IF To <= Len(text) /\ text[To] = "slash" THEN To + 1 ELSE To
eof == Past > Len(text)

\* Where the literal ends, or 0: scan_string.
lookahead(p) == IF p <= Len(literal) THEN literal[p] ELSE "end"
scan_string ==
  LET multi == lookahead(2) = "quote" /\ lookahead(3) = "quote"
      end[p \in 1 .. Len(literal) + 3, quotes \in 0 .. 2] ==
        CASE lookahead(p) = "end" -> 0
          [] lookahead(p) \in {"escape", "return", "unicode", "wrong"} -> end[p + 1, 0]
          [] lookahead(p) = "quote" ->
               IF ~multi \/ quotes = 2 THEN p ELSE end[p + 1, quotes + 1]
          [] lookahead(p) = "newline" /\ ~multi -> 0
          [] OTHER -> end[p + 1, 0]
  IN CASE lookahead(2) = "quote" /\ ~multi -> 2
       [] multi -> end[4, 0]
       [] OTHER -> end[2, 0]

-----------------------------------------------------------------------------
\* One call of the scanner each: what it answers, and the parser's step.

Answer(s, symbol, next, to) ==
  /\ saved' = serialize(s) /\ out' = Append(out, symbol) /\ want' = next /\ at' = to
  /\ UNCHANGED <<text, literal, taken, done, brackets>>

Opens == scanner.pending > Top /\ "indent" \in valid_symbols /\ depth < MaxDepth

Closes == scanner.pending >= 0 /\ scanner.pending < Top
          /\ "dedent" \in valid_symbols /\ depth > 1

OpenBlock ==
  /\ ~done /\ Opens
  /\ Answer([scanner EXCEPT !.indents = Append(@, scanner.pending), !.pending = -1],
            Indent, "first", at)
  /\ blocks' = blocks + 1

\* Mutant: one block is closed, however many the line has left.
CloseBlock_once ==
  /\ ~done /\ Closes
  /\ Answer([scanner EXCEPT !.indents = SubSeq(@, 1, depth - 1), !.pending = -1],
            Dedent, "item", at)
  /\ blocks' = blocks - 1

\* The innermost block; the indentation stays pending while there is more to close.
CloseBlock ==
  /\ ~done /\ Closes
  /\ LET outer == SubSeq(scanner.indents, 1, depth - 1)
     IN Answer([scanner EXCEPT !.indents = outer,
                  !.pending = IF @ >= outer[depth - 1] THEN -1 ELSE @],
               Dedent, "item", at)
  /\ blocks' = blocks - 1

Settled == ~done /\ ~Opens /\ ~Closes
settled == [scanner EXCEPT !.pending = -1]

Closing == ~scanner.eof_newline /\ "newline" \in valid_symbols

EndFile ==
  /\ Settled /\ eof /\ Closing
  /\ Answer([settled EXCEPT !.eof_newline = TRUE], Newline, AfterNewline, Past)
  /\ UNCHANGED blocks

CloseAtEnd ==
  /\ Settled /\ eof /\ ~Closing /\ depth > 1 /\ "dedent" \in valid_symbols
  /\ Answer([settled EXCEPT !.indents = SubSeq(@, 1, depth - 1)], Dedent, "item", Past)
  /\ blocks' = blocks - 1

EndLine ==
  /\ Settled /\ ~eof /\ ended /\ "newline" \in valid_symbols
  /\ Answer([settled EXCEPT !.pending = indent], Newline, AfterNewline, Past)
  /\ UNCHANGED blocks

Quoted == ~eof /\ ~(ended /\ "newline" \in valid_symbols)
          /\ "string" \in valid_symbols /\ text[Past] = "string"

ReadString ==
  /\ Settled /\ Quoted /\ scan_string # 0
  /\ saved' = serialize(settled) /\ out' = Append(out, Token(Past)) /\ at' = Past + 1
  /\ want' = "after" /\ taken' = scan_string
  /\ UNCHANGED <<text, literal, blocks, brackets, done>>

\* The scanner answers that it found nothing, and is forgotten to have been
\* asked.  The grammar's own lexer reads on from the same place.
Declines ==
  /\ Settled
  /\ IF eof THEN ~Closing /\ ~(depth > 1 /\ "dedent" \in valid_symbols)
     ELSE ~(ended /\ "newline" \in valid_symbols) /\ (Quoted => scan_string = 0)

Shift ==
  /\ Declines /\ To <= Len(text) /\ text[To] \in TokenKind \ {"string"}
  /\ AfterToken(text[To]) # "error"
  /\ want' = AfterToken(text[To])
  /\ brackets' = CASE text[To] = "open" -> brackets + 1
                   [] text[To] = "close" -> brackets - 1
                   [] OTHER -> brackets
  /\ out' = Append(out, Token(To)) /\ at' = To + 1
  /\ UNCHANGED <<text, literal, saved, blocks, taken, done>>

Accepted == To > Len(text) /\ want = "item" /\ blocks = 0

\* Mending what does not parse is not followed.
Stop ==
  /\ Declines
  /\ \/ To > Len(text)
     \/ To <= Len(text) /\ (text[To] \in {"slash", "string"} \/ AfterToken(text[To]) = "error")
  /\ want' = IF Accepted THEN want ELSE "error"
  /\ done' = TRUE
  /\ UNCHANGED <<text, literal, at, saved, blocks, brackets, out, taken>>

Next == \/ OpenBlock \/ CloseBlock \/ EndFile \/ CloseAtEnd \/ EndLine
        \/ ReadString \/ Shift \/ Stop

-----------------------------------------------------------------------------
\* Properties.

\* What was serialized is the state: every indentation within its width, the
\* blocks ever deeper, no more of them than there is room for, and the buffer
\* holding them all.
TypeOK ==
  /\ saved = <<>> \/ Len(saved) = 4 + 2 * depth
  /\ \A k \in DOMAIN saved : saved[k] \in 0 .. Byte - 1
  /\ scanner.indents[1] = 0 /\ depth \in 1 .. MaxDepth
  /\ \A k \in 2 .. depth : scanner.indents[k - 1] < scanner.indents[k]
  /\ scanner.pending \in -1 .. Byte * Byte - 1

\* The scanner and the parser count the same blocks, though the one restores its
\* count from the last token it found and forgets what it did when it found none
\* (scan, serialize, deserialize).  And no line is begun while a
\* block it ends is still to be closed.
BlocksInStep ==
  /\ TypeOK
  /\ depth = blocks + 1
  /\ want \in {"operand", "after", "body"} /\ scanner.pending >= 0 => scanner.pending >= Top

\* The editor reads a text laid out as the language says as it is meant, if it is
\* not deeper than the scanner can count: the newlines it asks for and the
\* blocks it is handed are those of the lines (scan and skip_gaps).
EditorReads ==
  done =>
    (Laid(text) /\ (taken # 0 \/ \A p \in DOMAIN text : text[p] # "string")
     /\ (LET depths == Meaning(text) IN \A t \in DOMAIN depths : depths[t] < MaxDepth)
       => want # "error" /\ MeaningOf(out, text) = Meaning(text))
=============================================================================
