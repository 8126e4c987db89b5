----------------------------- MODULE LexCompiler -----------------------------
(***************************************************************************)
(* The compiler's lexer (src/src/lex.ngpl) as far as layout goes: a step   *)
(* is a turn of a loop, and reads one piece of the text.                   *)
(***************************************************************************)
EXTENDS LayoutText

VARIABLES
  text, literal,   \* what is read, and the literal the piece "string" is
  at, col,         \* the position, and the columns before it on its line
  parens, at_line_start,
  indents,         \* the columns of the open blocks
  out, diags,      \* the tokens, and what is complained about
  taken,           \* how many characters the literal was read to have
  done

Start ==
  /\ at = 1 /\ col = 0 /\ parens = 0 /\ at_line_start = TRUE /\ indents = <<0>>
  /\ out = <<>> /\ diags = "" /\ taken = 0 /\ done = FALSE

Reading == ~done /\ at <= Len(text) /\ diags = ""
err(m) == diags' = m

-----------------------------------------------------------------------------

\* The columns a gap ends at: a comment is as wide as it was typed, one over
\* several lines as its last line, and a remark is not counted.
Width(piece) ==
  CASE piece \in {"space", "comment"} -> col + 1
    [] piece = "folded" -> 1
    [] OTHER -> col

SkipGap ==
  /\ Reading /\ text[at] \in {"space", "comment", "folded", "remark"}
  /\ at' = at + 1 /\ col' = Width(text[at])
  /\ UNCHANGED <<text, literal, parens, at_line_start, indents, out, diags, taken, done>>

SkipTab ==
  /\ Reading /\ text[at] = "tab"
  /\ err("tab in indentation or code")
  /\ UNCHANGED <<text, literal, at, col, parens, at_line_start, indents, out, taken, done>>

\* Mutant: a line inside brackets begins a line.
LineFeed_anywhere ==
  /\ Reading /\ text[at] = "newline"
  /\ out' = out \o (IF parens = 0 /\ ~at_line_start THEN <<Newline>> ELSE <<>>)
  /\ at' = at + 1 /\ col' = 0 /\ at_line_start' = TRUE
  /\ UNCHANGED <<text, literal, parens, indents, diags, taken, done>>

LineFeed ==
  /\ Reading /\ text[at] = "newline"
  /\ out' = out \o (IF parens = 0 /\ ~at_line_start THEN <<Newline>> ELSE <<>>)
  /\ at' = at + 1 /\ col' = 0
  /\ at_line_start' = (at_line_start \/ parens = 0)
  /\ UNCHANGED <<text, literal, parens, indents, diags, taken, done>>

\* The blocks that stay open at a line this wide, the tokens that say so, and
\* whether the line is as deep as one of them.
handle_indent(width) ==
  LET top == indents[Len(indents)]
      kept == SelectSeq(indents, LAMBDA w : w <= width)
  IN IF width > top
     THEN [indents |-> Append(indents, width), tokens |-> <<Indent>>, matched |-> TRUE]
     ELSE [indents |-> kept, tokens |-> Times(Len(indents) - Len(kept), Dedent),
           matched |-> kept[Len(kept)] = width]

\* What is done before a token: nothing, unless it begins its line.
Measured ==
  IF at_line_start THEN handle_indent(col)
  ELSE [indents |-> indents, tokens |-> <<>>, matched |-> TRUE]

AstrayLine ==
  /\ Reading /\ text[at] \notin Gap /\ ~Measured.matched
  /\ err("indentation does not match any enclosing block")
  /\ indents' = Measured.indents /\ out' = out \o Measured.tokens
  /\ at_line_start' = FALSE
  /\ UNCHANGED <<text, literal, at, col, parens, taken, done>>

\* Where the literal ends, or 0: read_string.  It knows \r, and no \u{...}.
Ch(p) == IF p <= Len(literal) THEN literal[p] ELSE "end"
Three(p) == \A k \in p .. p + 2 : Ch(k) = "quote"
read_string ==
  LET multi == Ch(2) = "quote" /\ Ch(3) = "quote"
      pastLead(p) == CHOOSE q \in p .. Len(literal) + 1 :
                       Ch(q) # "space" /\ \A k \in p .. q - 1 : Ch(k) = "space"
      end[p \in 1 .. Len(literal) + 3] ==
        CASE multi /\ Three(p) -> p + 2
          [] Ch(p) = "end" -> 0
          [] Ch(p) = "newline" /\ multi ->
               (LET q == pastLead(p + 1)
                IN CASE Three(q) -> q + 2
                     [] Ch(q) # "quote" -> 0
                     [] OTHER -> end[q + 1])
          [] Ch(p) = "newline" /\ ~multi -> 0
          [] Ch(p) = "quote" /\ ~multi -> p
          [] Ch(p) \in {"wrong", "unicode"} -> 0
          [] OTHER -> end[p + 1]
  IN end[IF multi THEN 4 ELSE 2]

Brackets(piece) ==
  CASE piece = "open" -> parens + 1
    [] piece = "close" /\ parens > 0 -> parens - 1
    [] OTHER -> parens

Take ==
  /\ Reading /\ IsToken(text, at) /\ Measured.matched
  /\ text[at] = "string" => read_string # 0
  /\ indents' = Measured.indents
  /\ out' = out \o Measured.tokens \o <<Token(at)>>
  /\ parens' = Brackets(text[at])
  /\ at_line_start' = FALSE
  /\ at' = at + 1 /\ col' = col + 1
  /\ taken' = IF text[at] = "string" THEN read_string ELSE taken
  /\ UNCHANGED <<text, literal, diags, done>>

\* A slash that begins no comment, and a literal that does not end as it should.
Refuse ==
  /\ Reading /\ Measured.matched
  /\ \/ text[at] = "slash"
     \/ text[at] = "string" /\ read_string = 0
  /\ err("begins nothing")
  /\ indents' = Measured.indents /\ out' = out \o Measured.tokens
  /\ at_line_start' = FALSE
  /\ UNCHANGED <<text, literal, at, col, parens, taken, done>>

Finish ==
  /\ ~done /\ ~Reading
  /\ out' = out \o (IF ~at_line_start /\ diags = "" THEN <<Newline>> ELSE <<>>)
                \o Times(Len(indents) - 1, Dedent)
  /\ indents' = <<0>> /\ done' = TRUE
  /\ UNCHANGED <<text, literal, at, col, parens, at_line_start, diags, taken>>

Next == \/ SkipGap \/ SkipTab \/ LineFeed \/ AstrayLine \/ Take \/ Refuse \/ Finish

-----------------------------------------------------------------------------
\* Properties.

\* What the parser takes of layout (parse_block, parse_bin): a block stands
\* under a head and nowhere else, and a line does not end with an operator.
Parsed ==
  /\ diags = ""
  /\ \A i \in DOMAIN out :
       /\ out[i] = Indent =>
            i > 2 /\ out[i - 1] = Newline /\ out[i - 2].kind = "token"
                  /\ text[out[i - 2].at] = "head"
       /\ out[i].kind = "token" /\ i < Len(out) /\ out[i + 1] = Newline =>
            /\ text[out[i].at] # "op"
            /\ text[out[i].at] = "head" => i + 1 < Len(out) /\ out[i + 2] = Indent

\* What a text says of the string in it is in StringsAgree.
Lexed == done /\ (taken # 0 \/ \A i \in DOMAIN text : text[i] # "string")

\* What the compiler accepts is laid out as the language says, and it has every
\* line in the blocks its column says (lex and handle_indent), unless something
\* other than indentation stands before the first token of a line.  And it
\* accepts every text that is laid out so, but for those where a line continues
\* behind an operator and those with tabs, which LinesContinue and TabsIndent are
\* about.
CompilerReads ==
  Lexed /\ Even(text) =>
    /\ Parsed => Laid(text) /\ MeaningOf(out, text) = Meaning(text)
    /\ Laid(text) /\ Unbroken(text) /\ Tabless(text) => Parsed

\* A trailing operator continues its line: no line ends behind one (spec.md,
\* "Layout-Driven Blocks", rule 5; lex).
LinesContinue ==
  done /\ Laid(text) =>
    \A i \in DOMAIN out :
      out[i].kind = "token" /\ text[out[i].at] = "op" /\ i < Len(out) => out[i + 1] # Newline

\* A text may be indented by tabs: none that is laid out as the language says is
\* refused for one a line begins with (rule 3; skip_gaps).
TabsIndent ==
  done /\ Laid(text) => ~(at_line_start /\ diags = "tab in indentation or code")
=============================================================================
