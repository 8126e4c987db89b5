------------------------------ MODULE LexInterp ------------------------------
(***************************************************************************)
(* The interpreter's lexer (interp/lexer.py) as far as layout goes.  It    *)
(* reads the text twice: tokenize makes tokens of the pieces, the end of a *)
(* line carrying the indentation of the next, and process_indentation      *)
(* makes blocks of the tokens.                                             *)
(***************************************************************************)
EXTENDS LayoutText

VARIABLES
  text, literal,   \* what is read, and the literal the piece "string" is
  at, indent_char, \* tokenize: the position, and what the lines begin with
  tokens,
  i, nesting,      \* process_indentation: the next token, the open brackets
  indent_stack,    \* the columns of the open blocks
  result,
  taken,           \* how many characters the literal was read to have
  pc               \* "tokenize", "indent", "done" or "error"

Start ==
  /\ at = 1 /\ indent_char = "none" /\ tokens = <<>>
  /\ i = 1 /\ nesting = 0 /\ indent_stack = <<0>> /\ result = <<>>
  /\ taken = 0 /\ pc = "tokenize"

Tokenizing == pc = "tokenize" /\ at <= Len(text)
LineEnd(indent) == [kind |-> "newline", at |-> indent]

-----------------------------------------------------------------------------
\* tokenize

SkipGap ==
  /\ Tokenizing /\ text[at] \in Gap \ {"newline"}
  /\ at' = at + 1
  /\ UNCHANGED <<text, literal, indent_char, tokens, i, nesting, indent_stack,
                 result, taken, pc>>

\* The spaces and tabs a line begins with; they are to be the same in every line.
Leads(p) == {q \in p + 1 .. Len(text) : \A k \in p + 1 .. q : text[k] \in {"space", "tab"}}
Mixed(p) ==
  \E q \in Leads(p) : text[q] # (IF indent_char = "none" THEN text[p + 1] ELSE indent_char)

LineFeed ==
  /\ Tokenizing /\ text[at] = "newline" /\ ~Mixed(at)
  /\ tokens' = Append(tokens, LineEnd(Cardinality(Leads(at))))
  /\ at' = at + 1 + Cardinality(Leads(at))
  /\ indent_char' = IF Leads(at) # {} THEN text[at + 1] ELSE indent_char
  /\ UNCHANGED <<text, literal, i, nesting, indent_stack, result, taken, pc>>

\* Where the literal ends, or 0: _read_string.  It knows \u{...}, and no \r.
Ch(p) == IF p <= Len(literal) THEN literal[p] ELSE "end"
ThreeQuotes(p) == \A k \in p .. p + 2 : Ch(k) = "quote"

\* Mutant: a single quote ends the string that three opened.
_read_string_any_quote ==
  LET multi == Ch(2) = "quote" /\ Ch(3) = "quote"
      end[p \in 1 .. Len(literal) + 3] ==
        CASE Ch(p) \in {"end", "wrong", "return"} -> 0
          [] Ch(p) = "newline" /\ ~multi -> 0
          [] Ch(p) = "quote" -> IF multi /\ ThreeQuotes(p) THEN p + 2 ELSE p
          [] OTHER -> end[p + 1]
  IN end[IF multi THEN 4 ELSE 2]

_read_string ==
  LET multi == Ch(2) = "quote" /\ Ch(3) = "quote"
      pastLead(p) == CHOOSE q \in p .. Len(literal) + 1 :
                       Ch(q) # "space" /\ \A k \in p .. q - 1 : Ch(k) = "space"
      end[p \in 1 .. Len(literal) + 3] ==
        CASE Ch(p) = "end" -> 0
          [] multi /\ ThreeQuotes(p) -> p + 2
          [] Ch(p) = "newline" ->
               (LET q == pastLead(p + 1)
                IN CASE ~multi -> 0
                     [] multi /\ ThreeQuotes(q) -> q + 2
                     [] multi /\ Ch(q) # "quote" -> 0
                     [] OTHER -> end[q + 1])
          [] Ch(p) \in {"wrong", "return"} -> 0
          [] Ch(p) = "quote" /\ ~multi -> p
          [] OTHER -> end[p + 1]
  IN end[IF multi THEN 4 ELSE 2]

Take ==
  /\ Tokenizing /\ IsToken(text, at) /\ (text[at] = "string" => _read_string # 0)
  /\ tokens' = Append(tokens, Token(at))
  /\ at' = at + 1
  /\ taken' = IF text[at] = "string" THEN _read_string ELSE taken
  /\ UNCHANGED <<text, literal, indent_char, i, nesting, indent_stack, result, pc>>

\* Mutant: a line end in a string is waited at, and never passed.
Refuse_waits ==
  /\ Tokenizing
  /\ \/ text[at] = "newline" /\ Mixed(at)
     \/ text[at] = "slash"
     \/ text[at] = "string" /\ _read_string = 0 /\ \A p \in DOMAIN literal : Ch(p) # "newline"
  /\ pc' = "error"
  /\ UNCHANGED <<text, literal, at, indent_char, tokens, i, nesting, indent_stack,
                 result, taken>>

\* A LexerError: spaces where the lines began with tabs, a slash that begins no
\* comment, a literal that does not end as it should.
Refuse ==
  /\ Tokenizing
  /\ \/ text[at] = "newline" /\ Mixed(at)
     \/ text[at] = "slash"
     \/ text[at] = "string" /\ _read_string = 0
  /\ pc' = "error"
  /\ UNCHANGED <<text, literal, at, indent_char, tokens, i, nesting, indent_stack,
                 result, taken>>

Tokenized ==
  /\ pc = "tokenize" /\ at > Len(text)
  /\ pc' = "indent"
  /\ UNCHANGED <<text, literal, at, indent_char, tokens, i, nesting, indent_stack,
                 result, taken>>

-----------------------------------------------------------------------------
\* process_indentation

Indenting == pc = "indent" /\ i <= Len(tokens)
Piece_(k) == text[tokens[k].at]

PassToken ==
  /\ Indenting /\ tokens[i].kind = "token"
  /\ result' = Append(result, tokens[i])
  /\ nesting' = CASE Piece_(i) = "open" -> nesting + 1
                  [] Piece_(i) = "close" /\ nesting > 0 -> nesting - 1
                  [] OTHER -> nesting
  /\ i' = i + 1
  /\ UNCHANGED <<text, literal, at, indent_char, tokens, indent_stack, taken, pc>>

\* The last token passed, whatever layout came after it.
Waits ==
  \E k \in DOMAIN result :
     /\ result[k].kind = "token" /\ text[result[k].at] = "op"
     /\ \A j \in k + 1 .. Len(result) : result[j].kind # "token"

PassLineEnd ==
  /\ Indenting /\ tokens[i].kind = "newline" /\ (nesting > 0 \/ Waits)
  /\ result' = Append(result, Newline)
  /\ i' = i + 1
  /\ UNCHANGED <<text, literal, at, indent_char, tokens, nesting, indent_stack, taken, pc>>

\* The line ends that follow one another, up to the next token.
Run(k) == {j \in k .. Len(tokens) : \A l \in k .. j : tokens[l].kind = "newline"}

\* Mutant: the indentation is that of the first of the lines.
Indentation_first(k) == tokens[k].at

\* The indentation of the line reached: what the last of them carries.
Indentation(k) == tokens[k + Cardinality(Run(k)) - 1].at

\* The blocks left open at a line this far in, and the tokens that say so.  A
\* line that stands between two blocks closes one and opens another.
Nested(indent) ==
  LET kept == SelectSeq(indent_stack, LAMBDA w : w <= indent)
      closed == Times(Len(indent_stack) - Len(kept), Dedent)
  IN IF indent > kept[Len(kept)]
     THEN [stack |-> Append(kept, indent), tokens |-> Append(closed, Indent)]
     ELSE [stack |-> kept, tokens |-> closed]

EndLine ==
  /\ Indenting /\ tokens[i].kind = "newline" /\ nesting = 0 /\ ~Waits
  /\ LET next == i + Cardinality(Run(i))
         nested == IF next > Len(tokens) THEN Nested(0) ELSE Nested(Indentation(i))
     IN /\ result' = result \o Times(Cardinality(Run(i)), Newline) \o nested.tokens
        /\ indent_stack' = nested.stack
        /\ i' = next
  /\ UNCHANGED <<text, literal, at, indent_char, tokens, nesting, taken, pc>>

Finish ==
  /\ pc = "indent" /\ i > Len(tokens)
  /\ result' = result \o Times(Len(indent_stack) - 1, Dedent)
  /\ indent_stack' = <<0>>
  /\ pc' = "done"
  /\ UNCHANGED <<text, literal, at, indent_char, tokens, i, nesting, taken>>

Next == \/ SkipGap \/ LineFeed \/ Take \/ Refuse \/ Tokenized
        \/ PassToken \/ PassLineEnd \/ EndLine \/ Finish

-----------------------------------------------------------------------------
\* Properties.

\* A text laid out as the language says means to the interpreter what it says,
\* those with a line that continues behind an operator and those indented by tabs
\* included: blank lines, comments and the lines inside brackets move no block (process_indentation).
InterpreterReads ==
  pc \in {"done", "error"} =>
    (Laid(text) /\ (taken # 0 \/ \A p \in DOMAIN text : text[p] # "string")
       => pc = "done" /\ MeaningOf(result, text) = Meaning(text))
=============================================================================
