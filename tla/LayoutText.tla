------------------------------ MODULE LayoutText ------------------------------
(***************************************************************************)
(* Programs as their layout has them, and what layout says of one.         *)
(*                                                                         *)
(* A text is a sequence of pieces, each a column wide or a whole token.    *)
(* What it means is said without reading it in any order (spec.md,         *)
(* "Layout-Driven Blocks"): which tokens begin a line of the program, and  *)
(* how many blocks each such line is in.                                   *)
(***************************************************************************)
EXTENDS Integers, Sequences, FiniteSets

\* Whitespace, and what is whitespace with something written in it: a comment
\* within a line, one that runs over the end of a line, and a remark, which
\* runs to the end of its line.
Gap == {"space", "tab", "comment", "folded", "remark", "newline"}
\* A head is what a colon ends: what stands under it is a block.  An op is any
\* operator that waits for what is right of it, the = of a definition included.
TokenKind == {"word", "string", "op", "open", "close", "head"}
Piece == Gap \cup TokenKind \cup {"slash"}

\* What a reader hands on: a token and where it was read, or a token of layout.
Token(at) == [kind |-> "token", at |-> at]
Newline == [kind |-> "newline", at |-> 0]
Indent == [kind |-> "indent", at |-> 0]
Dedent == [kind |-> "dedent", at |-> 0]
Times(n, tok) == [k \in 1 .. n |-> tok]

\* A string literal by its characters: a quote, an escape (two characters, or a
\* number in braces) and anything else.  Of the escapes, every reader knows \n,
\* \t, \\ and \", not every one \r (return) and \u{...} (unicode), and none the
\* wrong ones.
Char == {"quote", "escape", "return", "unicode", "wrong", "letter", "space", "newline"}

-----------------------------------------------------------------------------
\* What layout says.

IsToken(text, i) == text[i] \in TokenKind
Tokens(text) == {i \in DOMAIN text : IsToken(text, i)}

\* How many brackets are open after piece i.
Nesting(text) ==
  LET n[i \in 0 .. Len(text)] ==
        IF i = 0 THEN 0
        ELSE LET before == n[i - 1]
             IN CASE text[i] = "open" -> before + 1
                  [] text[i] = "close" /\ before > 0 -> before - 1
                  [] OTHER -> before
  IN n

\* The token before position i, or 0.
Before(text, i) ==
  LET earlier == {j \in Tokens(text) : j < i}
  IN IF earlier = {} THEN 0 ELSE CHOOSE j \in earlier : \A k \in earlier : k <= j

\* The ends of lines that end a line of the program: its brackets are closed and
\* no operator waits.
Continues(text, i) == Before(text, i) # 0 /\ text[Before(text, i)] = "op"
LineEnds(text) ==
  LET nesting == Nesting(text)
  IN {i \in DOMAIN text : /\ text[i] = "newline" /\ nesting[i] = 0
                          /\ Before(text, i) # 0 /\ ~Continues(text, i)}

\* The tokens that begin a line.
Begins(text) ==
  LET ends == LineEnds(text)
  IN {t \in Tokens(text) :
        LET before == Before(text, t) IN before = 0 \/ ends \cap before .. t # {}}

\* What stands before t on the line it was typed on.
Lead(text, t) ==
  {i \in 1 .. t - 1 : \A j \in i .. t - 1 : text[j] # "newline"}
Blanks == {"space", "tab"}
Column(text, t) == Cardinality({i \in Lead(text, t) : text[i] \in Blanks})

\* The blocks each line is in, each by its column: no line between is less deep.
Blocks(text) ==
  LET begins == Begins(text)
      column == [t \in begins |-> Column(text, t)]
  IN [t \in begins |->
        {column[s] : s \in {s \in begins : s <= t /\ \A u \in begins \cap s .. t :
                                                     column[u] >= column[s]}}
        \ {0}]

Meaning(text) ==
  LET blocks == Blocks(text) IN [t \in DOMAIN blocks |-> Cardinality(blocks[t])]

\* What a reader's tokens say.  Its parser steps over the end of a line inside
\* brackets and behind an operator.
MeaningOf(out, text) ==
  LET nesting == Nesting(text)
      tokens == {i \in DOMAIN out : out[i].kind = "token"}
      ended(i) == \E j \in 1 .. i - 1 :
                    out[j] = Newline /\ \A k \in j .. i - 1 : k \notin tokens
      begins == {i \in tokens :
                   LET before == Before(text, out[i].at)
                   IN \/ before = 0
                      \/ ended(i) /\ text[before] # "op" /\ nesting[before] = 0}
      count(kind, i) == Cardinality({j \in 1 .. i : out[j].kind = kind})
  IN [t \in {out[i].at : i \in begins} |->
        LET i == CHOOSE i \in begins : out[i].at = t
        IN count("indent", i) - count("dedent", i)]

-----------------------------------------------------------------------------
\* Kinds of texts.

\* What the lines of the file, blank ones and those inside brackets too, begin
\* with: spaces in every one or tabs in every one (rule 3), and before the first
\* token of a line of the program nothing else.
Even(text) ==
  LET leads == {i \in DOMAIN text :
                  \E p \in 0 .. i - 1 : /\ p = 0 \/ text[p] = "newline"
                                        /\ \A k \in p + 1 .. i : text[k] \in Blanks}
  IN /\ \A t \in Begins(text) : Lead(text, t) \subseteq leads
     /\ \A i, j \in leads : text[i] = text[j]

\* The line before line t, or 0.
LineBefore(begins, t) ==
  LET earlier == {s \in begins : s < t}
  IN IF earlier = {} THEN 0 ELSE CHOOSE s \in earlier : \A k \in earlier : k <= s

\* A line that is less deep than the one before it is as deep as a line the
\* block is in.
Matched(text) ==
  LET blocks == Blocks(text)
  IN \A t \in DOMAIN blocks :
       LET s == LineBefore(DOMAIN blocks, t)
       IN s = 0 \/ Column(text, t) >= Column(text, s)
            \/ Column(text, t) \in blocks[s] \cup {0}

\* A line is one block deeper than the one before it exactly when that one ends
\* with a head, the first is in none, and the last ends with no head and no
\* operator.
Headed(text) ==
  LET begins == Begins(text)
      last == Before(text, Len(text) + 1)
  IN /\ \A t \in begins :
          LET s == LineBefore(begins, t)
          IN IF s = 0 THEN Column(text, t) = 0
             ELSE (Column(text, t) > Column(text, s)) <=> (text[Before(text, t)] = "head")
     /\ last # 0 => text[last] \notin {"head", "op"}

\* No slash stands alone: no reader of the language takes one.
Slashless(text) == \A i \in DOMAIN text : text[i] # "slash"

\* A text laid out as the language says.
Laid(text) == Even(text) /\ Matched(text) /\ Headed(text) /\ Slashless(text)

\* What the language allows and not every text has: a line that continues behind
\* an operator (rule 5), and a tab.
Unbroken(text) ==
  LET nesting == Nesting(text)
  IN \A i \in DOMAIN text : ~(text[i] = "newline" /\ nesting[i] = 0 /\ Continues(text, i))
Tabless(text) == \A i \in DOMAIN text : text[i] # "tab"
=============================================================================
