------------------------------- MODULE MCLayout -------------------------------
EXTENDS Layout

Fronts == {<<>>, <<"space">>, <<"space", "space", "space", "space">>}
Bodies ==
  { <<"word">>, <<"head">>, <<"head", "space", "word">>,
    <<"word", "op", "newline", "space", "word">>,
    <<"open", "newline", "word", "close">> }
Between == {<<"newline">>, <<"newline", "remark", "newline">>, <<"newline", "space", "newline">>}
Lines == {f \o b : f \in Fronts, b \in Bodies}
Lasts ==
  {f \o b : f \in Fronts,
     b \in {<<"word">>, <<"word", "newline", "newline">>,
            <<"word", "folded", "op", "comment", "word", "newline">>}}

\* Three lines, with what may stand between them and at the end.
ThreeLines ==
  {a \o t \o b \o <<"newline">> \o c :
     a \in Bodies \cup {<<"space", "word">>, <<"space", "head">>}, t \in Between,
     b \in Lines, c \in Lasts}

\* Four lines, which is one block more than the scanner has room for.
Deeper == {<<>>, <<"space">>, <<"space", "space", "space", "space">>,
           <<"space", "space", "space", "space", "space">>}
Short == {f \o b : f \in Deeper, b \in {<<"word">>, <<"head">>}}
FourLines ==
  {a \o <<"newline">> \o b \o <<"newline">> \o c \o <<"newline">> \o d \o <<"newline">> :
     a \in {<<"word">>, <<"head">>}, b \in Short, c \in Short, d \in Short}

\* What stands before or in a line and should not, and a string in a line.
Oddities ==
  {<<"head", "newline">> \o f \o a \o <<"word", "newline">> \o g \o b \o <<"word">> :
     f \in Fronts, g \in Fronts,
     a \in {<<>>, <<"tab">>, <<"comment">>, <<"folded">>, <<"slash">>},
     b \in {<<>>, <<"tab">>, <<"comment">>, <<"folded">>, <<"slash">>, <<"string", "newline">>}}

\* A string that is all there is, by its characters: short ones, and ones that
\* three quotes open, with room for a line that continues one and for its end.
Chars(n) == UNION {[1 .. k -> Char] : k \in 0 .. n}
Multi(n) == UNION {[1 .. k -> Char \ {"letter", "wrong"}] : k \in 0 .. n}
Literals ==
  {<<"quote">> \o s : s \in Chars(3)}
  \cup {<<"quote", "quote", "quote">> \o s : s \in Chars(2) \cup Multi(5)}

Quoted == {<<"quote", "letter", "quote">>}
MCPrograms ==
  [text : ThreeLines \cup FourLines \cup Oddities, literal : Quoted]
  \cup [text : {<<"string">>}, literal : Literals]

\* The texts of the rules run: a line that continues behind an operator, with a
\* literal of one or two characters in it, and lines that begin with tabs or with
\* spaces.
RulePrograms ==
  [text : {f \o <<"word", "op", "newline", "string", "newline", "head", "newline">>
             \o g \o <<"word">> \o t :
             f \in {<<>>, <<"word", "newline">>}, g \in {<<b>> : b \in Blanks},
             t \in {<<>>, <<"newline">>, <<"newline", "word", "newline">>}},
   literal : {<<"quote">> \o s \o <<"quote">> : s \in UNION {[1 .. k -> Char] : k \in 1 .. 2}}]
=============================================================================
