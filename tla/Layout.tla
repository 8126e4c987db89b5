-------------------------------- MODULE Layout --------------------------------
(***************************************************************************)
(* The three readers of the language over one text: the compiler's lexer,  *)
(* the interpreter's, and the editor's scanner under its parser.           *)
(***************************************************************************)
EXTENDS LayoutText

CONSTANTS
  Programs,        \* the texts, each with the literal its string is
  MaxDepth, Byte, BufferSize   \* the scanner's

\* A state of the scanner fits the buffer it is serialized to; how deep it is is a
\* byte, and the two flags are two bits of one.
ASSUME SizesAssumption ==
  /\ MaxDepth \in Nat \ {0} /\ Byte \in Nat /\ BufferSize \in Nat
  /\ MaxDepth < Byte /\ 4 <= Byte
  /\ 4 + 2 * MaxDepth <= BufferSize

ASSUME ProgramsAssumption ==
  \A p \in Programs : p.text \in Seq(Piece) /\ p.literal \in Seq(Char)

VARIABLES
  text, literal,
  c_at, c_col, c_parens, c_line_start, c_indents, c_out, c_diags, c_taken, c_done,
  i_at, i_char, i_tokens, i_i, i_nesting, i_stack, i_result, i_taken, i_pc,
  e_at, e_saved, e_want, e_blocks, e_brackets, e_out, e_taken, e_done

Compiler == INSTANCE LexCompiler WITH
  at <- c_at, col <- c_col, parens <- c_parens, at_line_start <- c_line_start,
  indents <- c_indents, out <- c_out, diags <- c_diags, taken <- c_taken, done <- c_done
Interp == INSTANCE LexInterp WITH
  at <- i_at, indent_char <- i_char, tokens <- i_tokens, i <- i_i, nesting <- i_nesting,
  indent_stack <- i_stack, result <- i_result, taken <- i_taken, pc <- i_pc
Editor == INSTANCE Scanner WITH
  at <- e_at, saved <- e_saved, want <- e_want, blocks <- e_blocks,
  brackets <- e_brackets, out <- e_out, taken <- e_taken, done <- e_done

c_vars == <<c_at, c_col, c_parens, c_line_start, c_indents, c_out, c_diags, c_taken, c_done>>
i_vars == <<i_at, i_char, i_tokens, i_i, i_nesting, i_stack, i_result, i_taken, i_pc>>
e_vars == <<e_at, e_saved, e_want, e_blocks, e_brackets, e_out, e_taken, e_done>>
vars == <<text, literal, c_vars, i_vars, e_vars>>

Init ==
  /\ \E p \in Programs : text = p.text /\ literal = p.literal
  /\ Compiler!Start /\ Interp!Start /\ Editor!Start

Compiled == c_done
Interpreted == i_pc \in {"done", "error"}

\* Each is a program of its own and they share nothing but the text, so it is
\* enough to run one after the other.
Next ==
  \/ Compiler!Next /\ UNCHANGED <<i_vars, e_vars>>
  \/ Compiled /\ Interp!Next /\ UNCHANGED <<c_vars, e_vars>>
  \/ Compiled /\ Interpreted /\ Editor!Next /\ UNCHANGED <<c_vars, i_vars>>

\* Nothing keeps a reader from its next step.
Spec == Init /\ [][Next]_vars /\ WF_vars(Next)

-----------------------------------------------------------------------------
\* Properties.

\* What the compiler accepts is laid out as the language says and read as it is
\* meant, and but for lines that continue behind an operator and tabs it accepts
\* all that is (lex and handle_indent).
CompilerReads == e_done => Compiler!CompilerReads

\* A trailing operator continues its line (lex; spec.md, rule 5).
LinesContinue == Compiler!LinesContinue

\* A text may be indented by tabs (skip_gaps; spec.md, rule 3).
TabsIndent == Compiler!TabsIndent

\* A text laid out as the language says means to the interpreter what it says,
\* lines that continue behind an operator included (process_indentation).
InterpreterReads == e_done => Interp!InterpreterReads

\* And to the editor, if the scanner can count that deep (scan and skip_gaps).
EditorReads == Editor!EditorReads

\* The scanner's state is what it serialized, and counts the parser's blocks.
BlocksInStep == Editor!BlocksInStep

\* A literal has one end: but for the two escapes not both of them know, the
\* interpreter finds the end the compiler finds and no other, and whichever takes
\* it, the editor finds the end where they do, though it neither reads what
\* stands before a line of it nor knows an escape (read_string, _read_string and
\* scan_string).
Has(chars) == \E k \in DOMAIN literal : literal[k] \in chars
StringsAgree ==
  text = <<"string">> =>
    /\ Interpreted =>
         \/ i_taken = c_taken
         \/ i_taken = 0 /\ Has({"return"})
         \/ c_taken = 0 /\ Has({"unicode"})
    /\ e_done => \A end \in {c_taken, i_taken} \ {0} : e_taken = end

\* A literal on one line, with nothing in it but letters and escapes of the
\* language.
Simple ==
  /\ Len(literal) >= 2 /\ literal[1] = "quote" /\ literal[Len(literal)] = "quote"
  /\ \A k \in 2 .. Len(literal) - 1 : literal[k] \notin {"quote", "newline", "wrong"}

\* The escapes of a character, \r one of them, are those of a string (spec.md,
\* "The char Type"): the interpreter takes such a literal to its end
\* (_read_string).
InterpreterTakesEscapes ==
  Interpreted /\ Laid(text) /\ Simple =>
    \A k \in DOMAIN text : text[k] = "string" => i_taken = Len(literal)

\* All three are rules of the language.  One text breaks them all: it is not even
\* so that of every text one is kept (lex, skip_gaps and _read_string).
ReadersKeepARule == LinesContinue \/ TabsIndent \/ InterpreterTakesEscapes

\* The end of the file is a place the scanner is asked about again and again,
\* and it has one newline to give there: the statements it ends are no more than
\* the lines (eof_newline).
LinesEndOnce ==
  Cardinality({k \in DOMAIN e_out : e_out[k] = Newline})
    <= Cardinality({k \in DOMAIN text : text[k] = "newline"}) + 1

\* Every text is read to its end, or given up, by each of the readers: none
\* waits at a piece it never passes.
ReadingEnds == <>(Compiled /\ Interpreted /\ e_done)
=============================================================================
