---------------------------- MODULE ShellParser ----------------------------
(***************************************************************************)
(* HW1: from a command line to the programs to run.  A line is a sequence  *)
(* of characters, a token a sequence of characters; of the characters only *)
(* the blank and the four operators matter, all others are letters.        *)
(***************************************************************************)
EXTENDS Integers, Sequences, SequencesExt

Operators == {"&", "<", ">", "|"}
Blank     == " "

\* A token that consists of one operator.
Op(c) == <<c>>

---------------------------------------------------------------------------
(* tokenize.                                                               *)

\* The pending word, if any, becomes a token.
Flush(s) ==
  IF s.token = <<>> THEN s
  ELSE [tokens |-> Append(s.tokens, s.token), token |-> <<>>]

\* Mutant: an operator does not end the word in front of it.
TokenizeGluing(command) ==
  LET read(s, c) ==
        CASE c = Blank       -> Flush(s)
          [] c \in Operators -> [s EXCEPT !.tokens = Append(@, Op(c))]
          [] OTHER           -> [s EXCEPT !.token = Append(@, c)]
  IN Flush(FoldLeft(read, [tokens |-> <<>>, token |-> <<>>], command)).tokens

Tokenize(command) ==
  LET read(s, c) ==
        CASE c = Blank       -> Flush(s)
          [] c \in Operators -> [Flush(s) EXCEPT !.tokens = Append(@, Op(c))]
          [] OTHER           -> [s EXCEPT !.token = Append(@, c)]
  IN Flush(FoldLeft(read, [tokens |-> <<>>, token |-> <<>>], command)).tokens

---------------------------------------------------------------------------
(* Parser::parse.                                                          *)

\* A Program without anything; a missing name or file is the empty word.
NoProgram == [program_name |-> <<>>, args |-> <<>>, infile |-> <<>>,
              outfile |-> <<>>, background |-> FALSE]

\* The parser's members and locals: first is inner_command_index = 0, skip
\* says that the token at hand was taken as a file name already.
Started == [programs |-> <<>>, is_pipeline |-> FALSE, current |-> NoProgram,
            first |-> TRUE, skip |-> FALSE, ok |-> TRUE]

\* Mutant: the file's name is read once more as an argument.
TakeFileUnskipped(s, field, tokens, i) ==
  IF i = Len(tokens) THEN [s EXCEPT !.ok = FALSE]
  ELSE [s EXCEPT !.current[field] = tokens[i + 1]]

\* > or <: the next token, whatever it is, is the file.
TakeFile(s, field, tokens, i) ==
  IF i = Len(tokens) THEN [s EXCEPT !.ok = FALSE]
  ELSE [s EXCEPT !.current[field] = tokens[i + 1], !.skip = TRUE]

\* One round of the loop.  After an error the parser has returned.
ParseToken(s, tokens, i) ==
  CASE ~s.ok  -> s
    [] s.skip -> [s EXCEPT !.skip = FALSE]
    [] s.first ->
         [s EXCEPT !.current.program_name = tokens[i], !.first = FALSE]
    [] OTHER ->
         CASE tokens[i] = Op("&") ->
                [s EXCEPT !.current.background = TRUE,
                          !.ok = i = Len(tokens) \/ tokens[i + 1] = Op("|")]
           [] tokens[i] = Op("|") ->
                [s EXCEPT !.is_pipeline = TRUE, !.first = TRUE,
                          !.programs = Append(@, s.current),
                          !.current = NoProgram]
           [] tokens[i] = Op(">") -> TakeFile(s, "outfile", tokens, i)
           [] tokens[i] = Op("<") -> TakeFile(s, "infile", tokens, i)
           [] OTHER -> [s EXCEPT !.current.args = Append(@, tokens[i])]

Parse(tokens) ==
  LET step(s, i) == ParseToken(s, tokens, i)
      end        == FoldLeftDomain(step, Started, tokens)
  IN [ok          |-> end.ok,
      is_pipeline |-> end.is_pipeline,
      programs    |-> Append(end.programs, end.current)]
=============================================================================
