------------------------------ MODULE MCShell ------------------------------
(***************************************************************************)
(* Instances of Shell for TLC, and what its parser promises of every small *)
(* command and every short line.                                           *)
(***************************************************************************)
EXTENDS Shell

ls == <<"l">>
more == <<" ", "m">>
pipe == <<"|">>
amp == <<" ", "&">>
file == <<">", "l">>

\* Lines that run a command alone, in the background and in pipelines of two
\* and three, with a file in the middle of a pipeline; a line of blanks; and
\* two the parser is odd about.
MCLines ==
  {ls, ls \o amp, ls \o pipe \o more, ls \o pipe \o more \o amp,
   ls \o pipe \o more \o pipe \o more, ls \o file \o pipe \o more,
   <<Blank>>, ls \o pipe, ls \o <<">">>}

MCUninitialized == {-1, 0, 3}
MCNoGarbage     == {-1}

---------------------------------------------------------------------------
(* How a user writes a command.                                            *)

Words == {<<"l", "s">>, <<"b">>}
Lists == {<<>>} \cup {<<w>> : w \in Words}

Commands ==
  LET programs1 == [program_name : Words, args : Lists, infile : Words \cup {<<>>},
                    outfile : Words \cup {<<>>}, background : BOOLEAN]
  IN UNION {[1..n -> programs1] : n \in 1..2}

WithFile(op, name) == IF name = <<>> THEN <<>> ELSE <<op>> \o name
PrintProgram(p) ==
  p.program_name \o FlattenSeq([k \in DOMAIN p.args |-> <<Blank>> \o p.args[k]])
    \o WithFile("<", p.infile) \o WithFile(">", p.outfile)
    \o (IF p.background THEN <<"&">> ELSE <<>>)
PrintCommand(c) ==
  FlattenSeq([k \in DOMAIN c |-> (IF k = 1 THEN <<>> ELSE <<"|">>) \o PrintProgram(c[k])])

AnyLine == BoundedSeq({"a", Blank, "|", ">", "&"}, 5)

IsWord(t) == \A k \in DOMAIN t : t[k] \notin Operators \cup {Blank}

\* The shell has not read anything.
Starting == shell = "prompt" /\ Forked = {}

\* What was typed as a command of several programs with arguments, files and
\* & is what the shell runs: nothing of a program slips into its neighbour.
ParsesWhatWasAsked ==
  Starting => \A c \in Commands :
    Parse(Tokenize(PrintCommand(c))) =
      [ok |-> TRUE, is_pipeline |-> Len(c) > 1, programs |-> c]

\* The tokens of any line spell its characters without the blanks, each is a
\* word or one operator, and words are cut at blanks and operators only.
TokensSpellTheLine ==
  Starting => \A line \in AnyLine :
    LET tokens == Tokenize(line)
    IN /\ FlattenSeq(tokens) = SelectSeq(line, LAMBDA c : c # Blank)
       /\ \A k \in DOMAIN tokens :
            tokens[k] # <<>> /\ (IsWord(tokens[k]) \/ tokens[k] \in {Op(c) : c \in Operators})
       /\ Cardinality({k \in DOMAIN tokens : IsWord(tokens[k])})
            = Cardinality({k \in DOMAIN line :
                IsWord(<<line[k]>>) /\ (k = 1 \/ ~IsWord(<<line[k - 1]>>))})
=============================================================================
