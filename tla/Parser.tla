------------------------------- MODULE Parser -------------------------------
(***************************************************************************)
(* parser/mod.rs: parse, the chain of the phases.  The comment phase reads *)
(* the lines of a file, takes out ORG, END and the metadata; module        *)
(* Expansion removes EQU, FOR and labels; the evaluation phase turns lines *)
(* into instructions.  What comes out is displayed and parsed once more.   *)
(***************************************************************************)
EXTENDS Expansion, Assemble

CONSTANTS
  Files,        \* the files that are parsed: their lines, and what is known of them
  Directives,   \* ;redcode, ;name, ;author and the others of Metadata
  Remarks       \* what else a comment may begin with, and the values of directives

\* A line of a file: its words, and its comment, of a directive and a value, if any.
Raw == [words : Line, comment : {<< >>} \cup ((Directives \cup Remarks) \X Remarks)]

ASSUME FilesAssumption == \A f \in Files : f.text \in Seq(Raw)
ASSUME DirectivesAssumption == IsFiniteSet(Directives) /\ Directives \cap Remarks = {}

VARIABLES
  next,           \* the line of the file that is read next
  metadata,
  instructions,   \* what evaluate has parsed
  error,          \* of the Err that parse has returned
  parsed          \* the results of parsing the file, and of parsing its display

own        == <<next, metadata, instructions, error, parsed>>
parserVars == <<vars, own>>

NoValue    == "None"
NoMetadata == [d \in Directives |-> NoValue]
NoOrigin   == -1

Phases == {"reading", "collecting", "expanded", "parsed", "refused", "panicked"}

\* Phase::from a file: nothing is known yet.
ParserInit ==
  /\ source \in Files
  /\ phase = "reading"
  /\ next = 1
  /\ metadata = NoMetadata
  /\ lines = << >> /\ origin = << >>
  /\ i = 1 /\ offset = 0 /\ collector = NewCollector
  /\ instructions = << >>
  /\ error = ""
  /\ parsed = << >>

-----------------------------------------------------------------------------
(* The comment phase.                                                      *)

Reading == phase = "reading" /\ next <= Len(source.text)
Words   == source.text[next].words

\* Metadata::parse_line.
Noted(m, comment) ==
  IF comment # << >> /\ comment[1] \in Directives
    THEN [m EXCEPT ![comment[1]] = comment[2]] ELSE m

\* find_origin_in_line: ORG and END count as such where they are Instructions, which
\* they are with an operand only; the arms for no operand are never taken.
IsPseudo(words, name) == words[1] = Mnemonic(name) /\ InstructionEnd(words) # 0

\* The rest of the line from its second token on: a parenthesis is no token.
Remainder(words) ==
  From(words, FirstOf({ k \in 2 .. InstructionEnd(words) : Rule(words[k]) # "" }))

\* set_origin: the first one stays.
NewOrigin(words) == IF origin = << >> THEN Remainder(words) ELSE origin

\* A line of the file is read, in any case with its comment.
ReadLine(kept, org, continue) ==
  /\ metadata' = Noted(metadata, source.text[next].comment)
  /\ lines' = lines \o kept
  /\ origin' = org
  /\ next' = continue
  /\ UNCHANGED <<source, phase, i, offset, collector, instructions, error, parsed>>

SkipsBlank == Reading /\ Words = << >> /\ ReadLine(<< >>, origin, next + 1)

TakesOrg ==
  Reading /\ Words # << >> /\ IsPseudo(Words, "Org") /\ ReadLine(<< >>, NewOrigin(Words), next + 1)

\* The lines after END are not read.
TakesEnd ==
  /\ Reading /\ Words # << >> /\ IsPseudo(Words, "End")
  /\ ReadLine(<< >>, NewOrigin(Words), Len(source.text) + 1)

KeepsLine ==
  /\ Reading /\ Words # << >>
  /\ ~ IsPseudo(Words, "Org") /\ ~ IsPseudo(Words, "End")
  /\ ReadLine(<< Words >>, origin, next + 1)

CommentsRemoved ==
  /\ phase = "reading" /\ next > Len(source.text)
  /\ phase' = "collecting"
  /\ UNCHANGED <<source, lines, origin, i, offset, collector, own>>

-----------------------------------------------------------------------------
(* The expansion phase.                                                    *)

Expands == phase = "collecting" /\ Step /\ UNCHANGED own

-----------------------------------------------------------------------------
(* The evaluation phase: the lines one after the other, then the origin.   *)

Evaluating    == phase = "expanded" /\ lines # << >>
IsInstruction == InstructionEnd(Head(lines)) # 0
Instructed    == ParseInstruction(Head(lines))

\* The state after a line.
LineDone(p, result, e) ==
  /\ phase' = p
  /\ lines' = Tail(lines)
  /\ instructions' = result
  /\ error' = e
  /\ UNCHANGED <<source, origin, i, offset, collector, next, metadata, parsed>>

\* A line that is no Instruction is dropped with a message.
DropsLine == Evaluating /\ ~ IsInstruction /\ LineDone(phase, instructions, error)

ParsesLine ==
  /\ Evaluating /\ IsInstruction /\ ~ Instructed.panics /\ Instructed.error = ""
  /\ LineDone(phase, Append(instructions, Instructed.instruction), error)

RefusesLine ==
  /\ Evaluating /\ IsInstruction /\ Instructed.error # ""
  /\ LineDone("refused", instructions, Instructed.error)

LinePanics ==
  Evaluating /\ IsInstruction /\ Instructed.panics /\ LineDone("panicked", instructions, error)

OriginDue   == phase = "expanded" /\ lines = << >>
OriginValue == EvaluateExpression(origin)

\* The state after the origin.
OriginDone(p, results, e) ==
  /\ phase' = p
  /\ parsed' = results
  /\ error' = e
  /\ UNCHANGED <<source, lines, origin, i, offset, collector, next, metadata, instructions>>

\* The Phases of Evaluated and Output: the warrior.
Result(n) == [metadata |-> metadata, instructions |-> instructions, origin |-> n]

ParsesOrigin ==
  /\ OriginDue
  /\ \/ /\ origin = << >>
        /\ OriginDone("parsed", Append(parsed, Result(NoOrigin)), error)
     \/ /\ origin # << >> /\ ~ OriginValue.panics /\ OriginValue.error = ""
        /\ OriginDone("parsed", Append(parsed, Result(OriginValue.value)), error)

RefusesOrigin ==
  /\ OriginDue /\ origin # << >> /\ ~ OriginValue.panics /\ OriginValue.error # ""
  /\ OriginDone("refused", parsed, OriginValue.error)

OriginPanics ==
  OriginDue /\ origin # << >> /\ OriginValue.panics /\ OriginDone("panicked", parsed, error)

-----------------------------------------------------------------------------
(* The way back.                                                           *)

\* Program::load_warrior and Display take no origin as the first instruction.
OriginOrDefault(n) == IF n = NoOrigin THEN 0 ELSE n

\* Mutant: a directive without a value is not written.
MetadataTextShort(m) ==
  SetToSeq({ [words |-> << >>, comment |-> << d, m[d] >>] :
               d \in { d \in Directives : m[d] \notin {NoValue, ""} } })

\* Display of the metadata, one comment for each value.
MetadataText(m) ==
  SetToSeq({ [words |-> << >>, comment |-> << d, m[d] >>] :
               d \in { d \in Directives : m[d] # NoValue } })

\* Display of a warrior.
Display(warrior) ==
  MetadataText(warrior.metadata)
    \o << [words   |-> << Mnemonic("Org"), Number(OriginOrDefault(warrior.origin)) >>,
           comment |-> << >>] >>
    \o [k \in DOMAIN warrior.instructions |->
          [words |-> InstructionText(warrior.instructions[k]), comment |-> << >>]]

\* The display of the warrior is parsed like any other file.
Rereads ==
  /\ phase = "parsed" /\ Len(parsed) = 1
  /\ source' = [text |-> Display(parsed[1]), meaning |-> {}]
  /\ phase' = "reading"
  /\ next' = 1
  /\ metadata' = NoMetadata
  /\ lines' = << >> /\ origin' = << >>
  /\ i' = 1 /\ offset' = 0 /\ collector' = NewCollector
  /\ instructions' = << >>
  /\ UNCHANGED <<error, parsed>>

-----------------------------------------------------------------------------
ParserStep ==
  \/ SkipsBlank \/ TakesOrg \/ TakesEnd \/ KeepsLine \/ CommentsRemoved
  \/ Expands
  \/ DropsLine \/ ParsesLine \/ RefusesLine \/ LinePanics
  \/ ParsesOrigin \/ RefusesOrigin \/ OriginPanics
  \/ Rereads

Returned == phase \in {"refused", "panicked"} \/ (phase = "parsed" /\ Len(parsed) = 2)

ParserNext == ParserStep \/ (Returned /\ UNCHANGED parserVars)

\* One thread, as in Expansion.
ParserFairness == []<>(Returned \/ Spins) \/ []<><<ParserStep>>_parserVars

ParserSpec == ParserInit /\ [][ParserNext]_parserVars /\ ParserFairness

-----------------------------------------------------------------------------
(* Properties.                                                             *)

\* The phases hand on what the next one takes, and what comes out at the end is a
\* warrior as a battle of module Core assumes it: no label and no negative origin.
ParserTypeOK ==
  /\ phase \in Phases
  /\ metadata \in [Directives -> Remarks \cup {NoValue}]
  /\ lines \in Seq(Line) /\ origin \in Line
  /\ error \in {"", "InvalidArguments", "InvalidOrigin", "InvalidSyntax"}
  /\ \A k \in DOMAIN parsed :
        [instructions |-> parsed[k].instructions,
         origin       |-> OriginOrDefault(parsed[k].origin)] \in Warrior

\* i32::MIN is written with a number that is no i32.
HasMinInt(warrior) ==
  \E k \in DOMAIN warrior.instructions :
     \E side \in Side : Value(warrior.instructions[k], side) = MinInt

\* A warrior's display parses, to the same metadata, instructions and first task.
DisplayReadsBack ==
  parsed # << >> /\ ~ HasMinInt(parsed[1]) =>
    /\ phase \notin {"refused", "panicked"}
    /\ Len(parsed) = 2 =>
         parsed[2] = [parsed[1] EXCEPT !.origin = OriginOrDefault(@)]

\* Parsing comes to an end, with a warrior, an error or a panic, unless the expansion
\* has no end; and so does parsing what it displays.
ParserReturns == <>(Returned \/ (phase = "collecting" /\ (Circular \/ Spins)))
=============================================================================
