----------------------------- MODULE Expansion ------------------------------
(***************************************************************************)
(* parser/phase/expansion.rs: the phase that removes EQU, FOR and labels.  *)
(* One pass over the lines, in place, collects labels and expands EQU and  *)
(* FOR; a line is processed again after each expansion, and the lines of a *)
(* loop again after it is unrolled.  A second pass puts offsets for the    *)
(* labels that were not known when they were met.                          *)
(***************************************************************************)
EXTENDS Expression

CONSTANTS
  Sources,      \* the programs that are expanded, as the comment phase leaves them:
                \* records with a text and an origin, which is empty if there is none
  MaxU32        \* u32::MAX (smaller in the models)

NoName == ""    \* the `None' of a FOR without an index

ASSUME SourcesAssumption ==
  \A s \in Sources : s.text \in Seq(Line) /\ s.origin \in Line
ASSUME MaxU32Assumption == MaxU32 \in Nat \ {0}

DEFAULT_CONSTANTS ==
  [CORESIZE |-> 8000, MAXPROCESSES |-> 8000, MAXCYCLES |-> 80000,
   MAXLENGTH |-> 100, MINDISTANCE |-> 100, ROUNDS |-> 1]

ASSUME NamesAssumption ==
  /\ DOMAIN DEFAULT_CONSTANTS \cup {"CURLINE", "Equ", "For", "Rof"} \subseteq Names
  /\ NoName \notin Names

VARIABLES
  source,        \* the program, fixed
  phase,         \* "collecting", then "expanded" or "panicked"
  lines,         \* the text, from 1
  origin,
  i,             \* the line being processed, from 1
  offset,        \* the number of the instruction it holds
  collector

vars == <<source, phase, lines, origin, i, offset, collector>>

-----------------------------------------------------------------------------
(* The collector.                                                          *)

Absolute(n)      == [kind |-> "AbsoluteOffset", offset |-> n, text |-> << >>]
Relative(n)      == [kind |-> "RelativeOffset", offset |-> n, text |-> << >>]
Substitution(ls) == [kind |-> "Substitution", offset |-> 0, text |-> ls]
Unknown          == [kind |-> "Unknown", offset |-> 0, text |-> << >>]

LabelValue ==
  [kind : {"AbsoluteOffset", "RelativeOffset", "Substitution", "Unknown"},
   offset : Int, text : Seq(Line)]

ForStatement ==
  [index_label : Names \cup {NoName}, iter_count : Nat, start_line : Nat \ {0},
   start_offset : Nat]

\* current_equ is the EQU whose continuation may follow; it has no values when
\* there is none.  The source's for_offsets is written and never read.
Collector ==
  [labels : [Names -> LabelValue],
   current_equ : [label : Names \cup {NoName}, values : Seq(Line)],
   pending_labels : SUBSET Names,
   for_stack : Seq(ForStatement)]

NoEqu == [label |-> NoName, values |-> << >>]

NewCollector ==
  [labels |-> [n \in Names |-> IF n \in DOMAIN DEFAULT_CONSTANTS
                                 THEN Relative(DEFAULT_CONSTANTS[n]) ELSE Unknown],
   current_equ |-> NoEqu, pending_labels |-> {}, for_stack |-> << >>]

\* The table with the open EQU entered, if there is one.
WithEqu(c) ==
  IF c.current_equ.values = << >> THEN c.labels
  ELSE [c.labels EXCEPT ![c.current_equ.label] = Substitution(c.current_equ.values)]

ResolvePendingEqu(c) ==
  [labels |-> WithEqu(c), current_equ |-> NoEqu,
   pending_labels |-> c.pending_labels, for_stack |-> c.for_stack]

ResolvePendingLabels(c, at) ==
  [labels |-> [n \in Names |-> IF n \in c.pending_labels THEN Absolute(at) ELSE WithEqu(c)[n]],
   current_equ |-> NoEqu, pending_labels |-> {}, for_stack |-> c.for_stack]

ProcessEqu(c, label, text) ==
  [ResolvePendingEqu(c) EXCEPT !.current_equ = [label |-> label, values |-> << text >>]]

\* A continuation of nothing is dropped with a message.
ProcessEquContinuation(c, text) ==
  IF c.current_equ.values = << >> THEN c
  ELSE [c EXCEPT !.current_equ.values = Append(@, text)]

AddPendingLabel(c, label) == [c EXCEPT !.pending_labels = @ \cup {label}]

\* EQUs are expanded everywhere, offsets only outside of loops.
GetLabelValue(c, name, at) ==
  IF c.labels[name].kind = "Substitution" THEN c.labels[name]
  ELSE IF c.for_stack # << >> THEN Unknown
  ELSE IF c.labels[name].kind # "Unknown" THEN c.labels[name]
  ELSE IF name = "CURLINE" THEN Relative(at)
  ELSE Unknown

-----------------------------------------------------------------------------
(* Text.                                                                   *)

\* expand_lines: the word of a line replaced by the lines of a substitution.
ExpandLines(ls, at, word, text) ==
  LET before == SubSeq(ls[at], 1, word - 1)
      after  == SubSeq(ls[at], word + 1, Len(ls[at]))
      new    == [k \in DOMAIN text |->
                   (IF k = 1 THEN before ELSE << >>) \o text[k]
                     \o (IF k = Len(text) THEN after ELSE << >>)]
  IN  SubSeq(ls, 1, at - 1) \o new \o SubSeq(ls, at + 1, Len(ls))

LabelsIn(tokens) == { k \in DOMAIN tokens : tokens[k] = "Label" }

\* The numbers that substitute_offsets_in_line puts for the labels among the
\* tokens.  After a number in front, a line has no tokens and nothing more is
\* replaced in it.
LineOffset(value, from_offset) ==
  IF value.kind = "AbsoluteOffset" THEN value.offset - from_offset ELSE value.offset

OffsetsPut(line, known, labels, from_offset) ==
  FlattenSeq([k \in DOMAIN line |->
    IF k \in known /\ (1 \in known => k = 1)
      THEN Digits(LineOffset(labels[line[k].name], from_offset)) ELSE << line[k] >>])

SubstituteOffsetsInLine(line, labels, from_offset) ==
  LET known == { k \in LabelsIn(Tokenize(line)) :
                   labels[line[k].name].kind \in {"AbsoluteOffset", "RelativeOffset"} }
  IN  OffsetsPut(line, known, labels, from_offset)

\* A labelled ORG, which the comment phase does not see.
IsOrg(line) == line[1] = Mnemonic("Org") /\ Tokenize(line)[1] = "Opcode"

\* substitute_offsets.  A line that is only a label is cleared and not counted.
SubstituteOffsets(ls, labels) ==
  LET LabelAlone(k) == Tokenize(ls[k]) = << "Label" >>
      Counted(k)    == ~ LabelAlone(k) /\ ~ IsOrg(ls[k])
      Stripped(k)   == IF Tokenize(ls[k])[1] = "Label" THEN Tail(ls[k]) ELSE ls[k]
  IN  [k \in DOMAIN ls |->
         IF LabelAlone(k) THEN << >>
         ELSE SubstituteOffsetsInLine(Stripped(k), labels,
                Cardinality({ j \in 1 .. k - 1 : Counted(j) }))]

-----------------------------------------------------------------------------
(* One round of the loop over the lines.                                   *)

Init ==
  /\ source \in Sources
  /\ phase = "collecting"
  /\ lines = source.text
  /\ origin = source.origin
  /\ i = 1
  /\ offset = 0
  /\ collector = NewCollector

Collecting == phase = "collecting" /\ i <= Len(lines)

Current == lines[i]
Tokens  == Tokenize(Current)

\* The line has a first token, by this rule.
First(rule) == Collecting /\ IsPrefix(<< rule >>, Tokens)

\* It has a label and then a token, by this rule.
Second(rule) == Collecting /\ IsPrefix(<< "Label", rule >>, Tokens)

\* The state of the loop that a round leaves.
Round(c, ls, next, at) ==
  /\ collector' = c
  /\ lines' = ls
  /\ i' = next
  /\ offset' = at
  /\ UNCHANGED <<source, phase, origin>>

Panic ==
  /\ phase' = "panicked"
  /\ UNCHANGED <<source, lines, origin, i, offset, collector>>

LineRemoved == RemoveAt(lines, i)

\* The closure expand_next_token: the labels after the first token, and those
\* among them with a value.
LabelTokens    == LabelsIn(Tokens) \ {1}
Expandable(c)  == { k \in LabelTokens : GetLabelValue(c, Current[k].name, offset).kind # "Unknown" }
FirstOf(words) == CHOOSE k \in words : \A j \in words : k <= j

Replacement(value) ==
  CASE value.kind = "AbsoluteOffset" -> << Digits(value.offset - offset) >>
    [] value.kind = "RelativeOffset" -> << Digits(value.offset) >>
    [] OTHER -> value.text

TokenExpanded(c, k) ==
  ExpandLines(lines, i, k, Replacement(GetLabelValue(c, Current[k].name, offset)))

NextTokenExpanded(c) == TokenExpanded(c, FirstOf(Expandable(c)))

\* Mutant: the line is passed over.
SkipsLine ==
  /\ Collecting /\ Tokens = << >>
  /\ Round(collector, lines, i + 1, offset)

\* `continue' before i moves: the same line for ever.
Spin == Collecting /\ Tokens = << >> /\ UNCHANGED vars

\* FOR, alone or after the label of its index.
IsFor == First("For") \/ Second("For")

ResolvedHere == ResolvePendingLabels(collector, offset)

\* In the expression of a FOR every label must have a value.
ForHasLabel ==
  IsFor /\ LabelTokens # {} /\ FirstOf(LabelTokens) \in Expandable(ResolvedHere)

ForExpands ==
  /\ ForHasLabel
  /\ Round(ResolvedHere, NextTokenExpanded(ResolvedHere), i, offset)

\* evaluate_expression of the rest of the line, which begins with the space after
\* FOR.  The grammar skips spaces in front of a number, a label or a parenthesis;
\* in front of a sign it finds no Expression.
IterCount ==
  LET rest == From(Current, IF First("For") THEN 2 ELSE 3)
  IN  IF Begins(rest, "Sign") THEN NoExpression ELSE EvaluateExpression(rest)

IterCountFails == IterCount.panics \/ IterCount.error # ""

ForPanics ==
  /\ IsFor
  /\ \/ LabelTokens # {} /\ FirstOf(LabelTokens) \notin Expandable(ResolvedHere)
     \/ LabelTokens = {} /\ IterCountFails
  /\ Panic

ForOpens ==
  /\ IsFor /\ LabelTokens = {} /\ ~ IterCountFails
  /\ LET for == [index_label  |-> IF First("For") THEN NoName ELSE Current[1].name,
                 iter_count   |-> IterCount.value,
                 start_line   |-> i,
                 start_offset |-> offset]
     IN  Round([ResolvedHere EXCEPT !.for_stack = Append(@, for)], lines, i + 1, offset)

RofPanics == First("Rof") /\ collector.for_stack = << >> /\ Panic

\* Mutant: every copy has the offsets of the first one.
UnrolledInPlace(for, body, labels) ==
  [j \in 1 .. for.iter_count * Len(body) |->
     LET copied == body[((j - 1) % Len(body)) + 1]
         turn   == ((j - 1) \div Len(body)) + 1
     IN  IF for.index_label = NoName THEN copied
         ELSE SubstituteOffsetsInLine(copied,
                [labels EXCEPT ![for.index_label] = Relative(turn)],
                for.start_offset + ((j - 1) % Len(body)))]

\* The copies of the body.  With an index, all offsets known by now are put in.
Unrolled(for, body, labels) ==
  [j \in 1 .. for.iter_count * Len(body) |->
     LET copied == body[((j - 1) % Len(body)) + 1]
         turn   == ((j - 1) \div Len(body)) + 1
     IN  IF for.index_label = NoName THEN copied
         ELSE SubstituteOffsetsInLine(copied,
                [labels EXCEPT ![for.index_label] = Relative(turn)],
                for.start_offset + j - 1)]

\* What a name that was the index of a loop means after it: nothing.
Forget(labels, name) == [labels EXCEPT ![name] = Unknown]

\* The innermost loop is taken off the stack.
LoopClosed(c, labels) ==
  [labels |-> labels, current_equ |-> c.current_equ,
   pending_labels |-> c.pending_labels, for_stack |-> Front(c.for_stack)]

\* Mutant: the count goes on over the copies.
RewoundNot(n) == offset

\* The lines of the body are processed again, with their instructions.
Rewound(n) == (offset - n) % (MaxU32 + 1)

\* Mutant: only the body is replaced.
BodySpliced(start, new) == SubSeq(lines, 1, start) \o new \o SubSeq(lines, i, Len(lines))

\* The copies in the place of the loop, with its FOR and its ROF.
Spliced(start, new) == SubSeq(lines, 1, start - 1) \o new \o SubSeq(lines, i + 1, Len(lines))

RofRepeats ==
  /\ First("Rof") /\ collector.for_stack # << >>
  /\ LET for  == Last(collector.for_stack)
         body == SubSeq(lines, for.start_line + 1, i - 1)
         new  == Unrolled(for, body, collector.labels)
         indexed == for.index_label # NoName /\ new # << >>
         labels  == IF indexed THEN Forget(collector.labels, for.index_label)
                    ELSE collector.labels
     IN  Round(LoopClosed(collector, labels), Spliced(for.start_line, new),
               for.start_line, Rewound(Len(body)))

\* A label and EQU.
EquDefined ==
  /\ Second("Substitution")
  /\ Round(ProcessEqu(collector, Current[1].name, SubSeq(Current, 3, Len(Current))),
           LineRemoved, i, offset)

\* EQU without a label.
EquContinues ==
  /\ First("Substitution")
  /\ Round(ProcessEquContinuation(collector, Tail(Current)), LineRemoved, i, offset)

\* A line that begins with a label and is neither.
LabelLine == First("Label") /\ ~ Second("Substitution") /\ ~ Second("For")
Known     == ResolvePendingEqu(collector)
IsEqu     == GetLabelValue(Known, Current[1].name, offset).kind = "Substitution"
Declared  == AddPendingLabel(Known, Current[1].name)

EquExpanded == ExpandLines(lines, i, 1, Known.labels[Current[1].name].text)

EquExpands == LabelLine /\ IsEqu /\ Round(Known, EquExpanded, i, offset)

LabelHasLabel == LabelLine /\ ~ IsEqu /\ Expandable(Declared) # {}

LabelExpands ==
  /\ LabelHasLabel
  /\ Round(Declared, NextTokenExpanded(Declared), i, offset)

\* Mutant: the label stays in the text.
LabelKept ==
  /\ LabelLine /\ ~ IsEqu /\ Expandable(Declared) = {} /\ Len(Tokens) > 1
  /\ Round(ResolvePendingLabels(Declared, offset), lines, i + 1, offset + 1)

\* Whatever follows the label counts as an instruction.
LabelStripped ==
  /\ LabelLine /\ ~ IsEqu /\ Expandable(Declared) = {} /\ Len(Tokens) > 1
  /\ Round(ResolvePendingLabels(Declared, offset), ReplaceAt(lines, i, Tail(Current)),
           i + 1, offset + 1)

\* Mutant: the line after the removed one is passed over.
LabelAloneSkips ==
  /\ LabelLine /\ ~ IsEqu /\ Expandable(Declared) = {} /\ Len(Tokens) = 1
  /\ Round(Declared, LineRemoved, i + 1, offset)

LabelAlone ==
  /\ LabelLine /\ ~ IsEqu /\ Expandable(Declared) = {} /\ Len(Tokens) = 1
  /\ Round(Declared, LineRemoved, i, offset)

InstructionHasLabel == First("Opcode") /\ Expandable(ResolvedHere) # {}

InstructionExpands ==
  /\ InstructionHasLabel
  /\ Round(ResolvedHere, NextTokenExpanded(ResolvedHere), i, offset)

InstructionCounted ==
  /\ First("Opcode") /\ Expandable(ResolvedHere) = {}
  /\ Round(ResolvedHere, lines, i + 1, IF IsOrg(Current) THEN offset ELSE offset + 1)

\* The end of the loop, finish, and the second pass.
Substitute ==
  /\ phase = "collecting" /\ i > Len(lines)
  /\ phase' = "expanded"
  /\ lines' = SubstituteOffsets(lines, WithEqu(collector))
  /\ origin' = SubstituteOffsetsInLine(origin, WithEqu(collector), 0)
  /\ UNCHANGED <<source, i, offset, collector>>

-----------------------------------------------------------------------------
Step ==
  \/ Spin \/ ForExpands \/ ForPanics \/ ForOpens \/ RofPanics \/ RofRepeats
  \/ EquDefined \/ EquContinues \/ EquExpands
  \/ LabelExpands \/ LabelStripped \/ LabelAlone
  \/ InstructionExpands \/ InstructionCounted \/ Substitute

Done == phase \in {"expanded", "panicked"} /\ UNCHANGED vars

Next == Step \/ Done

\* A round that changes nothing, so that every later one is the same.
Spins ==
  \/ Collecting /\ Tokens = << >>
  \/ /\ ForHasLabel \/ InstructionHasLabel
     /\ ResolvedHere = collector /\ NextTokenExpanded(ResolvedHere) = lines
  \/ LabelHasLabel /\ Declared = collector /\ NextTokenExpanded(Declared) = lines
  \/ LabelLine /\ IsEqu /\ Known = collector /\ EquExpanded = lines

\* One thread, which waits for nothing: rounds go on until the phase is over.
Fairness == []<>(phase # "collecting" \/ Spins) \/ []<><<Step>>_vars

Spec == Init /\ [][Next]_vars /\ Fairness

-----------------------------------------------------------------------------
(* Properties.                                                             *)

\* The tables, the text and the stack of loops stay in their types, and open loops
\* begin before the line being processed, inner ones after outer ones.
TypeOK ==
  /\ phase \in {"collecting", "expanded", "panicked"}
  /\ lines \in Seq(Line)
  /\ origin \in Line
  /\ i \in 1 .. Len(lines) + 1
  /\ offset \in Nat
  /\ collector \in Collector
  /\ \A k \in DOMAIN collector.for_stack :
        collector.for_stack[k].start_line
          < (IF k < Len(collector.for_stack)
               THEN collector.for_stack[k + 1].start_line ELSE i)

\* Where a source has no ORG left (the comment phase takes them out), every line
\* passed holds one instruction, FOR lines excepted: so the offset that labels get
\* is the place of the next instruction in the text, through all expansions,
\* removals and rewindings at ROF, and each open loop began at its own offset.
OffsetCountsLines ==
  /\ offset = i - 1 - Len(collector.for_stack)
  /\ \A k \in DOMAIN collector.for_stack :
        collector.for_stack[k].start_offset = collector.for_stack[k].start_line - k

\* The second pass looks at the first token of every line (expansion.rs:280): each
\* line that the first pass has gone over has one.
PassedLinesHaveTokens ==
  phase = "collecting" => \A k \in 1 .. i - 1 : Tokenize(lines[k]) # << >>

\* A label that has an address keeps it: lines processed again after an unrolling
\* do not move the labels that were collected from them.
AddressesKept ==
  [][\A n \in Names : collector.labels[n].kind = "AbsoluteOffset"
        => collector'.labels[n] = collector.labels[n]]_vars

\* Some EQUs each name one of them: their expansion has no end.
Circular ==
  LET equs == { n \in Names : collector.labels[n].kind = "Substitution" }
      Uses(n, m) == \E text \in ToSet(collector.labels[n].text) :
                       \E word \in ToSet(text) : word.kind \in Spelt /\ word.name = m
  IN  \E S \in SUBSET equs : S # {} /\ \A n \in S : \E m \in S : Uses(n, m)

\* Expansion ends, unless it meets a line without a token, or EQUs that use
\* themselves or each other.
Terminates ==
  <>(phase # "collecting" \/ (Collecting /\ Tokens = << >>) \/ Circular)
=============================================================================
