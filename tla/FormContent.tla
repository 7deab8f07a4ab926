----------------------------- MODULE FormContent -----------------------------
(***************************************************************************)
(* Two answers that are computed from what an agent asked for              *)
(* (acp/callbacks.rs): the content of a form, checked against the schema   *)
(* that came with the elicitation; and a window of the lines of a file.    *)
(* A string of a form is its length, which also stands for the choice it   *)
(* names. Numbers count halves.                                            *)
(***************************************************************************)
EXTENDS Integers, SequencesExt

CONSTANTS
    Forms,      \* schemas: functions from field names to properties
    Contents,   \* what users send: functions from field names to values
    MaxInt,     \* i64::MAX, which is one less than the float it converts to
    Files,      \* contents of files: sequences of characters
    MaxLine     \* bound: lines asked for

MinInt == -MaxInt - 1

\* A property is [is, required, default, min, max, choices] with at most one default, of
\* its type; a value is [is, n], a list [is, items].
ASSUME FormAssumption ==
    /\ MaxInt \in Nat /\ MaxLine \in Nat
    /\ \A text \in Files : text \in Seq(ToSet(text))
    /\ \A form \in Forms : \A f \in DOMAIN form :
        /\ form[f].min \in Int /\ form[f].max \in Int
        /\ \A v \in form[f].default : v.is = form[f].is
    /\ \A given \in Contents : \A f \in DOMAIN given :
        /\ given[f].is = "integer" => given[f].n \in MinInt..MaxInt
        /\ given[f].is = "number" => given[f].n \in Int

VARIABLES
    question,   \* a form and what the user sends, or a file and a window of it
    answer      \* [out] and what the agent gets

fcVars == <<question, answer>>

\* What may be left out: a set of at most one number.
Option == {{}} \cup {{n} : n \in 0..MaxLine}
Only(option) == CHOOSE n \in option : TRUE
Least(S) == CHOOSE n \in S : \A m \in S : n <= m

FcInit ==
    /\ answer = [out |-> "none"]
    /\ \/ question \in [is : {"form"}, form : Forms, given : Contents]
       \/ question \in [is : {"file"}, text : Files, line : Option, limit : Option]

FcTypeOK == question.is \in {"form", "file"} /\ answer.out \in {"none", "refused", "content", "text"}

-----------------------------------------------------------------------------
(* check_property_value                                                    *)

Halves(v) == IF v.is = "integer" THEN 2 * v.n ELSE v.n

\* Fault: floats of any size.
TakenWhole(v) == v.is = "integer" \/ (v.is = "number" /\ v.n % 2 = 0)

\* What an integer field takes: floats without a fraction, up to the float that
\* i64::MAX rounds to.
TakenAsInteger(v) ==
    v.is = "integer" \/ (v.is = "number" /\ v.n % 2 = 0 /\ v.n \div 2 \in MinInt..(MaxInt + 1))

\* The cast, which saturates.
AsInteger(v) ==
    LET n == IF v.is = "integer" THEN v.n ELSE v.n \div 2
    IN  [is |-> "integer", n |-> IF n > MaxInt THEN MaxInt ELSE n]

Between(n, p) == p.min <= n /\ n <= p.max

\* What a field of some property takes.
FieldTakes(p, v) ==
    \/ p.is = "string" /\ v.is = "string" /\ v.n \in p.choices /\ Between(v.n, p)
    \/ p.is = "number" /\ v.is \in {"integer", "number"} /\ 2 * p.min <= Halves(v) /\ Halves(v) <= 2 * p.max
    \/ p.is = "integer" /\ TakenAsInteger(v) /\ Between(AsInteger(v).n, p)
    \/ p.is = "boolean" /\ v.is = "boolean"
    \/ p.is = "list" /\ v.is = "list" /\ Between(Len(v.items), p) /\ ToSet(v.items) \subseteq p.choices

\* The value the agent gets of v.
AsTyped(p, v) ==
    IF p.is = "number" THEN [is |-> "number", n |-> Halves(v)]
    ELSE IF p.is = "integer" THEN AsInteger(v) ELSE v

\* validate_elicitation_content.
Refuses(form, given) ==
    \/ \E f \in DOMAIN form \ DOMAIN given : form[f].required
    \/ \E f \in DOMAIN form \cap DOMAIN given : ~FieldTakes(form[f], given[f])
    \/ DOMAIN given \ DOMAIN form # {}

\* A field left out has its default, if the schema has one: defaults are not checked.
Filled(form, given) ==
    [f \in {f \in DOMAIN form : f \in DOMAIN given \/ form[f].default # {}} |->
        IF f \in DOMAIN given THEN AsTyped(form[f], given[f]) ELSE Only(form[f].default)]

SubmitForm ==
    /\ question.is = "form" /\ answer.out = "none"
    /\ answer' = IF Refuses(question.form, question.given) THEN [out |-> "refused"]
                 ELSE [out |-> "content", content |-> Filled(question.form, question.given)]
    /\ UNCHANGED question

-----------------------------------------------------------------------------
(* apply_read_window                                                       *)

\* str::lines: a line ends at its newline, which goes with a carriage return before
\* it; the end of the text ends the last line, unless that is empty.
Bare(line) == IF line # <<>> /\ Last(line) = "cr" THEN Front(line) ELSE line
ReadOn(read, char) ==
    IF char = "nl" THEN [ended |-> Append(read.ended, Bare(read.open)), open |-> <<>>]
    ELSE [ended |-> read.ended, open |-> Append(read.open, char)]
Scan(text) ==
    LET upto[n \in 0..Len(text)] ==
            IF n = 0 THEN [ended |-> <<>>, open |-> <<>>] ELSE ReadOn(upto[n - 1], text[n])
    IN  upto[Len(text)]
LinesOf(text) ==
    LET read == Scan(text) IN IF read.open = <<>> THEN read.ended ELSE Append(read.ended, read.open)

Join(lines) ==
    LET upto[k \in 0..Len(lines)] ==
            IF k = 0 THEN <<>> ELSE upto[k - 1] \o (IF k = 1 THEN <<>> ELSE <<"nl">>) \o lines[k]
    IN  upto[Len(lines)]

\* Fault: a window takes one line too many.
OneLineMore(start, limit, count) == IF limit = {} THEN count ELSE Least({start + Only(limit) + 1, count})

\* The line that the window ends before; an empty set is no limit.
Upto(start, limit, count) == IF limit = {} THEN count ELSE Least({start + Only(limit), count})

\* The newline at the end of the file belongs to the window that has its last line,
\* unless that window is empty.
Window(text, start, limit) ==
    LET lines == LinesOf(text)
        upto == Upto(start, limit, Len(lines))
        out == Join(SubSeq(lines, start + 1, upto))
    IN  IF out # <<>> /\ upto = Len(lines) /\ Last(text) = "nl" THEN Append(out, "nl") ELSE out

\* `line` counts from 1 and may be one past the last line.
Start == IF question.line = {} THEN 0 ELSE Only(question.line) - 1

ReadFile ==
    /\ question.is = "file" /\ answer.out = "none"
    /\ answer' = IF Start < 0 \/ Start > Len(LinesOf(question.text)) THEN [out |-> "refused"]
                 ELSE [out |-> "text", text |-> Window(question.text, Start, question.limit)]
    /\ UNCHANGED question

FcNext == SubmitForm \/ ReadFile

-----------------------------------------------------------------------------
\* A form is answered with what its schema asks for: all required fields, nothing
\* else, each with a value of its type and, if the user gave it, within its bounds,
\* and the number that was given, unless that is the float above the largest integer
\* (acp/callbacks.rs:751-942).
FormFits ==
    /\ FcTypeOK
    /\ answer.out = "content" =>
        LET form == question.form given == question.given content == answer.content IN
        /\ DOMAIN given \subseteq DOMAIN content /\ DOMAIN content \subseteq DOMAIN form
        /\ \A f \in DOMAIN form : form[f].required => f \in DOMAIN given
        /\ \A f \in DOMAIN content :
            /\ content[f].is = form[f].is
            /\ f \notin DOMAIN given => content[f] \in form[f].default
            /\ (f \in DOMAIN given /\ content[f].is \in {"integer", "number"}) =>
                /\ 2 * form[f].min <= Halves(content[f]) /\ Halves(content[f]) <= 2 * form[f].max
                /\ \/ Halves(content[f]) = Halves(given[f])
                   \/ content[f].n = MaxInt /\ Halves(given[f]) = 2 * (MaxInt + 1)

WithText(lines) == {i \in DOMAIN lines : lines[i] # <<>>}

\* Of a file without carriage returns, a window holds the lines that were asked for,
\* each at its place; empty lines at its end may be missing. The whole of it comes
\* out as it is, unless it is one empty line (acp/callbacks.rs:943-983).
WindowHasItsLines ==
    (answer.out = "text" /\ "cr" \notin ToSet(question.text)) =>
        LET lines == LinesOf(question.text)
            part == LinesOf(answer.text)
            wanted == SubSeq(lines, Start + 1, Upto(Start, question.limit, Len(lines)))
        IN /\ question.limit # {} => Len(part) <= Only(question.limit)
           /\ WithText(wanted) = WithText(part) /\ \A i \in WithText(part) : part[i] = wanted[i]
           /\ (question.line = {} /\ question.limit = {} /\ question.text # <<"nl">>) =>
                answer.text = question.text
=============================================================================
