--------------------------- MODULE EngineOptions ---------------------------
(***************************************************************************)
(* The options of an engine: what UCIOptionFactory makes of the lines that *)
(* come before uciok, which values an option takes, and in which order the *)
(* values the user configured are sent.                                    *)
(*                                                                         *)
(* A text is the sequence of its words. Numbers are kept in tenths, so     *)
(* that stoi("2.5") and stod("2.5") differ.                                *)
(***************************************************************************)
EXTENDS Integers, Sequences, SequencesExt

CONSTANT Tenths   \* the words that begin with a number, and ten times that number

True == <<"true">>
False == <<"false">>
Empty == <<>>

\* The lines an engine writes. Every line is parsed, and one without a type is no option.
Types == {"button", "check", "combo", "spin", "string"}

\* default is the rest of the line for a string and one word for the others.
DefaultOf(line) ==
    IF line.type = "string" \/ line.default = Empty THEN line.default ELSE <<Head(line.default)>>

\* The values of a combo lose their limits: each word becomes a value.
ChoicesOf(line) == ToSet(FlattenSeq(line.vars))

Numeric(text) == Len(text) = 1 /\ text[1] \in DOMAIN Tenths      \* isFloat
Integral(text) == Numeric(text) /\ Tenths[text[1]] % 10 = 0      \* isInteger

\* parseValue, which throws when the text does not begin with a number and ignores what
\* comes after it.
Readable(text) == text # Empty /\ Head(text) \in DOMAIN Tenths
ReadInt(text) == 10 * (Tenths[Head(text)] \div 10)
ReadDouble(text) == Tenths[Head(text)]

Limits(line) == {DefaultOf(line), line.min, line.max}
SpinKind(line) ==
    IF \A text \in Limits(line) : Integral(text) THEN "int"
    ELSE IF \A text \in Limits(line) : Numeric(text) THEN "double" ELSE "none"
ReadAs(kind, text) == IF kind = "int" THEN ReadInt(text) ELSE ReadDouble(text)

\* The factory throws for a spin whose limits or default are not numbers or contradict
\* each other, and the exception leaves uciok().
Malformed(line) ==
    /\ line.type = "spin"
    /\ LET kind == SpinKind(line) IN
          \/ kind = "none"
          \/ ReadAs(kind, DefaultOf(line)) \notin ReadAs(kind, line.min)..ReadAs(kind, line.max)

\* An empty text is printed as such.
Shown(text) == IF text = Empty THEN <<"<empty>">> ELSE text

Option(line, value) ==
    [name |-> line.name, type |-> line.type, value |-> value, choices |-> ChoicesOf(line),
     kind |-> IF line.type = "spin" THEN SpinKind(line) ELSE "none", min |-> line.min, max |-> line.max]

\* The options a line may become: one, none for a line without a type, and two for a check
\* without a default, whose value is not initialised.
OptionsOf(line) ==
    CASE line.type = "button" -> {Option(line, False)}
      [] line.type = "check" -> {Option(line, v) : v \in IF DefaultOf(line) \in {True, False}
                                                        THEN {DefaultOf(line)} ELSE {True, False}}
      [] line.type = "spin" -> {Option(line, ReadAs(SpinKind(line), DefaultOf(line)))}
      [] line.type = "combo" -> {Option(line, DefaultOf(line))}
      [] line.type = "string" -> {Option(line, Shown(DefaultOf(line)))}
      [] OTHER -> {}

-----------------------------------------------------------------------------
\* The five classes: whether isValid takes a text, and what getValue prints once setValue
\* has had a valid one. Only a spin throws, for a text that is no number.
ButtonOption(option, text) == [valid |-> text = True, value |-> True]
CheckOption(option, text) == [valid |-> text \in {True, False}, value |-> text]
ComboOption(option, text) == [valid |-> text \in {<<word>> : word \in option.choices}, value |-> text]
StringOption(option, text) == [valid |-> TRUE, value |-> Shown(text)]
SpinOption(option, text) ==
    LET number == ReadAs(option.kind, text)
    IN [valid |-> number \in ReadAs(option.kind, option.min)..ReadAs(option.kind, option.max),
        value |-> number]
Throws(option, text) == option.type = "spin" /\ ~Readable(text)

UCIOption(option, text) ==
    CASE option.type = "button" -> ButtonOption(option, text)
      [] option.type = "check" -> CheckOption(option, text)
      [] option.type = "combo" -> ComboOption(option, text)
      [] option.type = "string" -> StringOption(option, text)
      [] OTHER -> SpinOption(option, text)
IsValid(option, text) == UCIOption(option, text).valid
ValueOf(option, text) == UCIOption(option, text).value

\* getOption: the first of that name, 0 if there is none.
Find(options, name) == SelectInSeq(options, LAMBDA o : o.name = name)

\* refreshUci: Threads first, the others in their order, as two passes over the options
\* that skip those of the other pass; UCI_Chess960 last.
Chess960(frc) == IF frc THEN <<[name |-> "UCI_Chess960", text |-> True]>> ELSE <<>>
Skipped == <<>>
Pass(configured, threads) ==
    [i \in DOMAIN configured |->
        IF (configured[i].name = "Threads") = threads THEN configured[i] ELSE Skipped]
OrderOfSending(configured, frc) ==
    Pass(configured, TRUE) \o Pass(configured, FALSE) \o Chess960(frc)
=============================================================================
