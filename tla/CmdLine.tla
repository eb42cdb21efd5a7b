------------------------------- MODULE CmdLine -------------------------------
(***************************************************************************)
(* The command line (CmdLine.hpp, CmdLine.cpp, CmdLineOptions.cpp) and the *)
(* settings of the log that main reads from it (Main.cpp).                 *)
(*                                                                         *)
(* An argument is one of                                                   *)
(*   [kind |-> "short", text]                   -v, -vp80                  *)
(*   [kind |-> "long", name, hasValue, text]    --name, --name=text        *)
(*   [kind |-> "end"]                           --                         *)
(*   [kind |-> "plain", text]                   anything else, - too       *)
(* and a text is a sequence of characters, where several characters that   *)
(* are never read one by one are written as one word.                      *)
(***************************************************************************)
EXTENDS Integers, Sequences, SequencesExt

Option(name, shortName, valueType) == [name |-> name, shortName |-> shortName, valueType |-> valueType]

OPTIONS == {
    Option("help", "h", "NONE"), Option("version", "", "NONE"), Option("verbose", "v", "NONE"),
    Option("log-file", "L", "REQUIRED"), Option("log-style", "", "REQUIRED"), Option("log-color", "", "OPTIONAL"),
    Option("log-clear", "", "NONE"), Option("log-utc", "", "NONE"),
    Option("no-hostname", "n", "NONE"), Option("no-servname", "P", "NONE"), Option("no-geoip", "", "NONE"),
    Option("connect", "c", "REQUIRED"), Option("server", "s", "NONE"), Option("name", "N", "REQUIRED"),
    Option("port", "p", "REQUIRED"), Option("listen", "l", "REQUIRED"), Option("listen-any", "", "NONE")}

NoOption == Option("", "", "NONE")

canHaveValue(option) == option.valueType # "NONE"
requiresValue(option) == option.valueType = "REQUIRED"

-----------------------------------------------------------------------------
\* The parser p: m_args (name -> [values, count]) and m_nonOptionArgs, the option
\* whose value may follow, and where the loop over the arguments has got to:
\* "options", "rest" (behind --) or "stopped" (an option where a value must be).
Start == [args |-> <<>>, nonOptionArgs |-> <<>>, waitingArg |-> NoOption, mode |-> "options", error |-> ""]

WithArg(args, option) ==
    [name \in DOMAIN args \cup {option.name} |->
        IF name \in DOMAIN args THEN args[name] ELSE [values |-> <<>>, count |-> 0]]

\* AddShortArg, AddLongArg: the option, or none.  No two options share a letter.
FindShort(char) ==
    IF \E o \in OPTIONS : o.shortName = char THEN CHOOSE o \in OPTIONS : o.shortName = char ELSE NoOption

FindLong(name) ==
    IF \E o \in OPTIONS : o.name = name THEN CHOOSE o \in OPTIONS : o.name = name ELSE NoOption

\* m_count++.
Counted(p, option) ==
    [p EXCEPT !.waitingArg = option, !.args = [WithArg(@, option) EXCEPT ![option.name].count = @ + 1]]

\* Variant of Valued: the option goes on waiting.
ValuedAndWaiting(p, text) ==
    [p EXCEPT !.args[p.waitingArg.name].values = Append(@, text)]

\* m_values.emplace_back, for the option that waits.
Valued(p, text) ==
    [p EXCEPT !.args[p.waitingArg.name].values = Append(@, text), !.waitingArg = NoOption]

\* -abc: letters, until one that takes the rest as its value.
ShortArg(p, text) ==
    LET Letter(q, j) ==
            LET option == FindShort(text[j])
                counted == Counted(q.p, option)
            IN  IF q.done THEN q
                ELSE IF option = NoOption THEN [p |-> [q.p EXCEPT !.error = "invalid option"], done |-> TRUE]
                ELSE IF ~canHaveValue(option) THEN [p |-> counted, done |-> FALSE]
                ELSE [p |-> IF j < Len(text) THEN Valued(counted, SubSeq(text, j + 1, Len(text))) ELSE counted,
                      done |-> TRUE]
    IN  FoldLeft(Letter, [p |-> p, done |-> FALSE], [j \in DOMAIN text |-> j]).p

LongArg(p, arg) ==
    LET option == FindLong(arg.name)
        counted == Counted(p, option)
    IN  IF option = NoOption THEN [p EXCEPT !.error = "unrecognized option"]
        ELSE IF ~arg.hasValue THEN counted
        ELSE IF canHaveValue(option) THEN Valued(counted, arg.text)
        ELSE [counted EXCEPT !.error = "doesn't allow an argument"]

Argument(p, arg) ==
    IF p.error # "" \/ p.mode = "stopped" THEN p
    ELSE IF p.mode = "rest"
    THEN [p EXCEPT !.nonOptionArgs = Append(@, arg)]
    ELSE IF arg.kind = "plain"
    THEN IF canHaveValue(p.waitingArg) THEN Valued(p, arg.text) ELSE [p EXCEPT !.nonOptionArgs = Append(@, arg)]
    ELSE IF requiresValue(p.waitingArg) THEN [p EXCEPT !.mode = "stopped"]
    ELSE CASE arg.kind = "short" -> ShortArg(p, arg.text)
           [] arg.kind = "long"  -> LongArg(p, arg)
           [] arg.kind = "end"   -> [p EXCEPT !.mode = "rest"]

\* What is left of the parser at its end.
parse(argv) ==
    LET p == FoldLeft(Argument, Start, argv)
    IN  [args |-> p.args, nonOptionArgs |-> p.nonOptionArgs,
         error |-> IF p.error = "" /\ requiresValue(p.waitingArg) THEN "requires an argument" ELSE p.error]

hasArg(cmdLine, name) == name \in DOMAIN cmdLine.args

getAllValues(cmdLine, name) == cmdLine.args[name].values

\* An empty KString if the option has no value.
getValue(cmdLine, name) ==
    LET values == getAllValues(cmdLine, name) IN IF values = <<>> THEN <<>> ELSE Last(values)

getCount(cmdLine, name) == IF hasArg(cmdLine, name) THEN cmdLine.args[name].count ELSE 0

-----------------------------------------------------------------------------
\* CreateGlobalLog.

verbosity(cmdLine) ==
    CASE getCount(cmdLine, "verbose") = 0 -> "LOW"
      [] getCount(cmdLine, "verbose") = 1 -> "NORMAL"
      [] getCount(cmdLine, "verbose") = 2 -> "HIGH"
      [] OTHER -> "DEBUG"

Colors == [never |-> "NEVER", auto |-> "AUTO", always |-> "ALWAYS"]

colorize(cmdLine) ==
    IF ~hasArg(cmdLine, "log-color") THEN "NEVER"
    ELSE LET value == getValue(cmdLine, "log-color")
         IN  IF value = <<>> THEN "ALWAYS"
             ELSE IF \E c \in DOMAIN Colors : value = <<c>> THEN Colors[Head(value)] ELSE "invalid"

Styles == [simple |-> "SIMPLE", printk |-> "PRINTK", timestamp |-> "TIMESTAMP", datetime |-> "DATETIME_LOCAL"]

style(cmdLine) ==
    LET value == IF hasArg(cmdLine, "log-style") THEN getValue(cmdLine, "log-style") ELSE <<"simple">>
    IN  IF ~\E s \in DOMAIN Styles : value = <<s>> THEN "invalid"
        ELSE IF value = <<"datetime">> /\ hasArg(cmdLine, "log-utc") THEN "DATETIME_UTC" ELSE Styles[Head(value)]

\* Main throws if a value is invalid.
IsLogValid(cmdLine) == colorize(cmdLine) # "invalid" /\ style(cmdLine) # "invalid"

=============================================================================
