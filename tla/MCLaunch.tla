------------------------------ MODULE MCLaunch ------------------------------
(***************************************************************************)
(* Launch for TLC: settings in all the ways in which they can be typed,    *)
(* command lines with a mistake, and messages around the buffer's size.    *)
(***************************************************************************)
EXTENDS Launch

Short(text) == [kind |-> "short", text |-> text]
Long(name) == [kind |-> "long", name |-> name, hasValue |-> FALSE, text |-> <<>>]
LongWith(name, text) == [kind |-> "long", name |-> name, hasValue |-> TRUE, text |-> text]
Plain(text) == [kind |-> "plain", text |-> text]

Set(name) == [name |-> name, hasValue |-> FALSE, text |-> <<>>]
SetTo(name, text) == [name |-> name, hasValue |-> TRUE, text |-> text]

\* The ways to type a setting, as sequences of arguments.
Forms(x) ==
    LET short == FindLong(x.name).shortName
    IN  (IF x.hasValue THEN {<<LongWith(x.name, x.text)>>, <<Long(x.name), Plain(x.text)>>} ELSE {<<Long(x.name)>>})
        \cup (IF short = "" THEN {}
              ELSE IF x.hasValue THEN {<<Short(<<short>> \o x.text)>>, <<Short(<<short>>), Plain(x.text)>>}
              ELSE {<<Short(<<short>>)>>})

IsFlag(char) == FindShort(char) # NoOption /\ ~canHaveValue(FindShort(char))

\* A flag and the short option behind it, typed as one argument.
Together(a) ==
    {a} \cup {SubSeq(a, 1, i - 1) \o <<Short(a[i].text \o a[i + 1].text)>> \o SubSeq(a, i + 2, Len(a)) :
                i \in {i \in 1 .. Len(a) - 1 : /\ a[i].kind = "short" /\ a[i + 1].kind = "short"
                                               /\ \A j \in DOMAIN a[i].text : IsFlag(a[i].text[j])}}

Typed(settings) ==
    LET choices == [DOMAIN settings -> UNION {Forms(settings[i]) : i \in DOMAIN settings}]
        typings == {FlattenSeq(c) : c \in {c \in choices : \A i \in DOMAIN settings : c[i] \in Forms(settings[i])}}
    IN  {[argv |-> a, settings |-> settings, error |-> ""] : a \in UNION {Together(t) : t \in typings}}

Mistake(argv, error) == [argv |-> argv, settings |-> <<>>, error |-> error]

MCCommandLines ==
    UNION {Typed(settings) : settings \in {
        <<Set("server"), SetTo("port", <<"80">>)>>,
        <<Set("server"), SetTo("listen", <<"A">>), SetTo("listen", <<"B">>)>>,
        <<SetTo("listen", <<"A">>), Set("server"), SetTo("listen", <<"A">>)>>,
        <<Set("server"), Set("listen-any"), SetTo("listen", <<"A">>)>>,
        <<Set("verbose"), Set("verbose"), SetTo("log-file", <<"f">>), Set("server")>>,
        <<SetTo("port", <<"80">>), SetTo("connect", <<"H">>), SetTo("port", <<"81">>)>>,
        <<SetTo("log-color", <<"auto">>), SetTo("log-style", <<"datetime">>), Set("log-utc")>>,
        <<Set("log-color"), Set("verbose"), Set("no-geoip")>>,
        <<SetTo("log-style", <<"other">>), Set("log-color")>>,
        <<Set("help"), Set("server")>>}}
    \cup {Mistake(<<Long("port")>>, "requires an argument"),
          Mistake(<<Short(<<"s", "p">>), Long("listen-any")>>, "requires an argument"),
          Mistake(<<Short(<<"s", "p">>), [kind |-> "end"], Plain(<<"80">>)>>, "requires an argument"),
          Mistake(<<Short(<<"s", "x">>)>>, "invalid option"),
          Mistake(<<Long("serve")>>, "unrecognized option"),
          Mistake(<<LongWith("server", <<>>), Long("port")>>, "doesn't allow an argument"),
          [argv |-> <<Long("log-color"), [kind |-> "end"], Long("port")>>,
           settings |-> <<Set("log-color")>>, error |-> ""]}

MCNumericHosts == (<<"A">> :> [type |-> "IP4", number |-> "a"]) @@ (<<"B">> :> [type |-> "IP6", number |-> "b"])
MCNumericPorts == (<<"55555">> :> 55555) @@ (<<"80">> :> 80) @@ (<<"81">> :> 81)
MCHosts == <<"H">> :> <<[type |-> "IP6", number |-> "h"], [type |-> "IP4", number |-> "h"]>>

\* Texts that just fit, or just do not, with every prefix and suffix.
MCMessages == {[text |-> [i \in 1 .. n |-> "t"], hasArguments |-> b] : n \in 0 .. 9, b \in BOOLEAN}

MCStylePrefix == [s \in {"SIMPLE", "PRINTK", "TIMESTAMP", "DATETIME_LOCAL", "DATETIME_UTC"} |->
                    IF s = "SIMPLE" THEN <<>> ELSE <<"[", "]">>]
MCColorPrefix == <<"c">>
MCColorSuffix == <<"m">>

=============================================================================
