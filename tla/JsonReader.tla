----------------------------- MODULE JsonReader ------------------------------
(***************************************************************************)
(* rapidjson::Reader in the token-by-token mode that MessageParser uses    *)
(* (kParseStopWhenDoneFlag | kParseChunkMode), with MessageParserHandler   *)
(* as the handler of its events.  A text is read at an offset; behind its  *)
(* last character stands the terminating null.                             *)
(*                                                                         *)
(* Left out: what a floating-point number is worth (the program sends      *)
(* none), and surrogate pairs (the writer never writes one).               *)
(***************************************************************************)
EXTENDS JsonWriter, FiniteSets

NUL == "U+0000"
Double == "double"

\* A floating-point number, whichever it is.
DoubleValue == Number(0, {Double})

Peek(text, pos) == IF pos < Len(text) THEN text[pos + 1] ELSE NUL

Digits == Range(Digit)
HexDigits == Digits \cup {"A", "B", "C", "D", "E", "F", "a", "b", "c", "d", "e", "f"}
Whitespace == {" ", "\n", "\r", "\t"}
ControlCharacters == {NUL, Bell, "\n", "\r", "\t"}

DigitValue(c) == (CHOOSE k \in DOMAIN Digit : Digit[k] = c) - 1

\* The first offset at or after pos whose character is not in the set.
SkipAll(text, pos, chars) ==
    CHOOSE q \in pos..Len(text) :
        /\ Peek(text, q) \notin chars
        /\ \A k \in pos..q - 1 : Peek(text, k) \in chars

SkipWhitespace(text, pos) == SkipAll(text, pos, Whitespace)

-----------------------------------------------------------------------------
\* The parsers of the single values.  Each returns where the stream stands
\* then, whether it failed, and the value it hands to the handler.

Parsed(pos, value) == [pos |-> pos, failed |-> FALSE, value |-> value]
Failed(pos) == [pos |-> pos, failed |-> TRUE, value |-> Literal("null")]

\* ParseNull, ParseTrue, ParseFalse: Consume one character after the other.
ParseWord(text, pos, word) ==
    LET chars == Words[word]
        taken == CHOOSE k \in 1..Len(chars) :
                    /\ \A j \in 1..k : Peek(text, pos + j - 1) = chars[j]
                    /\ k = Len(chars) \/ Peek(text, pos + k) # chars[k + 1]
    IN  IF taken = Len(chars) THEN Parsed(pos + taken, Literal(word)) ELSE Failed(pos + taken)

\* ParseHex4: four hexadecimal digits, or the offset of the first other one.
ParseHex4(text, pos) ==
    LET taken == CHOOSE k \in 0..4 :
                    /\ \A j \in 0..k - 1 : Peek(text, pos + j) \in HexDigits
                    /\ k = 4 \/ Peek(text, pos + k) \notin HexDigits
        bell == [j \in 1..4 |-> Peek(text, pos + j - 1)] = <<"0", "0", "0", "7">>
    IN  [pos |-> pos + taken, failed |-> taken < 4, char |-> IF bell THEN Bell ELSE Letter]

\* The characters that stand behind a backslash, and what they mean.
Unescape == (Quote :> Quote) @@ (Backslash :> Backslash) @@ ("/" :> "/") @@ ("n" :> "\n")

\* ParseStringToStream, from inside the string, with the characters so far.
RECURSIVE ParseStringToStream(_, _, _)
ParseStringToStream(text, pos, chars) ==
    LET c == Peek(text, pos)
        e == Peek(text, pos + 1)
        hex == ParseHex4(text, pos + 2)
    IN  CASE c = Backslash /\ e \in DOMAIN Unescape ->
                ParseStringToStream(text, pos + 2, Append(chars, Unescape[e]))
          [] c = Backslash /\ e = "u" ->
                IF hex.failed THEN Failed(hex.pos)
                ELSE ParseStringToStream(text, hex.pos, Append(chars, hex.char))
          [] c = Backslash /\ e \notin DOMAIN Unescape \cup {"u"} -> Failed(pos + 1)
          [] c = Quote -> Parsed(pos + 1, String(chars))
          [] c \in ControlCharacters -> Failed(pos)
          [] OTHER -> ParseStringToStream(text, pos + 1, Append(chars, c))

ParseString(text, pos) == ParseStringToStream(text, pos + 1, <<>>)

\* A variant of TakeDigits: the last digit is not looked at.
RECURSIVE TakeDigitsPastLimit(_, _, _, _)
TakeDigitsPastLimit(text, pos, i, limit) ==
    LET c == Peek(text, pos)
    IN  IF c \notin Digits \/ i > limit \div 10 THEN [pos |-> pos, i |-> i]
        ELSE TakeDigitsPastLimit(text, pos + 1, i * 10 + DigitValue(c), limit)

\* Take digits while the number stays at or below the limit.
RECURSIVE TakeDigits(_, _, _, _)
TakeDigits(text, pos, i, limit) ==
    LET c == Peek(text, pos)
    IN  IF \/ c \notin Digits
           \/ i >= limit \div 10 /\ (i # limit \div 10 \/ DigitValue(c) > limit % 10)
        THEN [pos |-> pos, i |-> i]
        ELSE TakeDigits(text, pos + 1, i * 10 + DigitValue(c), limit)

\* The fraction and the exponent behind an integer part.
ParseFraction(text, pos) ==
    IF Peek(text, pos) # "." THEN Parsed(pos, "integer")
    ELSE IF Peek(text, pos + 1) \notin Digits THEN Failed(pos + 1)
    ELSE Parsed(SkipAll(text, pos + 1, Digits), Double)

ParseExponent(text, pos) ==
    LET first == IF Peek(text, pos + 1) \in {"+", "-"} THEN pos + 2 ELSE pos + 1
    IN  IF Peek(text, pos) \notin {"e", "E"} THEN Parsed(pos, "integer")
        ELSE IF Peek(text, first) \notin Digits THEN Failed(first)
        ELSE Parsed(SkipAll(text, first, Digits), Double)

\* Digits while they fit into 32 bits, and then while they fit into 64.
Limit(minus, bits) == IF minus THEN 2^(bits - 1) ELSE 2^bits - 1

TakeInt(text, start, minus) ==
    IF Peek(text, start) = "0" THEN [pos |-> start + 1, i |-> 0]
    ELSE TakeDigits(text, start, 0, Limit(minus, Bits32))

TakeInt64(text, start, minus, i32) ==
    IF Peek(text, start) # "0" /\ Peek(text, i32.pos) \in Digits
    THEN [int |-> TakeDigits(text, i32.pos, i32.i, Limit(minus, Bits64)), use64bit |-> TRUE]
    ELSE [int |-> i32, use64bit |-> FALSE]

\* Int, Uint, Int64, Uint64: the number with its sign.
IntegerValue(n, minus, use64bit) ==
    Number(n, CASE use64bit /\ minus -> Int64Flags(n)
                [] use64bit /\ ~minus -> Uint64Flags(n)
                [] ~use64bit /\ minus -> IntFlags(n)
                [] OTHER -> UintFlags(n))

\* The number as it is when all of it has been read.
EndNumber(useDouble, fraction, exponent, value) ==
    IF fraction.failed THEN fraction
    ELSE IF exponent.failed THEN exponent
    ELSE Parsed(exponent.pos, IF useDouble \/ fraction.value = Double \/ exponent.value = Double
                              THEN DoubleValue ELSE value)

ParseExponentAfter(text, useDouble, fraction, value) ==
    EndNumber(useDouble, fraction, ParseExponent(text, fraction.pos), value)

\* What is too big for 64 bits goes on as a double.
ParseRest(text, minus, int, use64bit) ==
    LET big == use64bit /\ Peek(text, int.pos) \in Digits
    IN  ParseExponentAfter(text, big,
            ParseFraction(text, IF big THEN SkipAll(text, int.pos, Digits) ELSE int.pos),
            IntegerValue(IF minus THEN -int.i ELSE int.i, minus, use64bit))

\* ParseNumber: an integer of 32 bits if it fits, else one of 64 bits, else a
\* double.
ParseNumber(text, pos) ==
    LET minus == Peek(text, pos) = "-"
        start == IF minus THEN pos + 1 ELSE pos
        rest(taken) == ParseRest(text, minus, taken.int, taken.use64bit)
    IN  IF Peek(text, start) \notin Digits THEN Failed(start)
        ELSE rest(TakeInt64(text, start, minus, TakeInt(text, start, minus)))

ParseValue(text, pos) ==
    CASE Peek(text, pos) = "n" -> ParseWord(text, pos, "null")
      [] Peek(text, pos) = "t" -> ParseWord(text, pos, "true")
      [] Peek(text, pos) = "f" -> ParseWord(text, pos, "false")
      [] Peek(text, pos) = Quote -> ParseString(text, pos)
      [] OTHER -> ParseNumber(text, pos)

-----------------------------------------------------------------------------
\* The automaton.

Tokenize(c) ==
    IF c \in {"[", "]", "{", "}", ",", ":"} THEN c
    ELSE IF c = Quote THEN "string" ELSE "value"

DelimiterStates == {"ElementDelimiter", "MemberDelimiter", "KeyValueDelimiter"}

\* The states in which a value may come, and the state after a simple one.
AfterValue == [Start |-> "Value", ArrayInitial |-> "Element", ElementDelimiter |-> "Element",
               KeyValueDelimiter |-> "MemberValue"]

Predict(state, token) ==
    CASE state \in DOMAIN AfterValue /\ token = "[" -> "ArrayInitial"
      [] state \in DOMAIN AfterValue /\ token = "{" -> "ObjectInitial"
      [] state \in DOMAIN AfterValue /\ token \in {"string", "value"} -> AfterValue[state]
      [] state \in {"ObjectInitial", "MemberDelimiter"} /\ token = "string" -> "MemberKey"
      [] state = "MemberKey" /\ token = ":" -> "KeyValueDelimiter"
      [] state = "MemberValue" /\ token = "," -> "MemberDelimiter"
      [] state = "Element" /\ token = "," -> "ElementDelimiter"
      [] state \in {"ObjectInitial", "MemberDelimiter", "MemberValue"} /\ token = "}" -> "ObjectFinish"
      [] state \in {"ArrayInitial", "ElementDelimiter", "Element"} /\ token = "]" -> "ArrayFinish"
      [] OTHER -> "Error"

\* The reader and the stack of its handler.
IterativeParseInit ==
    [state |-> "Start", stack |-> <<>>, isLastValueInvalid |-> FALSE, failed |-> FALSE, values |-> <<>>]

\* internal::Stack, which grows as it needs to.
Push(stack, x) == Append(stack, x)
Pop(stack, count) == SubSeq(stack, 1, Len(stack) - count)
Top(stack) == Last(stack)

\* EndObject, EndArray: pop the values of the level and give them to the value
\* that StartObject or StartArray pushed before them.
Popped(values, count) == SubSeq(values, Len(values) - count + 1, Len(values))

EndObject(values, memberCount) ==
    Push(Pop(values, 2 * memberCount + 1), Object(Popped(values, 2 * memberCount)))

EndArray(values, elementCount) ==
    Push(Pop(values, elementCount + 1), Array(Popped(values, elementCount)))

Step(reader, pos, next) == [reader |-> reader, pos |-> pos, next |-> next, isNumber |-> FALSE]

\* A value the handler pushes, or a parse error.
TakeValue(r, parsed, next) ==
    IF parsed.failed THEN Step(r, parsed.pos, "Error")
    ELSE Step([r EXCEPT !.values = Push(@, parsed.value)], parsed.pos, next)

\* An opening bracket: remember the state that follows the closing one, and
\* count from zero.
StartLevel(r, pos, next) ==
    LET back == IF r.state = "Start" THEN "Start" ELSE AfterValue[r.state]
        empty == IF next = "ObjectInitial" THEN Object(<<>>) ELSE Array(<<>>)
    IN  Step([r EXCEPT !.stack = Push(@, [state |-> back, count |-> 0]),
                       !.values = Push(@, empty)], pos + 1, next)

\* A closing bracket.  There is no trailing comma.
FinishLevel(r, pos, next) ==
    LET top == Top(r.stack)
        count == IF r.state \in {"MemberValue", "Element"} THEN top.count + 1 ELSE top.count
        values == IF next = "ObjectFinish" THEN EndObject(r.values, count) ELSE EndArray(r.values, count)
    IN  IF r.state \in {"MemberDelimiter", "ElementDelimiter"} THEN Step(r, pos, "Error")
        ELSE Step([r EXCEPT !.stack = Pop(@, 1), !.values = values], pos + 1,
                  IF top.state = "Start" THEN "Finish" ELSE top.state)

\* A comma counts the member or the element before it.
CountMember(r, pos, next) ==
    Step([r EXCEPT !.stack[Len(r.stack)].count = @ + 1], pos + 1, next)

Transit(r, text, pos, next) ==
    CASE next = "Error" -> Step(r, pos, "Error")
      [] next \in {"ObjectInitial", "ArrayInitial"} -> StartLevel(r, pos, next)
      [] next = "MemberKey" -> TakeValue(r, ParseString(text, pos), next)
      [] next = "KeyValueDelimiter" -> Step(r, pos + 1, next)
      [] next \in {"MemberDelimiter", "ElementDelimiter"} -> CountMember(r, pos, next)
      [] next \in {"ObjectFinish", "ArrayFinish"} -> FinishLevel(r, pos, next)
      [] next \in {"MemberValue", "Element", "Value"} ->
            [TakeValue(r, ParseValue(text, pos), IF next = "Value" THEN "Finish" ELSE next) EXCEPT
                !.isNumber = Peek(text, pos) \notin {"n", "t", "f", Quote}]

\* Forget the delimiters taken since the last value: they come again.
Rollback(r, prevState) ==
    IF prevState # r.state /\ r.state \in {"MemberDelimiter", "ElementDelimiter"}
    THEN [r EXCEPT !.state = prevState, !.stack[Len(r.stack)].count = @ - 1]
    ELSE [r EXCEPT !.state = prevState]

\* What IterativeParseNext returns: whether a token was complete, the reader,
\* and where the stream stands.
Result(ok, reader, pos) == [ok |-> ok, reader |-> reader, pos |-> pos]

\* A parse error: at the end of the text it may only be an incomplete token.
ParseFailed(prevState, r, pos, atEnd) ==
    Result(FALSE, IF atEnd THEN Rollback(r, prevState) ELSE [r EXCEPT !.failed = TRUE], pos)

\* The loop of IterativeParseNext: on to the next value, or to the null.
RECURSIVE ParseOn(_, _, _, _)
AfterStep(prevState, text, step, isDelimiter) ==
    LET atEnd == Peek(text, step.pos) = NUL
        moved == [step.reader EXCEPT !.state = step.next]
    IN  CASE step.next = "Error" -> ParseFailed(prevState, step.reader, step.pos, atEnd)
          [] step.next = "Finish" -> Result(TRUE, moved, step.pos)
          [] step.next \notin {"Error", "Finish"} /\ step.isNumber /\ atEnd ->
                Result(FALSE, [Rollback(step.reader, prevState) EXCEPT !.isLastValueInvalid = TRUE], step.pos)
          [] OTHER -> IF isDelimiter THEN ParseOn(prevState, moved, text, step.pos)
                      ELSE Result(TRUE, moved, step.pos)

ParseOn(prevState, r, text, from) ==
    LET step(pos, next) == AfterStep(prevState, text, Transit(r, text, pos, next), next \in DelimiterStates)
        at(pos) == step(pos, Predict(r.state, Tokenize(Peek(text, pos))))
    IN  IF Peek(text, from) # NUL THEN at(SkipWhitespace(text, from))
        ELSE IF r.state = "Finish" THEN Result(TRUE, r, from)
        ELSE Result(FALSE, Rollback(r, prevState), from)

IterativeParseNext(r, text, pos) ==
    ParseOn(r.state, [r EXCEPT !.isLastValueInvalid = FALSE], text, pos)

IterativeParseComplete(r) == r.state = "Finish"

=============================================================================
