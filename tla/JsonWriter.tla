----------------------------- MODULE JsonWriter ------------------------------
(***************************************************************************)
(* rapidjson::Writer over a StringBuffer, and Value::Accept: how a message *)
(* becomes text.  A text is a sequence of characters.                      *)
(***************************************************************************)
EXTENDS JsonValue

Quote == "\""
Backslash == "\\"

\* Stand for the letters and the control characters of a string.
Letter == "x"
Bell == "U+0007"

Digit == <<"0", "1", "2", "3", "4", "5", "6", "7", "8", "9">>

Words == [true |-> <<"t", "r", "u", "e">>, false |-> <<"f", "a", "l", "s", "e">>,
          null |-> <<"n", "u", "l", "l">>]

\* The decimal digits without leading zeros.
Decimal(n) ==
    LET places == CHOOSE k \in 1..10 : n < 10^k /\ \A j \in 1..k - 1 : n >= 10^j
    IN  [k \in 1..places |-> Digit[1 + ((n \div 10^(places - k)) % 10)]]

u32toa(n) == Decimal(n)
u64toa(n) == Decimal(n)

\* A negative number is made positive by the two's complement of its width.
i32toa(n) == IF n < 0 THEN <<"-">> \o u32toa((2^Bits32 - (n + 2^Bits32)) % 2^Bits32) ELSE u32toa(n)
i64toa(n) == IF n < 0 THEN <<"-">> \o u64toa((2^Bits64 - (n + 2^Bits64)) % 2^Bits64) ELSE u64toa(n)

\* A number is written as the narrowest type that holds it.
WriteNumber(n, flags) ==
    CASE "Int" \in flags -> i32toa(n)
      [] "Uint" \in flags /\ "Int" \notin flags -> u32toa(n)
      [] "Int64" \in flags /\ flags \cap {"Int", "Uint"} = {} -> i64toa(n)
      [] OTHER -> u64toa(n)

\* The escape table.
Escape == (Quote :> Quote) @@ (Backslash :> Backslash) @@ ("\n" :> "n")

WriteChar(c) ==
    CASE c \in DOMAIN Escape -> <<Backslash, Escape[c]>>
      [] c = Bell -> <<Backslash, "u", "0", "0", "0", "7">>
      [] OTHER -> <<c>>

WriteString(chars) == <<Quote>> \o FlattenSeq([i \in DOMAIN chars |-> WriteChar(chars[i])]) \o <<Quote>>

\* What separates a value from the one before it on its level.
Prefix(inArray, valueCount) ==
    CASE valueCount = 0 -> <<>>
      [] valueCount > 0 /\ (inArray \/ valueCount % 2 = 0) -> <<",">>
      [] OTHER -> <<":">>

RECURSIVE Accept(_)

WriteLevel(inArray, values) ==
    FlattenSeq([k \in DOMAIN values |-> Prefix(inArray, k - 1) \o Accept(values[k])])

Accept(v) ==
    CASE "literal" \in DOMAIN v -> Words[v.literal]
      [] "number" \in DOMAIN v -> WriteNumber(v.number[1], v.number[2])
      [] "string" \in DOMAIN v -> WriteString(v.string)
      [] "array" \in DOMAIN v -> <<"[">> \o WriteLevel(TRUE, v.array) \o <<"]">>
      [] "object" \in DOMAIN v -> <<"{">> \o WriteLevel(FALSE, v.object) \o <<"}">>

\* SerializedMessage: the text and a line feed.
Serialized(v) == Accept(v) \o <<"\n">>

=============================================================================
