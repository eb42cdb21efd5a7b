------------------------------ MODULE JsonValue ------------------------------
(***************************************************************************)
(* rapidjson::Value.  A value is a record with one field, named for its    *)
(* type.  A number carries the flags of the integer types that hold it,    *)
(* which every reader of a message asks for (IsInt, IsUint64, ...).  An    *)
(* object is the sequence of its names and values in turn.                 *)
(*                                                                         *)
(* The integer types have a small width, so that all their edges can be    *)
(* checked; the arithmetic is the code's.                                  *)
(***************************************************************************)
EXTENDS Integers, Sequences, SequencesExt

CONSTANTS
    Bits32,     \* the width of int and unsigned
    Bits64      \* the width of int64_t and uint64_t

ASSUME WidthAssumption ==
    /\ Bits32 \in Nat /\ Bits64 \in Nat
    /\ 4 < Bits32 /\ Bits32 < Bits64

\* No bit at or above the given one is set.
Below(n, bit) == 0 <= n /\ n < 2^bit

Literal(word) == [literal |-> word]
String(chars) == [string |-> chars]
Array(elements) == [array |-> elements]
Object(members) == [object |-> members]

\* The constructors for int, unsigned, int64_t and uint64_t: each knows what it
\* can say about its own argument.
IntFlags(n) == {"Int", "Int64"} \cup (IF n >= 0 THEN {"Uint", "Uint64"} ELSE {})

UintFlags(n) == {"Uint", "Uint64", "Int64"} \cup (IF Below(n, Bits32 - 1) THEN {"Int"} ELSE {})

Int64Flags(n) ==
    {"Int64"} \cup
    (IF n >= 0
     THEN {"Uint64"} \cup (IF Below(n, Bits32) THEN {"Uint"} ELSE {})
                     \cup (IF Below(n, Bits32 - 1) THEN {"Int"} ELSE {})
     ELSE IF n >= -(2^(Bits32 - 1)) THEN {"Int"} ELSE {})

Uint64Flags(n) ==
    {"Uint64"} \cup (IF Below(n, Bits64 - 1) THEN {"Int64"} ELSE {})
               \cup (IF Below(n, Bits32) THEN {"Uint"} ELSE {})
               \cup (IF Below(n, Bits32 - 1) THEN {"Int"} ELSE {})

Number(n, flags) == [number |-> <<n, flags>>]

IsObject(v) == "object" \in DOMAIN v

=============================================================================
