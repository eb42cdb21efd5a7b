--------------------------- MODULE MCMessageParser ---------------------------
\* Sessions for MessageParser: messages with every edge of the integer types,
\* with escaped characters and with nested values; what a foreign program might
\* send; and tokens around the size of the buffer.
EXTENDS MessageParser

Message(value) == Object(<<String(<<Letter>>), value>>)
Integer(n) == Number(n, Fits(n))

Edges == {0, 9, 10} \cup
    UNION {{-(2^(b - 1)), -(2^(b - 1)) + 1, 2^(b - 1) - 1, 2^(b - 1), 2^b - 1} : b \in {Bits32, Bits64}} \cup
    {-(2^(Bits32 - 1)) - 1, 2^Bits32}

Sent(messages) ==
    [text |-> FlattenSeq([i \in DOMAIN messages |-> Serialized(messages[i])]),
     messages |-> messages, fails |-> FALSE]

Nested ==
    Object(<<String(<<>>), Array(<<Integer(1), Array(<<>>), Literal("null"), Array(<<Integer(2), Integer(3)>>)>>),
             String(<<Quote, Letter>>), Object(<<>>),
             String(<<Backslash>>), Object(<<String(<<"\n">>), Literal("false"), String(<<Bell>>), Integer(4)>>)>>)

\* A string with that many characters: its token has two more.
Long(n) == Message(String([i \in 1..n |-> Letter]))

WellFormed ==
    {Sent(<<Message(Integer(n)), Message(Literal("true"))>>) : n \in Edges} \cup
    {Sent(<<Nested, Message(Integer(5))>>), Sent(<<Object(<<>>), Nested>>), Sent(<<>>),
     Sent(<<Long(m_bufferSize - 4)>>)}

Name == <<"{", Quote, Letter, Quote>>

\* Text of a foreign program, and the messages in it.
Foreign ==
    {[text |-> Serialized(Nested) \o t, messages |-> <<Nested>>, fails |-> TRUE] :
        t \in {<<"[", "1", "]">>, <<"7", "\n">>, <<"}">>,
               Name \o <<"}">>, Name \o <<":", "0", "1", "}">>, Name \o <<":", "-", "}">>,
               Name \o <<":", "1", ".", "}">>, Name \o <<":", "1", "e", "+", "}">>,
               Name \o <<":", "t", "r", "u", "}">>, Name \o <<":", "1", ",", "}">>,
               Name \o <<":", "[", "1", ",", "]">>, Name \o <<":", Quote, Backslash, "x">>,
               Name \o <<":", Quote, Backslash, "u", "0", "x">>, Name \o <<":", Quote, "\n">>}} \cup
    {[text |-> Name \o <<":">> \o t \o <<"}">>, messages |-> <<Message(DoubleValue)>>, fails |-> FALSE] :
        t \in {<<"1", ".", "5">>, <<"2", "e", "-", "1">>, i64toa(2^Bits64), i64toa(-(2^(Bits64 - 1)) - 1)}} \cup
    {[text |-> <<NUL>> \o Serialized(Message(Integer(6))) \o <<NUL, NUL>> \o Serialized(Message(Integer(7))),
      messages |-> <<Message(Integer(6)), Message(Integer(7))>>, fails |-> FALSE],
     [Sent(<<Message(Integer(8)), Long(m_bufferSize - 3)>>) EXCEPT
        !.messages = <<Message(Integer(8))>>, !.fails = TRUE]}

MCStreams == WellFormed \cup Foreign

=============================================================================
