---------------------------- MODULE MessageParser ----------------------------
(***************************************************************************)
(* StreamSocketReader and MessageParser: the bytes of a session, received  *)
(* in pieces of any size, become the messages that were sent.  A piece may *)
(* end anywhere, also inside a token; the reader then keeps the token in   *)
(* its buffer and parses it again when more has come.                      *)
(***************************************************************************)
EXTENDS JsonReader

CONSTANTS
    m_bufferSize,   \* the bytes of the buffer, the terminating null included
    Streams         \* what the remote side may send in a session

ASSUME BufferAssumption == m_bufferSize \in Nat /\ m_bufferSize > 2

VARIABLES
    stream,         \* what is sent in this session (the remote side's)
    incoming,       \* what the socket has yet to receive
    buffer,         \* m_buffer up to m_bufferPos, or up to dataLength while parsing
    phase,          \* "receive" | "parse" | "message" | "closed" | "thrown"
    pos,            \* stream.Tell() of the StringStream
    parsedLength,   \* up to where the buffer has been parsed
    m_reader,       \* the reader and the handler
    received,       \* the messages handed to onMessage, in order
    error           \* the exception that ended the session

vars == <<stream, incoming, buffer, phase, pos, parsedLength, m_reader, received, error>>
session == <<stream, received, error>>

Init ==
    /\ stream \in Streams
    /\ incoming = stream.text
    /\ buffer = <<>>
    /\ phase = "receive"
    /\ pos = 0
    /\ parsedLength = 0
    /\ m_reader = IterativeParseInit
    /\ received = <<>>
    /\ error = "none"

\* The room that doReceive offers to the socket.
Room == (m_bufferSize - Len(buffer)) - 1

\* doReceive: the next piece stands behind what is left of the one before.
Receive(n) ==
    /\ phase = "receive"
    /\ n <= Room
    /\ buffer' = buffer \o SubSeq(incoming, 1, n)
    /\ incoming' = SubSeq(incoming, n + 1, Len(incoming))
    /\ phase' = "parse"
    /\ pos' = 0
    /\ parsedLength' = 0
    /\ UNCHANGED <<session, m_reader>>

\* doReceive gets no byte: the remote side has closed the connection, or there
\* was no room.
ReceiveNothing ==
    /\ phase = "receive"
    /\ incoming = <<>> \/ Room = 0
    /\ phase' = "closed"
    /\ UNCHANGED <<session, incoming, buffer, pos, parsedLength, m_reader>>

\* parse: a null between messages.
SkipNull ==
    /\ phase = "parse"
    /\ pos < Len(buffer)
    /\ Peek(buffer, pos) = NUL
    /\ pos' = pos + 1
    /\ parsedLength' = pos + 1
    /\ UNCHANGED <<session, incoming, buffer, phase, m_reader>>

\* The outcome of IterativeParseNext, with the handler as doParse leaves it.
TakeToken(next, reader) ==
    /\ pos' = next.pos
    /\ parsedLength' = IF next.ok THEN next.pos ELSE parsedLength
    /\ IF next.reader.failed
       THEN /\ m_reader' = IterativeParseInit
            /\ phase' = "thrown"
            /\ error' = "JSON_PARSE_ERROR"
       ELSE /\ m_reader' = reader
            /\ phase' = IF next.ok /\ IterativeParseComplete(next.reader) THEN "message" ELSE "parse"
            /\ UNCHANGED error

\* At the end of the piece, a number that may go on is taken back.
popLastValue(next) ==
    IF ~next.ok /\ next.reader.isLastValueInvalid
    THEN [next.reader EXCEPT !.values = Pop(@, 1)] ELSE next.reader

\* A variant of ParseToken: a number at the end of the piece stays.
ParseTokenKeepingNumber ==
    LET take(next) == TakeToken(next, next.reader)
    IN  /\ phase = "parse"
        /\ pos < Len(buffer)
        /\ Peek(buffer, pos) # NUL
        /\ take(IterativeParseNext(m_reader, buffer, pos))
        /\ UNCHANGED <<stream, incoming, buffer, received>>

\* doParse: one token.
ParseToken ==
    LET take(next) == TakeToken(next, popLastValue(next))
    IN  /\ phase = "parse"
        /\ pos < Len(buffer)
        /\ Peek(buffer, pos) # NUL
        /\ take(IterativeParseNext(m_reader, buffer, pos))
        /\ UNCHANGED <<stream, incoming, buffer, received>>

\* doParse: the message is complete.  Both sessions refuse one that is not an
\* object before they do anything with it, and the parser is then not reset.
Deliver ==
    /\ phase = "message"
    /\ IF Len(m_reader.values) = 1
       THEN LET message == m_reader.values[1]
            IN  IF IsObject(message)
                THEN /\ received' = Append(received, message)
                     /\ m_reader' = IterativeParseInit
                     /\ phase' = "parse"
                     /\ UNCHANGED error
                ELSE /\ m_reader' = [m_reader EXCEPT !.values = <<>>]
                     /\ phase' = "thrown"
                     /\ error' = "invalid_argument"
                     /\ UNCHANGED received
       ELSE /\ m_reader' = IterativeParseInit
            /\ phase' = "thrown"
            /\ error' = "MSG_DESERIALIZATION_FAILED"
            /\ UNCHANGED received
    /\ UNCHANGED <<stream, incoming, buffer, pos, parsedLength>>

\* parse and doReceive return: what is not parsed moves to the beginning.  A
\* token that fills the buffer can never be parsed.
EndParse ==
    /\ phase = "parse"
    /\ pos >= Len(buffer)
    /\ IF parsedLength = 0 /\ Len(buffer) >= m_bufferSize - 1
       THEN /\ phase' = "thrown"
            /\ error' = "MSG_TOKEN_TOO_BIG"
            /\ m_reader' = IterativeParseInit
            /\ UNCHANGED buffer
       ELSE /\ phase' = "receive"
            /\ buffer' = SubSeq(buffer, parsedLength + 1, Len(buffer))
            /\ UNCHANGED <<error, m_reader>>
    /\ UNCHANGED <<stream, incoming, pos, parsedLength, received>>

Next ==
    \/ \E n \in 1..Len(incoming) : Receive(n)
    \/ ReceiveNothing
    \/ SkipNull
    \/ ParseToken
    \/ Deliver
    \/ EndParse

Spec == Init /\ [][Next]_vars

-----------------------------------------------------------------------------
\* What a number must say about itself, whichever way it came.
Fits(n) ==
    {t \in {"Int", "Uint", "Int64", "Uint64"} :
        CASE t = "Int" -> -(2^(Bits32 - 1)) <= n /\ n < 2^(Bits32 - 1)
          [] t = "Uint" -> 0 <= n /\ n < 2^Bits32
          [] t = "Int64" -> -(2^(Bits64 - 1)) <= n /\ n < 2^(Bits64 - 1)
          [] t = "Uint64" -> 0 <= n /\ n < 2^Bits64}

\* However the bytes of a session are cut into pieces, every message arrives
\* once, in order and with the values it was sent with, integers at the edges
\* of their types and escaped characters included; and the session ends in
\* order only if all of it could be understood.
MessagesArrive ==
    /\ IsPrefix(received, stream.messages)
    /\ phase = "closed" => received = stream.messages /\ ~stream.fails

\* A session is given up only for text that is no message, or for a token that
\* the buffer cannot hold; never because of where a piece happened to end.
NoSpuriousError == error # "none" => stream.fails

=============================================================================
