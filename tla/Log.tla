--------------------------------- MODULE Log ---------------------------------
(***************************************************************************)
(* The log: which messages are written, and how a line is put together in  *)
(* a buffer on the stack or, if it is too long for that, on the heap       *)
(* (Log.hpp, Log.cpp, CharBuffer.hpp).  Texts are sequences of characters; *)
(* a prefix is as long as its style makes it, not spelled out.             *)
(***************************************************************************)
EXTENDS Integers, Sequences

CONSTANTS
    BufferSize,     \* 2048 in the code
    StylePrefix,    \* style -> text before the message
    ColorPrefix, ColorSuffix    \* text, empty for messages that have no color

ASSUME BufferSizeAssumption == BufferSize \in Nat /\ BufferSize > 1

EType == {"ALWAYS", "ERROR", "WARNING", "NOTICE", "INFO", "DEBUG"}

isMsgEnabled(log, msgType) ==
    CASE msgType \in {"ALWAYS", "ERROR", "WARNING"} -> log.verbosity \in {"LOW", "NORMAL", "HIGH", "DEBUG"}
      [] msgType = "NOTICE" -> log.verbosity \in {"NORMAL", "HIGH", "DEBUG"}
      [] msgType = "INFO"   -> log.verbosity \in {"HIGH", "DEBUG"}
      [] msgType = "DEBUG"  -> log.verbosity = "DEBUG"

\* initColorize.
isColorizeEnabled(colorize, isatty) == colorize = "ALWAYS" \/ (colorize = "AUTO" /\ isatty)

Colorless == {"ALWAYS", "INFO"}

-----------------------------------------------------------------------------
\* CharBuffer<BufferSize>, as its content.

getAvailableLength(buffer) == BufferSize - Len(buffer) - 1

Shortened(text, length) == SubSeq(text, 1, IF Len(text) > length THEN length ELSE Len(text))

append(buffer, text) == buffer \o Shortened(text, getAvailableLength(buffer))

\* vsnprintf(m_buffer + m_pos, Size - m_pos, ...) ends what it writes with a null
\* byte, so it has as much room as append.
append_vf(buffer, text) == append(buffer, text)

-----------------------------------------------------------------------------
Newline == <<"\n">>

\* Variant of FitsOnStack: the newline is forgotten.
FitsOnStackWithoutNewline(buffer, suffix) == getAvailableLength(buffer) >= Len(suffix)

FitsOnStack(buffer, suffix) == getAvailableLength(buffer) >= Len(suffix) + 1

\* The line that logV writes.  The text is formatted once more for the heap
\* buffer, from a va_list that has been used: what that results in is `again`.
logV(log, msgType, text, again) ==
    LET isColored == log.isColorizeEnabled /\ msgType \notin Colorless
        prefix == append(append(<<>>, IF isColored THEN ColorPrefix ELSE <<>>), StylePrefix[log.style])
        suffix == IF isColored THEN ColorSuffix ELSE <<>>
        msg == append_vf(prefix, text)
    IN  IF FitsOnStack(msg, suffix) THEN append(append(msg, suffix), Newline)
        ELSE prefix \o Shortened(again, Len(text)) \o suffix \o Newline

\* What the second formatting may result in: the text, if the format has no
\* conversions, and otherwise whatever is behind the arguments that were used.
Again(text, hasArguments) ==
    IF hasArguments THEN {text, <<>>, [i \in 1 .. Len(text) + 1 |-> "?"]} ELSE {text}

=============================================================================
