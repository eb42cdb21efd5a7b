\* A buffer of 12 bytes; int has 6 bits and int64_t 9, so that every edge is
\* within reach.  The reader stops when the session is over.
CONSTANTS
    Bits32 = 6
    Bits64 = 9
    m_bufferSize = 12
    Streams <- MCStreams
SPECIFICATION Spec
CHECK_DEADLOCK FALSE
INVARIANTS
    MessagesArrive
    NoSpuriousError
