------------------------- MODULE StreamSocketWriter -------------------------
(***************************************************************************)
(* StreamSocketWriter (SocketReaderWriter.hpp): sends one message at a     *)
(* time over a non-blocking socket.  A writer is a record                  *)
(*   kind      NONE, OWN, SHARED or BUFFERED (EMessageType)                *)
(*   buf       the shared message the bytes belong to ("OWN" if owned)     *)
(*   msg       the content the bytes had when the message was handed over  *)
(*   pos       how much of the message is on the wire                      *)
(*   dangling  a SHARED message was replaced while its bytes were in use   *)
(*                                                                         *)
(* The bytes of a message are abstracted to what a reader can tell apart:  *)
(* nothing sent (0), a part of the JSON object (1), the whole object       *)
(* without the final newline (2).  The receiver's parser acts on a message *)
(* as soon as the object is complete, so a message is delivered at 2 while *)
(* the writer is still sending.                                            *)
(***************************************************************************)
EXTENDS Protocol, FiniteSets

Part == 1
Body == 2

Idle == [kind |-> "NONE", buf |-> "OWN", msg |-> Cleared, pos |-> 0, dangling |-> FALSE]

isSending(w) == w.kind # "NONE"

(***************************************************************************)
(* stop: forget a message nothing of which was sent; keep a private copy   *)
(* of the rest of a shared one.  pos keeps counting from the beginning of  *)
(* the message, although the copy starts at the first byte not sent.       *)
(***************************************************************************)
stop(w) ==
    CASE w.kind \in {"OWN", "SHARED"} /\ w.pos = 0 -> Idle
      [] w.kind = "SHARED" /\ w.pos # 0            -> [w EXCEPT !.kind = "BUFFERED"]
      [] OTHER                                     -> w

send(msg) == [Idle EXCEPT !.kind = "OWN", !.msg = msg]

sendShared(buf, msg) == [Idle EXCEPT !.kind = "SHARED", !.buf = buf, !.msg = msg]

(***************************************************************************)
(* The object a SHARED writer points into is assigned: the old bytes are   *)
(* freed.                                                                  *)
(***************************************************************************)
Replaced(w, bufs) ==
    IF w.kind = "SHARED" /\ w.buf \in bufs THEN [w EXCEPT !.dangling = TRUE] ELSE w

(***************************************************************************)
(* The loop `while (doSend()) { take the next message }`.  pending is the  *)
(* message in progress, if any, followed by the queued ones, each as a     *)
(* writer.  The socket takes the first n of them, and the next one up to   *)
(* pos; text is what the bytes of the first one really are.                *)
(***************************************************************************)
CanSend(pending, n, pos) ==
    n < Len(pending) => /\ pos > pending[n + 1].pos
                        /\ pending[n + 1].msg.type # "UNKNOWN"

\* The elements of a sequence at the given positions, in order.
Selected(q, positions) ==
    [j \in 1..Cardinality(positions) |->
       q[CHOOSE i \in positions : Cardinality({k \in positions : k <= i}) = j]]

Emitted(pending, n, pos, text) ==
    LET count == IF n < Len(pending) /\ pos = Body THEN n + 1 ELSE n
        first == IF pending[1].pos < Body THEN text
                 ELSE IF text = pending[1].msg THEN Cleared ELSE Garbled
        sent  == [i \in 1..count |-> IF i = 1 THEN first ELSE pending[i].msg]
    IN  Selected(sent, {i \in 1..count : sent[i].type # "UNKNOWN"})

doSend(pending, n, pos) ==
    IF n < Len(pending) THEN [pending[n + 1] EXCEPT !.pos = pos] ELSE Idle

=============================================================================
