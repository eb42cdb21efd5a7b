------------------------ MODULE LightweightSemaphore ------------------------
(***************************************************************************)
(* LightweightSemaphore of the two moodycamel libraries: a counter that is *)
(* negative while somebody sleeps, over a kernel semaphore.  The waiter    *)
(* spins before it sleeps; how long does not matter, only that the last    *)
(* look at the counter found nothing.                                      *)
(***************************************************************************)
EXTENDS Integers

CONSTANT Exclusive  \* spsc_sema: the counter is not compared when it is taken

VARIABLES
    m_count,
    m_sema,     \* the kernel semaphore
    waiter,     \* the waiting thread: "out", "take", "decrement", "sleep", "got"
    oldCount    \* oldCount of the waiting thread

semaphoreVars == <<m_count, m_sema, waiter, oldCount>>

InitSemaphore ==
    /\ m_count = 0
    /\ m_sema = 0
    /\ waiter = "out"
    /\ oldCount = 0

\* wait: tryWait and the spinning look at the counter.
LoadCount ==
    /\ waiter = "out"
    /\ oldCount' = m_count
    /\ waiter' = IF m_count > 0 THEN "take" ELSE "decrement"
    /\ UNCHANGED <<m_count, m_sema>>

\* The counter was positive; the compare-and-swap fails when a signal came between.
TakeCount ==
    /\ waiter = "take"
    /\ \/ /\ Exclusive \/ m_count = oldCount
          /\ m_count' = m_count - 1
          /\ waiter' = "got"
       \/ /\ ~Exclusive /\ m_count # oldCount
          /\ waiter' = "out"
          /\ UNCHANGED m_count
    /\ UNCHANGED <<m_sema, oldCount>>

\* Done spinning: announce the sleep, unless a signal came just now.
DecrementCount ==
    /\ waiter = "decrement"
    /\ m_count' = m_count - 1
    /\ waiter' = IF m_count > 0 THEN "got" ELSE "sleep"
    /\ UNCHANGED <<m_sema, oldCount>>

\* sem_wait.
Sleep ==
    /\ waiter = "sleep"
    /\ m_sema > 0
    /\ m_sema' = m_sema - 1
    /\ waiter' = "got"
    /\ UNCHANGED <<m_count, oldCount>>

\* signal: the counter, and whether a sleeper has to be woken (sem_post) after it.
SignalCount ==
    /\ m_count' = m_count + 1
    /\ UNCHANGED <<m_sema, waiter, oldCount>>

\* A variant: the signal that finds exactly one sleeper wakes nobody.
MustPostLate == m_count < -1

MustPost == m_count < 0

PostSemaphore ==
    /\ m_sema' = m_sema + 1
    /\ UNCHANGED <<m_count, waiter, oldCount>>

=============================================================================
