------------------------------ MODULE Platform ------------------------------
(***************************************************************************)
(* Platform (Unix): the signals are blocked in all threads and one thread  *)
(* waits for them; a timer sends one every second.  A signal that is       *)
(* pending already is not queued again.                                    *)
(***************************************************************************)
EXTENDS EventSystem, FiniteSets

CONSTANT MaxSignals     \* bound: signals, and events made of them, not handled yet

VARIABLES
    isStarted,      \* m_isRunning, a plain bool written by the main thread
    hasTimer,       \* m_updateTimer exists
    pending,        \* the signals pending for the process
    isKilled,       \* the SIGINT of stop() is pending for the signal thread
    signalPC,       \* the signal thread: "none", "wait", "handle", "exit"
    signal          \* the signal of signalLoop

platformVars == <<isStarted, hasTimer, pending, isKilled, signalPC, signal>>

\* SIGHUP is handled like SIGTERM, and so is a SIGINT that is not the one of stop().
Signals == {"UPDATE_TIMER_SIGNAL", "SIGTERM"}

InitPlatform ==
    /\ isStarted = FALSE /\ hasTimer = FALSE
    /\ pending = {} /\ isKilled = FALSE
    /\ signalPC = "none" /\ signal = "SIGINT"

\* Platform::start
StartPlatform ==
    /\ isStarted' = TRUE
    /\ hasTimer' = TRUE
    /\ signalPC' = "wait"
    /\ UNCHANGED <<pending, isKilled, signal>>

\* Platform::stop, up to the join.
StopPlatform ==
    /\ isStarted' = FALSE
    /\ hasTimer' = FALSE
    /\ isKilled' = TRUE
    /\ UNCHANGED <<pending, signalPC, signal>>

\* The timer expires, or somebody sends a signal.
Raise(s) ==
    /\ s \notin pending
    /\ s = "UPDATE_TIMER_SIGNAL" => hasTimer
    /\ Len(eventQueue["Signal"]) + Cardinality(pending) + (IF signalPC = "handle" THEN 1 ELSE 0)
         < MaxSignals
    /\ pending' = pending \cup {s}
    /\ UNCHANGED <<isStarted, hasTimer, isKilled, signalPC, signal, eventQueue>>

\* sigwaitinfo
SignalWait ==
    /\ signalPC = "wait"
    /\ \/ \E s \in pending :
            /\ signal' = s
            /\ pending' = pending \ {s}
            /\ UNCHANGED isKilled
       \/ /\ isKilled
          /\ signal' = "SIGINT"
          /\ isKilled' = FALSE
          /\ UNCHANGED pending
    /\ signalPC' = "handle"
    /\ UNCHANGED <<isStarted, hasTimer, eventQueue>>

\* The rest of signalLoop, and handleSignal; SIGINT may be the one of stop().
SignalHandle ==
    /\ signalPC = "handle"
    /\ signalPC' = IF isStarted THEN "wait" ELSE "exit"
    /\ eventQueue' =
         CASE signal = "UPDATE_TIMER_SIGNAL" ->
                Dispatched(eventQueue, "Signal", Event("UPDATE_EVENT", "none"))
           [] signal = "SIGTERM" \/ (signal = "SIGINT" /\ isStarted) ->
                Dispatched(eventQueue, "Signal", Event("APP_INTERNAL_EVENT", "QUIT"))
           [] OTHER -> eventQueue
    /\ UNCHANGED <<isStarted, hasTimer, pending, isKilled, signal>>

SignalThread == SignalWait \/ SignalHandle

=============================================================================
