--------------------------- MODULE ScriptTimers ---------------------------
(***************************************************************************)
(* The timers a document's scripts arm (pdfrum-form, script/timer.rs) and  *)
(* the clock a host steps them by (advance_time, script/mod.rs).  A script *)
(* that runs may arm and cancel timers, its own or others.                 *)
(***************************************************************************)
EXTENDS Naturals, Functions

CONSTANTS
    Intervals,   \* the delays scripts ask for, in milliseconds
    Steps,       \* what the host says has passed
    MaxTimers,   \* bound: timers armed
    MaxTime      \* bound: milliseconds

Ids == 1..MaxTimers

VARIABLES
    armed,     \* Timers::armed, by id
    elapsed,   \* Timers::elapsed
    lastId,    \* Timers::last_id
    failNext,  \* Timers::fail_next
    ready,     \* advance_time: the timers still to run in this call, and when they were due
    running,   \* the timer whose script runs, or zero
    silenced   \* history: the ids that were cancelled when the call began

vars == <<armed, elapsed, lastId, failNext, ready, running, silenced>>

Timer == [repeats : BOOLEAN, interval : Nat \ {0}, runs : BOOLEAN, due : Nat, processing : BOOLEAN]

TypeOK ==
    /\ DOMAIN armed \subseteq 1..lastId
    /\ \A t \in DOMAIN armed : armed[t] \in Timer
    /\ elapsed \in Nat /\ lastId \in 0..MaxTimers /\ failNext \in BOOLEAN
    /\ DOMAIN ready \subseteq 1..lastId /\ \A t \in DOMAIN ready : ready[t] \in Nat
    /\ running \in 0..lastId
    /\ silenced \subseteq 1..lastId

NoTimers == [t \in {} |-> 0]

Init ==
    /\ armed = NoTimers /\ elapsed = 0 /\ lastId = 0 /\ failNext = FALSE
    /\ ready = NoTimers /\ running = 0 /\ silenced = {}

\* A script runs: one a timer runs, or, between two calls, any other.
Scripting == running # 0 \/ DOMAIN ready = {}

\* Mistake: a delay of zero is one of no time.
UnclampedInterval(delay) == delay

Interval(delay) == IF delay > 1 THEN delay ELSE 1

\* app.setTimeOut and app.setInterval; the host may refuse one.  A delay
\* of zero is taken as one, and a one-shot that has it never runs its
\* script.  Negative delays, due in seven weeks, are left out.
Set(repeats, delay) ==
    /\ Scripting
    /\ failNext' = FALSE
    /\ IF failNext
       THEN UNCHANGED <<armed, lastId>>
       ELSE /\ lastId < MaxTimers
            /\ lastId' = lastId + 1
            /\ LET interval == Interval(delay)
                   timer == [repeats |-> repeats, interval |-> interval, due |-> elapsed + interval,
                             runs |-> repeats \/ delay > 0, processing |-> FALSE]
               IN  armed' = [t \in DOMAIN armed \union {lastId'} |->
                                IF t = lastId' THEN timer ELSE armed[t]]
    /\ UNCHANGED <<elapsed, ready, running, silenced>>

\* app.clearTimeOut and app.clearInterval, of any id a script may hold.
Cancel(t) ==
    /\ Scripting
    /\ armed' = Restrict(armed, DOMAIN armed \ {t})
    /\ UNCHANGED <<elapsed, lastId, failNext, ready, running, silenced>>

FailNext ==
    /\ running = 0 /\ DOMAIN ready = {}
    /\ failNext' = TRUE
    /\ UNCHANGED <<armed, elapsed, lastId, ready, running, silenced>>

\* Mistake: from when the timer was due, which may have passed again.
NextDueOnBeat(timer, now) == timer.due + timer.interval

\* An interval is armed again from the time the host says it is.
NextDue(timer, now) == now + timer.interval

\* advance: what is due is taken; a one-shot is forgotten
\* and an interval armed again, before any script runs.
Advance(millis) ==
    /\ running = 0 /\ DOMAIN ready = {}
    /\ elapsed + millis <= MaxTime
    /\ LET now   == elapsed + millis
           due   == {t \in DOMAIN armed : armed[t].due <= now /\ ~armed[t].processing}
       IN  /\ elapsed' = now
           /\ ready' = [t \in {t \in due : armed[t].runs} |-> armed[t].due]
           /\ armed' = [t \in DOMAIN armed \ {t \in due : ~armed[t].repeats} |->
                           IF t \in due THEN [armed[t] EXCEPT !.due = NextDue(armed[t], now)] ELSE armed[t]]
    /\ silenced' = 1..lastId \ DOMAIN armed
    /\ UNCHANGED <<lastId, failNext, running>>

\* A timer that is gone is not marked.
Marked(t, processing) ==
    [u \in DOMAIN armed |-> IF u = t THEN [armed[u] EXCEPT !.processing = processing]
                            ELSE armed[u]]

\* begin, and the script starts: the earliest due, the first armed of equals.
Begin(t) ==
    /\ running = 0 /\ t \in DOMAIN ready
    /\ \A u \in DOMAIN ready : ready[t] < ready[u] \/ (ready[t] = ready[u] /\ t <= u)
    /\ running' = t /\ ready' = Restrict(ready, DOMAIN ready \ {t})
    /\ armed' = Marked(t, TRUE)
    /\ UNCHANGED <<elapsed, lastId, failNext, silenced>>

\* The script is over; end.
End ==
    /\ running # 0
    /\ running' = 0
    /\ armed' = Marked(running, FALSE)
    /\ UNCHANGED <<elapsed, lastId, failNext, ready, silenced>>

Next ==
    \/ \E repeats \in BOOLEAN, delay \in Intervals : Set(repeats, delay)
    \/ \E t \in Ids : Cancel(t) \/ Begin(t)
    \/ \E millis \in Steps : Advance(millis)
    \/ FailNext \/ End

Spec == Init /\ [][Next]_vars

----------------------------------------------------------------------------

\* No timer that is armed is overdue, so a call runs each at most once and
\* calls that pass no time run nothing, whatever the scripts arm and however
\* much time one call says has passed; and what was cancelled, or had run
\* out, before a call does not run in it (set, advance).
FiresOnceWhenDue ==
    /\ \A t \in DOMAIN armed : armed[t].due > elapsed
    /\ DOMAIN ready \intersect silenced = {}
    /\ running \notin silenced \union DOMAIN ready
    /\ \A t \in DOMAIN armed : armed[t].processing => t = running
============================================================================
