------------------------------ MODULE Viewer ------------------------------
(***************************************************************************)
(* The pager of `view` (pdfrum-cli, cmd/terminal.rs) on a terminal that    *)
(* keeps pictures (the kitty protocol): one thread reads keys and draws,   *)
(* the other renders.  They share a map of frames behind a lock with a     *)
(* bell, a channel of wanted frames, and a word to stop.                   *)
(*                                                                         *)
(* A render is taken to end and not to panic; a frame it could not make is *)
(* a frame that says so (Broken).                                          *)
(***************************************************************************)
EXTENDS Integers, Sequences, FiniteSets, FiniteSetsExt

CONSTANTS
    Count,        \* pages of the document
    Zooms,        \* zoom steps
    Screens,      \* sizes of the terminal
    Broken,       \* pages that do not render
    KeepFrames,   \* how many frames are kept before any is forgotten
    AheadLimit,   \* pictures sent to the terminal before a key is read
    MaxQueue,     \* bound: requests not yet taken when a key is pressed
    MaxPictures,  \* bound: pictures sent when a key is pressed
    NoPicture     \* nothing is on the screen

Pages == 0..(Count - 1)
Key   == [page : Pages, zoom : Zooms, screen : Screens]

VARIABLES
    wanted,    \* Pager: page and zoom, with the size the loop reads: the Key of this turn
    frames,    \* Cache::frames, the keys with a frame
    stop,      \* Cache::stop
    open,      \* the sender is alive
    inbox,     \* requests sent and not received
    batch,     \* render_worker: received and not served
    worker,    \* where render_worker is
    pager,     \* where the loop of view() is
    stored,    \* Pager::stored: the keys whose picture the terminal was sent, and its id
    nextId,    \* Pager::next_id
    placed,    \* Pager::placed
    held       \* the ids of the pictures the terminal keeps

vars == <<wanted, frames, stop, open, inbox, batch, worker, pager,
          stored, nextId, placed, held>>
workerVars   == <<frames, batch, worker>>
terminalVars == <<stored, nextId, placed, held>>

PagerPlace  == {"send", "wait", "asleep", "draw", "prune", "ahead", "read", "stop", "drop", "left"}
WorkerPlace == {"recv", "pick", "look", "render", "ring", "done"}

TypeOK ==
    /\ wanted \in Key
    /\ frames \subseteq Key
    /\ stop \in BOOLEAN /\ open \in BOOLEAN
    /\ inbox \in Seq(Key) /\ batch \in Seq(Key)
    /\ worker \in WorkerPlace /\ pager \in PagerPlace
    /\ DOMAIN stored \subseteq Key
    /\ \A k \in DOMAIN stored : stored[k] \in 1..nextId
    /\ nextId \in Nat
    /\ placed \in 1..nextId \union {NoPicture}
    /\ held \subseteq 1..nextId

Init ==
    /\ wanted \in Key
    /\ frames = {} /\ stop = FALSE /\ open = TRUE
    /\ inbox = <<>> /\ batch = <<>>
    /\ worker = "recv" /\ pager = "send"
    /\ stored = <<>> /\ nextId = 0 /\ placed = NoPicture
    /\ held = {}

----------------------------------------------------------------------------
(* The worker.                                                             *)

\* Waits for a request and takes all there are.
Receive ==
    /\ worker = "recv" /\ inbox # <<>>
    /\ batch' = inbox /\ inbox' = <<>>
    /\ worker' = "pick"
    /\ UNCHANGED <<wanted, frames, stop, open, pager, terminalVars>>

\* The channel is closed and empty.
Hangup ==
    /\ worker = "recv" /\ inbox = <<>> /\ ~open
    /\ worker' = "done"
    /\ UNCHANGED <<wanted, frames, stop, open, inbox, batch, pager, terminalVars>>

Pick ==
    /\ worker = "pick"
    /\ worker' = IF batch = <<>> THEN "recv" ELSE IF stop THEN "done" ELSE "look"
    /\ UNCHANGED <<wanted, frames, stop, open, inbox, batch, pager, terminalVars>>

\* Under the lock: is the frame there already?
Look ==
    /\ worker = "look"
    /\ IF Head(batch) \in frames
       THEN /\ batch' = Tail(batch)
            /\ worker' = "pick"
       ELSE /\ worker' = "render"
            /\ UNCHANGED batch
    /\ UNCHANGED <<wanted, frames, stop, open, inbox, pager, terminalVars>>

\* The frame is made without the lock and inserted under it.
Render ==
    /\ worker = "render"
    /\ frames' = frames \union {Head(batch)}
    /\ worker' = "ring"
    /\ UNCHANGED <<wanted, stop, open, inbox, batch, pager, terminalVars>>

\* Mistake: the bell is not rung.
RingNot ==
    /\ worker = "ring"
    /\ batch' = Tail(batch)
    /\ worker' = "pick"
    /\ UNCHANGED <<wanted, frames, stop, open, inbox, pager, terminalVars>>

\* notify_all: a pager asleep takes the lock again and looks.
Ring ==
    /\ worker = "ring"
    /\ batch' = Tail(batch)
    /\ worker' = "pick"
    /\ pager' = IF pager = "asleep" THEN "wait" ELSE pager
    /\ UNCHANGED <<wanted, frames, stop, open, inbox, terminalVars>>

----------------------------------------------------------------------------
(* The pager.                                                              *)

\* The neighbours of a key that are among some, in the order they are asked for.
Neighbours(k, among) ==
    LET at(p) == LET n == [k EXCEPT !.page = p] IN IF n \in among THEN <<n>> ELSE <<>>
    IN  at(k.page + 1) \o at(k.page - 1) \o at(k.page + 2)

\* The pages a keypress is likely to want.
Ahead(k) == Neighbours(k, Key)

\* This page first.  The sends are one step: the channel keeps their order
\* and the worker serves them in it however many it takes at once.
Send ==
    /\ pager = "send"
    /\ inbox' = inbox \o <<wanted>> \o Ahead(wanted)
    /\ pager' = "wait"
    /\ UNCHANGED <<wanted, stop, open, workerVars, terminalVars>>

\* wait_for: looking and falling asleep are one step, under the lock.
Wait ==
    /\ pager = "wait"
    /\ pager' = IF wanted \in frames THEN "draw" ELSE "asleep"
    /\ UNCHANGED <<wanted, stop, open, inbox, workerVars, terminalVars>>

\* A condition variable may wake a thread that nobody rang.
WakeUnrung ==
    /\ pager = "asleep"
    /\ pager' = "wait"
    /\ UNCHANGED <<wanted, stop, open, inbox, workerVars, terminalVars>>

\* transmit: the id a picture lives under, sent if the terminal has not got it.
IdOf(k, st, n) == IF k \in DOMAIN st THEN st[k] ELSE n + 1
With(k, st, n) == [x \in DOMAIN st \union {k} |-> IF x = k THEN IdOf(k, st, n) ELSE st[x]]

\* The frame of this turn is drawn in place of the last; a page that did
\* not render says so over a cleared screen, and sends no picture.
Draw ==
    /\ pager = "draw"
    /\ pager' = "prune"
    /\ IF wanted \in frames /\ wanted.page \notin Broken
       THEN /\ stored' = With(wanted, stored, nextId)
            /\ placed' = stored'[wanted]
            /\ nextId' = IF wanted \in DOMAIN stored THEN nextId ELSE nextId + 1
            /\ held'   = held \union {placed'}
       ELSE UNCHANGED terminalVars
    /\ UNCHANGED <<wanted, stop, open, inbox, workerVars>>

\* What is kept is the few pages around this one, as they are shown now.
Far(k) ==
    \/ k.page - wanted.page > 2 \/ wanted.page - k.page > 2
    \/ k.zoom # wanted.zoom \/ k.screen # wanted.screen

\* Mistake: the pictures are forgotten and the terminal is not told.
PruneQuietly ==
    /\ pager = "prune"
    /\ pager' = "ahead"
    /\ frames' = IF Cardinality(frames) > KeepFrames THEN {k \in frames : ~Far(k)} ELSE frames
    /\ stored' = [k \in {x \in DOMAIN stored : ~Far(x)} |-> stored[k]]
    /\ UNCHANGED <<wanted, stop, open, inbox, batch, worker, nextId, placed, held>>

\* Forget frames far from this one, in the terminal too.
Prune ==
    /\ pager = "prune"
    /\ pager' = "ahead"
    /\ frames' = IF Cardinality(frames) > KeepFrames THEN {k \in frames : ~Far(k)} ELSE frames
    /\ LET gone == {k \in DOMAIN stored : Far(k)}
       IN  /\ stored' = [k \in DOMAIN stored \ gone |-> stored[k]]
           /\ held'   = held \ {stored[k] : k \in gone}
    /\ UNCHANGED <<wanted, stop, open, inbox, batch, worker, nextId, placed>>

\* While a key is waited for: the first few that are rendered and not sent.
TransmitAhead ==
    /\ pager = "ahead"
    /\ pager' = "read"
    /\ LET fresh == {k \in frames : k.page \notin Broken /\ k \notin DOMAIN stored}
           ready == Neighbours(wanted, fresh)
           sent  == SubSeq(ready, 1, Min({Len(ready), AheadLimit}))
           idOf(k) == nextId + CHOOSE i \in DOMAIN sent : sent[i] = k
       IN  /\ stored' = [k \in DOMAIN stored \union Range(sent) |->
                            IF k \in DOMAIN stored THEN stored[k] ELSE idOf(k)]
           /\ nextId' = nextId + Len(sent)
           /\ held'   = held \union ((nextId + 1)..(nextId + Len(sent)))
    /\ UNCHANGED <<wanted, stop, open, inbox, workerVars, placed>>

\* A key: another page (a step, an end, or a page a search finds), another
\* zoom, or nothing; and the terminal may have another size by now.
ReadKey ==
    /\ pager = "read"
    /\ Len(inbox) <= MaxQueue /\ nextId <= MaxPictures
    /\ \E k \in Key :
        /\ k.page = wanted.page \/ k.zoom = wanted.zoom
        /\ wanted' = k
    /\ pager' = "send"
    /\ UNCHANGED <<stop, open, inbox, workerVars, terminalVars>>

Quit ==
    /\ pager = "read"
    /\ pager' = "stop"
    /\ UNCHANGED <<wanted, stop, open, inbox, workerVars, terminalVars>>

\* The terminal went away: writing to it, or reading a key, failed.
Fail ==
    /\ pager \in {"wait", "draw", "prune", "ahead", "read"}
    /\ pager' = "stop"
    /\ UNCHANGED <<wanted, stop, open, inbox, workerVars, terminalVars>>

SayStop ==
    /\ pager = "stop"
    /\ stop' = TRUE
    /\ pager' = "drop"
    /\ UNCHANGED <<wanted, open, inbox, workerVars, terminalVars>>

DropSender ==
    /\ pager = "drop"
    /\ open' = FALSE
    /\ pager' = "left"
    /\ UNCHANGED <<wanted, stop, inbox, workerVars, terminalVars>>

----------------------------------------------------------------------------

WorkerStep == Receive \/ Hangup \/ Pick \/ Look \/ Render \/ Ring
PagerStep  == Send \/ Wait \/ Draw \/ Prune \/ TransmitAhead \/ SayStop \/ DropSender
UserStep   == ReadKey \/ Quit \/ Fail \/ WakeUnrung

Next == WorkerStep \/ PagerStep \/ UserStep

\* Both threads run; nobody has to press a key.
Fairness == WF_vars(WorkerStep) /\ WF_vars(PagerStep)

Spec == Init /\ [][Next]_vars /\ Fairness

----------------------------------------------------------------------------

\* When a key is read, the picture on the screen is that of the page asked
\* for, and the terminal keeps, under ids the pager knows, no pictures but
\* those near it: what a zoom, a resize or a jump left behind was deleted,
\* and what is on the screen was not (draw, prune, transmit_ahead).  The lock
\* is given up between the wait for a frame and the draw, which draws nothing
\* when the frame is gone.
ScreenShowsPage ==
    pager = "read" =>
        /\ wanted.page \notin Broken => wanted \in DOMAIN stored /\ placed = stored[wanted]
        /\ held = {stored[k] : k \in DOMAIN stored}
        /\ \A k \in DOMAIN stored : ~Far(k)

\* A pager that sleeps is woken to its frame, and a pager that leaves is
\* followed by the worker: the scope that joins the two ends
\* (wait_for, render_worker, view).
ThreadsMoveOn ==
    /\ pager = "asleep" ~> pager \in {"draw", "left"}
    /\ pager = "stop" ~> worker = "done"
============================================================================
