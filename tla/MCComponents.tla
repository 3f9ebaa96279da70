---------------------------- MODULE MCComponents ----------------------------
(***************************************************************************)
(* The parts that do not meet, checked in one run: a behaviour is one of   *)
(* the viewer, the font cache, the image cache, the rendered images, the   *)
(* timers, the form or a text field's edit control, and the others stay as *)
(* they began.                                                             *)
(***************************************************************************)
EXTENDS FormSession, Functions, TLC

CONSTANTS Count, Zooms, Screens, Broken, KeepFrames, AheadLimit, MaxQueue,
          MaxPictures, NoPicture,
          Threads, Refs, Unloadable, MaxFonts, NoFont,
          Images, Wide, Devices, MaxEntries, MaxBytes, MaxTick,
          Covered, Shears, Budget,
          Intervals, Steps, MaxTimers, MaxTime,
          filled,
          letter, Break, Letters, Pastes, FileTexts, MaxLen, MaxItems, MaxEdits

VARIABLES part,
          wanted, frames, stop, open, inbox, batch, worker, pager,
          stored, nextId, placed, held,
          loaded, fontId, asks, copy, at, answers,
          decoded, tick, decodedBytes, image,
          rendered, renderedBytes, upright,
          armed, elapsed, lastId, failNext, ready, running, silenced,
          edit, trail, now, edits

MCWide      == (CHOOSE f \in [Images -> {6, 10, 2}] : IsInjective(f))
Small       == INSTANCE SmallForms WITH a <- filled
OnePage     == Small!OnePage
MCValues    == {Empty, filled}
MCPastes    == {<<letter, Break>>}
MCFileTexts == {<<>>, <<letter, letter, Break>>}

View     == INSTANCE Viewer
Font     == INSTANCE FontCache WITH nextId <- fontId
Decoded  == INSTANCE ImageCache WITH entries <- decoded, bytes <- decodedBytes, drawn <- image
Rendered == INSTANCE RenderedImages WITH entries <- rendered, bytes <- renderedBytes, drawn <- upright
Timers   == INSTANCE ScriptTimers
Text     == INSTANCE TextEdit

fontVars     == <<loaded, fontId, asks, copy, at, answers>>
decodedVars  == <<decoded, tick, decodedBytes, image>>
renderedVars == <<rendered, renderedBytes, upright>>
timerVars    == <<armed, elapsed, lastId, failNext, ready, running, silenced>>
viewVars     == <<wanted, frames, stop, open, inbox, batch, worker, pager,
                  stored, nextId, placed, held>>
textVars     == <<edit, trail, now, edits>>
allVars      == <<part, viewVars, fontVars, decodedVars, renderedVars, timerVars, vars, textVars>>

Parts == {"viewer", "font", "decoded", "rendered", "timers", "form", "text"}

\* A part that is not looked at begins in one way.
MCInit ==
    /\ part \in Parts
    /\ Init /\ (part = "form" \/ form = CHOOSE f \in Forms : TRUE)
    /\ View!Init /\ (part = "viewer" \/ wanted = CHOOSE k \in View!Key : TRUE)
    /\ Font!Init /\ (part = "font" \/ asks = CHOOSE f \in [Threads -> Refs] : TRUE)
    /\ Decoded!Init /\ (part = "decoded" \/ image.image = CHOOSE i \in Images : TRUE)
    /\ Rendered!Init
    /\ Timers!Init
    /\ Text!Init /\ (part = "text" \/ edit.text = <<>>)

Viewing(A) ==
    /\ part = "viewer" /\ A
    /\ UNCHANGED <<part, fontVars, decodedVars, renderedVars, timerVars, vars, textVars>>

Filling(A) ==
    /\ part = "form" /\ A
    /\ UNCHANGED <<part, viewVars, fontVars, decodedVars, renderedVars, timerVars, textVars>>

MCNext ==
    \/ Viewing(View!Next)
    \/ Filling(Next)
    \/ /\ part = "font" /\ Font!Next
       /\ UNCHANGED <<part, viewVars, decodedVars, renderedVars, timerVars, vars, textVars>>
    \/ /\ part = "decoded" /\ Decoded!Next
       /\ UNCHANGED <<part, viewVars, fontVars, renderedVars, timerVars, vars, textVars>>
    \/ /\ part = "rendered" /\ Rendered!Next
       /\ UNCHANGED <<part, viewVars, fontVars, decodedVars, timerVars, vars, textVars>>
    \/ /\ part = "timers" /\ Timers!Next
       /\ UNCHANGED <<part, viewVars, fontVars, decodedVars, renderedVars, vars, textVars>>
    \/ /\ part = "text" /\ Text!Next
       /\ UNCHANGED <<part, viewVars, fontVars, decodedVars, renderedVars, timerVars, vars>>

\* The fairness of the viewer's threads and of the form's event loop.
MCFairness ==
    /\ WF_allVars(Viewing(View!WorkerStep)) /\ WF_allVars(Viewing(View!PagerStep))
    /\ WF_allVars(Filling(Spend)) /\ WF_allVars(Filling(Answered))

MCSpec == MCInit /\ [][MCNext]_allVars /\ MCFairness

----------------------------------------------------------------------------

\* The type invariant of each part.
PartsTypeOK ==
    /\ TypeOK /\ Font!TypeOK /\ Decoded!TypeOK /\ Rendered!TypeOK
    /\ Timers!TypeOK /\ View!TypeOK /\ Text!TypeOK

\* Every thread that asked for a font was answered the same one.
OneInstance == Font!OneInstance

\* No image is drawn from fewer samples than it was asked for.
NeverCoarser == Decoded!NeverCoarser

\* Both image caches count their bytes exactly and keep to their budgets.
BudgetsKept == Decoded!BudgetKept /\ Rendered!BudgetHeld

\* A call to the clock runs what was due when it was made, once.
FiresOnceWhenDue == Timers!FiresOnceWhenDue

\* An undo and a redo give back what the field held.
UndoRetraces == Text!UndoRetraces

\* The picture on the screen is the page's, and the terminal keeps no other.
ScreenShowsPage == View!ScreenShowsPage

\* A sleeping pager is woken, and a pager that leaves is followed.
ViewerMovesOn == part = "viewer" => View!ThreadsMoveOn
============================================================================
