# Verification of pdfrum

pdfrum is a PDF library in Rust: it reads damaged files, edits and saves them,
extracts text, fills forms and renders pages.  This directory holds TLA+ models
of the parts whose state is hard to test, TLC configurations that check them on
small instances, and TLAPS proofs, for instances of any size, about the object
store and the font cache that threads share, the cross-reference table and the
chain it is read from, page lookup, the editing overlay, the calls that move
pages and the writer, the image caches, the terminal viewer, script timers and
form sessions.

Run a model with `tlc -config MCObjectStore.cfg MCObjectStore`, a proof with
`tlapm ObjectStoreProofs.tla`.

## The system

Paths are under `src/crates/`.

| component | state | operations | hard because |
|---|---|---|---|
| object store (`pdfrum-parser/store.rs`, `syntax.rs`, `objstm.rs`) | one cell per object number, the list of numbers being parsed, the decoded object streams | `get`, which parses lazily and may fetch other objects from inside the parse | threads share it; re-entrant; limits; caches |
| cross-reference table (`xref/mod.rs`) | entries by number, cached count and end, trailer | add, free, resize, merge | cached values, generations, truncation |
| chain and rebuild (`xref/chain.rs`, `classic.rs`, `stream.rs`, `rebuild.rs`, `doc.rs` `load`) | the sections visited, the table so far | follow, merge, give up, scan, check the catalog | damaged files; two orders of application; fallbacks |
| page tree (`doc.rs`) | the page count, a slot per page | count at open, look a page up | cyclic, lying and partly unreadable trees; the store refusing for a moment |
| editing overlay (`pdfrum-edit/doc.rs`) | replaced, added and removed objects over a base document | add, replace, remove, fetch | number allocation |
| writer (`pdfrum-edit/write/`) | offsets written so far | full and incremental save | objects that fail half-way, promoted `/Encrypt`, reopening |
| editing operations (`pdfrum-edit/import`, `pages`, ...) | the overlay | import, move pages, outlines, attachments, flatten | calls that look at the file and rewrite what earlier calls left |
| form session (`pdfrum-form`) | each field's state, focus, what is dirty, what is shown | routed events, commit, calculation, scripted focus | scripts that run inside commits, one session for all pages |
| edit control (`pdfrum-form/edit`) | text, caret, selection, undo stack | typing, pasting, moving, undo, redo | an undo replays places of layouts that are gone |
| script engine (`pdfrum-script`, `pdfrum-form/script`) | globals, timers | run, arm, cancel, advance the clock | scripts arm and cancel timers while timers run |
| font cache (`pdfrum-font/load.rs`) | fonts by reference | get or load | threads load one font at once |
| image caches (`pdfrum-page/image/cache.rs`, `pdfrum-render/imagecache.rs`) | entries by image and size, byte counts | look up, insert, evict | one size serves another; budgets |
| deadline and cancel (`pdfrum-common/deadline.rs`, `pdfrum-capi/cancel.rs`) | one flag, one budget | stop, passed | another thread's flag |
| GPU pool (`pdfrum-raster-vello/pool.rs`) | idle textures and buffers | acquire, release | release only after readback |
| terminal viewer (`pdfrum-cli/cmd/terminal.rs`) | frames, a bell, a request queue | render, wait, prune, stop | two threads |
| the rest: fonts, CMaps, filters, ciphers, content interpreter, rasterizers, text, Markdown, SVG, document model, bindings | none that outlives a call | pure functions of bytes and tables | arithmetic, not state |

A document is opened by the chain (or the rebuild), which fills the table.  The
store reads objects where the table says they are; the page tree, the document
model, the renderer and the editor all fetch through the store.  The store is
what a reader's threads share and write to, beside the page cache and the font
cache under their locks.  The editor holds a base document and an overlay; its
operations rewrite objects of the overlay, and the writer reads both.  A form
session holds a document, an edit control for each text field, and the timers
of its scripts.  The terminal viewer is two threads over one document.

`PROJECT.json` lists every hazard at its line; those without a property are
what the plan has left.

## Modules

| module | models | is used by |
|---|---|---|
| `ObjectStore` | `ObjectStore::get` and all it calls | `MCObjectStore`, `ObjectStoreProofs` |
| `XrefRules` | what each operation does to a table, as operators on maps from numbers to entries | `XrefMap`, `EntryTable`, `XrefChain` |
| `XrefMap` | the table as the map it was first written on: the abstract specification | `EntryTable` |
| `EntryTable` | the slot vector with its cached count and end that replaced the map | `MCEntryTable`, `EntryTableProofs` |
| `XrefChain` | opening: the chain, the rebuild, the catalog check | `MCXrefChain`, `XrefChainProofs` |
| `PageTree` | counting pages and looking one up | `MCPageTree`, `PageTreeProofs` |
| `EditDoc` | the editing overlay | `Writer` |
| `Writer` | saving an edited document, and opening what was saved | `MCWriter`, `WriterProofs` |
| `PageList` | the document's list of pages, as the page calls promise it: the abstract specification | `PageEdits` |
| `PageEdits` | adding, importing, deleting, turning and reordering pages | `MCEditing`, `PageEditsProofs` |
| `MCEditing` | a session that edits and saves objects, or one that moves pages | `WriterProofs` |
| `FormSession` | a form being filled in: routing, focus, commits, scripts | `MCForm`, `MCComponents` |
| `SmallForms` | forms of one page and of two | `MCForm`, `MCComponents` |
| `TextEdit` | the edit control of a text field and its undo stack | `MCComponents` |
| `ScriptTimers` | timers and the clock | `MCComponents` |
| `FontCache` | the document's fonts, shared by threads | `MCComponents` |
| `ImageCache` | decoded images | `MCComponents` |
| `RenderedImages` | converted and reduced images, and the two draws that use them | `MCRendered`, `MCComponents` |
| `Viewer` | the pager and the render worker of `view` | `MCComponents` |
| `MCComponents` | the parts that do not meet, one behaviour for each | `ComponentsProofs` |
| `*Proofs` | theorems | |

### ObjectStore

A thread is a stack of frames; a frame is one call of `get` and the place it
has reached.  Each lock of the code is held for one step, so an action is one
critical section or one read: `LookUp` (the cell is full?), `Claim`
(`Guard::enter`), `Recheck`, `Parse`, `Measure` (a stream's end, from
`/Length`), `OpenContainer`, `BuildContainer`, `Decode`, `Index`, `Member`,
`Publish`, and `Finish` (the guard is dropped).  A `/Length`, a `/Filter` or an
archive that is a reference pushes a frame, in the middle of the parse, as the
code re-enters `get` there.

What an object holds is reduced to how well it was read (`Values`): whole,
rescanned because its length did not answer, clipped at the nesting limit, or
null.  A file is a function from numbers to slots: where the table says the
object is, its shape, and what its length and filter refer to.  Decryption and
diagnostics change none of this.

### XrefRules, XrefMap, EntryTable

`Xref` was first a map, and is now a vector of optional entries with a count of
those present and one past the last in use.  `XrefMap` is the map; `EntryTable`
the vector, one action per operation, a merge one step per entry it folds over.
`XrefMap!Spec` is a property of the vector (`ImplementsMap`): the refinement
mapping is the vector's entries in use.  Offsets and generations come from
small sets.

### XrefChain

A file is the sequence of things a reader can find in it, and an offset is a
position.  `Start` reads the newest section, `Visit` an older one (applying a
stream, noting a table), `WalkEnds` records the sections, `ReadOldest` and
`ReadNewer` apply what was noted, `ChainEnds` decides whether it was worth it.
Any failure is `Abandon`: `ScanItem` and `ScanEnds` are the rebuild, which keeps
what the failed chain left underneath.  `CatalogCheck` is the load's two tries.
`TimeOut` is the scan's deadline.

What the load should have found is read off the file alone by operators that
share nothing with the actions (`Newest`, `Place`, `LastCopy`).

### PageTree

`Ask` takes the lock and starts a walk, `KidLoads`, `KidFails` and `Ascend` are
`visit`'s steps, `Answer` lets go.  The descent is a stack of nodes with the
next kid of each.  In a tree of `Shared`, other threads use the store: a kid that
nobody has loaded may fail now and load later, and `OtherLoads` is a thread
that has loaded one.  `CountUnder` and `PageCount` are the count made at open.

### EditDoc and Writer

`EditDoc` is the overlay: `Add`, `Replace`, `RemoveObject` and `AddInfo` are its
operations, `Fetch` what it answers.  Contents are which objects an object
refers to; a document is a sequence of objects, the table over it, and the few
facts of its trailer that a save looks at.

`Save` is the whole of `save`, which nothing interrupts, so it is one action;
its stages are operators that take and give the file and the offsets written so
far (`Written`, `WriteOne`, `WriteAll`, `Saved`).  `Reopen` starts a session over
the saved file.  How that file opens is what `XrefChain` checks, in short: the
newest section wins unless the older generation is higher (`Updated`), a scan
finds the last copies (`LastCopies`).  A key is what its dictionary and its
`/ID` derive; an object under another key reads as noise (`Garbled`).

### PageList and PageEdits

The tree is a function from object numbers to nodes, twice: as the file has it
and as the overlay leaves it.  Each action is one call: `AddBlankPage` and
`ImportPages` go through `Inserted` (`insert_into_tree`), `DeletePages` through
`Unlink`, `ReorderPages` starts from the file's leaves.  `PageList` is what they
promise: a list of pages, each with the turn it is shown in.  The mapping reads
both trees the way a reader would (`Listing`: the leaves in order, `/Rotate`
from the nearest node that has one).  `/Count` is part of the state and no
property is about it: it is wrong after some calls (below).  `PageList` lets an
added page stand anywhere, for the same reason, and makes `Reorder` start from
the file, as the code does.

### FormSession, TextEdit, ScriptTimers

A session is a record that the routing operators take and give (`TakeFocus`,
`CommitField`, `DropFocus`, `FocusField`, ...), each the function of its name in
`route.rs`, `commit.rs` and `focus.rs`; an event is one action of them, after
which `Spend` follows one scripted focus move and `Answered` ends the event.  A
script is whatever it answers: a gate passes or refuses, a calculation writes
one field of the form, and any script may ask for the focus.

`TextEdit` is one field's control: the text, three places in its layout, and
the undo stack with its cursor and boundaries.  Its layout is the lengths of its
paragraphs.  `Edited` keeps a history of what the field held before each edit,
and only the properties look at it.

`ScriptTimers` takes `advance_time` apart: `Advance` collects what is due,
`Begin` and `End` are one script, between which `Set` and `Cancel` may come.

### FontCache, ImageCache, RenderedImages

`FontCache` has one action for each hold of the lock: a thread looks (`Hit`,
`Miss`), loads under no lock, and publishes.  `ImageCache` is one user's: a
lookup may be answered by the exact size, the whole image, or any reduced one
that is large enough, in the order a hash map gives; insertion evicts by age.
`RenderedImages` has the two draws that share a cache, `DrawUpright` and
`DrawSheared`.

### Viewer

Two threads share a map of frames behind a lock with a bell, a channel, and a
word to stop.  An action is one hold of the lock, one receive, or one write to
the terminal; `Wait` is looking and falling asleep in one, as a condition
variable does, and `WakeUnrung` is its spurious waking.  What the terminal keeps
is a set of picture ids.

### MCComponents

These parts do not share state, so one behaviour is one of them and the others
stay as they began; each part has its type invariant, its properties and its
bounds.  A run over them together finds in one state space what seven would.

## Runs

| run | instance | shows |
|---|---|---|
| `store_shared` | 2 threads, 7 files of 4 objects, symmetry of threads | guards exact, each object parsed once, an answer is what the cell holds, stack bounded, lengths and containers rest on what was read whole |
| `store_solo` | 1 thread, every file of 3 objects over 19 slots | on a sound file every answer is exact; a refusal is a re-entry, and nesting is the thread's own (`RefusalsAreOwn`) |
| `store_live` | 2 threads, the two circular files, weak fairness | every fetch ends |
| `store_shared_container` | 2 threads, violation | a sound object stream is recorded as undecodable for ever |
| `xref_table` | numbers 0 to 2, 2 offsets, 2 generations | caches exact; the vector implements the map |
| `xref_load` | files of up to 3 revisions, and 14 kinds of damage to files of 2 | newest copies win, a chain is used whole or not at all, a scan finds the last copies, the trailer is the newest; weak fairness: every open ends |
| `page_tree` | every tree of 4 nodes over the shapes of `MCPageTree`, depth limit 2, at most 5 pages | each slot holds its own page or nothing, a found page stays, true counts find all, only depth poisons; in trees whose branches have one page, also beside other threads |
| `edit_save` | 6 documents, 2 edits and 2 saves in any order with reopenings, every mode and security; and 2 page trees, one flat and one of three levels, 3 calls | a saved file answers what the session answered, by its table and by a scan; entries name what was written; new numbers are free; each page call does to the list of pages what it says (`ImplementsPageList`, a refinement) |
| `edit_deep` | a list of 4 objects, nesting limit 4, violation | a full save drops what is far from the trailer |
| `components` | the seven parts of `MCComponents` | the screen shows the page asked for and the terminal keeps no stale picture; both of the viewer's threads move on; one instance of each font; no image coarser than asked for; budgets kept; timers fire once, when due; a field that was left is settled; every event is answered; undo and redo give back what was there |
| `rendered_sizes` | 2 images, upright and sheared draws, violation | an upright draw is given the pixmap of a sheared one, with a placement made for another size |
| `form_pages` | a form of two pages with one field each, violation | the second page's field is given the state of the first's |

A run that expects a violation checks one sentence the repository says of
itself; `PROJECT.json` quotes it under `findings`.  The other properties hold.

More sentences of the repository do not hold, seen while modelling and not
given a run.

- With two threads both parts of `RefusalsAreOwn`, which `store_solo` checks for
  one, fail: `Guard::enter` looks at one list for all threads,
  so a fetch beside another's is refused as a cycle (`store.rs:197` says the
  fetch re-entered one already running) and is charged the other's nesting
  (`store.rs:221`).
- A body refused for nesting is read as null, and the null is cached
  (`store.rs:26` says a fetch that fails leaves the slot empty).
- `read_chain` records the list of sections before it reads them and nothing
  clears it when the load scans after all (`xref/mod.rs:259` says the list is
  empty then).
- `read_subsection` drops free entries, so what an update's table frees keeps
  its older entry (`xref/classic.rs:55` says a free entry clears it).
- `merge_up` puts a newer table's entry over one of a newer generation
  (`xref/mod.rs:60` says it compares them).
- `node_kind` believes `/Type` before it looks at `/Kids` (`doc.rs:563` says the
  kids decide), so a node with kids that calls itself a page is counted once
  and walked as a branch.
- A document encrypted at revision 2 or 3 without an `/ID` is saved with a new
  `/ID` and under its old key (`write/id.rs:31` says the key is rebuilt), and no
  password opens the result.
- Saved incrementally from an inline `/Encrypt` over a cross-reference stream,
  the promoted `/Encrypt` and the new stream have one number
  (`trailer.rs:92` says the stream is itself in the table; it is not).
- An incremental save has no entry for an object that was removed, or replaced
  by null, and the base's is there again (`doc.rs:112` says it "is not
  written").

- The end of an older hybrid revision is given as that of the whole file
  (`xref/chain.rs:193` records its stream's offset; `document.rs:1192` says "the
  file up to here is this revision").
- Beside other threads a branch of several pages that is refused for a moment
  leaves one hole and moves the pages after it (`doc.rs:718`; `doc.rs:598` says
  a page keeps its place).  `page_tree` has such trees without other threads.
- The writer writes generation zero (`write/xref.rs:102`) and the reader lets a
  newer generation win (`xref/mod.rs:356`), so an incremental save of an edit to
  a number that was used before is lost on reopening.  The documents of
  `edit_save` have no such number.

Pages:

- `insert_into_tree` takes the place among the root's kids and sets the root's
  `/Count` to their number (`import/mod.rs:480`).  In a tree of branches a page
  lands elsewhere than `ImportOptions::at` says ("Where in the destination's
  page list"), and the count the reader believes is short.
- Deleting a page a second time decrements the counts above it again.
- `reorder_pages` works from the file: pages deleted before come back, pages
  added and turns set before are lost, against the header of `pages.rs` ("the
  writer resolves the edits together").
- An imported page without a `/Rotate` inherits the destination's.
- `copy_object` records a number before it copies an array's elements; when one
  fails, later references name an object that was not copied (`copy.rs:92`).

Forms:

- An editable combo begins with no text (`route.rs:2862`), so merely leaving it
  runs its gates (`commit.rs:82`), and a refusal leaves the rejected text in its
  edit control (`route.rs:2455`).
- The formatted display stays when a field is edited back to the file's value,
  or when a calculation writes the field that is committing; `session.rs:200`
  says it is cleared when a field takes the focus, which nothing does.
- Taking the focus closes no list (`route.rs:1515` says it does), so two can be
  open, and a row goes to a field that was left, past its gates.
- A refused click leaves the drag anchored in the field it asked for.
- A calculation that names a field of another page is written under the form's
  number of it (`route.rs:2414`), which may be another field's on this page.
- `honour_focus_requests` (`form_session.rs:1125`) has no bound, against
  `route.rs:324`.
- A timer that an earlier script of the same `advance_time` cancelled runs all
  the same (a test pins it, `tests.rs:1834`).
- `set_field_text` (`route.rs:2455`) does not lay its text out, so after a
  keystroke hook has rewritten a key the caret and the layout are stale: two
  such keys come out reversed, and an undo may undo nothing.
- A paste with breaks into a field of one line keeps them in the text and not in
  the layout (`ops.rs:225` says it normalises them), so a deletion and its undo
  may not give back the text.
- Shift and an arrow move the caret and extend no selection (`route.rs:1109`).

### Why the bounds are enough

*Store.* The four-object files contain each way the code re-enters `get`
(length, filter, archive), in a row, in a circle and through a member of the
stream being read; two threads are enough for each pairing of a guard, a cell
and a container.  `store_solo` replaces the choice of files by all of them.
*Table.* Three numbers give a table an entry in the middle, at the end, and
past the end after a truncation; an object stream, its member and a third.
*Chain.* Two revisions show newest and oldest, three a section that is
neither, which is the only one both verified late and merged late.
*Pages.* Four nodes hold a loop to the root, a loop to a branch, a shared page,
a shared branch and a tree one too deep; `MaxPages` is above every count except
those that are meant to reach it.
*Editing.* Two edits and two saves give an edit before the first save and one
after it was reopened, or two that meet in one number; the documents have a
number in no section, an entry that names the wrong object, two copies of one
object, and each way a document is encrypted.  A save is bounded to documents
that leave it two numbers to take.  *Page calls.* Three calls are one to move
or delete, one to meet what it left, one after both; of the two trees the flat
one turns pages at the root and the other in branches, one branch under the
other, so that a page taken out of its branch can lose a turn.
*Form.* `MaxMoves` is 2 for the code's 8: two moves are enough for a script that
follows a move to ask for the next.  Each form pairs two kinds of field, and a
page is needed once, as `form_pages` shows.
*Edit control.* `MaxItems` 4 is the code's least capacity, one replacement, so
that every further edit drops the oldest group; texts of up to 3 over a limit of
2 let a field be fuller than it may be.  With three edits and five items it was
checked once, too long to keep.
*Timers.* Three timers give one that runs, one that is due after it and one that
it arms; a step of 3 passes intervals of 1 and 2 more than once.
*Fonts.* Three threads: two that load at once and one that looks later.
*Images.* Three images of widths 2, 6 and 10 under 9 bytes: one is over the
budget alone, the others fit together and with nothing more.
*Viewer.* Four pages are more than are near any one; `KeepFrames` is 3 for the
code's 8, so that frames are forgotten, and two zooms make every picture stale
at once.

Bounds are constants: `MaxNesting`, `MaxPages`, `MaxDepth` and `MaxInlineDepth`
are the code's own limits; `MaxNumber`, `Offsets`, `Indexes`, `Generations`,
`MaxRevisions`, `MaxEdits`, `MaxSaves`, `MaxCalls`, `MaxTimers`, `MaxTime`,
`MaxFonts`, `MaxTick`, `MaxQueue` and `MaxPictures` are only the models'.
`MaxEntries`, `MaxBytes`, `Budget`, `KeepFrames`, `AheadLimit`, `MaxItems`, `MaxLen`
and `MaxMoves` stand for the code's own at small values.

### Fairness

`store_live` assumes each thread that is in a fetch goes on (`WF` of its own
steps): the code has no wait but for short locks.  It assumes nothing of who
calls `get`.  `xref_load` assumes the one thread that opens the document
runs.  `components` assumes that the viewer's worker runs, and that the pager
does while it is in its own code: nobody has to press a key.  It assumes that
the loop of `apply` in a form session, which is a call, goes on.  The other runs
need no fairness.

Deadlock is checked where the system cannot stop (the store, the table).  It is
off where it may: an open ends, and a document whose pages have all been found
or whose tree is too deep has nothing left to walk, saves, edits and calls are
bounded, and the viewer is left.

## Proofs

`ObjectStoreProofs` proves, for any set of threads, any finite set of objects,
any files over them and any nesting limit:

| theorem | says |
|---|---|
| `TypeCorrect` | the state keeps its shape |
| `GuardsCorrect` | the list of numbers being parsed is exactly the guards of the frames, and no two frames guard one number |
| `ParsedOnceCorrect` | a parse past its second look is of a cell that is still empty |
| `AnswersCorrect` | the answer of a fetch is what the cell holds |
| `StackCorrect` | no thread nests deeper than one past the number of objects |
| `LengthCorrect` | a stream read whole had its length from an integer that was read whole |
| `ContainerCorrect` | a container in use was decoded from a flagged archive that was read whole |
| `RefusalsCorrect` | one thread alone is refused only for its own cycle or its own depth |
| `SoundFileCorrect` | one thread alone reads every object of a sound file whole |

None of these is inductive alone.  The invariant of the first five is
`StoreInv == TypeInv /\ GuardsInv /\ SlotsInv`:

- `TypeInv` is `TypeOK`, and that every frame below the top of a stack waits for
  a fetch (and so holds a guard) while a frame that works on a packed object
  has an archive.  Without it the top frame's step could not be told apart from
  one below it.
- `GuardsInv` is `GuardsExact`, as the frames themselves state it.  It needs
  `TypeInv`: a push must leave a guarded frame behind, and a pop must take the
  one guard that goes.
- `SlotsInv` says of each guarded frame what its cell may be at its step.  It
  needs `GuardsInv`: only the one frame that guards a number can fill its cell,
  so no other thread invalidates what a frame has seen.

`TypeStep`, `GuardsStep` and `SlotsStep` have one step per action.  The stack
bound follows from `StoreInv` by counting: a stack's frames but the top one
guard distinct objects.

`ReadInv` adds `ChainInv`, that each frame fetches what the frame below it waits
for and that the answer left for it is what the object's cell holds, and
`BackedInv`, which says of every frame what it may rest on at its step: one about
to publish a stream on a length that was read whole, one about to record a
container on an archive that was, and on its filter.  A frame learns this from
the answer of the frame above it, so the two are carried together.

For one thread alone, `NestInv` says that the nesting a frame was charged is its
place in the stack, and `CycleStep` that what the list of guards refuses is one of
the thread's own frames.  A sound file's references go down a rank
(`SoundRanked`), so no fetch comes back to an object it is reading
(`DescentInv`), and no step falls to anything but "whole" (`SoundInv`).

The assumptions are `StoreAssumption`: objects are finitely many, the stray
number and the missing reference are none of them, files are well formed, and
the limit is positive.  `RefusalsCorrect` and `SoundFileCorrect` assume
`OneThread`, without which they are false (the first of the sentences above that
do not hold), and the second `RoomyNesting`, that the limit is
above the number of objects: a file that nests as deep as the limit is clipped,
as the code means it to be.

`EntryTableProofs` proves, for any largest number, any offsets, indexes,
generations and tables to merge:

| theorem | says |
|---|---|
| `TableTypeCorrect` | the state keeps its shape |
| `CachesCorrect` | the cached count and end are what a scan would find |
| `VectorImplementsMap` | `Spec => ImplementsMap`: every operation on the vector is that operation on the map, and all of `merge_up`'s loop is one step of it |

The inductive invariant is `Inv == Good(Table) /\ todo \in Tables`.  `Good`
restates `CachesExact` without `CHOOSE`: `IsEnd(s, k)` says that `k` bounds the
numbers in use and is one of them, or zero.  `EndUnique` and `EndExists` tie it
to `LastInUse`; existence is the well-foundedness of the naturals, cited from
the library.  Each operation of `EntryTable` has a lemma that it keeps a vector
good and says which slots are in use after it (`PutGood`, `MaterializedGood`,
`TruncateGood`, `FlagGood`), and another that it does to the map `As(t)` of a
vector what the rule of `XrefRules` says (`AsPut`, `AsMaterialized`,
`AsTruncated`, `AsFlagged`); `InvNext` and `StepRefines` put them together,
action by action.  The refinement mapping `Described` takes a running merge as
done, so beginning one is the map's step; `MergeOne` shows that each turn of the
loop leaves what is described alone.  The assumptions are `RulesAssumption`
(zero is an offset, an index and a generation) and `TableAssumption` (an empty
slot is no entry).

`XrefChainProofs` proves, for any files:

| theorem | says |
|---|---|
| `ChainTypeCorrect` | the state keeps its shape |
| `WholeChainCorrect` | a document opened without a scan was opened from its whole chain |
| `TrailerCorrect` | its trailer is the newest section's |
| `RebuildCorrect` | a document opened by a scan answers every object with its last copy |
| `NewestCorrect` | one opened from its chain answers every number as the newest section to mention it says |

The first two assume nothing of the files but their shape; the others say what
they ask of a file by operators of `XrefChain`, which `MCXrefChain` has TLC
evaluate on every file it considers.

No step changes the file, so what is read off it is restated as functions of a
file (`ItemOf`, `PrevIn`, `HybridIn`), equal before and after a step.  `WalkInv`
says that the list of sections is linked from the newest one to where the walk
is, and once it is read, how far (`Walked`, `Loaded`).  `Chain` is a recursive
function, and a definition by recursion is a choice: that it exists is shown by
a witness, the walk's own list (`ChainFollows`, `FollowsOnce`, `ChainIsWalked`);
that the walk fits in the chain's length is the pigeonhole principle, for the
walk visits no position twice (`WalkedFits`).  `TrailerInv` says whose `/Root` the
trailer names while sections and items are merged into it, and needs
`RootsNamed`: every trailer of the file names a catalog.  Where one does not,
an older section's is used, by the code's own rule.  `TypeInv` is carried through
the folds that apply a section's entries, by a lemma for each operation of
`XrefRules` (`NormalTables` ... `StreamEntryTables`) and one for the fold
(`FoldedTables`).

`RebuildCorrect` assumes `CopiesInOrder`: a later copy of an object has no older
generation than an earlier one, an object that is ever packed has generation
zero and packs nothing, and the number of an object stream is no other's.
Without it the table's rules, by which a newer generation or a known object
stream stays, let an earlier copy win, as they are meant to.  The invariant is
`Held(f, k, t)`, what a scan that has come to item `k` knows: each object's last
copy so far, by an entry that leads to it, and only object streams flagged.
`AnswersLast` says that this is so after the scan's table went over whatever a
failed chain had left (`Answers`): an entry below can hide none above it.

`NewestCorrect` assumes `Incremental` of the files of `Sound`: a section points
back, its `/Size` counts every number so far, generations do not decrease, and
what a section says is true of the file.  The walk applies the streams from the
newest to the oldest, and what it leaves is wrong until `ReadNewer` reads them
again.  So the invariant has two sets of sections.  `Good(f, C, S, m)` says that
nothing is in table `m` but what a section of `C`, the chain so far, says
(`From`); and that what a section of `S` says is in it if no newer section of `C`
speaks of that number (`Right`).  While the walk goes down `C` grows and `S` is
begun again at the section reached; while it comes back up `S` grows to `C`.
`GoodSection` is the heart: a section no older than those of `S` may be applied,
since whatever it finds in its way is the word of some section of `C`, of no
newer generation.  It rests on `Laid`, what a section's entries leave of a table
in whatever order they are applied (`TableLaid`, `StreamLaid`): every one of them
is there or was declined for a newer generation.  `NewestWord` reads the same
words off the properties' own `Newest`.

`ComponentsProofs` proves the parts that stand beside each other in
`MCComponents`, where their constants and variables have their names, and then
carries each theorem over to the composition (`...Beside`), since a step of
another part leaves a part's variables as they are.

| theorem | says | invariant | assumes |
|---|---|---|---|
| `ScreenCorrect`, `ScreenBeside` | the screen shows the page asked for, no stale picture is kept | `PicturesInv`, `DrawnInv`, `ServeInv` | `ViewLimits` |
| `FontTypeCorrect`, `OneInstanceCorrect`, `OneInstanceBeside` | all threads get one instance of a font | `AnswersHeld` | |
| `ImagesCorrect`, `NeverCoarserBeside` | an image drawn covers what was asked for; the account of bytes is exact and within both limits | `UsesInv`, `DecodedInv` | `DecodedLimits` |
| `RenderedCorrect`, `BudgetsBeside` | the account of rendered images is exact, over budget only for one alone | `RenderedInv` | `RenderedLimits` |
| `TimerTypeCorrect`, `FiresCorrect`, `FiresBeside` | a call to the clock runs what was due, once | `TypeOK` with it | `TimerLimits` |
| `LeftFieldCorrect`, `LeftFieldBeside` | a text field that was left is settled | `Good` | `OnePageForms`, `NoneAssumption` |

The viewer's property is about the moment a key is read, and what makes it true
happens steps before: `DrawnInv` says at which step the picture is the page's and
from which on nothing far is kept, `PicturesInv` that the terminal keeps exactly
what the pager believes, each under an id of its own.  What was answered for a
font says nothing of the next answer, so the invariant is `AnswersHeld`: what was
answered is what the cache holds, and `Publish` changes no entry that is there.
An eviction loop ends because the entries' times of use are distinct
(`UsesInv`), so the oldest are one after another; that the byte count is right
after it is a lemma about sums (`EvictedLeaves`).  The `Limits` say that sizes,
widths and delays are numbers, and widths not zero where they divide.

`WriterProofs` proves, for any documents, drafts, edits and number of saves:

| theorem | says | assumes |
|---|---|---|
| `WriterTypeCorrect` | the overlay keeps its shape, and what was saved is a document | |
| `FreshCorrect` | the numbers that additions get are free | |
| `PromiseCorrect` | every entry a save wrote names its object | |
| `ReopenCorrect` | a saved document answers what the session answered | `RoomyDocuments` |
| `ScanCorrect` | a scan of it finds the same | `RoomyDocuments` |

`DocumentsAssumption` asks of a document only the shape an opened file has
(`IsDocument`): entries may name nothing or another object, and the table need
not agree with a scan.  `SessionInv` is the invariant of the first three: a
session can be opened into whatever was saved, so a save must write a document
again (`SavedDocument`), which goes through its stages one by one: `Written`,
`WriteAll` (the recursion is shown to have a value by `StepsExist`), and the
file with the `/Encrypt` and the section after it (`Put`, `OutIs`, `FileIs`).
`SavedAnswersFor` then says of one number what is answered for it: it was
written, or left out, or is still the base's.

`ViewInv` adds to it that both documents are `Firm`: the key is the one that the
trailer's `/ID` derives, nothing was ever at a generation but zero, and the table
finds last copies.  `RoomyDocuments` says so of the first document only;
`KeyedSaved`, `FirstGenerationSaved` and `NamesLastSaved` show that every save
keeps it.  Without the first part, and without half the nesting limit being above
every object number, `ReopenSeesSession` is false (the sentence on an `/ID` above
does not hold, and `edit_deep` shows the other); the newer generation is a hazard
no property covers.
What the trailer reaches is defined by recursion, so that nothing of it changes
in a save is not a matter of substitution: `WithinIs` says which functions
compute it, and holds after a step as well as before (`SameView`).
`MCEditing` has TLC check `RoomyDocuments` of the documents it runs.

`WriterProofs` is about `MCEditing`, where a session's edits and the page calls
stand beside each other, and carries `EditsImplementPageList` over to it:
`EditingTypeCorrect` and `PageListBeside`.

`PageEditsProofs` proves, for any file, any calls and any number of them:

| theorem | says | assumes |
|---|---|---|
| `TreeKeepsShape` | the overlay's page tree stays one | `PageTreeFiles` |
| `EditsImplementPageList` | each call does to the list of pages what `PageList` says | `PageTreeFiles` |

`PageTreeFiles` says that the file's page tree is a tree of finitely many nodes,
each naming the node that lists it as its parent; TLC checks it of the files of
`MCEditing` (`FilesHavePageTrees`), and `MaxCalls` is to be a number.  The tree
of the overlay is worse than the file's, for the calls repair less than they
move: a page that was unlinked still names its old parent, a branch may have lost
all its kids, a page of another branch hangs at the root.  What holds is that the
branches are the file's, that every page names some branch, and `Reach`: a node
to which the root leads names the one that lists it.  From it
follows that unlinking by the parent a page names takes the page out of the
list, and nothing else (`Unlink`), that the turn a page inherits changes only
where a call says so, and that nodes above a page end at the root.  The walk that
decrements the counts above a page is bounded by 64 steps in the code and not in
the model; only `/Count` is different, which no property is about.

`PageTreeProofs` proves, for any trees of finitely many nodes, loops and shared
nodes among them, and any limits:

| theorem | says | assumes |
|---|---|---|
| `PageTypeCorrect` | the cache and the walk keep their shape | |
| `OnlyDepthCorrect` | lookups end for good only in a tree too deep | |
| `TrueCountCorrect` | where nothing else reads and the count is true, an index gives its page | |
| `RightPageCorrect` | a slot holds its own page or nothing | `OnePageBranches` |
| `PageStaysCorrect` | a page that was given out stays | `OnePageBranches` |

`ChainInv` is about the descent: its nodes are kids of one another, each the one
taken last, none of them twice.  A node too deep at the end of one is then a
chain of `TooDeep`, which proves `OnlyDepthCorrect`.

The others say where the walk is in the list of pages, which is defined by
recursion over nodes and those above them.  `Lists(f, t, D)` says that `f`
computes that list with nodes `D` deep left out; `PagesListed` that the
properties' own definition is one such function (it is a choice, so a function
must be shown to exist: `RecursionExists`, by a rank, here the nodes not yet
above), and `ListsExist` that there is one for every depth.  In a tree that is not too deep
`Limit` takes all nodes for the depth, in any other the walk's own limit, so that
`PageStaysCorrect` covers both.  `Laid` says that a node's list is its kids' lists
end to end, and `Placed` where each node of the descent, and each of its kids, begins in the
whole list.  A kid passed, descended into or left keeps the walk `Placed`
(`PlacedMoves`, `PlacedGrows`, `PlacedShrinks`).  `WalkInv` is `PlacedAt`, that the
next slot is where the walk is; `RightAt`, that a filled slot has what is listed
there; and `FilledAt`, that in a tree nothing else reads the slots passed have
all of it, holes included.  It has one lemma per action.

`OnePageBranches` is about the trees of `Shared` only and holds when there are none;
where others read, a branch of several pages that is refused for a moment moves
the pages after it (a sentence above that does not hold), so there it is needed.
`MCPageTree` has TLC check it of its trees.

Of form sessions `ComponentsProofs` proves `LeftFieldCorrect`, that a text field that
was left is settled, for every form of one page with any fields and texts, and whatever
its scripts answer.  `Good` says of a session, field by field, that it is marked
if its text is not the file's, and if it does not have the focus, has nothing to
undo and a text that was let through.  Each routing operator is shown to keep
`Good` of any session it is given, by a lemma of its own, and an event is a few
of them applied in turn; `InvStep` goes through the actions.  The assumption
that a form has one page (`OnePageForms`) is needed: two pages share the states
of their fields, which is what `form_pages` shows.  `NoneAssumption` says that
no focus is not a focus.

`FoldProofs` holds what these need and the library does not give: induction over
a finite set, stated with a set of subsets and not with an operator
(`SetInduction`, from the well-foundedness of strict inclusion), the least of a
set of numbers and the greatest (`LeastNatural`, `LargestNatural`), that a fold
over a set, a function made step by step and one made by recursion on a rank
exist (`FoldExists`, `StepsExist`, `RecursionExists`), and
sums over a set: their type, and what adding, changing and taking out an element
does (`AdderAdds`, `SumTake`, `SumSame`, `SumParts`).

Only model-checked: the edit control, `UndoRetraces` and its part of `PartsTypeOK`.
Liveness under fairness (`FetchesEnd`, `LoadEnds`, `ViewerMovesOn`, `EventsAnswered`)
and `ENABLED` are out of the prover's reach, and so are the library's induction
theorems, whose parameter is an operator; induction is done with sets instead,
as above, where a proof needs it.

## Not modelled, and why

Codecs, ciphers, fonts, CMaps, the content interpreter, rasterizers, text and
Markdown extraction and the document model compute on data and keep no state
between calls; a model would be the code again.  They are most of the
repository's lines, tables of constants among them.  The GPU pool is lists of
idle resources owned by one target, and what goes wrong with it is what the
driver still uses, outside the program.  A deadline or a cancelled render is one
flag that is only ever set.  The command line, the RPC server, the C and the
WebAssembly interfaces pass calls on.

Within the modelled parts: tokens and bytes (a section, an object or a trailer
is read or cannot be), the search for the header, passwords and decryption,
diagnostics, inherited page attributes but `/Rotate`, font subsetting on save,
`keep_original = false`, and the counts of references that `reach.rs` keeps for
the content generator.  What an import copies, the repair of a catalog, outlines,
attachments, annotations and flattening.  In forms: hover, scrolling, list
boxes, radio siblings, border styles, read-only fields, and a second widget of
a field; a format script answers by the value alone.  In the edit control:
wrapping, widths, comb fields, pastes with breaks into one line, keys a script
rewrites.  Of the image caches: one axis stands for two, and ink and transfer
function are no part of a key.  Delays below zero.  In the viewer: a render that
panics, the search prompt, terminals that keep no pictures.

## Plan

1. `ObjectStore`, `XrefRules`, `XrefMap`, `EntryTable`: checked and proved.
2. `XrefChain`: checked and proved.
3. `FormSession`, `FontCache`, `ScriptTimers`, `Viewer`, `ImageCache`,
   `RenderedImages`: checked and proved.
4. `EditDoc`, `Writer`: checked and proved.
5. `PageTree`: checked and proved.
6. `TextEdit`: checked.
7. `PageEdits`: checked and proved to implement `PageList`.  To model: what an
   import copies and renumbers.
8. An abstract store, a map that is filled once, and `ObjectStore` shown to
   implement it by proof.
