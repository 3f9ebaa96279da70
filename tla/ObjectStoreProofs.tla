------------------------- MODULE ObjectStoreProofs -------------------------
(***************************************************************************)
(* What holds of the object store for any number of threads, any finite    *)
(* set of objects and any files: its types, the exactness of its guards,   *)
(* that each object is parsed once, the bound on nested fetches, and what  *)
(* an object that counts as read whole rests on.  Then what holds when one *)
(* thread reads: why a fetch is refused, and that a file without defects   *)
(* is read whole.                                                          *)
(***************************************************************************)
EXTENDS ObjectStore, FiniteSetTheorems, FunctionTheorems, SequenceTheorems, TLAPS

PackedSteps == {"container", "archive", "filter", "index", "member"}

\* Only the innermost fetch of a thread moves; a fetch past LookUp is of an
\* object in the table, and one of a member is of a packed object.
FramesInv ==
    \A t \in Threads : \A i \in 1..Len(stack[t]) :
       LET f == stack[t][i] IN
       /\ i < Len(stack[t]) => f.at \in Waiting
       /\ f.at # "lookup" => f.num \in Objects
       /\ f.at \in PackedSteps => file[f.num].where = "packed"
       /\ f.at = "publish" => f.val \in Values

TypeInv == TypeOK /\ FramesInv

----------------------------------------------------------------------------
(* The three ways a step changes a thread's stack. *)

LEMMA TopTyped ==
    ASSUME TypeOK, NEW t \in Threads, Active(t)
    PROVE  /\ Len(stack[t]) \in Nat \ {0}
           /\ Len(stack[t]) \in 1..Len(stack[t])
           /\ Top(t) \in Frame
           /\ stack[t] \in Seq(Frame)
<1>1. stack[t] \in Seq(Frame) /\ stack[t] # <<>>
  BY DEF TypeOK, Active
<1>2. Len(stack[t]) \in Nat \ {0}
  BY <1>1, EmptySeq
<1>3. stack[t][Len(stack[t])] \in Frame
  BY <1>1, <1>2, ElementOfSeq
<1> QED
  BY <1>1, <1>2, <1>3 DEF Top

LEMMA BecomeStep ==
    ASSUME TypeOK, NEW t \in Threads, Active(t), NEW f \in Frame, Become(t, f)
    PROVE  /\ stack' \in [Threads -> Seq(Frame)]
           /\ Len(stack'[t]) = Len(stack[t])
           /\ stack'[t][Len(stack[t])] = f
           /\ \A i \in 1..Len(stack[t]) :
                 i # Len(stack[t]) => stack'[t][i] = stack[t][i]
           /\ \A u \in Threads : u # t => stack'[u] = stack[u]
<1>1. /\ Len(stack[t]) \in 1..Len(stack[t])
      /\ stack[t] \in Seq(Frame)
  BY TopTyped
<1>2. stack' = [stack EXCEPT ![t] = [stack[t] EXCEPT ![Len(stack[t])] = f]]
  BY DEF Become, TypeOK
<1>3. /\ [stack[t] EXCEPT ![Len(stack[t])] = f] \in Seq(Frame)
      /\ Len([stack[t] EXCEPT ![Len(stack[t])] = f]) = Len(stack[t])
      /\ \A j \in 1..Len(stack[t]) :
            [stack[t] EXCEPT ![Len(stack[t])] = f][j]
              = IF j = Len(stack[t]) THEN f ELSE stack[t][j]
  BY <1>1, ExceptSeq
<1> QED
  BY <1>1, <1>2, <1>3 DEF TypeOK

LEMMA CallStep ==
    ASSUME TypeOK, NEW t \in Threads, Active(t), NEW f \in Frame,
           NEW n \in Objects \union {Stray}, Call(t, f, n)
    PROVE  /\ stack' \in [Threads -> Seq(Frame)]
           /\ Len(stack'[t]) = Len(stack[t]) + 1
           /\ stack'[t][Len(stack[t]) + 1] = NewFrame(n)
           /\ stack'[t][Len(stack[t])] = f
           /\ \A i \in 1..Len(stack[t]) :
                 i # Len(stack[t]) => stack'[t][i] = stack[t][i]
           /\ \A u \in Threads : u # t => stack'[u] = stack[u]
<1> DEFINE s == [stack[t] EXCEPT ![Len(stack[t])] = f]
<1>1. /\ Len(stack[t]) \in 1..Len(stack[t])
      /\ stack[t] \in Seq(Frame)
  BY TopTyped
<1>2. /\ s \in Seq(Frame)
      /\ Len(s) = Len(stack[t])
      /\ \A j \in 1..Len(stack[t]) :
            s[j] = IF j = Len(stack[t]) THEN f ELSE stack[t][j]
  BY <1>1, ExceptSeq
<1>3. NewFrame(n) \in Frame
  BY DEF NewFrame, Frame, Unclaimed, Answers, Boxes
<1>4. stack' = [stack EXCEPT ![t] = Append(s, NewFrame(n))]
  BY DEF Call
<1> HIDE DEF s
<1>5. /\ Append(s, NewFrame(n)) \in Seq(Frame)
      /\ Len(Append(s, NewFrame(n))) = Len(s) + 1
      /\ \A i \in 1..Len(s) : Append(s, NewFrame(n))[i] = s[i]
      /\ Append(s, NewFrame(n))[Len(s) + 1] = NewFrame(n)
  BY <1>2, <1>3, AppendProperties
<1> QED
  BY <1>1, <1>2, <1>4, <1>5 DEF TypeOK

LEMMA ReturnStep ==
    ASSUME TypeOK, NEW t \in Threads, Active(t), NEW r, Return(t, r)
    PROVE  /\ stack' \in [Threads -> Seq(Frame)]
           /\ Len(stack'[t]) = Len(stack[t]) - 1
           /\ \A i \in 1..(Len(stack[t]) - 1) : stack'[t][i] = stack[t][i]
           /\ \A u \in Threads : u # t => stack'[u] = stack[u]
<1> DEFINE s == SubSeq(stack[t], 1, Len(stack[t]) - 1)
<1>1. /\ Len(stack[t]) \in Nat \ {0}
      /\ stack[t] \in Seq(Frame)
  BY TopTyped
<1>2. \A i \in 1..(Len(stack[t]) - 1) : stack[t][i] \in Frame
  BY <1>1, ElementOfSeq
<1>3. /\ s \in Seq(Frame)
      /\ Len(s) = Len(stack[t]) - 1
      /\ \A i \in 1..(Len(stack[t]) - 1) : s[i] = stack[t][i]
  BY <1>1, <1>2, SubSeqProperties
<1>4. stack' = [stack EXCEPT ![t] = s]
  BY DEF Return
<1> HIDE DEF s
<1> QED
  BY <1>1, <1>3, <1>4 DEF TypeOK

----------------------------------------------------------------------------
(* Types. *)

LEMMA InitType == Init => TypeInv
<1> SUFFICES ASSUME Init PROVE TypeInv
  OBVIOUS
<1>1. TypeOK
  BY EmptySeq DEF Init, TypeOK, Boxes, Answers
<1>2. FramesInv
  BY EmptySeq DEF Init, FramesInv
<1> QED
  BY <1>1, <1>2 DEF TypeInv

\* What a move of the innermost frame must respect to keep the frames in shape.
LEMMA BecomeFrames ==
    ASSUME TypeInv, NEW t \in Threads, Active(t), NEW f \in Frame, Become(t, f),
           file' = file,
           f.at # "lookup" => f.num \in Objects,
           f.at \in PackedSteps => file[f.num].where = "packed",
           f.at = "publish" => f.val \in Values
    PROVE  stack' \in [Threads -> Seq(Frame)] /\ FramesInv'
<1>1. TypeOK /\ FramesInv
  BY DEF TypeInv
<1>2. Len(stack[t]) \in 1..Len(stack[t]) /\ Len(stack[t]) \in Nat
  BY <1>1, TopTyped
<1>3. FramesInv'
  <2> SUFFICES ASSUME NEW u \in Threads, NEW i \in 1..Len(stack'[u])
               PROVE  /\ i < Len(stack'[u]) => stack'[u][i].at \in Waiting
                      /\ stack'[u][i].at # "lookup" => stack'[u][i].num \in Objects
                      /\ stack'[u][i].at \in PackedSteps
                            => file'[stack'[u][i].num].where = "packed"
                      /\ stack'[u][i].at = "publish" => stack'[u][i].val \in Values
    BY DEF FramesInv
  <2>1. CASE u # t
    BY <1>1, <2>1, BecomeStep DEF FramesInv
  <2>2. CASE u = t /\ i = Len(stack[t])
    BY <1>1, <1>2, <2>2, BecomeStep
  <2>3. CASE u = t /\ i # Len(stack[t])
    BY <1>1, <1>2, <2>3, BecomeStep DEF FramesInv
  <2> QED
    BY <2>1, <2>2, <2>3
<1> QED
  BY <1>1, <1>3, BecomeStep

LEMMA CallFrames ==
    ASSUME TypeInv, NEW t \in Threads, Active(t), NEW f \in Frame,
           NEW n \in Objects \union {Stray}, Call(t, f, n),
           file' = file, f.at \in Waiting, f.num \in Objects,
           f.at \in PackedSteps => file[f.num].where = "packed"
    PROVE  stack' \in [Threads -> Seq(Frame)] /\ FramesInv'
<1>1. TypeOK /\ FramesInv
  BY DEF TypeInv
<1>2. Len(stack[t]) \in 1..Len(stack[t]) /\ Len(stack[t]) \in Nat
  BY <1>1, TopTyped
<1>3. FramesInv'
  <2> SUFFICES ASSUME NEW u \in Threads, NEW i \in 1..Len(stack'[u])
               PROVE  /\ i < Len(stack'[u]) => stack'[u][i].at \in Waiting
                      /\ stack'[u][i].at # "lookup" => stack'[u][i].num \in Objects
                      /\ stack'[u][i].at \in PackedSteps
                            => file'[stack'[u][i].num].where = "packed"
                      /\ stack'[u][i].at = "publish" => stack'[u][i].val \in Values
    BY DEF FramesInv
  <2>1. CASE u # t
    BY <1>1, <2>1, CallStep DEF FramesInv
  <2>2. CASE u = t /\ i = Len(stack[t])
    BY <1>1, <1>2, <2>2, CallStep DEF Waiting
  <2>3. CASE u = t /\ i = Len(stack[t]) + 1
    <3>1. stack'[u][i] = NewFrame(n) /\ ~(i < Len(stack'[u]))
      BY <1>1, <1>2, <2>3, CallStep
    <3> QED
      BY <3>1 DEF NewFrame, PackedSteps
  <2>4. CASE u = t /\ i \notin {Len(stack[t]), Len(stack[t]) + 1}
    <3>1. i \in 1..Len(stack[t]) /\ i < Len(stack[t]) /\ stack'[u][i] = stack[t][i]
      BY <1>1, <1>2, <2>4, CallStep
    <3> QED
      BY <1>1, <2>4, <3>1 DEF FramesInv
  <2> QED
    BY <2>1, <2>2, <2>3, <2>4
<1> QED
  BY <1>1, <1>3, CallStep

LEMMA ReturnFrames ==
    ASSUME TypeInv, NEW t \in Threads, Active(t), NEW r \in Answers, Return(t, r),
           file' = file
    PROVE  /\ stack' \in [Threads -> Seq(Frame)]
           /\ answer' \in [Threads -> Answers]
           /\ FramesInv'
<1>1. TypeOK /\ FramesInv
  BY DEF TypeInv
<1>2. Len(stack[t]) \in Nat \ {0}
  BY <1>1, TopTyped
<1>3. FramesInv'
  <2> SUFFICES ASSUME NEW u \in Threads, NEW i \in 1..Len(stack'[u])
               PROVE  /\ i < Len(stack'[u]) => stack'[u][i].at \in Waiting
                      /\ stack'[u][i].at # "lookup" => stack'[u][i].num \in Objects
                      /\ stack'[u][i].at \in PackedSteps
                            => file'[stack'[u][i].num].where = "packed"
                      /\ stack'[u][i].at = "publish" => stack'[u][i].val \in Values
    BY DEF FramesInv
  <2>1. CASE u # t
    BY <1>1, <2>1, ReturnStep DEF FramesInv
  <2>2. CASE u = t
    <3>1. i \in 1..Len(stack[t]) /\ i < Len(stack[t]) /\ stack'[u][i] = stack[t][i]
      BY <1>1, <1>2, <2>2, ReturnStep
    <3> QED
      BY <1>1, <2>2, <3>1 DEF FramesInv
  <2> QED
    BY <2>1, <2>2
<1> QED
  BY <1>1, <1>3, ReturnStep DEF Return, TypeOK

LEMMA TopShape ==
    ASSUME TypeInv, NEW t \in Threads, Active(t)
    PROVE  /\ Top(t) \in Frame
           /\ Top(t).at # "lookup" => Top(t).num \in Objects
           /\ Top(t).at \in PackedSteps => file[Top(t).num].where = "packed"
           /\ Top(t).at = "publish" => Top(t).val \in Values
<1>1. /\ Top(t) \in Frame
      /\ Len(stack[t]) \in 1..Len(stack[t])
  BY TopTyped DEF TypeInv
<1> QED
  BY <1>1 DEF Top, TypeInv, FramesInv

LEMMA FileTyped ==
    ASSUME TypeOK, NEW n \in Objects
    PROVE  /\ file[n] \in Slot
           /\ file[n].where = "packed" => file[n].archive \in Objects
BY StoreAssumption DEF TypeOK

LEMMA RunningFinite ==
    ASSUME TypeOK
    PROVE  Cardinality(running) \in Nat
<1>1. IsFiniteSet(Objects \union {Stray})
  BY StoreAssumption, FS_AddElement
<1>2. IsFiniteSet(running)
  BY <1>1, FS_Subset DEF TypeOK
<1> QED
  BY <1>2, FS_CardinalityType

----------------------------------------------------------------------------
(* Eight of the actions only move a fetch on under its guard, or suspend it  *)
(* on another fetch: whatever they read, that is all they do to the stacks.  *)

\* From a step past the recheck, a fetch moves to such a step or to "done";
\* it is done with a value only if that value is in the slot.
Moves(t) ==
    \E f \in Frame :
       /\ Become(t, f)
       /\ f.num = Top(t).num
       /\ f.at \in Claimed \ {"recheck"}
       /\ f.at \in PackedSteps => file[f.num].where = "packed"
       /\ f.at # "done" => Top(t).at # "recheck" \/ cells[f.num] = Empty
       /\ f.at = "done" /\ f.val \in Values => cells[f.num] = f.val
       /\ f.at = "publish" => f.val \in Values

Waits(t) ==
    \E f \in Frame, n \in Objects \union {Stray} :
       /\ Call(t, f, n)
       /\ f.num = Top(t).num
       /\ f.at \in Waiting
       /\ f.at \in PackedSteps => file[f.num].where = "packed"

Quiet(t) ==
    /\ Active(t)
    /\ Top(t).at \in Claimed \ {"publish", "done"}
    /\ \/ Moves(t)
       \/ Waits(t) /\ Top(t).at # "recheck"
    /\ UNCHANGED <<file, cells, running, answer>>
    /\ containers' \in [Objects -> Boxes]

LEMMA DoneMoves ==
    ASSUME TypeInv, NEW t \in Threads, Active(t), Top(t).at # "lookup",
           NEW v \in Answers, Done(t, v),
           v \in Values => cells[Top(t).num] = v
    PROVE  Moves(t)
<1> DEFINE f == [Top(t) EXCEPT !.at = "done", !.val = v]
<1>1. Top(t) \in Frame
  BY TopShape
<1>2. f \in Frame /\ f.num = Top(t).num /\ f.at = "done" /\ f.val = v
  BY <1>1 DEF Frame, Claimed
<1>3. Become(t, f)
  BY DEF Done
<1> HIDE DEF f
<1> QED
  BY <1>2, <1>3 DEF Moves, Claimed, PackedSteps

LEMMA ParsedMoves ==
    ASSUME TypeInv, NEW t \in Threads, Active(t),
           Top(t).at \notin {"lookup", "recheck"},
           NEW v \in Values, Parsed(t, v)
    PROVE  Moves(t)
<1> DEFINE f == [Top(t) EXCEPT !.at = "publish", !.val = v]
<1>1. Top(t) \in Frame
  BY TopShape
<1>2. CASE file[Top(t).num].where = "shifted"
  <2>1. Done(t, "unresolved") /\ "unresolved" \in Answers \ Values
    BY <1>2 DEF Parsed, Answers, Values
  <2> QED
    BY <2>1, DoneMoves
<1>3. CASE file[Top(t).num].where # "shifted"
  <2>1. f \in Frame /\ f.num = Top(t).num /\ f.at = "publish" /\ f.val = v
    BY <1>1 DEF Frame, Claimed, Answers
  <2>2. Become(t, f)
    BY <1>3 DEF Parsed
  <2> HIDE DEF f
  <2> QED
    BY <2>1, <2>2 DEF Moves, Claimed, PackedSteps
<1> QED
  BY <1>2, <1>3

LEMMA GotoMoves ==
    ASSUME TypeInv, NEW t \in Threads, Active(t), Top(t).at # "lookup",
           NEW s \in Claimed \ {"recheck", "publish", "done"}, Goto(t, s),
           s \in PackedSteps => file[Top(t).num].where = "packed",
           Top(t).at # "recheck" \/ cells[Top(t).num] = Empty
    PROVE  Moves(t)
<1> DEFINE f == [Top(t) EXCEPT !.at = s]
<1>1. Top(t) \in Frame
  BY TopShape
<1>2. f \in Frame /\ f.num = Top(t).num /\ f.at = s
  BY <1>1 DEF Frame
<1>3. Become(t, f)
  BY DEF Goto
<1> HIDE DEF f
<1> QED
  BY <1>2, <1>3 DEF Moves

LEMMA RecheckQuiet ==
    ASSUME TypeInv, NEW t \in Threads, Recheck(t) PROVE Quiet(t)
<1>1. Active(t) /\ Top(t).at = "recheck"
  BY DEF Recheck, At
<1>2. Top(t).num \in Objects /\ cells[Top(t).num] \in Values \union {Empty}
  BY <1>1, TopShape DEF TypeInv, TypeOK
<1>3. CASE cells[Top(t).num] # Empty
  <2>1. Done(t, cells[Top(t).num]) /\ cells[Top(t).num] \in Answers
    BY <1>2, <1>3 DEF Recheck, Answers
  <2> QED
    BY <1>1, <2>1, DoneMoves DEF Recheck, Quiet, Claimed, TypeInv, TypeOK
<1>4. CASE cells[Top(t).num] = Empty
  <2>1. Goto(t, "parse")
    BY <1>4 DEF Recheck
  <2>2. Moves(t)
    BY <1>1, <1>4, <2>1, GotoMoves DEF Claimed, PackedSteps
  <2> QED
    BY <1>1, <2>2 DEF Recheck, Quiet, Claimed, TypeInv, TypeOK
<1> QED
  BY <1>3, <1>4
LEMMA ParseQuiet ==
    ASSUME TypeInv, NEW t \in Threads, Parse(t) PROVE Quiet(t)
<1> DEFINE f == Top(t)
<1> DEFINE o == file[f.num]
<1>1. Active(t) /\ f.at = "parse" /\ f \in Frame /\ f.num \in Objects
  BY TopShape DEF Parse, At
<1>2. o \in Slot
  BY <1>1, FileTyped DEF TypeInv
<1>3. CASE o.where = "absent"
  <2>1. Done(t, "unresolved")
    BY <1>3 DEF Parse
  <2>2. Moves(t)
    BY <1>1, <2>1, DoneMoves DEF Answers, Values
  <2> QED
    BY <1>1, <2>2 DEF Parse, Quiet, Claimed, TypeInv, TypeOK
<1>4. CASE o.where = "packed"
  <2>1. Goto(t, "container")
    BY <1>4 DEF Parse
  <2>2. Moves(t)
    BY <1>1, <1>4, <2>1, GotoMoves DEF Claimed
  <2> QED
    BY <1>1, <2>2 DEF Parse, Quiet, Claimed, TypeInv, TypeOK
<1>5. CASE o.where \in {"offset", "shifted"}
  <2>1. \/ \E v \in Values : Parsed(t, v)
        \/ Call(t, [f EXCEPT !.at = "length"], o.length) /\ o.length # NoObject
    BY <1>5 DEF Parse, Reading, Values
  <2>2. CASE \E v \in Values : Parsed(t, v)
    <3>1. Moves(t)
      BY <1>1, <2>2, ParsedMoves
    <3> QED
      BY <1>1, <3>1 DEF Parse, Quiet, Claimed, TypeInv, TypeOK
  <2>3. CASE Call(t, [f EXCEPT !.at = "length"], o.length) /\ o.length # NoObject
    <3> DEFINE g == [f EXCEPT !.at = "length"]
    <3>1. g \in Frame /\ g.num = f.num /\ g.at = "length"
      BY <1>1 DEF Frame, Claimed, Waiting
    <3>2. o.length \in Objects \union {Stray}
      BY <1>2, <2>3 DEF Slot, Refs
    <3>3. Call(t, g, o.length)
      BY <2>3
    <3> HIDE DEF g
    <3>4. Waits(t)
      BY <3>1, <3>2, <3>3 DEF Waits, Waiting, PackedSteps
    <3> QED
      BY <1>1, <3>4 DEF Parse, Quiet, Claimed, TypeInv, TypeOK
  <2> QED
    BY <2>1, <2>2, <2>3
<1> QED
  BY <1>2, <1>3, <1>4, <1>5 DEF Slot

LEMMA MeasureQuiet ==
    ASSUME TypeInv, NEW t \in Threads, Measure(t) PROVE Quiet(t)
<1>1. Active(t) /\ Top(t).at = "length"
  BY DEF Measure, At
<1>2. \E v \in Values : Parsed(t, v)
  BY DEF Measure, Values
<1>3. Moves(t)
  BY <1>1, <1>2, ParsedMoves
<1> QED
  BY <1>1, <1>3 DEF Measure, Quiet, Claimed, Waiting, TypeInv, TypeOK

\* The object stream of a packed object is an object of the table.
LEMMA ArchiveTyped ==
    ASSUME TypeInv, NEW t \in Threads, Active(t), Top(t).at \in PackedSteps
    PROVE  Archive(t) \in Objects
<1>1. Top(t).num \in Objects /\ file[Top(t).num].where = "packed"
  BY TopShape DEF PackedSteps
<1> QED
  BY <1>1, FileTyped DEF Archive, TypeInv

LEMMA OpenContainerQuiet ==
    ASSUME TypeInv, NEW t \in Threads, OpenContainer(t) PROVE Quiet(t)
<1>1. /\ Active(t) /\ Top(t).at = "container" /\ Top(t) \in Frame
      /\ Top(t).num \in Objects /\ file[Top(t).num].where = "packed"
  BY TopShape DEF OpenContainer, At, PackedSteps
<1>2. Archive(t) \in Objects
  BY <1>1, ArchiveTyped DEF PackedSteps
<1>3. containers[Archive(t)] \in Boxes
  BY <1>2 DEF TypeInv, TypeOK
<1>4. CASE ~file[Archive(t)].flagged
  <2>1. Done(t, "unresolved")
    BY <1>4 DEF OpenContainer
  <2>2. Moves(t)
    BY <1>1, <2>1, DoneMoves DEF Answers, Values
  <2> QED
    BY <1>1, <2>2 DEF OpenContainer, Quiet, Claimed, TypeInv, TypeOK
<1>5. CASE file[Archive(t)].flagged /\ containers[Archive(t)] # "untried"
  <2> DEFINE f == [Top(t) EXCEPT !.at = "member", !.box = containers[Archive(t)]]
  <2>1. f \in Frame /\ f.num = Top(t).num /\ f.at = "member"
    BY <1>1, <1>3 DEF Frame, Claimed
  <2>2. Become(t, f)
    BY <1>5 DEF OpenContainer
  <2> HIDE DEF f
  <2>3. Moves(t)
    BY <1>1, <2>1, <2>2 DEF Moves, Claimed
  <2> QED
    BY <1>1, <2>3 DEF OpenContainer, Quiet, Claimed, TypeInv, TypeOK
<1>6. CASE file[Archive(t)].flagged /\ containers[Archive(t)] = "untried"
  <2> DEFINE f == [Top(t) EXCEPT !.at = "archive"]
  <2>1. f \in Frame /\ f.num = Top(t).num /\ f.at = "archive"
    BY <1>1 DEF Frame, Claimed, Waiting
  <2>2. Call(t, f, Archive(t))
    BY <1>6 DEF OpenContainer
  <2> HIDE DEF f
  <2>3. Waits(t)
    BY <1>1, <1>2, <2>1, <2>2 DEF Waits, Waiting
  <2> QED
    BY <1>1, <2>3 DEF OpenContainer, Quiet, Claimed, TypeInv, TypeOK
<1> QED
  BY <1>4, <1>5, <1>6

\* A frame that moves to "index" with an outcome, as BuildContainer and Decode do.
LEMMA ToIndexMoves ==
    ASSUME TypeInv, NEW t \in Threads, Active(t), Top(t).at \in {"archive", "filter"},
           NEW g \in Frame, g.num = Top(t).num,
           NEW b \in Boxes, Become(t, [g EXCEPT !.at = "index", !.box = b])
    PROVE  Moves(t)
<1> DEFINE f == [g EXCEPT !.at = "index", !.box = b]
<1>1. f \in Frame /\ f.num = Top(t).num /\ f.at = "index"
  BY DEF Frame, Claimed
<1>2. Become(t, f)
  OBVIOUS
<1>3. file[Top(t).num].where = "packed"
  BY TopShape DEF PackedSteps
<1> HIDE DEF f
<1> QED
  BY <1>1, <1>2, <1>3 DEF Moves, Claimed

LEMMA BuildContainerQuiet ==
    ASSUME TypeInv, NEW t \in Threads, BuildContainer(t) PROVE Quiet(t)
<1> DEFINE a == Archive(t)
<1> DEFINE f == [Top(t) EXCEPT !.val = answer[t]]
<1>1. /\ Active(t) /\ Top(t).at = "archive" /\ Top(t) \in Frame
      /\ file[Top(t).num].where = "packed"
  BY TopShape DEF BuildContainer, At, PackedSteps
<1>2. a \in Objects /\ file[a] \in Slot
  BY <1>1, ArchiveTyped, FileTyped DEF PackedSteps, TypeInv
<1>3. f \in Frame /\ f.num = Top(t).num
  BY <1>1 DEF Frame, TypeInv, TypeOK
<1>4. \/ \E b \in Boxes : Become(t, [f EXCEPT !.at = "index", !.box = b])
      \/ /\ file[a].filter # NoObject
         /\ Call(t, [f EXCEPT !.at = "filter"], file[a].filter)
  BY DEF BuildContainer, Boxes
<1>5. CASE \E b \in Boxes : Become(t, [f EXCEPT !.at = "index", !.box = b])
  <2>1. Moves(t)
    BY <1>1, <1>3, <1>5, ToIndexMoves
  <2> QED
    BY <1>1, <2>1 DEF BuildContainer, Quiet, Claimed, Waiting, TypeInv, TypeOK
<1>6. CASE /\ file[a].filter # NoObject
           /\ Call(t, [f EXCEPT !.at = "filter"], file[a].filter)
  <2> DEFINE g == [f EXCEPT !.at = "filter"]
  <2>1. g \in Frame /\ g.num = Top(t).num /\ g.at = "filter"
    BY <1>3 DEF Frame, Claimed, Waiting
  <2>2. file[a].filter \in Objects \union {Stray}
    BY <1>2, <1>6 DEF Slot, Refs
  <2>3. Call(t, g, file[a].filter)
    BY <1>6
  <2> HIDE DEF g
  <2>4. Waits(t)
    BY <1>1, <2>1, <2>2, <2>3 DEF Waits, Waiting
  <2> QED
    BY <1>1, <2>4 DEF BuildContainer, Quiet, Claimed, Waiting, TypeInv, TypeOK
<1> QED
  BY <1>4, <1>5, <1>6

LEMMA DecodeQuiet ==
    ASSUME TypeInv, NEW t \in Threads, Decode(t) PROVE Quiet(t)
<1>1. Active(t) /\ Top(t).at = "filter" /\ Top(t) \in Frame
  BY TopShape DEF Decode, At
<1>2. \E b \in Boxes : Become(t, [Top(t) EXCEPT !.at = "index", !.box = b])
  BY DEF Decode, Boxes
<1>3. Moves(t)
  BY <1>1, <1>2, ToIndexMoves
<1> QED
  BY <1>1, <1>3 DEF Decode, Quiet, Claimed, Waiting, TypeInv, TypeOK

LEMMA IndexQuiet ==
    ASSUME TypeInv, NEW t \in Threads, Index(t) PROVE Quiet(t)
<1>1. /\ Active(t) /\ Top(t).at = "index" /\ Top(t) \in Frame
      /\ file[Top(t).num].where = "packed"
  BY TopShape DEF Index, At, PackedSteps
<1>2. Moves(t)
  BY <1>1, GotoMoves DEF Index, Claimed
<1>3. containers' \in [Objects -> Boxes]
  BY <1>1 DEF Index, Frame, TypeInv, TypeOK
<1> QED
  BY <1>1, <1>2, <1>3 DEF Index, Quiet, Claimed

LEMMA MemberQuiet ==
    ASSUME TypeInv, NEW t \in Threads, Member(t) PROVE Quiet(t)
<1>1. Active(t) /\ Top(t).at = "member"
  BY DEF Member, At
<1>2. Done(t, "unresolved") \/ \E v \in Values : Parsed(t, v)
  BY DEF Member, Reading, Values
<1>3. Moves(t)
  BY <1>1, <1>2, DoneMoves, ParsedMoves DEF Answers, Values
<1> QED
  BY <1>1, <1>3 DEF Member, Quiet, Claimed, TypeInv, TypeOK

LEMMA StepKinds ==
    ASSUME TypeInv, NEW t \in Threads, Step(t)
    PROVE  Quiet(t) \/ LookUp(t) \/ Claim(t) \/ Publish(t) \/ Finish(t)
BY RecheckQuiet, ParseQuiet, MeasureQuiet, OpenContainerQuiet,
   BuildContainerQuiet, DecodeQuiet, IndexQuiet, MemberQuiet DEF Step
----------------------------------------------------------------------------
(* Type correctness. *)

LEMMA QuietType ==
    ASSUME TypeInv, NEW t \in Threads, Quiet(t) PROVE TypeInv'
<1>1. Active(t) /\ Top(t).num \in Objects
  BY TopShape DEF Quiet, Claimed, Waiting
<1>2. stack' \in [Threads -> Seq(Frame)] /\ FramesInv'
  <2>1. CASE Moves(t)
    BY <1>1, <2>1, BecomeFrames DEF Moves, Quiet
  <2>2. CASE Waits(t)
    BY <1>1, <2>2, CallFrames DEF Waits, Quiet
  <2> QED
    BY <2>1, <2>2 DEF Quiet
<1> QED
  BY <1>2 DEF Quiet, TypeInv, TypeOK

LEMMA LookUpType ==
    ASSUME TypeInv, NEW t \in Threads, LookUp(t) PROVE TypeInv'
<1>1. Active(t) /\ Top(t) \in Frame
  BY TopShape DEF LookUp, At
<1>2. CASE \E r \in Answers : Return(t, r)
  BY <1>1, <1>2, ReturnFrames DEF LookUp, TypeInv, TypeOK
<1>3. CASE Top(t).num # Stray /\ Goto(t, "claim") /\ UNCHANGED answer
  <2> DEFINE f == [Top(t) EXCEPT !.at = "claim"]
  <2>1. f \in Frame /\ f.num \in Objects /\ f.at = "claim"
    BY <1>1, <1>3 DEF Frame, Unclaimed
  <2>2. Become(t, f)
    BY <1>3 DEF Goto
  <2> HIDE DEF f
  <2>3. stack' \in [Threads -> Seq(Frame)] /\ FramesInv'
    BY <1>1, <2>1, <2>2, BecomeFrames DEF LookUp, PackedSteps
  <2> QED
    BY <1>3, <2>3 DEF LookUp, TypeInv, TypeOK
<1>4. "unresolved" \in Answers
  BY DEF Answers
<1>5. Top(t).num # Stray /\ cells[Top(t).num] # Empty => cells[Top(t).num] \in Answers
  BY <1>1 DEF Frame, TypeInv, TypeOK, Answers
<1> QED
  BY <1>2, <1>3, <1>4, <1>5 DEF LookUp

LEMMA ClaimType ==
    ASSUME TypeInv, NEW t \in Threads, Claim(t) PROVE TypeInv'
<1>1. Active(t) /\ Top(t) \in Frame /\ Top(t).num \in Objects
  BY TopShape DEF Claim, At
<1>2. CASE Return(t, "cycle") /\ UNCHANGED running
  BY <1>1, <1>2, ReturnFrames DEF Claim, TypeInv, TypeOK, Answers
<1>3. CASE /\ running' = running \union {Top(t).num}
           /\ Become(t, [Top(t) EXCEPT !.at = "recheck", !.nest = Cardinality(running)])
           /\ UNCHANGED answer
  <2> DEFINE f == [Top(t) EXCEPT !.at = "recheck", !.nest = Cardinality(running)]
  <2>1. f \in Frame /\ f.num = Top(t).num /\ f.at = "recheck"
    BY <1>1, RunningFinite DEF Frame, Claimed, TypeInv
  <2>2. Become(t, f)
    BY <1>3
  <2> HIDE DEF f
  <2>3. stack' \in [Threads -> Seq(Frame)] /\ FramesInv'
    BY <1>1, <2>1, <2>2, BecomeFrames DEF Claim, PackedSteps
  <2> QED
    BY <1>1, <1>3, <2>3 DEF Claim, TypeInv, TypeOK
<1> QED
  BY <1>2, <1>3 DEF Claim

LEMMA PublishType ==
    ASSUME TypeInv, NEW t \in Threads, Publish(t)
    PROVE  /\ TypeInv'
           /\ \E f \in Frame :
                 /\ Become(t, f)
                 /\ f.num = Top(t).num
                 /\ f.at = "done"
                 /\ cells' = [cells EXCEPT ![f.num] = f.val]
                 /\ cells[f.num] # Empty => f.val = cells[f.num]
<1> DEFINE v == IF cells[Top(t).num] = Empty THEN Top(t).val ELSE cells[Top(t).num]
<1> DEFINE f == [Top(t) EXCEPT !.at = "done", !.val = v]
<1>1. /\ Active(t) /\ Top(t) \in Frame /\ Top(t).num \in Objects
      /\ Top(t).val \in Values
  BY TopShape DEF Publish, At
<1>2. v \in Values
  BY <1>1 DEF TypeInv, TypeOK
<1>3. Become(t, f) /\ cells' = [cells EXCEPT ![Top(t).num] = v]
  BY DEF Publish, Done
<1>4. f \in Frame /\ f.num = Top(t).num /\ f.at = "done" /\ f.val = v
  BY <1>1, <1>2 DEF Frame, Claimed, Answers
<1>5. cells[Top(t).num] # Empty => v = cells[Top(t).num]
  OBVIOUS
<1> HIDE DEF f, v
<1>6. stack' \in [Threads -> Seq(Frame)] /\ FramesInv'
  BY <1>1, <1>3, <1>4, BecomeFrames DEF Publish, PackedSteps
<1>7. TypeInv'
  <2>1. TypeOK
    BY DEF TypeInv
  <2>2. cells' \in [Objects -> Values \union {Empty}]
    BY <1>2, <1>3, <2>1 DEF TypeOK
  <2>3. UNCHANGED <<file, running, containers, answer>>
    BY DEF Publish
  <2> QED
    BY <1>6, <2>1, <2>2, <2>3 DEF TypeInv, TypeOK
<1> QED
  BY <1>3, <1>4, <1>5, <1>7

LEMMA FinishType ==
    ASSUME TypeInv, NEW t \in Threads, Finish(t) PROVE TypeInv'
<1>1. Active(t) /\ Top(t) \in Frame
  BY TopShape DEF Finish, At
<1>2. Top(t).val \in Answers
  BY <1>1 DEF Frame
<1>3. /\ stack' \in [Threads -> Seq(Frame)]
      /\ answer' \in [Threads -> Answers]
      /\ FramesInv'
  BY <1>1, <1>2, ReturnFrames DEF Finish
<1> QED
  BY <1>3 DEF Finish, TypeInv, TypeOK

LEMMA GetType ==
    ASSUME TypeInv, NEW t \in Threads, NEW n \in Objects \union {Stray}, Get(t, n)
    PROVE  /\ TypeInv'
           /\ stack[t] = <<>>
           /\ Len(stack'[t]) = 1
           /\ stack'[t][1] = NewFrame(n)
           /\ \A u \in Threads : u # t => stack'[u] = stack[u]
<1>1. NewFrame(n) \in Frame /\ NewFrame(n).at = "lookup"
  BY DEF NewFrame, Frame, Unclaimed, Answers, Boxes
<1>2. stack' = [stack EXCEPT ![t] = <<NewFrame(n)>>] /\ stack[t] = <<>>
  BY DEF Get, Active
<1>3. <<NewFrame(n)>> \in Seq(Frame) /\ Len(<<NewFrame(n)>>) = 1 /\ <<NewFrame(n)>>[1] = NewFrame(n)
  BY <1>1
<1>4. /\ Len(stack'[t]) = 1
      /\ stack'[t][1] = NewFrame(n)
      /\ \A u \in Threads : u # t => stack'[u] = stack[u]
  BY <1>2, <1>3 DEF TypeInv, TypeOK
<1>5. FramesInv'
  <2> SUFFICES ASSUME NEW u \in Threads, NEW i \in 1..Len(stack'[u])
               PROVE  /\ i < Len(stack'[u]) => stack'[u][i].at \in Waiting
                      /\ stack'[u][i].at # "lookup" => stack'[u][i].num \in Objects
                      /\ stack'[u][i].at \in PackedSteps
                            => file'[stack'[u][i].num].where = "packed"
                      /\ stack'[u][i].at = "publish" => stack'[u][i].val \in Values
    BY DEF FramesInv
  <2>1. CASE u # t
    BY <1>4, <2>1 DEF FramesInv, TypeInv, Get
  <2>2. CASE u = t
    <3>1. Len(stack'[u]) = 1
      BY <1>4, <2>2
    <3>2. i = 1
      BY <3>1
    <3>3. stack'[u][i].at = "lookup"
      BY <1>1, <1>4, <2>2, <3>2
    <3>4. ~(i < Len(stack'[u]))
      BY <3>1, <3>2
    <3> QED
      BY <3>3, <3>4 DEF PackedSteps
  <2> QED
    BY <2>1, <2>2
<1>6. stack' \in [Threads -> Seq(Frame)]
  BY <1>2, <1>3 DEF TypeInv, TypeOK
<1> QED
  BY <1>2, <1>4, <1>5, <1>6 DEF Get, TypeInv, TypeOK

\* Every step of every thread keeps the state and the frames in shape.
THEOREM TypeStep == TypeInv /\ [Next]_vars => TypeInv'
<1> SUFFICES ASSUME TypeInv, [Next]_vars PROVE TypeInv'
  OBVIOUS
<1>1. ASSUME NEW t \in Threads, Step(t) PROVE TypeInv'
  BY <1>1, StepKinds, QuietType, LookUpType, ClaimType, PublishType, FinishType
<1>2. ASSUME NEW t \in Threads, NEW n \in Objects \union {Stray}, Get(t, n)
      PROVE  TypeInv'
  BY <1>2, GetType
<1>3. CASE UNCHANGED vars
  BY <1>3 DEF vars, TypeInv, TypeOK, FramesInv
<1> QED
  BY <1>1, <1>2, <1>3 DEF Next

\* Every reachable state of the store is well typed, for any threads, any
\* finite set of objects and any files over them.
THEOREM TypeCorrect == Spec => []TypeOK
<1>1. Init => TypeInv
  BY InitType
<1>2. TypeInv /\ [Next]_vars => TypeInv'
  BY TypeStep
<1>3. TypeInv => TypeOK
  BY DEF TypeInv
<1> QED
  BY <1>1, <1>2, <1>3, PTL DEF Spec

----------------------------------------------------------------------------
(* The guards. *)

\* GuardsExact over threads and depths instead of pairs.
Guarded(t, i) ==
    /\ t \in Threads
    /\ i \in 1..Len(stack[t])
    /\ stack[t][i].at \in Claimed

GuardsInv ==
    /\ \A t, i : Guarded(t, i) => stack[t][i].num \in running
    /\ \A n \in running : \E t, i : Guarded(t, i) /\ stack[t][i].num = n
    /\ \A t, i, u, j :
          Guarded(t, i) /\ Guarded(u, j) /\ stack[t][i].num = stack[u][j].num
             => t = u /\ i = j

LEMMA GuardsInvExact == GuardsInv => GuardsExact
<1> SUFFICES ASSUME GuardsInv PROVE GuardsExact
  OBVIOUS
<1>1. \A c \in Guards : /\ Guarded(c[1], c[2])
                        /\ FrameAt(c) = stack[c[1]][c[2]]
                        /\ c = <<c[1], c[2]>>
  BY DEF Guards, Frames, FrameAt, Guarded
<1>2. \A t, i : Guarded(t, i) => /\ <<t, i>> \in Guards
                                /\ FrameAt(<<t, i>>) = stack[t][i]
  BY DEF Guards, Frames, FrameAt, Guarded
<1>3. \A c \in Guards : FrameAt(c).num \in running
  BY <1>1 DEF GuardsInv
<1>4. \A n \in running : \E c \in Guards : FrameAt(c).num = n
  <2> SUFFICES ASSUME NEW n \in running PROVE \E c \in Guards : FrameAt(c).num = n
    OBVIOUS
  <2>1. PICK t, i : Guarded(t, i) /\ stack[t][i].num = n
    BY DEF GuardsInv
  <2>2. <<t, i>> \in Guards /\ FrameAt(<<t, i>>).num = n
    BY <1>2, <2>1
  <2> QED
    BY <2>2
<1>5. running = {FrameAt(c).num : c \in Guards}
  BY <1>3, <1>4
<1>6. \A c, d \in Guards : FrameAt(c).num = FrameAt(d).num => c = d
  BY <1>1 DEF GuardsInv
<1> QED
  BY <1>5, <1>6 DEF GuardsExact

\* What becomes of the guards when the innermost frame of t goes on as f ...
LEMMA BecomeGuards ==
    ASSUME TypeInv, NEW t \in Threads, Active(t), NEW f \in Frame, Become(t, f),
           NEW k, k = Len(stack[t])
    PROVE  /\ Guarded(t, k)' <=> f.at \in Claimed
           /\ stack'[t][k] = f
           /\ \A u, i : u # t \/ i # k
                => /\ Guarded(u, i)' <=> Guarded(u, i)
                   /\ Guarded(u, i) => stack'[u][i] = stack[u][i]
<1>1. /\ Len(stack[t]) \in 1..Len(stack[t])
      /\ Len(stack'[t]) = Len(stack[t])
      /\ stack'[t][k] = f
      /\ \A i \in 1..Len(stack[t]) :
            i # Len(stack[t]) => stack'[t][i] = stack[t][i]
      /\ \A u \in Threads : u # t => stack'[u] = stack[u]
  BY TopTyped, BecomeStep DEF TypeInv
<1> QED
  BY <1>1 DEF Guarded

\* ... or is suspended as f, under its guard, on another fetch ...
LEMMA CallGuards ==
    ASSUME TypeInv, NEW t \in Threads, Active(t), NEW f \in Frame,
           NEW n \in Objects \union {Stray}, Call(t, f, n), f.at \in Claimed,
           NEW k, k = Len(stack[t])
    PROVE  /\ Guarded(t, k)'
           /\ stack'[t][k] = f
           /\ \A u, i : u # t \/ i # k
                => /\ Guarded(u, i)' <=> Guarded(u, i)
                   /\ Guarded(u, i) => stack'[u][i] = stack[u][i]
<1>1. /\ k \in 1..k /\ k \in Nat
      /\ Len(stack'[t]) = k + 1
      /\ stack'[t][k + 1] = NewFrame(n)
      /\ stack'[t][k] = f
      /\ \A i \in 1..k : i # k => stack'[t][i] = stack[t][i]
      /\ \A u \in Threads : u # t => stack'[u] = stack[u]
  BY TopTyped, CallStep DEF TypeInv
<1>2. stack'[t][k + 1].at \notin Claimed
  BY <1>1 DEF NewFrame, Claimed, Waiting
<1>3. Guarded(t, k)' /\ ~Guarded(t, k + 1)' /\ ~Guarded(t, k + 1)
  BY <1>1, <1>2 DEF Guarded
<1>4. ASSUME NEW u, NEW i, u # t
      PROVE  /\ Guarded(u, i)' <=> Guarded(u, i)
             /\ Guarded(u, i) => stack'[u][i] = stack[u][i]
  BY <1>1, <1>4 DEF Guarded
<1>5. ASSUME NEW i, i # k, i # k + 1
      PROVE  /\ Guarded(t, i)' <=> Guarded(t, i)
             /\ Guarded(t, i) => stack'[t][i] = stack[t][i]
  <2>1. i \in 1..Len(stack'[t]) <=> i \in 1..k
    BY <1>1, <1>5
  <2> QED
    BY <1>1, <1>5, <2>1 DEF Guarded
<1> QED
  BY <1>1, <1>3, <1>4, <1>5

\* ... or ends.
LEMMA ReturnGuards ==
    ASSUME TypeInv, NEW t \in Threads, Active(t), NEW r, Return(t, r),
           NEW k, k = Len(stack[t])
    PROVE  /\ ~Guarded(t, k)'
           /\ \A u, i : u # t \/ i # k
                => /\ Guarded(u, i)' <=> Guarded(u, i)
                   /\ Guarded(u, i) => stack'[u][i] = stack[u][i]
<1>1. /\ k \in Nat \ {0}
      /\ Len(stack'[t]) = k - 1
      /\ \A i \in 1..(k - 1) : stack'[t][i] = stack[t][i]
      /\ \A u \in Threads : u # t => stack'[u] = stack[u]
  BY TopTyped, ReturnStep DEF TypeInv
<1>2. ~Guarded(t, k)'
  BY <1>1 DEF Guarded
<1>3. ASSUME NEW u, NEW i, u # t
      PROVE  /\ Guarded(u, i)' <=> Guarded(u, i)
             /\ Guarded(u, i) => stack'[u][i] = stack[u][i]
  BY <1>1, <1>3 DEF Guarded
<1>4. ASSUME NEW i, i # k
      PROVE  /\ Guarded(t, i)' <=> Guarded(t, i)
             /\ Guarded(t, i) => stack'[t][i] = stack[t][i]
  <2>1. i \in 1..Len(stack'[t]) <=> i \in 1..k
    BY <1>1, <1>4
  <2>2. i \in 1..k => stack'[t][i] = stack[t][i]
    BY <1>1, <1>4
  <2> QED
    BY <2>1, <2>2 DEF Guarded
<1> QED
  BY <1>2, <1>3, <1>4

\* A quiet step keeps every guard and the number it is for.
LEMMA QuietFrame ==
    ASSUME TypeInv, NEW t \in Threads, Quiet(t), NEW k, k = Len(stack[t])
    PROVE  \E f \in Frame :
              /\ stack'[t][k] = f
              /\ f.num = stack[t][k].num
              /\ f.at \in Claimed \ {"recheck"}
              /\ f.at # "done" => stack[t][k].at # "recheck" \/ cells[f.num] = Empty
              /\ f.at = "done" /\ f.val \in Values => cells[f.num] = f.val
              /\ Guarded(t, k) /\ Guarded(t, k)'
              /\ stack[t][k].at \in Claimed \ {"publish", "done"}
              /\ \A u, i : u # t \/ i # k
                   => /\ Guarded(u, i)' <=> Guarded(u, i)
                      /\ Guarded(u, i) => stack'[u][i] = stack[u][i]
<1>1. Active(t) /\ stack[t][k] = Top(t) /\ Top(t).at \in Claimed \ {"publish", "done"}
  BY DEF Quiet, Top
<1>2. Guarded(t, k)
  BY <1>1, TopTyped DEF Guarded, TypeInv
<1>3. CASE Moves(t)
  <2>1. PICK f \in Frame :
          /\ Become(t, f)
          /\ f.num = Top(t).num
          /\ f.at \in Claimed \ {"recheck"}
          /\ f.at # "done" => Top(t).at # "recheck" \/ cells[f.num] = Empty
          /\ f.at = "done" /\ f.val \in Values => cells[f.num] = f.val
    BY <1>3 DEF Moves
  <2>2. /\ Guarded(t, k)'
        /\ stack'[t][k] = f
        /\ \A u, i : u # t \/ i # k
             => /\ Guarded(u, i)' <=> Guarded(u, i)
                /\ Guarded(u, i) => stack'[u][i] = stack[u][i]
    BY <1>1, <2>1, BecomeGuards
  <2> QED
    BY <1>1, <1>2, <2>1, <2>2
<1>4. CASE Waits(t) /\ Top(t).at # "recheck"
  <2>1. PICK f \in Frame, n \in Objects \union {Stray} :
          /\ Call(t, f, n)
          /\ f.num = Top(t).num
          /\ f.at \in Waiting
    BY <1>4 DEF Waits
  <2>2. f.at \in Claimed \ {"recheck", "done"}
    BY <2>1 DEF Claimed, Waiting
  <2>3. /\ Guarded(t, k)'
        /\ stack'[t][k] = f
        /\ \A u, i : u # t \/ i # k
             => /\ Guarded(u, i)' <=> Guarded(u, i)
                /\ Guarded(u, i) => stack'[u][i] = stack[u][i]
    BY <1>1, <2>1, <2>2, CallGuards
  <2> QED
    BY <1>1, <1>2, <1>4, <2>1, <2>2, <2>3
<1> QED
  BY <1>3, <1>4 DEF Quiet

\* A step that moves or ends a fetch that holds no guard.
LEMMA LookUpGuards ==
    ASSUME TypeInv, NEW t \in Threads,
           LookUp(t) \/ (Claim(t) /\ Return(t, "cycle"))
    PROVE  \A u, i : /\ Guarded(u, i)' <=> Guarded(u, i)
                     /\ Guarded(u, i) => stack'[u][i] = stack[u][i]
<1>1. PICK k : k = Len(stack[t])
  OBVIOUS
<1>2. Active(t) /\ Top(t) \in Frame /\ stack[t][k] = Top(t) /\ Top(t).at \in Unclaimed
  BY <1>1, TopShape DEF LookUp, Claim, At, Top, Unclaimed
<1>3. Unclaimed \intersect Claimed = {}
  BY DEF Unclaimed, Claimed, Waiting
<1>4. ~Guarded(t, k)
  BY <1>2, <1>3 DEF Guarded
<1>5. CASE \E r : Return(t, r)
  <2>1. PICK r : Return(t, r)
    BY <1>5
  <2>2. /\ ~Guarded(t, k)'
        /\ \A u, i : u # t \/ i # k
             => /\ Guarded(u, i)' <=> Guarded(u, i)
                /\ Guarded(u, i) => stack'[u][i] = stack[u][i]
    BY <1>1, <1>2, <2>1, ReturnGuards
  <2> QED
    BY <1>4, <2>2
<1>6. CASE Goto(t, "claim")
  <2> DEFINE f == [Top(t) EXCEPT !.at = "claim"]
  <2>1. f \in Frame /\ f.at \in Unclaimed
    BY <1>2 DEF Frame, Unclaimed
  <2>2. Become(t, f)
    BY <1>6 DEF Goto
  <2> HIDE DEF f
  <2>3. /\ Guarded(t, k)' <=> f.at \in Claimed
        /\ \A u, i : u # t \/ i # k
             => /\ Guarded(u, i)' <=> Guarded(u, i)
                /\ Guarded(u, i) => stack'[u][i] = stack[u][i]
    BY <1>1, <1>2, <2>1, <2>2, BecomeGuards
  <2> QED
    BY <1>3, <1>4, <2>1, <2>3
<1> QED
  BY <1>5, <1>6 DEF LookUp

\* What the other steps do to the guards.
LEMMA ClaimGuards ==
    ASSUME TypeInv, NEW t \in Threads, Claim(t), NEW k, k = Len(stack[t]),
           running' = running \union {Top(t).num}, Top(t).num \notin running
    PROVE  /\ ~Guarded(t, k) /\ Guarded(t, k)'
           /\ stack'[t][k].num = Top(t).num
           /\ stack'[t][k].at = "recheck"
           /\ \A u, i : u # t \/ i # k
                => /\ Guarded(u, i)' <=> Guarded(u, i)
                   /\ Guarded(u, i) => stack'[u][i] = stack[u][i]
<1>1. Active(t) /\ Top(t) \in Frame /\ stack[t][k] = Top(t) /\ Top(t).at = "claim"
  BY TopShape DEF Claim, At, Top
<1>2. ~Guarded(t, k)
  BY <1>1 DEF Guarded, Claimed, Waiting
<1> DEFINE f == [Top(t) EXCEPT !.at = "recheck", !.nest = Cardinality(running)]
<1>3. f \in Frame /\ f.num = Top(t).num /\ f.at = "recheck" /\ f.at \in Claimed
  BY <1>1, RunningFinite DEF Frame, Claimed, TypeInv
<1>4. Become(t, f)
  BY DEF Claim
<1> HIDE DEF f
<1>5. /\ Guarded(t, k)' <=> f.at \in Claimed
      /\ stack'[t][k] = f
      /\ \A u, i : u # t \/ i # k
           => /\ Guarded(u, i)' <=> Guarded(u, i)
              /\ Guarded(u, i) => stack'[u][i] = stack[u][i]
  BY <1>1, <1>3, <1>4, BecomeGuards
<1> QED
  BY <1>2, <1>3, <1>5

LEMMA GetGuards ==
    ASSUME TypeInv, NEW t \in Threads, NEW n \in Objects \union {Stray}, Get(t, n)
    PROVE  \A u, i : /\ Guarded(u, i)' <=> Guarded(u, i)
                     /\ Guarded(u, i) => stack'[u][i] = stack[u][i]
<1>1. /\ stack[t] = <<>>
      /\ Len(stack'[t]) = 1
      /\ stack'[t][1] = NewFrame(n)
      /\ \A u \in Threads : u # t => stack'[u] = stack[u]
  BY GetType
<1>2. NewFrame(n).at \notin Claimed
  BY DEF NewFrame, Claimed, Waiting
<1>3. Len(stack[t]) = 0
  BY <1>1
<1>4. \A i : ~Guarded(t, i)
  BY <1>3 DEF Guarded
<1>5. \A i : i \in 1..Len(stack'[t]) => stack'[t][i] = NewFrame(n)
  <2>1. 1..Len(stack'[t]) = {1}
    BY <1>1
  <2> QED
    BY <1>1, <2>1
<1>6. \A i : ~Guarded(t, i)'
  BY <1>2, <1>5 DEF Guarded
<1> QED
  BY <1>1, <1>4, <1>6 DEF Guarded

\* A step that leaves every guard where it is, with the number it is for.
LEMMA SameGuards ==
    ASSUME GuardsInv, running' = running,
           \A t, i : Guarded(t, i)' <=> Guarded(t, i),
           \A t, i : Guarded(t, i) => stack'[t][i].num = stack[t][i].num
    PROVE  GuardsInv'
BY DEF GuardsInv

LEMMA GuardsStep == TypeInv /\ GuardsInv /\ [Next]_vars => GuardsInv'
<1> SUFFICES ASSUME TypeInv, GuardsInv, [Next]_vars PROVE GuardsInv'
  OBVIOUS
<1>1. ASSUME NEW t \in Threads, Quiet(t) PROVE GuardsInv'
  <2>1. PICK k : k = Len(stack[t])
    OBVIOUS
  <2>2. /\ stack'[t][k].num = stack[t][k].num
        /\ Guarded(t, k) /\ Guarded(t, k)'
        /\ \A u, i : u # t \/ i # k
             => /\ Guarded(u, i)' <=> Guarded(u, i)
                /\ Guarded(u, i) => stack'[u][i] = stack[u][i]
    BY <1>1, <2>1, QuietFrame
  <2>3. \A u, i : /\ Guarded(u, i)' <=> Guarded(u, i)
                  /\ Guarded(u, i) => stack'[u][i].num = stack[u][i].num
    BY <2>2
  <2> QED
    BY <1>1, <2>3, SameGuards DEF Quiet
<1>2. ASSUME NEW t \in Threads, LookUp(t) PROVE GuardsInv'
  <2>1. \A u, i : /\ Guarded(u, i)' <=> Guarded(u, i)
                  /\ Guarded(u, i) => stack'[u][i] = stack[u][i]
    BY <1>2, LookUpGuards
  <2>2. running' = running
    BY <1>2 DEF LookUp
  <2> QED
    BY <2>1, <2>2, SameGuards
<1>3. ASSUME NEW t \in Threads, Claim(t) PROVE GuardsInv'
  <2>1. CASE Return(t, "cycle") /\ UNCHANGED running
    BY <1>3, <2>1, LookUpGuards, SameGuards
  <2>2. CASE running' = running \union {Top(t).num} /\ Top(t).num \notin running
    <3>1. PICK k : k = Len(stack[t])
      OBVIOUS
    <3>2. /\ ~Guarded(t, k) /\ Guarded(t, k)'
          /\ stack'[t][k].num = Top(t).num
          /\ \A u, i : u # t \/ i # k
               => /\ Guarded(u, i)' <=> Guarded(u, i)
                  /\ Guarded(u, i) => stack'[u][i] = stack[u][i]
      BY <1>3, <2>2, <3>1, ClaimGuards
    <3>3. \A u, i : Guarded(u, i)
             => Guarded(u, i)' /\ stack'[u][i].num = stack[u][i].num
                               /\ stack[u][i].num # Top(t).num
      BY <2>2, <3>2 DEF GuardsInv
    <3>4. \A u, i : Guarded(u, i)' => Guarded(u, i) \/ (u = t /\ i = k)
      BY <3>2
    <3> QED
      BY <2>2, <3>2, <3>3, <3>4 DEF GuardsInv
  <2> QED
    BY <1>3, <2>1, <2>2 DEF Claim
<1>4. ASSUME NEW t \in Threads, Publish(t) PROVE GuardsInv'
  <2>1. PICK k : k = Len(stack[t])
    OBVIOUS
  <2>2. PICK f \in Frame : Become(t, f) /\ f.num = Top(t).num /\ f.at = "done"
    BY <1>4, PublishType
  <2>3. Active(t) /\ stack[t][k] = Top(t) /\ Guarded(t, k) /\ f.at \in Claimed
    BY <1>4, <2>1, <2>2, TopTyped DEF Publish, At, Top, Guarded, Claimed, TypeInv
  <2>4. /\ Guarded(t, k)' <=> f.at \in Claimed
        /\ stack'[t][k] = f
        /\ \A u, i : u # t \/ i # k
             => /\ Guarded(u, i)' <=> Guarded(u, i)
                /\ Guarded(u, i) => stack'[u][i] = stack[u][i]
    BY <2>1, <2>2, <2>3, BecomeGuards
  <2>5. \A u, i : /\ Guarded(u, i)' <=> Guarded(u, i)
                  /\ Guarded(u, i) => stack'[u][i].num = stack[u][i].num
    BY <2>2, <2>3, <2>4
  <2> QED
    BY <1>4, <2>5, SameGuards DEF Publish
<1>5. ASSUME NEW t \in Threads, Finish(t) PROVE GuardsInv'
  <2>1. PICK k : k = Len(stack[t])
    OBVIOUS
  <2>2. Active(t) /\ stack[t][k] = Top(t) /\ Guarded(t, k)
    BY <1>5, <2>1, TopTyped DEF Finish, At, Top, Guarded, Claimed, TypeInv
  <2>3. Return(t, Top(t).val) /\ running' = running \ {Top(t).num}
    BY <1>5 DEF Finish
  <2>4. /\ ~Guarded(t, k)'
        /\ \A u, i : u # t \/ i # k
             => /\ Guarded(u, i)' <=> Guarded(u, i)
                /\ Guarded(u, i) => stack'[u][i] = stack[u][i]
    BY <2>1, <2>2, <2>3, ReturnGuards
  <2>6. \A u, i : Guarded(u, i) /\ stack[u][i].num # Top(t).num
                     => Guarded(u, i)' /\ stack'[u][i] = stack[u][i]
    BY <2>2, <2>4
  <2>7. ASSUME NEW u, NEW i, Guarded(u, i)'
        PROVE  stack'[u][i].num \in running'
    <3>1. Guarded(u, i) /\ stack'[u][i] = stack[u][i] /\ (u # t \/ i # k)
      BY <2>4, <2>7
    <3>2. stack[u][i].num # Top(t).num
      BY <2>2, <3>1 DEF GuardsInv
    <3>3. stack[u][i].num \in running
      BY <3>1 DEF GuardsInv
    <3> QED
      BY <2>3, <3>1, <3>2, <3>3
  <2>8. \A n \in running' : \E u, i : Guarded(u, i)' /\ stack'[u][i].num = n
    BY <2>3, <2>6 DEF GuardsInv
  <2>9. \A u, i, v, j :
          Guarded(u, i)' /\ Guarded(v, j)' /\ stack'[u][i].num = stack'[v][j].num
             => u = v /\ i = j
    <3> SUFFICES ASSUME NEW u, NEW i, NEW v, NEW j, Guarded(u, i)', Guarded(v, j)',
                        stack'[u][i].num = stack'[v][j].num
                 PROVE  u = v /\ i = j
      OBVIOUS
    <3>1. /\ Guarded(u, i) /\ stack'[u][i] = stack[u][i]
          /\ Guarded(v, j) /\ stack'[v][j] = stack[v][j]
      BY <2>4
    <3> QED
      BY <3>1 DEF GuardsInv
  <2> QED
    BY <2>7, <2>8, <2>9 DEF GuardsInv
<1>6. ASSUME NEW t \in Threads, NEW n \in Objects \union {Stray}, Get(t, n)
      PROVE  GuardsInv'
  BY <1>6, GetGuards, SameGuards DEF Get
<1>7. CASE UNCHANGED vars
  BY <1>7 DEF vars, GuardsInv, Guarded
<1> QED
  BY <1>1, <1>2, <1>3, <1>4, <1>5, <1>6, <1>7, StepKinds DEF Next

LEMMA InitGuards == Init => GuardsInv
<1> SUFFICES ASSUME Init PROVE GuardsInv
  OBVIOUS
<1>1. \A t \in Threads : Len(stack[t]) = 0
  BY DEF Init
<1>2. \A t, i : ~Guarded(t, i)
  BY <1>1 DEF Guarded
<1> QED
  BY <1>2 DEF Init, GuardsInv

\* in_progress names exactly the numbers whose parse some fetch is inside, and
\* no number is being parsed twice: what Guard::enter and Guard::drop promise,
\* for any number of threads and any files.
THEOREM GuardsCorrect == Spec => []GuardsExact
<1>1. Init => TypeInv /\ GuardsInv
  BY InitType, InitGuards
<1>2. TypeInv /\ GuardsInv /\ [Next]_vars => (TypeInv /\ GuardsInv)'
  BY TypeStep, GuardsStep
<1>3. GuardsInv => GuardsExact
  BY GuardsInvExact
<1> QED
  BY <1>1, <1>2, <1>3, PTL DEF Spec

----------------------------------------------------------------------------
(* The slots. *)

\* ParsedOnce and AnswersTheSlot over threads and depths instead of pairs.
SlotsInv ==
    \A t, i : Guarded(t, i) =>
       LET f == stack[t][i] IN
       /\ f.at \notin {"recheck", "done"} => cells[f.num] = Empty
       /\ f.at = "done" /\ f.val \in Values => cells[f.num] = f.val

LEMMA SlotsInvStated == SlotsInv => ParsedOnce /\ AnswersTheSlot
<1> SUFFICES ASSUME SlotsInv PROVE ParsedOnce /\ AnswersTheSlot
  OBVIOUS
<1>1. \A c \in Guards : /\ Guarded(c[1], c[2])
                        /\ FrameAt(c) = stack[c[1]][c[2]]
  BY DEF Guards, Frames, FrameAt, Guarded
<1> QED
  BY <1>1 DEF SlotsInv, ParsedOnce, AnswersTheSlot

LEMMA SameSlots ==
    ASSUME SlotsInv, cells' = cells,
           \A t, i : Guarded(t, i)' => Guarded(t, i) /\ stack'[t][i] = stack[t][i]
    PROVE  SlotsInv'
BY DEF SlotsInv

LEMMA SlotsStep == TypeInv /\ GuardsInv /\ SlotsInv /\ [Next]_vars => SlotsInv'
<1> SUFFICES ASSUME TypeInv, GuardsInv, SlotsInv, [Next]_vars PROVE SlotsInv'
  OBVIOUS
<1>1. ASSUME NEW t \in Threads, Quiet(t) PROVE SlotsInv'
  <2>1. PICK k : k = Len(stack[t])
    OBVIOUS
  <2>2. PICK f \in Frame :
          /\ stack'[t][k] = f
          /\ f.num = stack[t][k].num
          /\ f.at # "done" => stack[t][k].at # "recheck" \/ cells[f.num] = Empty
          /\ f.at = "done" /\ f.val \in Values => cells[f.num] = f.val
          /\ Guarded(t, k)
          /\ stack[t][k].at \in Claimed \ {"publish", "done"}
          /\ \A u, i : u # t \/ i # k
               => /\ Guarded(u, i)' <=> Guarded(u, i)
                  /\ Guarded(u, i) => stack'[u][i] = stack[u][i]
    BY <1>1, <2>1, QuietFrame
  <2>3. f.at # "done" => cells[f.num] = Empty
    BY <2>2 DEF SlotsInv
  <2>4. cells' = cells
    BY <1>1 DEF Quiet
  <2>5. ASSUME NEW u, NEW i, Guarded(u, i)'
        PROVE  LET g == stack'[u][i] IN
               /\ g.at \notin {"recheck", "done"} => cells'[g.num] = Empty
               /\ g.at = "done" /\ g.val \in Values => cells'[g.num] = g.val
    <3>1. CASE u = t /\ i = k
      BY <2>2, <2>3, <2>4, <3>1
    <3>2. CASE u # t \/ i # k
      BY <2>2, <2>4, <2>5, <3>2 DEF SlotsInv
    <3> QED
      BY <3>1, <3>2
  <2> QED
    BY <2>5 DEF SlotsInv
<1>2. ASSUME NEW t \in Threads, LookUp(t) PROVE SlotsInv'
  <2>1. \A u, i : /\ Guarded(u, i)' <=> Guarded(u, i)
                  /\ Guarded(u, i) => stack'[u][i] = stack[u][i]
    BY <1>2, LookUpGuards
  <2>2. cells' = cells
    BY <1>2 DEF LookUp
  <2> QED
    BY <2>1, <2>2, SameSlots
<1>3. ASSUME NEW t \in Threads, Claim(t) PROVE SlotsInv'
  <2>1. CASE Return(t, "cycle")
    BY <1>3, <2>1, LookUpGuards, SameSlots DEF Claim
  <2>2. CASE running' = running \union {Top(t).num} /\ Top(t).num \notin running
    <3>1. PICK k : k = Len(stack[t])
      OBVIOUS
    <3>2. /\ stack'[t][k].at = "recheck"
          /\ \A u, i : u # t \/ i # k
               => /\ Guarded(u, i)' <=> Guarded(u, i)
                  /\ Guarded(u, i) => stack'[u][i] = stack[u][i]
      BY <1>3, <2>2, <3>1, ClaimGuards
    <3>3. cells' = cells
      BY <1>3 DEF Claim
    <3> QED
      BY <3>2, <3>3 DEF SlotsInv
  <2> QED
    BY <1>3, <2>1, <2>2 DEF Claim
<1>4. ASSUME NEW t \in Threads, Publish(t) PROVE SlotsInv'
  <2>1. PICK k : k = Len(stack[t])
    OBVIOUS
  <2>2. PICK f \in Frame : /\ Become(t, f) /\ f.num = Top(t).num /\ f.at = "done"
                           /\ cells' = [cells EXCEPT ![f.num] = f.val]
    BY <1>4, PublishType
  <2>3. /\ Active(t) /\ stack[t][k] = Top(t) /\ Guarded(t, k)
        /\ Top(t).num \in Objects
    BY <1>4, <2>1, TopTyped, TopShape
       DEF Publish, At, Top, Guarded, Claimed, TypeInv
  <2>4. /\ stack'[t][k] = f
        /\ \A u, i : u # t \/ i # k
             => /\ Guarded(u, i)' <=> Guarded(u, i)
                /\ Guarded(u, i) => stack'[u][i] = stack[u][i]
    BY <2>1, <2>2, <2>3, BecomeGuards
  <2>5. cells'[f.num] = f.val /\ \A n : n # f.num => cells'[n] = cells[n]
    BY <2>2, <2>3 DEF TypeInv, TypeOK
  <2>6. ASSUME NEW u, NEW i, Guarded(u, i)'
        PROVE  LET g == stack'[u][i] IN
               /\ g.at \notin {"recheck", "done"} => cells'[g.num] = Empty
               /\ g.at = "done" /\ g.val \in Values => cells'[g.num] = g.val
    <3>1. CASE u = t /\ i = k
      BY <2>2, <2>4, <2>5, <3>1
    <3>2. CASE u # t \/ i # k
      <4>1. Guarded(u, i) /\ stack'[u][i] = stack[u][i]
        BY <2>4, <2>6, <3>2
      <4>2. stack[u][i].num # f.num
        BY <2>2, <2>3, <3>2, <4>1 DEF GuardsInv
      <4> QED
        BY <2>5, <4>1, <4>2 DEF SlotsInv
    <3> QED
      BY <3>1, <3>2
  <2> QED
    BY <2>6 DEF SlotsInv
<1>5. ASSUME NEW t \in Threads, Finish(t) PROVE SlotsInv'
  <2>1. PICK k : k = Len(stack[t])
    OBVIOUS
  <2>2. Active(t) /\ Return(t, Top(t).val)
    BY <1>5 DEF Finish, At
  <2>3. /\ ~Guarded(t, k)'
        /\ \A u, i : u # t \/ i # k
             => /\ Guarded(u, i)' <=> Guarded(u, i)
                /\ Guarded(u, i) => stack'[u][i] = stack[u][i]
    BY <2>1, <2>2, ReturnGuards
  <2> QED
    BY <1>5, <2>3, SameSlots DEF Finish
<1>6. ASSUME NEW t \in Threads, NEW n \in Objects \union {Stray}, Get(t, n)
      PROVE  SlotsInv'
  BY <1>6, GetGuards, SameSlots DEF Get
<1>7. CASE UNCHANGED vars
  BY <1>7 DEF vars, SlotsInv, Guarded
<1> QED
  BY <1>1, <1>2, <1>3, <1>4, <1>5, <1>6, <1>7, StepKinds DEF Next

StoreInv == TypeInv /\ GuardsInv /\ SlotsInv

LEMMA StoreInvariant == Spec => []StoreInv
<1>1. Init => StoreInv
  BY InitType, InitGuards DEF StoreInv, SlotsInv, GuardsInv, Init
<1>2. StoreInv /\ [Next]_vars => StoreInv'
  BY TypeStep, GuardsStep, SlotsStep DEF StoreInv
<1> QED
  BY <1>1, <1>2, PTL DEF Spec

\* No object is parsed twice: a fetch past its second look into the slot works
\* on a slot that stays empty until the fetch itself fills it.
THEOREM ParsedOnceCorrect == Spec => []ParsedOnce
<1>1. StoreInv => ParsedOnce
  BY SlotsInvStated DEF StoreInv
<1> QED
  BY <1>1, StoreInvariant, PTL

\* Whoever asks for an object is handed the one in its slot.
THEOREM AnswersCorrect == Spec => []AnswersTheSlot
<1>1. StoreInv => AnswersTheSlot
  BY SlotsInvStated DEF StoreInv
<1> QED
  BY <1>1, StoreInvariant, PTL

----------------------------------------------------------------------------
(* The bound on nested fetches: those a fetch is nested inside are suspended *)
(* under their guards, which are for different objects of the table.         *)

LEMMA DepthBounded ==
    ASSUME TypeInv, GuardsInv, NEW t \in Threads
    PROVE  Len(stack[t]) <= Cardinality(Objects) + 1
<1> DEFINE k == Len(stack[t])
<1> DEFINE D == 1..(k - 1)
<1> DEFINE m == [i \in D |-> stack[t][i].num]
<1>1. k \in Nat
  BY DEF TypeInv, TypeOK
<1>2. IsFiniteSet(Objects) /\ Cardinality(Objects) \in Nat
  BY StoreAssumption, FS_CardinalityType
<1>3. IsFiniteSet(D) /\ Cardinality(D) = IF 1 > k - 1 THEN 0 ELSE k - 1
  <2>1. PICK n \in Int : n = k - 1
    BY <1>1
  <2>2. 1 \in Int /\ IsFiniteSet(1..n) /\ Cardinality(1..n) = IF 1 > n THEN 0 ELSE n - 1 + 1
    BY FS_Interval
  <2> QED
    BY <2>1, <2>2
<1>4. \A i \in D : i \in 1..k /\ i < k
  BY <1>1
<1>5. \A i \in D : stack[t][i].at \in Waiting
  BY <1>4 DEF TypeInv, FramesInv
<1>6. \A i \in D : stack[t][i].num \in Objects
  BY <1>4, <1>5 DEF TypeInv, FramesInv, Waiting
<1>7. \A i \in D : Guarded(t, i)
  BY <1>4, <1>5 DEF Guarded, Claimed
<1>8. \A i, j \in D : stack[t][i].num = stack[t][j].num => i = j
  BY <1>7 DEF GuardsInv
<1>9. m \in [D -> Objects]
  BY <1>6
<1>10. \A i, j \in D : i # j => m[i] # m[j]
  BY <1>8
<1> HIDE DEF D, m
<1>11. ~(Cardinality(Objects) < Cardinality(D))
  BY <1>2, <1>3, <1>9, <1>10, FS_PigeonHole
<1> QED
  BY <1>1, <1>2, <1>3, <1>11

\* No file, however its lengths, filters and object streams refer to one
\* another, drives a thread's fetches deeper than one past its objects.
THEOREM StackCorrect == Spec => []StackBounded
<1>1. StoreInv => StackBounded
  BY DepthBounded DEF StoreInv, StackBounded
<1> QED
  BY <1>1, StoreInvariant, PTL

----------------------------------------------------------------------------
(* What a fetch was told while it was suspended, and what it makes of it.    *)

\* The object a suspended fetch waits for.
Target(f) ==
    CASE f.at = "length"  -> file[f.num].length
      [] f.at = "archive" -> file[f.num].archive
      [] f.at = "filter"  -> file[file[f.num].archive].filter

\* Each fetch is the one the fetch below it waits for; and when that one has
\* just ended with an object, the object is in the slot of the one waited for.
ChainInv ==
    /\ \A t \in Threads : \A i \in 1..(Len(stack[t]) - 1) :
          stack[t][i + 1].num = Target(stack[t][i])
    /\ \A t \in Threads :
          Active(t) /\ Top(t).at \in Waiting /\ answer[t] \in Values
             => /\ Target(Top(t)) \in Objects
                /\ cells[Target(Top(t))] = answer[t]

Whole(n) == n \in Objects /\ cells[n] = "whole"

\* The length of a stream at an offset is direct, or an integer read whole.
Measured(n) ==
    LET o == file[n] IN
    o.where = "offset" /\ o.shape = "stream" /\ o.length # NoObject
       => Whole(o.length) /\ file[o.length].shape = "number"

\* The object stream a was read whole, and so was the filter it names.
Decoded(a) == Whole(a) /\ (file[a].filter \in Objects => Whole(file[a].filter))

\* What a fetch knows of the others by the time it is at each step.
Backed(f) ==
    /\ f.at = "publish" /\ f.val = "whole" => Measured(f.num)
    /\ f.at \in {"archive", "filter", "index"} => file[file[f.num].archive].flagged
    /\ f.at = "filter" /\ f.val = "whole" => Whole(file[f.num].archive)
    /\ f.at = "index" /\ f.box = "good" => Decoded(file[f.num].archive)

BackedInv ==
    /\ \A t \in Threads : \A i \in 1..Len(stack[t]) : Backed(stack[t][i])
    /\ \A n \in Objects : cells[n] = "whole" => Measured(n)
    /\ \A a \in Objects : /\ containers[a] # "untried" => file[a].flagged
                          /\ containers[a] = "good" => Decoded(a)

LEMMA BackedInvStated ==
    TypeInv /\ BackedInv => LengthBacked /\ ContainerBacked
<1> SUFFICES ASSUME TypeInv, BackedInv PROVE LengthBacked /\ ContainerBacked
  OBVIOUS
<1>1. LengthBacked
  BY DEF BackedInv, LengthBacked, Measured, Whole, FoundNumber
<1>2. ContainerBacked
  BY DEF BackedInv, ContainerBacked, Decoded, Whole
<1> QED
  BY <1>1, <1>2

\* An object that was read whole stays so: no slot is filled twice.
Fills == \A n \in Objects : cells[n] # Empty => cells'[n] = cells[n]

LEMMA Filled ==
    ASSUME TypeInv, [Next]_vars PROVE file' = file /\ Fills
<1>1. ASSUME NEW t \in Threads, Publish(t) PROVE Fills
  <2>1. Top(t).num \in Objects
    BY <1>1, TopShape DEF Publish, At
  <2>2. \A n \in Objects :
          cells'[n] = IF n = Top(t).num /\ cells[n] = Empty THEN Top(t).val
                                                            ELSE cells[n]
    BY <1>1, <2>1 DEF Publish, TypeInv, TypeOK
  <2> QED
    BY <2>2 DEF Fills
<1>2. ASSUME NEW t \in Threads, Quiet(t) \/ LookUp(t) \/ Claim(t) \/ Finish(t)
      PROVE  file' = file /\ cells' = cells
  BY <1>2 DEF Quiet, LookUp, Claim, Finish
<1>3. ASSUME NEW t \in Threads, NEW n \in Objects \union {Stray}, Get(t, n)
      PROVE  file' = file /\ cells' = cells
  BY <1>3 DEF Get
<1>4. ASSUME NEW t \in Threads, Publish(t) PROVE file' = file
  BY <1>4 DEF Publish
<1>5. CASE UNCHANGED vars
  BY <1>5 DEF vars, Fills
<1> QED
  BY <1>1, <1>2, <1>3, <1>4, <1>5, StepKinds DEF Next, Fills

LEMMA StaysWhole ==
    ASSUME file' = file, Fills
    PROVE  /\ \A n : Whole(n) => Whole(n)'
           /\ \A n : Measured(n) => Measured(n)'
           /\ \A a : Decoded(a) => Decoded(a)'
           /\ \A f : Backed(f) => Backed(f)'
<1>1. \A n : Whole(n) => Whole(n)'
  BY DEF Whole, Fills, Empty
<1>2. \A n : Measured(n) => Measured(n)'
  BY <1>1 DEF Measured
<1>3. \A a : Decoded(a) => Decoded(a)'
  BY <1>1 DEF Decoded
<1>4. \A f : Backed(f) => Backed(f)'
  BY <1>1, <1>2, <1>3 DEF Backed
<1> QED
  BY <1>1, <1>2, <1>3, <1>4

----------------------------------------------------------------------------
(* The quiet steps again, with what they read.                               *)

\* The innermost fetch of t goes on as a frame f that is backed; if it is to
\* wait, a fetch of what it waits for is begun.
Advances(t) ==
    \E f \in Frame :
       /\ f.num = Top(t).num /\ f.nest = Top(t).nest
       /\ Backed(f)
       /\ \/ Become(t, f) /\ f.at \notin Waiting
          \/ /\ f.at \in Waiting
             /\ Target(f) \in Objects \union {Stray}
             /\ Call(t, f, Target(f))

LEMMA PlainAdvances ==
    ASSUME TypeInv, NEW t \in Threads, Active(t), NEW f \in Frame,
           f.num = Top(t).num /\ f.nest = Top(t).nest, Become(t, f),
           f.at \notin Waiting \union {"publish", "index"}
    PROVE  Advances(t)
<1>1. Backed(f)
  BY DEF Backed, Waiting
<1> QED
  BY <1>1 DEF Advances

LEMMA DoneAdvances ==
    ASSUME TypeInv, NEW t \in Threads, Active(t), NEW v \in Answers, Done(t, v)
    PROVE  Advances(t)
<1> DEFINE f == [Top(t) EXCEPT !.at = "done", !.val = v]
<1>1. f \in Frame /\ f.num = Top(t).num /\ f.nest = Top(t).nest /\ f.at = "done"
  BY TopShape DEF Frame, Claimed
<1>2. Become(t, f)
  BY DEF Done
<1> HIDE DEF f
<1> QED
  BY <1>1, <1>2, PlainAdvances DEF Waiting

LEMMA GotoAdvances ==
    ASSUME TypeInv, NEW t \in Threads, Active(t),
           NEW s \in {"parse", "container", "member"}, Goto(t, s)
    PROVE  Advances(t)
<1> DEFINE f == [Top(t) EXCEPT !.at = s]
<1>1. f \in Frame /\ f.num = Top(t).num /\ f.nest = Top(t).nest /\ f.at = s
  BY TopShape DEF Frame, Claimed
<1>2. Become(t, f)
  BY DEF Goto
<1> HIDE DEF f
<1> QED
  BY <1>1, <1>2, PlainAdvances DEF Waiting

\* What was parsed goes on to be published only as far as its length allows.
LEMMA ParsedAdvances ==
    ASSUME TypeInv, NEW t \in Threads, Active(t), NEW v \in Values, Parsed(t, v),
           v = "whole" => Measured(Top(t).num)
    PROVE  Advances(t)
<1>1. CASE file[Top(t).num].where = "shifted"
  <2>1. Done(t, "unresolved") /\ "unresolved" \in Answers
    BY <1>1 DEF Parsed, Answers
  <2> QED
    BY <2>1, DoneAdvances
<1>2. CASE file[Top(t).num].where # "shifted"
  <2> DEFINE f == [Top(t) EXCEPT !.at = "publish", !.val = v]
  <2>1. f \in Frame /\ f.num = Top(t).num /\ f.nest = Top(t).nest /\ f.at = "publish" /\ f.val = v
    BY TopShape DEF Frame, Claimed, Answers
  <2>2. Become(t, f)
    BY <1>2 DEF Parsed
  <2> HIDE DEF f
  <2>3. Backed(f)
    BY <2>1 DEF Backed
  <2> QED
    BY <2>1, <2>2, <2>3 DEF Advances, Waiting
<1> QED
  BY <1>1, <1>2

LEMMA RecheckAdvances ==
    ASSUME TypeInv, NEW t \in Threads, Recheck(t) PROVE Advances(t)
<1>1. Active(t) /\ Top(t).at = "recheck" /\ Top(t).num \in Objects
  BY TopShape DEF Recheck, At
<1>2. CASE cells[Top(t).num] # Empty
  <2>1. Done(t, cells[Top(t).num]) /\ cells[Top(t).num] \in Answers
    BY <1>1, <1>2 DEF Recheck, TypeInv, TypeOK, Answers
  <2> QED
    BY <1>1, <2>1, DoneAdvances
<1>3. CASE cells[Top(t).num] = Empty
  <2>1. Goto(t, "parse")
    BY <1>3 DEF Recheck
  <2> QED
    BY <1>1, <2>1, GotoAdvances
<1> QED
  BY <1>2, <1>3

LEMMA ParseAdvances ==
    ASSUME TypeInv, NEW t \in Threads, Parse(t) PROVE Advances(t)
<1> DEFINE f == Top(t)
<1> DEFINE o == file[f.num]
<1>1. Active(t) /\ f \in Frame /\ f.num \in Objects
  BY TopShape DEF Parse, At
<1>2. o \in Slot
  BY <1>1, FileTyped DEF TypeInv
<1>3. CASE o.where = "absent"
  <2>1. Done(t, "unresolved") /\ "unresolved" \in Answers
    BY <1>3 DEF Parse, Answers
  <2> QED
    BY <1>1, <2>1, DoneAdvances
<1>4. CASE o.where = "packed"
  <2>1. Goto(t, "container")
    BY <1>4 DEF Parse
  <2> QED
    BY <1>1, <2>1, GotoAdvances
<1>5. CASE o.where \in {"offset", "shifted"} /\ TooDeep(f)
  <2>1. Parsed(t, "null")
    BY <1>5 DEF Parse
  <2> QED
    BY <1>1, <2>1, ParsedAdvances DEF Values
<1>6. CASE /\ o.where \in {"offset", "shifted"} /\ ~TooDeep(f)
           /\ o.shape = "stream" /\ o.length # NoObject /\ ~Clips(f, o.shape)
  <2> DEFINE g == [f EXCEPT !.at = "length"]
  <2>1. g \in Frame /\ g.num = f.num /\ g.nest = f.nest /\ g.at = "length"
    BY <1>1 DEF Frame, Claimed, Waiting
  <2>2. Call(t, g, o.length)
    BY <1>6 DEF Parse
  <2>3. o.length \in Objects \union {Stray}
    BY <1>2, <1>6 DEF Slot, Refs
  <2>4. Target(g) = o.length
    BY <2>1 DEF Target
  <2> HIDE DEF g
  <2>5. Backed(g)
    BY <2>1 DEF Backed
  <2> QED
    BY <2>1, <2>2, <2>3, <2>4, <2>5 DEF Advances, Waiting
<1>7. CASE /\ o.where \in {"offset", "shifted"} /\ ~TooDeep(f)
           /\ ~(o.shape = "stream" /\ o.length # NoObject /\ ~Clips(f, o.shape))
  <2>1. Parsed(t, Reading(f, o.shape))
    BY <1>7 DEF Parse
  <2>2. Reading(f, o.shape) \in Values
    BY DEF Reading, Values
  <2>3. Reading(f, o.shape) = "whole" => Measured(f.num)
    BY <1>7 DEF Reading, Measured
  <2> QED
    BY <1>1, <2>1, <2>2, <2>3, ParsedAdvances
<1> QED
  BY <1>2, <1>3, <1>4, <1>5, <1>6, <1>7 DEF Slot

\* The length a fetch has just been told is the one in the slot.
LEMMA MeasureAdvances ==
    ASSUME TypeInv, ChainInv, NEW t \in Threads, Measure(t) PROVE Advances(t)
<1> DEFINE len == file[Top(t).num].length
<1>1. Active(t) /\ Top(t).at = "length"
  BY DEF Measure, At
<1>2. CASE FoundNumber(len, answer[t])
  <2>1. Parsed(t, "whole")
    BY <1>2 DEF Measure
  <2>2. Target(Top(t)) = len
    BY <1>1 DEF Target
  <2>3. cells[len] = "whole"
    BY <1>1, <1>2, <2>2 DEF ChainInv, FoundNumber, Values, Waiting
  <2>4. Measured(Top(t).num)
    BY <1>2, <2>3 DEF Measured, Whole, FoundNumber
  <2> QED
    BY <1>1, <2>1, <2>4, ParsedAdvances DEF Values
<1>3. CASE ~FoundNumber(len, answer[t])
  <2>1. Parsed(t, "rescanned")
    BY <1>3 DEF Measure
  <2> QED
    BY <1>1, <2>1, ParsedAdvances DEF Values
<1> QED
  BY <1>2, <1>3

LEMMA OpenContainerAdvances ==
    ASSUME TypeInv, NEW t \in Threads, OpenContainer(t) PROVE Advances(t)
<1> DEFINE a == Archive(t)
<1>1. /\ Active(t) /\ Top(t).at = "container" /\ Top(t) \in Frame
  BY TopShape DEF OpenContainer, At
<1>2. a \in Objects /\ containers[a] \in Boxes
  BY <1>1, ArchiveTyped DEF PackedSteps, TypeInv, TypeOK
<1>3. CASE ~file[a].flagged
  <2>1. Done(t, "unresolved") /\ "unresolved" \in Answers
    BY <1>3 DEF OpenContainer, Answers
  <2> QED
    BY <1>1, <2>1, DoneAdvances
<1>4. CASE file[a].flagged /\ containers[a] # "untried"
  <2> DEFINE f == [Top(t) EXCEPT !.at = "member", !.box = containers[a]]
  <2>1. f \in Frame /\ f.num = Top(t).num /\ f.nest = Top(t).nest /\ f.at = "member"
    BY <1>1, <1>2 DEF Frame, Claimed
  <2>2. Become(t, f)
    BY <1>4 DEF OpenContainer
  <2> HIDE DEF f
  <2> QED
    BY <1>1, <2>1, <2>2, PlainAdvances DEF Waiting
<1>5. CASE file[a].flagged /\ containers[a] = "untried"
  <2> DEFINE f == [Top(t) EXCEPT !.at = "archive"]
  <2>1. f \in Frame /\ f.num = Top(t).num /\ f.nest = Top(t).nest /\ f.at = "archive"
    BY <1>1 DEF Frame, Claimed, Waiting
  <2>2. Call(t, f, a)
    BY <1>5 DEF OpenContainer
  <2> HIDE DEF f
  <2>3. Target(f) = a /\ Backed(f)
    BY <1>5, <2>1 DEF Target, Backed, Archive
  <2> QED
    BY <1>2, <2>1, <2>2, <2>3 DEF Advances, Waiting
<1> QED
  BY <1>3, <1>4, <1>5

\* A fetch that is to index what came of its object stream.
LEMMA ToIndexAdvances ==
    ASSUME TypeInv, NEW t \in Threads, Active(t), NEW g \in Frame,
           g.num = Top(t).num /\ g.nest = Top(t).nest, NEW b \in Boxes,
           Become(t, [g EXCEPT !.at = "index", !.box = b]),
           file[Archive(t)].flagged,
           b = "good" => Decoded(Archive(t))
    PROVE  Advances(t)
<1> DEFINE f == [g EXCEPT !.at = "index", !.box = b]
<1>1. f \in Frame /\ f.num = Top(t).num /\ f.nest = Top(t).nest /\ f.at = "index" /\ f.box = b
  BY DEF Frame, Claimed
<1>2. Become(t, f)
  OBVIOUS
<1> HIDE DEF f
<1>3. Backed(f)
  BY <1>1 DEF Backed, Archive
<1> QED
  BY <1>1, <1>2, <1>3 DEF Advances, Waiting

LEMMA TopBacked ==
    ASSUME TypeInv, BackedInv, NEW t \in Threads, Active(t) PROVE Backed(Top(t))
<1>1. Len(stack[t]) \in 1..Len(stack[t])
  BY TopTyped DEF TypeInv
<1> QED
  BY <1>1 DEF BackedInv, Top

LEMMA BuildContainerAdvances ==
    ASSUME TypeInv, ChainInv, BackedInv, NEW t \in Threads, BuildContainer(t)
    PROVE  Advances(t)
<1> DEFINE a == Archive(t)
<1> DEFINE v == answer[t]
<1> DEFINE f == [Top(t) EXCEPT !.val = v]
<1>1. Active(t) /\ Top(t).at = "archive" /\ Top(t) \in Frame
  BY TopShape DEF BuildContainer, At
<1>2. a \in Objects /\ file[a] \in Slot
  BY <1>1, ArchiveTyped, FileTyped DEF PackedSteps, TypeInv
<1>3. f \in Frame /\ f.num = Top(t).num /\ f.nest = Top(t).nest /\ f.val = v
  BY <1>1 DEF Frame, TypeInv, TypeOK
<1>4. file[a].flagged
  BY <1>1, TopBacked DEF Backed, Archive
<1>5. v = "whole" => Whole(a)
  <2>1. Target(Top(t)) = a
    BY <1>1 DEF Target, Archive
  <2> QED
    BY <1>1, <2>1 DEF ChainInv, Whole, Values, Waiting
<1>6. CASE Become(t, [f EXCEPT !.at = "index", !.box = "none"])
  BY <1>1, <1>3, <1>4, <1>6, ToIndexAdvances DEF Boxes
<1>7. CASE /\ file[a].filter # NoObject
           /\ Call(t, [f EXCEPT !.at = "filter"], file[a].filter)
  <2> DEFINE g == [f EXCEPT !.at = "filter"]
  <2>1. g \in Frame /\ g.num = Top(t).num /\ g.nest = Top(t).nest /\ g.at = "filter" /\ g.val = v
    BY <1>3 DEF Frame, Claimed, Waiting
  <2>2. Call(t, g, file[a].filter)
    BY <1>7
  <2>3. file[a].filter \in Objects \union {Stray}
    BY <1>2, <1>7 DEF Slot, Refs
  <2> HIDE DEF g
  <2>4. Target(g) = file[a].filter
    BY <2>1 DEF Target, Archive
  <2>5. Backed(g)
    BY <1>4, <1>5, <2>1 DEF Backed, Archive
  <2> QED
    BY <2>1, <2>2, <2>3, <2>4, <2>5 DEF Advances, Waiting
<1>8. CASE /\ file[a].filter = NoObject
           /\ Become(t, [f EXCEPT !.at = "index",
                           !.box = IF v = "whole" THEN "good" ELSE "garbled"])
  <2> DEFINE b == IF v = "whole" THEN "good" ELSE "garbled"
  <2>1. b \in Boxes /\ Become(t, [f EXCEPT !.at = "index", !.box = b])
    BY <1>8 DEF Boxes
  <2>2. b = "good" => Decoded(a)
    BY <1>5, <1>8, StoreAssumption DEF Decoded
  <2> HIDE DEF b
  <2> QED
    BY <1>1, <1>3, <1>4, <2>1, <2>2, ToIndexAdvances
<1> QED
  BY <1>6, <1>7, <1>8 DEF BuildContainer

LEMMA DecodeAdvances ==
    ASSUME TypeInv, ChainInv, BackedInv, NEW t \in Threads, Decode(t)
    PROVE  Advances(t)
<1> DEFINE a == Archive(t)
<1> DEFINE good == Top(t).val = "whole" /\ FoundFilter(file[a].filter, answer[t])
<1> DEFINE b == IF good THEN "good" ELSE "garbled"
<1>1. Active(t) /\ Top(t).at = "filter" /\ Top(t) \in Frame
  BY TopShape DEF Decode, At
<1>2. file[a].flagged
  BY <1>1, TopBacked DEF Backed, Archive
<1>3. good => Decoded(a)
  <2> SUFFICES ASSUME good PROVE Decoded(a)
    OBVIOUS
  <2>1. Whole(a)
    BY <1>1, TopBacked DEF Backed, Archive
  <2>2. Target(Top(t)) = file[a].filter
    BY <1>1 DEF Target, Archive
  <2>3. Whole(file[a].filter)
    BY <1>1, <2>2 DEF ChainInv, Whole, FoundFilter, Values, Waiting
  <2> QED
    BY <2>1, <2>3 DEF Decoded
<1>4. b \in Boxes /\ Become(t, [Top(t) EXCEPT !.at = "index", !.box = b])
  BY DEF Decode, Boxes
<1>5. b = "good" => Decoded(a)
  BY <1>3
<1> HIDE DEF b
<1> QED
  BY <1>1, <1>2, <1>4, <1>5, ToIndexAdvances

LEMMA IndexAdvances ==
    ASSUME TypeInv, NEW t \in Threads, Index(t) PROVE Advances(t)
<1>1. Active(t)
  BY DEF Index, At
<1> QED
  BY <1>1, GotoAdvances DEF Index

LEMMA MemberAdvances ==
    ASSUME TypeInv, NEW t \in Threads, Member(t) PROVE Advances(t)
<1> DEFINE f == Top(t)
<1> DEFINE o == file[f.num]
<1>1. Active(t) /\ f.at = "member" /\ o.where = "packed"
  BY TopShape DEF Member, At, PackedSteps
<1>2. CASE Parsed(t, Reading(f, o.shape))
  <2>1. Reading(f, o.shape) \in Values /\ Measured(f.num)
    BY <1>1 DEF Reading, Values, Measured
  <2> QED
    BY <1>1, <1>2, <2>1, ParsedAdvances
<1>3. CASE Done(t, "unresolved")
  BY <1>1, <1>3, DoneAdvances DEF Answers
<1> QED
  BY <1>2, <1>3 DEF Member

\* The steps of a fetch under its guard, but for its two ends.
Works(t) ==
    \/ Recheck(t) \/ Parse(t) \/ Measure(t)
    \/ OpenContainer(t) \/ BuildContainer(t) \/ Decode(t) \/ Index(t)
    \/ Member(t)

LEMMA WorksAdvance ==
    ASSUME TypeInv, ChainInv, BackedInv, NEW t \in Threads, Works(t)
    PROVE  Advances(t) /\ Quiet(t)
<1>1. Advances(t)
  BY RecheckAdvances, ParseAdvances, MeasureAdvances, OpenContainerAdvances,
     BuildContainerAdvances, DecodeAdvances, IndexAdvances, MemberAdvances
     DEF Works
<1>2. Quiet(t)
  BY RecheckQuiet, ParseQuiet, MeasureQuiet, OpenContainerQuiet,
     BuildContainerQuiet, DecodeQuiet, IndexQuiet, MemberQuiet DEF Works
<1> QED
  BY <1>1, <1>2
----------------------------------------------------------------------------
(* The chain of suspended fetches, over the ways a stack changes.            *)

LEMMA ChainElsewhere ==
    ASSUME TypeInv, ChainInv, file' = file, Fills, NEW u \in Threads,
           stack'[u] = stack[u], answer'[u] = answer[u]
    PROVE  /\ \A i \in 1..(Len(stack'[u]) - 1) :
                stack'[u][i + 1].num = Target(stack[u][i])'
           /\ (Active(u) /\ Top(u).at \in Waiting)' /\ answer'[u] \in Values
                => /\ Target(Top(u))' \in Objects
                   /\ cells'[Target(Top(u))'] = answer'[u]
<1>1. \A i \in 1..(Len(stack'[u]) - 1) :
         stack'[u][i + 1].num = Target(stack[u][i])'
  BY DEF ChainInv, Target
<1>2. ASSUME (Active(u) /\ Top(u).at \in Waiting)', answer'[u] \in Values
      PROVE  /\ Target(Top(u))' \in Objects
             /\ cells'[Target(Top(u))'] = answer'[u]
  <2>1. Active(u) /\ Top(u).at \in Waiting /\ answer[u] \in Values
    BY <1>2 DEF Active, Top
  <2>2. Target(Top(u)) \in Objects /\ cells[Target(Top(u))] = answer[u]
    BY <2>1 DEF ChainInv
  <2>3. cells'[Target(Top(u))] = answer[u]
    BY <2>1, <2>2 DEF Fills, Values, Empty
  <2>4. Target(Top(u))' = Target(Top(u))
    BY DEF Target, Top
  <2> QED
    BY <2>2, <2>3, <2>4
<1> QED
  BY <1>1, <1>2

LEMMA ChainBecome ==
    ASSUME TypeInv, ChainInv, file' = file, Fills, answer' = answer,
           NEW t \in Threads, Active(t), NEW f \in Frame, Become(t, f),
           f.num = Top(t).num, f.at \notin Waiting
    PROVE  ChainInv'
<1> DEFINE k == Len(stack[t])
<1>1. /\ k \in Nat \ {0}
      /\ Len(stack'[t]) = k
      /\ stack'[t][k] = f
      /\ \A i \in 1..k : i # k => stack'[t][i] = stack[t][i]
      /\ \A u \in Threads : u # t => stack'[u] = stack[u]
  BY TopTyped, BecomeStep DEF TypeInv
<1> HIDE DEF k
<1>2. ASSUME NEW i \in 1..(Len(stack'[t]) - 1)
      PROVE  stack'[t][i + 1].num = Target(stack[t][i])'
  <2>1. i \in 1..(k - 1) /\ i \in 1..k /\ i # k /\ i + 1 \in 1..k
    BY <1>1
  <2>2. stack[t][i + 1].num = Target(stack[t][i])
    BY <2>1 DEF ChainInv, k
  <2>3. stack'[t][i + 1].num = stack[t][i + 1].num
    <3>1. CASE i + 1 = k
      BY <1>1, <3>1 DEF Top, k
    <3>2. CASE i + 1 # k
      BY <1>1, <2>1, <3>2
    <3> QED
      BY <3>1, <3>2
  <2>4. stack'[t][i] = stack[t][i]
    BY <1>1, <2>1
  <2> QED
    BY <2>2, <2>3, <2>4 DEF Target
<1>3. ~(Top(t).at \in Waiting)'
  BY <1>1 DEF Top
<1>4. ASSUME NEW u \in Threads, u # t
      PROVE  stack'[u] = stack[u] /\ answer'[u] = answer[u]
  BY <1>1, <1>4
<1> QED
  BY <1>2, <1>3, <1>4, ChainElsewhere DEF ChainInv

LEMMA ChainCall ==
    ASSUME TypeInv, ChainInv, file' = file, Fills, answer' = answer,
           NEW t \in Threads, Active(t), NEW f \in Frame,
           Target(f) \in Objects \union {Stray}, Call(t, f, Target(f)),
           f.num = Top(t).num
    PROVE  ChainInv'
<1> DEFINE k == Len(stack[t])
<1>1. /\ k \in Nat \ {0}
      /\ Len(stack'[t]) = k + 1
      /\ stack'[t][k + 1] = NewFrame(Target(f))
      /\ stack'[t][k] = f
      /\ \A i \in 1..k : i # k => stack'[t][i] = stack[t][i]
      /\ \A u \in Threads : u # t => stack'[u] = stack[u]
  BY TopTyped, CallStep DEF TypeInv
<1> HIDE DEF k
<1>2. ASSUME NEW i \in 1..(Len(stack'[t]) - 1)
      PROVE  stack'[t][i + 1].num = Target(stack[t][i])'
  <2>1. CASE i = k
    <3>1. stack'[t][i + 1].num = Target(f)
      BY <1>1, <2>1 DEF NewFrame
    <3>2. stack'[t][i] = f
      BY <1>1, <2>1
    <3> QED
      BY <3>1, <3>2 DEF Target
  <2>2. CASE i # k
    <3>1. i \in 1..(k - 1) /\ i \in 1..k /\ i + 1 \in 1..k
      BY <1>1, <2>2
    <3>2. stack[t][i + 1].num = Target(stack[t][i])
      BY <3>1 DEF ChainInv, k
    <3>3. stack'[t][i + 1].num = stack[t][i + 1].num
      <4>1. CASE i + 1 = k
        BY <1>1, <4>1 DEF Top, k
      <4>2. CASE i + 1 # k
        BY <1>1, <3>1, <4>2
      <4> QED
        BY <4>1, <4>2
    <3>4. stack'[t][i] = stack[t][i]
      BY <1>1, <2>2, <3>1
    <3> QED
      BY <3>2, <3>3, <3>4 DEF Target
  <2> QED
    BY <2>1, <2>2
<1>3. ~(Top(t).at \in Waiting)'
  BY <1>1 DEF Top, NewFrame, Waiting
<1>4. ASSUME NEW u \in Threads, u # t
      PROVE  stack'[u] = stack[u] /\ answer'[u] = answer[u]
  BY <1>1, <1>4
<1> QED
  BY <1>2, <1>3, <1>4, ChainElsewhere DEF ChainInv

LEMMA ChainReturn ==
    ASSUME TypeInv, ChainInv, file' = file, cells' = cells,
           NEW t \in Threads, Active(t), NEW r, Return(t, r),
           r \in Values => Top(t).num \in Objects /\ cells[Top(t).num] = r
    PROVE  ChainInv'
<1> DEFINE k == Len(stack[t])
<1>1. /\ k \in Nat \ {0}
      /\ Len(stack'[t]) = k - 1
      /\ \A i \in 1..(k - 1) : stack'[t][i] = stack[t][i]
      /\ \A u \in Threads : u # t => stack'[u] = stack[u]
      /\ stack'[t] \in Seq(Frame)
  BY TopTyped, ReturnStep DEF TypeInv
<1>2. answer' = [answer EXCEPT ![t] = r] /\ answer \in [Threads -> Answers]
  BY DEF Return, TypeInv, TypeOK
<1> HIDE DEF k
<1>3. ASSUME NEW i \in 1..(Len(stack'[t]) - 1)
      PROVE  stack'[t][i + 1].num = Target(stack[t][i])'
  <2>1. i \in 1..(k - 1) /\ i + 1 \in 1..(k - 1)
    BY <1>1
  <2>2. stack[t][i + 1].num = Target(stack[t][i])
    BY <2>1 DEF ChainInv, k
  <2> QED
    BY <1>1, <2>1, <2>2 DEF Target
<1>4. ASSUME Active(t)', answer'[t] \in Values
      PROVE  /\ Target(Top(t))' \in Objects
             /\ cells'[Target(Top(t))'] = answer'[t]
  <2>1. k - 1 # 0
    BY <1>1, <1>4 DEF Active
  <2>2. k - 1 \in 1..(k - 1) /\ k - 1 + 1 = k
    BY <1>1, <2>1
  <2>3. Top(t)' = stack[t][k - 1]
    BY <1>1, <2>2 DEF Top
  <2>4. stack[t][k].num = Target(stack[t][k - 1])
    BY <2>2 DEF ChainInv, k
  <2>5. Target(Top(t))' = Top(t).num
    BY <2>3, <2>4 DEF Target, Top, k
  <2>6. answer'[t] = r
    BY <1>2
  <2> QED
    BY <1>4, <2>5, <2>6
<1>5. ASSUME NEW u \in Threads, u # t
      PROVE  stack'[u] = stack[u] /\ answer'[u] = answer[u]
  BY <1>1, <1>2, <1>5
<1>6. Fills
  BY DEF Fills
<1> QED
  BY <1>3, <1>4, <1>5, <1>6, ChainElsewhere DEF ChainInv

LEMMA ChainGet ==
    ASSUME TypeInv, ChainInv, NEW t \in Threads,
           NEW n \in Objects \union {Stray}, Get(t, n)
    PROVE  ChainInv'
<1>1. /\ Len(stack'[t]) = 1
      /\ stack'[t][1] = NewFrame(n)
      /\ \A u \in Threads : u # t => stack'[u] = stack[u]
  BY GetType
<1>2. file' = file /\ cells' = cells /\ answer' = answer
  BY DEF Get
<1>3. \A i \in 1..(Len(stack'[t]) - 1) : FALSE
  BY <1>1
<1>4. ~(Top(t).at \in Waiting)'
  BY <1>1 DEF Top, NewFrame, Waiting
<1>5. Fills
  BY <1>2 DEF Fills
<1> QED
  BY <1>1, <1>2, <1>3, <1>4, <1>5, ChainElsewhere DEF ChainInv

\* How the fetches that hold no guard, and those that end, move on.
LEMMA OtherMoves ==
    ASSUME TypeInv, SlotsInv, NEW t \in Threads,
           LookUp(t) \/ Claim(t) \/ Publish(t) \/ Finish(t)
    PROVE  /\ Active(t)
           /\ \/ /\ answer' = answer
                 /\ \E f \in Frame : /\ Become(t, f)
                                    /\ f.num = Top(t).num
                                    /\ f.at \in {"claim", "recheck", "done"}
              \/ /\ cells' = cells
                 /\ \E r \in Answers :
                       /\ Return(t, r)
                       /\ r \in Values => /\ Top(t).num \in Objects
                                         /\ cells[Top(t).num] = r
<1>1. CASE LookUp(t)
  <2>1. Active(t) /\ Top(t) \in Frame /\ cells' = cells
    BY <1>1, TopShape DEF LookUp, At
  <2>2. CASE Top(t).num = Stray /\ Return(t, "unresolved")
    BY <2>1, <2>2 DEF Answers, Values
  <2>3. CASE Top(t).num # Stray /\ cells[Top(t).num] # Empty /\ Return(t, cells[Top(t).num])
    <3>1. Top(t).num \in Objects /\ cells[Top(t).num] \in Answers
      BY <2>1, <2>3 DEF Frame, TypeInv, TypeOK, Answers
    <3> QED
      BY <2>1, <2>3, <3>1
  <2>4. CASE Goto(t, "claim") /\ UNCHANGED answer
    <3> DEFINE f == [Top(t) EXCEPT !.at = "claim"]
    <3>1. f \in Frame /\ f.num = Top(t).num /\ f.at = "claim"
      BY <2>1 DEF Frame, Unclaimed
    <3>2. Become(t, f)
      BY <2>4 DEF Goto
    <3> HIDE DEF f
    <3> QED
      BY <2>1, <2>4, <3>1, <3>2
  <2> QED
    BY <1>1, <2>2, <2>3, <2>4 DEF LookUp
<1>2. CASE Claim(t)
  <2>1. Active(t) /\ Top(t) \in Frame /\ cells' = cells
    BY <1>2, TopShape DEF Claim, At
  <2>2. CASE Return(t, "cycle")
    BY <2>1, <2>2 DEF Answers, Values
  <2>3. CASE /\ Become(t, [Top(t) EXCEPT !.at = "recheck", !.nest = Cardinality(running)])
             /\ UNCHANGED answer
    <3> DEFINE f == [Top(t) EXCEPT !.at = "recheck", !.nest = Cardinality(running)]
    <3>1. f \in Frame /\ f.num = Top(t).num /\ f.at = "recheck"
      BY <2>1, RunningFinite DEF Frame, Claimed, TypeInv
    <3>2. Become(t, f)
      BY <2>3
    <3> HIDE DEF f
    <3> QED
      BY <2>1, <2>3, <3>1, <3>2
  <2> QED
    BY <1>2, <2>2, <2>3 DEF Claim
<1>3. CASE Publish(t)
  <2>1. Active(t) /\ answer' = answer
    BY <1>3 DEF Publish, At
  <2> QED
    BY <1>3, <2>1, PublishType
<1>4. CASE Finish(t)
  <2>1. Active(t) /\ Top(t).at = "done" /\ Top(t) \in Frame /\ cells' = cells
    BY <1>4, TopShape DEF Finish, At
  <2>2. Top(t).num \in Objects /\ Top(t).val \in Answers
    BY <2>1, TopShape DEF Frame
  <2>3. Guarded(t, Len(stack[t]))
    BY <2>1, TopTyped DEF Guarded, Top, TypeInv, Claimed
  <2>4. Top(t).val \in Values => cells[Top(t).num] = Top(t).val
    BY <2>1, <2>3 DEF SlotsInv, Top
  <2> QED
    BY <1>4, <2>1, <2>2, <2>4 DEF Finish
<1> QED
  BY <1>1, <1>2, <1>3, <1>4

LEMMA StepOrWork ==
    ASSUME NEW t \in Threads, Step(t)
    PROVE  Works(t) \/ LookUp(t) \/ Claim(t) \/ Publish(t) \/ Finish(t)
BY DEF Step, Works

LEMMA ChainStep ==
    ASSUME TypeInv, SlotsInv, ChainInv, BackedInv, [Next]_vars PROVE ChainInv'
<1>1. file' = file /\ Fills
  BY Filled
<1>2. ASSUME NEW t \in Threads, Works(t) PROVE ChainInv'
  <2>1. Active(t) /\ answer' = answer
    BY <1>2, WorksAdvance DEF Quiet
  <2>2. PICK f \in Frame :
          /\ f.num = Top(t).num
          /\ \/ Become(t, f) /\ f.at \notin Waiting
             \/ Target(f) \in Objects \union {Stray} /\ Call(t, f, Target(f))
    BY <1>2, WorksAdvance DEF Advances
  <2> QED
    BY <1>1, <2>1, <2>2, ChainBecome, ChainCall
<1>3. ASSUME NEW t \in Threads, LookUp(t) \/ Claim(t) \/ Publish(t) \/ Finish(t)
      PROVE  ChainInv'
  <2>1. Active(t)
    BY <1>3, OtherMoves
  <2>2. CASE /\ answer' = answer
             /\ \E f \in Frame : /\ Become(t, f)
                                /\ f.num = Top(t).num
                                /\ f.at \in {"claim", "recheck", "done"}
    BY <1>1, <2>1, <2>2, ChainBecome DEF Waiting
  <2>3. CASE /\ cells' = cells
             /\ \E r \in Answers :
                   /\ Return(t, r)
                   /\ r \in Values => /\ Top(t).num \in Objects
                                     /\ cells[Top(t).num] = r
    BY <1>1, <2>1, <2>3, ChainReturn
  <2> QED
    BY <1>3, <2>2, <2>3, OtherMoves
<1>4. ASSUME NEW t \in Threads, NEW n \in Objects \union {Stray}, Get(t, n)
      PROVE  ChainInv'
  BY <1>4, ChainGet
<1>5. CASE UNCHANGED vars
  BY <1>5 DEF vars, ChainInv, Target, Top, Active
<1> QED
  BY <1>2, <1>3, <1>4, <1>5, StepOrWork DEF Next

----------------------------------------------------------------------------
(* The slots and the containers.                                             *)

\* A thread moves its own fetches only.
LEMMA StepElsewhere ==
    ASSUME TypeInv, SlotsInv, ChainInv, BackedInv, NEW u \in Threads,
           NEW t \in Threads, t # u,
           Step(t) \/ \E n \in Objects \union {Stray} : Get(t, n)
    PROVE  stack'[u] = stack[u]
<1>1. CASE \E n \in Objects \union {Stray} : Get(t, n)
  BY <1>1, GetType
<1>2. ASSUME NEW f \in Frame, Active(t),
             Become(t, f) \/ (Target(f) \in Objects \union {Stray} /\ Call(t, f, Target(f)))
      PROVE  stack'[u] = stack[u]
  BY <1>2, BecomeStep, CallStep DEF TypeInv
<1>3. ASSUME NEW r, Active(t), Return(t, r) PROVE stack'[u] = stack[u]
  BY <1>3, ReturnStep DEF TypeInv
<1>4. CASE Works(t)
  <2>1. Active(t)
    BY <1>4, WorksAdvance DEF Quiet
  <2> QED
    BY <1>2, <1>4, <2>1, WorksAdvance DEF Advances
<1>5. CASE LookUp(t) \/ Claim(t) \/ Publish(t) \/ Finish(t)
  BY <1>2, <1>3, <1>5, OtherMoves
<1> QED
  BY <1>1, <1>4, <1>5, StepOrWork

LEMMA FramesBacked ==
    ASSUME TypeInv, SlotsInv, ChainInv, BackedInv, [Next]_vars,
           NEW u \in Threads, NEW i \in 1..Len(stack'[u]),
           NEW g, g = stack'[u][i]
    PROVE  Backed(g)
<1>1. ASSUME stack'[u] = stack[u] PROVE Backed(g)
  BY <1>1 DEF BackedInv
<1>2. \A n : Backed(NewFrame(n))
  BY DEF Backed, NewFrame
<1> DEFINE k == Len(stack[u])
<1>3. ASSUME NEW f \in Frame, Backed(f), Active(u),
             Become(u, f) \/ (Target(f) \in Objects \union {Stray} /\ Call(u, f, Target(f)))
      PROVE  Backed(g)
  <2>1. k \in Nat \ {0} /\ stack'[u][k] = f
        /\ \A j \in 1..k : j # k => stack'[u][j] = stack[u][j]
    BY <1>3, TopTyped, BecomeStep, CallStep DEF TypeInv
  <2>2. \/ Len(stack'[u]) = k
        \/ Len(stack'[u]) = k + 1 /\ stack'[u][k + 1] = NewFrame(Target(f))
    BY <1>3, BecomeStep, CallStep DEF TypeInv
  <2>3. CASE i = k
    BY <1>3, <2>1, <2>3
  <2>4. CASE i = k + 1
    <3>1. Len(stack'[u]) # k
      BY <2>1, <2>4
    <3> QED
      BY <1>2, <2>2, <2>4, <3>1
  <2>5. CASE i # k /\ i # k + 1
    <3>1. i \in 1..k
      BY <2>1, <2>2, <2>5
    <3> QED
      BY <2>1, <2>5, <3>1 DEF BackedInv
  <2> QED
    BY <2>3, <2>4, <2>5
<1>4. ASSUME Active(u), NEW r, Return(u, r) PROVE Backed(g)
  <2>1. /\ k \in Nat \ {0} /\ Len(stack'[u]) = k - 1
        /\ \A j \in 1..(k - 1) : stack'[u][j] = stack[u][j]
    BY <1>4, TopTyped, ReturnStep DEF TypeInv
  <2>2. i \in 1..(k - 1) /\ i \in 1..k
    BY <2>1
  <2> QED
    BY <2>1, <2>2 DEF BackedInv
<1>5. ASSUME Works(u) PROVE Backed(g)
  <2>1. Active(u)
    BY <1>5, WorksAdvance DEF Quiet
  <2> QED
    BY <1>3, <1>5, <2>1, WorksAdvance DEF Advances
<1>6. ASSUME LookUp(u) \/ Claim(u) \/ Publish(u) \/ Finish(u) PROVE Backed(g)
  <2>1. \A f : f.at \in {"claim", "recheck", "done"} => Backed(f)
    BY DEF Backed
  <2> QED
    BY <1>3, <1>4, <1>6, <2>1, OtherMoves
<1>7. ASSUME NEW n \in Objects \union {Stray}, Get(u, n) PROVE Backed(g)
  <2>1. Len(stack'[u]) = 1 /\ stack'[u][1] = NewFrame(n)
    BY <1>7, GetType
  <2>2. i = 1
    BY <2>1
  <2> QED
    BY <1>2, <2>1, <2>2
<1>8. ASSUME NEW t \in Threads, t # u,
             Step(t) \/ \E n \in Objects \union {Stray} : Get(t, n)
      PROVE  stack'[u] = stack[u]
  BY <1>8, StepElsewhere
<1>9. CASE UNCHANGED vars
  BY <1>1, <1>9 DEF vars
<1> QED
  BY <1>1, <1>5, <1>6, <1>7, <1>8, <1>9, StepOrWork DEF Next

LEMMA BackedStep ==
    ASSUME TypeInv, SlotsInv, ChainInv, BackedInv, [Next]_vars PROVE BackedInv'
<1>1. file' = file /\ Fills
  BY Filled
<1>2. ASSUME NEW u \in Threads, NEW i \in 1..Len(stack'[u])
      PROVE  Backed(stack[u][i])'
  <2>1. PICK g : g = stack'[u][i]
    OBVIOUS
  <2>2. Backed(g)
    BY <2>1, FramesBacked
  <2>3. Backed(g)'
    BY <1>1, <2>2, StaysWhole
  <2> QED
    BY <2>1, <2>3 DEF Backed
<1>3. ASSUME NEW n \in Objects, cells'[n] = "whole" PROVE Measured(n)'
  <2>1. CASE cells' = cells
    BY <1>1, <1>3, <2>1, StaysWhole DEF BackedInv
  <2>2. ASSUME NEW t \in Threads, Publish(t), cells[n] # "whole" PROVE Measured(n)
    <3>1. Active(t) /\ Top(t).at = "publish"
      BY <2>2 DEF Publish, At
    <3>2. n = Top(t).num /\ Top(t).val = "whole"
      BY <1>3, <2>2 DEF Publish, TypeInv, TypeOK
    <3> QED
      BY <3>1, <3>2, TopBacked DEF Backed
  <2>3. cells' = cells \/ \E t \in Threads : Publish(t)
    BY DEF Next, Step, LookUp, Claim, Finish, Get, vars, Recheck, Parse, Measure,
           OpenContainer, BuildContainer, Decode, Index, Member
  <2>4. CASE cells[n] = "whole"
    BY <1>1, <2>4, StaysWhole DEF BackedInv
  <2> QED
    BY <1>1, <2>1, <2>2, <2>3, <2>4, StaysWhole
<1>4. ASSUME NEW a \in Objects
      PROVE  /\ containers'[a] # "untried" => file'[a].flagged
             /\ containers'[a] = "good" => Decoded(a)'
  <2>1. CASE containers'[a] = containers[a]
    BY <1>1, <2>1, StaysWhole DEF BackedInv
  <2>2. ASSUME NEW t \in Threads, Index(t), containers'[a] # containers[a]
        PROVE  file[a].flagged /\ (containers'[a] = "good" => Decoded(a))
    <3>1. Active(t) /\ Top(t).at = "index"
      BY <2>2 DEF Index, At
    <3>2. a = Archive(t) /\ containers'[a] = Top(t).box
      BY <2>2 DEF Index, TypeInv, TypeOK
    <3> QED
      BY <3>1, <3>2, TopBacked DEF Backed, Archive
  <2>3. containers' = containers \/ \E t \in Threads : Index(t)
    BY DEF Next, Step, LookUp, Claim, Finish, Get, vars, Recheck, Parse, Measure,
           OpenContainer, BuildContainer, Decode, Publish, Member
  <2> QED
    BY <1>1, <2>1, <2>2, <2>3, StaysWhole
<1> QED
  BY <1>2, <1>3, <1>4 DEF BackedInv

ReadInv == StoreInv /\ ChainInv /\ BackedInv

LEMMA ReadInvariant == Spec => []ReadInv
<1>1. Init => ReadInv
  <2> SUFFICES ASSUME Init PROVE ReadInv
    OBVIOUS
  <2>1. StoreInv
    BY InitType, InitGuards DEF StoreInv, SlotsInv, GuardsInv, Init
  <2>2. \A t \in Threads : Len(stack[t]) = 0 /\ ~Active(t)
    BY DEF Init, Active
  <2>3. ChainInv
    BY <2>2 DEF ChainInv
  <2>4. BackedInv
    BY <2>2 DEF BackedInv, Init, Empty
  <2> QED
    BY <2>1, <2>3, <2>4 DEF ReadInv
<1>2. ReadInv /\ [Next]_vars => ReadInv'
  BY TypeStep, GuardsStep, SlotsStep, ChainStep, BackedStep DEF ReadInv, StoreInv
<1> QED
  BY <1>1, <1>2, PTL DEF Spec

\* A stream that counts as read whole had its length from an integer that was
\* itself read whole, whichever threads fetched either of them and in whatever
\* order they published.
THEOREM LengthCorrect == Spec => []LengthBacked
<1>1. ReadInv => LengthBacked
  BY BackedInvStated DEF ReadInv, StoreInv
<1> QED
  BY <1>1, ReadInvariant, PTL

\* A container that answers from the cache was decoded from a flagged archive
\* that was read whole, with its filter.
THEOREM ContainerCorrect == Spec => []ContainerBacked
<1>1. ReadInv => ContainerBacked
  BY BackedInvStated DEF ReadInv, StoreInv
<1> QED
  BY <1>1, ReadInvariant, PTL

----------------------------------------------------------------------------
(* One thread: what a fetch is refused for is its own doing.                 *)

OneThread == \E t : Threads = {t}

\* The budget of a guarded fetch counts the fetches it is nested inside.
NestInv == \A t, i : Guarded(t, i) => stack[t][i].nest = i - 1

\* The fetches below the innermost hold the guards of different objects.
LEMMA BelowGuarded ==
    ASSUME TypeInv, NEW t \in Threads, NEW i \in 1..(Len(stack[t]) - 1)
    PROVE  Guarded(t, i)
<1>1. i \in 1..Len(stack[t]) /\ i < Len(stack[t])
  BY DEF TypeInv, TypeOK
<1> QED
  BY <1>1 DEF TypeInv, FramesInv, Guarded, Claimed

\* Guards of one thread cannot outnumber the objects.
LEMMA GuardedDepth ==
    ASSUME TypeInv, GuardsInv, NEW t \in Threads, NEW k \in Nat, Guarded(t, k)
    PROVE  k <= Cardinality(Objects)
<1> DEFINE D == 1..k
<1> DEFINE m == [i \in D |-> stack[t][i].num]
<1>1. k \in 1..Len(stack[t]) /\ Len(stack[t]) \in Nat
  BY DEF Guarded, TypeInv, TypeOK
<1>2. IsFiniteSet(Objects) /\ Cardinality(Objects) \in Nat
  BY StoreAssumption, FS_CardinalityType
<1>3. IsFiniteSet(D) /\ Cardinality(D) = k
  BY <1>1, FS_Interval
<1>4. \A i \in D : Guarded(t, i)
  BY <1>1, BelowGuarded
<1>5. \A i \in D : stack[t][i].num \in Objects
  BY <1>1, <1>4 DEF TypeInv, FramesInv, Guarded, Claimed, Waiting
<1>6. \A i, j \in D : i # j => m[i] # m[j]
  BY <1>4 DEF GuardsInv
<1>7. m \in [D -> Objects]
  BY <1>5
<1> HIDE DEF D, m
<1>8. ~(Cardinality(Objects) < Cardinality(D))
  BY <1>2, <1>3, <1>6, <1>7, FS_PigeonHole
<1> QED
  BY <1>2, <1>3, <1>8

\* With one thread, as many parses run as fetches are suspended.
LEMMA RunningBelow ==
    ASSUME TypeInv, GuardsInv, OneThread, NEW t \in Threads, Active(t),
           Top(t).at \notin Claimed
    PROVE  /\ running = {stack[t][i].num : i \in 1..(Len(stack[t]) - 1)}
           /\ Cardinality(running) = Len(stack[t]) - 1
<1> DEFINE k == Len(stack[t]) - 1
<1> DEFINE m == [i \in 1..k |-> stack[t][i].num]
<1>1. k \in Nat /\ Len(stack[t]) = k + 1
  BY TopTyped DEF TypeInv
<1>2. \A i \in 1..k : Guarded(t, i)
  BY BelowGuarded
<1>3. \A u, i : Guarded(u, i) => u = t /\ i \in 1..k
  <2> SUFFICES ASSUME NEW u, NEW i, Guarded(u, i) PROVE u = t /\ i \in 1..k
    OBVIOUS
  <2>1. u = t
    BY DEF Guarded, OneThread
  <2>2. i # Len(stack[t])
    BY <2>1 DEF Guarded, Top
  <2> QED
    BY <1>1, <2>1, <2>2 DEF Guarded
<1>4. running = {stack[t][i].num : i \in 1..k}
  BY <1>2, <1>3 DEF GuardsInv
<1>5. \A i, j \in 1..k : stack[t][i].num = stack[t][j].num => i = j
  BY <1>2 DEF GuardsInv
<1>6. m \in Bijection(1..k, running)
  BY <1>4, <1>5, Fun_IsBij
<1>7. Cardinality(running) = k
  <2>1. ExistsBijection(1..k, running)
    BY <1>6 DEF ExistsBijection
  <2> QED
    BY <1>1, <2>1, FS_CountingElements
<1> QED
  BY <1>4, <1>7

LEMMA NestStep ==
    ASSUME OneThread, TypeInv, GuardsInv, SlotsInv, ChainInv, BackedInv, NestInv,
           [Next]_vars
    PROVE  NestInv'
<1>1. ASSUME NEW t \in Threads, Works(t) PROVE NestInv'
  <2>1. PICK k : k = Len(stack[t])
    OBVIOUS
  <2>2. /\ Guarded(t, k)
        /\ \A u, i : u # t \/ i # k
             => /\ Guarded(u, i)' <=> Guarded(u, i)
                /\ Guarded(u, i) => stack'[u][i] = stack[u][i]
    BY <1>1, <2>1, WorksAdvance, QuietFrame
  <2>3. PICK f \in Frame : /\ f.nest = Top(t).nest
                           /\ stack'[t][k] = f
    <3>1. Active(t)
      BY <1>1, WorksAdvance DEF Quiet
    <3>2. PICK f \in Frame :
            /\ f.nest = Top(t).nest
            /\ \/ Become(t, f)
               \/ Target(f) \in Objects \union {Stray} /\ Call(t, f, Target(f))
      BY <1>1, WorksAdvance DEF Advances
    <3> QED
      BY <2>1, <3>1, <3>2, BecomeStep, CallStep DEF TypeInv
  <2>4. ASSUME NEW u, NEW i, Guarded(u, i)' PROVE stack'[u][i].nest = i - 1
    <3>1. CASE u = t /\ i = k
      BY <2>1, <2>2, <2>3, <3>1 DEF NestInv, Top
    <3>2. CASE u # t \/ i # k
      BY <2>2, <2>4, <3>2 DEF NestInv
    <3> QED
      BY <3>1, <3>2
  <2> QED
    BY <2>4 DEF NestInv
<1>2. ASSUME NEW t \in Threads, LookUp(t) PROVE NestInv'
  BY <1>2, LookUpGuards DEF NestInv
<1>3. ASSUME NEW t \in Threads, Claim(t) PROVE NestInv'
  <2>1. CASE Return(t, "cycle") /\ UNCHANGED running
    BY <1>3, <2>1, LookUpGuards DEF NestInv
  <2>2. CASE /\ running' = running \union {Top(t).num} /\ Top(t).num \notin running
             /\ Become(t, [Top(t) EXCEPT !.at = "recheck", !.nest = Cardinality(running)])
    <3>1. PICK k : k = Len(stack[t])
      OBVIOUS
    <3>2. \A u, i : u # t \/ i # k
             => /\ Guarded(u, i)' <=> Guarded(u, i)
                /\ Guarded(u, i) => stack'[u][i] = stack[u][i]
      BY <1>3, <2>2, <3>1, ClaimGuards
    <3> DEFINE f == [Top(t) EXCEPT !.at = "recheck", !.nest = Cardinality(running)]
    <3>3. Active(t) /\ Top(t) \in Frame /\ Top(t).at = "claim"
      BY <1>3, TopShape DEF Claim, At
    <3>4. f \in Frame /\ f.nest = Cardinality(running)
      BY <3>3, RunningFinite DEF Frame, Claimed, TypeInv
    <3>5. Become(t, f)
      BY <2>2
    <3> HIDE DEF f
    <3>6. stack'[t][k] = f
      BY <3>1, <3>3, <3>4, <3>5, BecomeStep DEF TypeInv
    <3>7. Cardinality(running) = k - 1
      BY <3>1, <3>3, RunningBelow DEF Claimed, Waiting
    <3>8. ASSUME NEW u, NEW i, Guarded(u, i)' PROVE stack'[u][i].nest = i - 1
      <4>1. CASE u = t /\ i = k
        BY <3>4, <3>6, <3>7, <4>1
      <4>2. CASE u # t \/ i # k
        BY <3>2, <3>8, <4>2 DEF NestInv
      <4> QED
        BY <4>1, <4>2
    <3> QED
      BY <3>8 DEF NestInv
  <2> QED
    BY <1>3, <2>1, <2>2 DEF Claim
<1>4. ASSUME NEW t \in Threads, Publish(t) PROVE NestInv'
  <2>1. PICK k : k = Len(stack[t])
    OBVIOUS
  <2> DEFINE v == IF cells[Top(t).num] = Empty THEN Top(t).val ELSE cells[Top(t).num]
  <2> DEFINE f == [Top(t) EXCEPT !.at = "done", !.val = v]
  <2>2. /\ Active(t) /\ Top(t) \in Frame /\ Top(t).at = "publish"
        /\ Top(t).num \in Objects /\ Top(t).val \in Values
    BY <1>4, TopShape DEF Publish, At
  <2>3. v \in Answers
    BY <2>2 DEF TypeInv, TypeOK, Answers
  <2>4. f \in Frame /\ f.nest = Top(t).nest
    BY <2>2, <2>3 DEF Frame, Claimed
  <2>5. Become(t, f)
    BY <1>4 DEF Publish, Done
  <2>6. Guarded(t, k) /\ stack[t][k] = Top(t)
    BY <2>1, <2>2, TopTyped DEF Guarded, Top, Claimed, TypeInv
  <2> HIDE DEF f, v
  <2>7. /\ stack'[t][k] = f
        /\ \A u, i : u # t \/ i # k
             => /\ Guarded(u, i)' <=> Guarded(u, i)
                /\ Guarded(u, i) => stack'[u][i] = stack[u][i]
    BY <2>1, <2>2, <2>4, <2>5, BecomeGuards
  <2>8. ASSUME NEW u, NEW i, Guarded(u, i)' PROVE stack'[u][i].nest = i - 1
    <3>1. CASE u = t /\ i = k
      BY <2>4, <2>6, <2>7, <3>1 DEF NestInv
    <3>2. CASE u # t \/ i # k
      BY <2>7, <2>8, <3>2 DEF NestInv
    <3> QED
      BY <3>1, <3>2
  <2> QED
    BY <2>8 DEF NestInv
<1>5. ASSUME NEW t \in Threads, Finish(t) PROVE NestInv'
  <2>1. PICK k : k = Len(stack[t])
    OBVIOUS
  <2>2. Active(t) /\ Return(t, Top(t).val)
    BY <1>5 DEF Finish, At
  <2>3. \A u, i : Guarded(u, i)' => Guarded(u, i) /\ stack'[u][i] = stack[u][i]
    BY <2>1, <2>2, ReturnGuards
  <2> QED
    BY <2>3 DEF NestInv
<1>6. ASSUME NEW t \in Threads, NEW n \in Objects \union {Stray}, Get(t, n)
      PROVE  NestInv'
  BY <1>6, GetGuards DEF NestInv
<1>7. CASE UNCHANGED vars
  BY <1>7 DEF vars, NestInv, Guarded
<1> QED
  BY <1>1, <1>2, <1>3, <1>4, <1>5, <1>6, <1>7, StepOrWork DEF Next

LEMMA NestInvStated == ASSUME TypeInv, NestInv PROVE NestingIsOwn
<1> SUFFICES ASSUME NEW c \in Guards
             PROVE  FrameAt(c).nest = Cardinality({i \in 1..Len(stack[c[1]]) : i < c[2]})
  BY DEF NestingIsOwn
<1> DEFINE t == c[1]
<1> DEFINE k == c[2]
<1>1. Guarded(t, k) /\ FrameAt(c) = stack[t][k]
  BY DEF Guards, Frames, FrameAt, Guarded
<1>2. FrameAt(c).nest = k - 1
  BY <1>1 DEF NestInv
<1>3. k \in 1..Len(stack[t]) /\ Len(stack[t]) \in Nat
  BY <1>1 DEF Guarded, TypeInv, TypeOK
<1>4. {i \in 1..Len(stack[t]) : i < k} = 1..(k - 1)
  BY <1>3
<1>5. Cardinality(1..(k - 1)) = k - 1
  <2>1. PICK n \in Nat : n = k - 1
    BY <1>3
  <2>2. Cardinality(1..n) = IF 1 > n THEN 0 ELSE n - 1 + 1
    BY FS_Interval
  <2> QED
    BY <2>1, <2>2
<1> QED
  BY <1>2, <1>4, <1>5

\* A fetch is refused as re-entered only inside a fetch of the same number.
LEMMA CycleStep ==
    ASSUME OneThread, TypeInv, GuardsInv, [Next]_vars PROVE CycleMeansReentry
<1> SUFFICES ASSUME NEW t \in Threads, At(t, "claim"), stack'[t] # stack[t],
                    answer'[t] = "cycle", Len(stack'[t]) < Len(stack[t])
             PROVE  \E i \in 1..Len(stack[t]) - 1 : stack[t][i].num = Top(t).num
  BY DEF CycleMeansReentry
<1>1. Active(t) /\ Top(t).at = "claim" /\ Top(t) \in Frame
  BY TopShape DEF At
<1>2. Claim(t)
  <2>1. ~UNCHANGED vars
    BY DEF vars
  <2>2. PICK u \in Threads : Step(u) \/ \E n \in Objects \union {Stray} : Get(u, n)
    BY <2>1 DEF Next
  <2>3. u = t
    BY DEF OneThread
  <2> QED
    BY <1>1, <2>2, <2>3 DEF Step, Get, LookUp, Recheck, Publish, Finish, Parse, Measure,
       OpenContainer, BuildContainer, Decode, Index, Member, At
<1>3. CASE Become(t, [Top(t) EXCEPT !.at = "recheck", !.nest = Cardinality(running)])
  <2> DEFINE f == [Top(t) EXCEPT !.at = "recheck", !.nest = Cardinality(running)]
  <2>1. f \in Frame
    BY <1>1, RunningFinite DEF Frame, Claimed, TypeInv
  <2>2. Become(t, f)
    BY <1>3
  <2> HIDE DEF f
  <2>3. Len(stack'[t]) = Len(stack[t]) /\ Len(stack[t]) \in Nat
    BY <1>1, <2>1, <2>2, BecomeStep, TopTyped DEF TypeInv
  <2> QED
    BY <2>3
<1>4. CASE Top(t).num \in running
  BY <1>1, <1>4, RunningBelow DEF Claimed, Waiting
<1> QED
  BY <1>2, <1>3, <1>4 DEF Claim

LEMMA NestInvariant == ASSUME OneThread PROVE Spec => [](ReadInv /\ NestInv)
<1>1. Init => NestInv
  <2>1. Init => \A t \in Threads : Len(stack[t]) = 0
    BY DEF Init
  <2> QED
    BY <2>1 DEF NestInv, Guarded
<1>2. ReadInv /\ NestInv /\ [Next]_vars => NestInv'
  BY NestStep DEF ReadInv, StoreInv
<1> QED
  BY <1>1, <1>2, ReadInvariant, PTL DEF Spec

\* When one thread reads the document, the nesting budget of every parse counts
\* only the fetches it is nested inside, and a fetch is refused as a cycle only
\* when it re-entered one of them.
THEOREM RefusalsCorrect == ASSUME OneThread PROVE Spec => RefusalsAreOwn
<1>1. ReadInv /\ NestInv => NestingIsOwn
  BY NestInvStated DEF ReadInv, StoreInv
<1>2. ReadInv /\ [Next]_vars => CycleMeansReentry
  BY CycleStep DEF ReadInv, StoreInv
<1>3. (ReadInv /\ NestInv) /\ (ReadInv /\ NestInv)' /\ [Next]_vars
        => [NestingIsOwn' /\ CycleMeansReentry]_vars
  <2>1. (ReadInv /\ NestInv)' => NestingIsOwn'
    BY <1>1, PTL
  <2> QED
    BY <1>2, <2>1
<1> QED
  BY <1>3, NestInvariant, PTL DEF Spec, RefusalsAreOwn

----------------------------------------------------------------------------
(* One thread, a file without defects, a budget above its objects.           *)

\* The body of Sound, for the file at hand and one ranking.
Ranked(rank) ==
    \A n \in Objects :
       LET o == file[n]
           Below(m, s) == /\ m \in Objects
                          /\ file[m].shape = s
                          /\ rank[m] < rank[n] IN
       /\ o.where \notin {"absent", "shifted"}
       /\ o.length # NoObject => Below(o.length, "number")
       /\ o.filter # NoObject => Below(o.filter, "name")
       /\ o.where = "packed" => /\ Below(o.archive, "stream")
                                /\ file[o.archive].where = "offset"
                                /\ file[o.archive].objstm
                                /\ file[o.archive].flagged
                                /\ o.listed

Rankings == [Objects -> 1..Cardinality(Objects)]

LEMMA SoundRanked == Sound(file) <=> \E rank \in Rankings : Ranked(rank)
BY DEF Sound, Ranked, Rankings

\* Every fetch is of an object ranked below those it is nested inside.
DescentInv ==
    \A rank \in Rankings : Ranked(rank) =>
       \A t \in Threads : \A i, j \in 1..Len(stack[t]) :
          i < j => /\ stack[t][j].num \in Objects
                   /\ rank[stack[t][j].num] < rank[stack[t][i].num]

\* What a fetch of a sound file holds, at the steps that look at it.
SoundFrame(f) ==
    /\ f.at \in {"filter", "publish", "done"} => f.val = "whole"
    /\ f.at \in {"index", "member"} => f.box = "good"

SoundInv ==
    Sound(file) =>
       /\ \A n \in Objects : /\ cells[n] \in {Empty, "whole"}
                             /\ containers[n] \in {"untried", "good"}
       /\ \A t \in Threads : \A i \in 1..Len(stack[t]) : SoundFrame(stack[t][i])
       /\ \A t \in Threads :
             Active(t) /\ Top(t).at \in Waiting => answer[t] = "whole"

LEMMA SoundInvStated == TypeInv /\ SoundInv => SoundFileReadsWhole
<1> SUFFICES ASSUME TypeInv, SoundInv, Sound(file)
             PROVE  /\ \A n \in Objects : /\ cells[n] \in {Empty, "whole"}
                                          /\ containers[n] \in {"untried", "good"}
                    /\ \A c \in Guards : FrameAt(c).at = "done" => FrameAt(c).val = "whole"
  BY DEF SoundFileReadsWhole
<1>1. \A c \in Guards : Guarded(c[1], c[2]) /\ FrameAt(c) = stack[c[1]][c[2]]
  BY DEF Guards, Frames, FrameAt, Guarded
<1> QED
  BY <1>1 DEF SoundInv, SoundFrame, Guarded

----------------------------------------------------------------------------
(* The descent. *)

\* What a fetch waits for is an object ranked below its own.
LEMMA TargetBelow ==
    ASSUME TypeInv, NEW rank \in Rankings, Ranked(rank), NEW f \in Frame,
           f.at \in Waiting, f.num \in Objects,
           f.at \in PackedSteps => file[f.num].where = "packed",
           Target(f) # NoObject
    PROVE  Target(f) \in Objects /\ rank[Target(f)] < rank[f.num]
<1>1. CASE f.at = "length"
  BY <1>1 DEF Target, Ranked
<1>2. CASE f.at \in {"archive", "filter"}
  <2>1. file[f.num].where = "packed"
    BY <1>2 DEF PackedSteps
  <2>2. /\ file[f.num].archive \in Objects
        /\ rank[file[f.num].archive] < rank[f.num]
    BY <2>1 DEF Ranked
  <2>3. CASE f.at = "archive"
    BY <2>2, <2>3 DEF Target
  <2>4. CASE f.at = "filter"
    <3>1. Target(f) = file[file[f.num].archive].filter
      BY <2>4 DEF Target
    <3>2. Target(f) \in Objects /\ rank[Target(f)] < rank[file[f.num].archive]
      BY <2>2, <3>1 DEF Ranked
    <3>3. \A n \in Objects : rank[n] \in Int
      BY StoreAssumption, FS_CardinalityType DEF Rankings
    <3> QED
      BY <2>2, <3>2, <3>3
  <2> QED
    BY <1>2, <2>3, <2>4
<1> QED
  BY <1>1, <1>2 DEF Waiting

LEMMA DescentStep ==
    ASSUME TypeInv, SlotsInv, ChainInv, BackedInv, DescentInv, [Next]_vars
    PROVE  DescentInv'
<1>1. file' = file /\ TypeInv'
  BY Filled, TypeStep
<1> SUFFICES ASSUME NEW rank \in Rankings, Ranked(rank), NEW u \in Threads,
                    NEW i \in 1..Len(stack'[u]), NEW j \in 1..Len(stack'[u]), i < j
             PROVE  /\ stack'[u][j].num \in Objects
                    /\ rank[stack'[u][j].num] < rank[stack'[u][i].num]
  BY <1>1 DEF DescentInv, Ranked, Rankings
<1> DEFINE k == Len(stack[u])
<1>2. \A n \in Objects : rank[n] \in Int
  BY StoreAssumption, FS_CardinalityType DEF Rankings
<1>3. \A a, b \in 1..k : a < b => /\ stack[u][b].num \in Objects
                                  /\ rank[stack[u][b].num] < rank[stack[u][a].num]
  BY DEF DescentInv
<1>4. ASSUME Active(u), NEW f \in Frame, Become(u, f), f.num = Top(u).num
      PROVE  /\ stack'[u][j].num \in Objects
             /\ rank[stack'[u][j].num] < rank[stack'[u][i].num]
  <2>1. /\ k \in Nat \ {0} /\ Len(stack'[u]) = k
        /\ \A a \in 1..k : stack'[u][a].num = stack[u][a].num
    BY <1>4, TopTyped, BecomeStep DEF TypeInv, Top
  <2> QED
    BY <1>3, <2>1
<1>5. ASSUME Active(u), NEW f \in Frame, f.num = Top(u).num, f.at \in Waiting,
             Target(f) \in Objects \union {Stray}, Call(u, f, Target(f))
      PROVE  /\ stack'[u][j].num \in Objects
             /\ rank[stack'[u][j].num] < rank[stack'[u][i].num]
  <2>1. /\ k \in Nat \ {0} /\ Len(stack'[u]) = k + 1
        /\ stack'[u][k] = f
        /\ stack'[u][k + 1].num = Target(f)
        /\ \A a \in 1..k : stack'[u][a].num = stack[u][a].num
    <3>1. /\ k \in Nat \ {0} /\ Len(stack'[u]) = k + 1
          /\ stack'[u][k] = f
          /\ stack'[u][k + 1] = NewFrame(Target(f))
          /\ \A a \in 1..k : a # k => stack'[u][a] = stack[u][a]
      BY <1>5, TopTyped, CallStep DEF TypeInv
    <3>2. stack'[u][k].num = stack[u][k].num
      BY <1>5, <3>1 DEF Top
    <3> QED
      BY <3>1, <3>2 DEF NewFrame
  <2>2. f.num \in Objects /\ (f.at \in PackedSteps => file[f.num].where = "packed")
    <3>1. k \in 1..Len(stack'[u])
      BY <2>1
    <3> QED
      BY <1>1, <1>5, <2>1, <3>1 DEF TypeInv, FramesInv, Waiting
  <2>3. Target(f) \in Objects /\ rank[Target(f)] < rank[f.num]
    BY <1>5, <2>2, TargetBelow, StoreAssumption
  <2>4. CASE j = k + 1
    <3>1. i \in 1..k
      BY <2>1, <2>4
    <3>2. stack'[u][i].num = stack[u][i].num /\ stack[u][k].num = f.num
      BY <1>5, <2>1, <3>1 DEF Top
    <3>3. CASE i = k
      BY <2>1, <2>3, <2>4, <3>3
    <3>4. CASE i # k
      <4>1. i < k /\ k \in 1..k
        BY <2>1, <3>1, <3>4
      <4>2. rank[f.num] < rank[stack[u][i].num]
        BY <1>3, <3>1, <3>2, <4>1
      <4>3. stack[u][i].num \in Objects
        <5>1. Guarded(u, i)
          BY <2>1, <3>1, <4>1, BelowGuarded
        <5> QED
          BY <5>1 DEF Guarded, TypeInv, FramesInv, Claimed, Waiting
      <4>4. rank[Target(f)] < rank[stack[u][i].num]
        BY <1>2, <2>2, <2>3, <4>2, <4>3
      <4> QED
        BY <2>1, <2>3, <2>4, <3>2, <4>4
    <3> QED
      BY <3>3, <3>4
  <2>5. CASE j # k + 1
    <3>1. i \in 1..k /\ j \in 1..k
      BY <2>1, <2>5
    <3> QED
      BY <1>3, <2>1, <3>1
  <2> QED
    BY <2>4, <2>5
<1>6. ASSUME Active(u), NEW r, Return(u, r)
      PROVE  /\ stack'[u][j].num \in Objects
             /\ rank[stack'[u][j].num] < rank[stack'[u][i].num]
  <2>1. /\ k \in Nat \ {0} /\ Len(stack'[u]) = k - 1
        /\ \A a \in 1..(k - 1) : stack'[u][a] = stack[u][a]
    BY <1>6, TopTyped, ReturnStep DEF TypeInv
  <2>2. i \in 1..(k - 1) /\ j \in 1..(k - 1) /\ i \in 1..k /\ j \in 1..k
    BY <2>1
  <2> QED
    BY <1>3, <2>1, <2>2
<1>7. CASE stack'[u] = stack[u]
  BY <1>3, <1>7
<1>8. CASE Works(u)
  <2>1. Active(u)
    BY <1>8, WorksAdvance DEF Quiet
  <2> QED
    BY <1>4, <1>5, <1>8, <2>1, WorksAdvance DEF Advances
<1>9. CASE LookUp(u) \/ Claim(u) \/ Publish(u) \/ Finish(u)
  BY <1>4, <1>6, <1>9, OtherMoves
<1>10. CASE \E n \in Objects \union {Stray} : Get(u, n)
  <2>1. Len(stack'[u]) = 1
    BY <1>10, GetType
  <2> QED
    BY <2>1
<1>11. ASSUME NEW t \in Threads, t # u,
              Step(t) \/ \E n \in Objects \union {Stray} : Get(t, n)
       PROVE  stack'[u] = stack[u]
  BY <1>11, StepElsewhere
<1>12. CASE UNCHANGED vars
  BY <1>7, <1>12 DEF vars
<1> QED
  BY <1>7, <1>8, <1>9, <1>10, <1>11, <1>12, StepOrWork DEF Next

----------------------------------------------------------------------------
(* Nothing goes wrong at any step.                                           *)

RoomyNesting == Cardinality(Objects) < MaxNesting

SoundState ==
    /\ OneThread /\ RoomyNesting
    /\ ReadInv /\ NestInv /\ DescentInv /\ SoundInv
    /\ Sound(file)

\* What soundness says of one object.
LEMMA SoundSlot ==
    ASSUME Sound(file), NEW n \in Objects
    PROVE  /\ file[n].where \notin {"absent", "shifted"}
           /\ file[n].length # NoObject
                 => file[n].length \in Objects /\ file[file[n].length].shape = "number"
           /\ file[n].filter # NoObject
                 => file[n].filter \in Objects /\ file[file[n].filter].shape = "name"
           /\ file[n].where = "packed"
                 => LET a == file[n].archive IN
                    /\ a \in Objects /\ file[a].shape = "stream"
                    /\ file[a].objstm /\ file[a].flagged /\ file[n].listed
BY SoundRanked DEF Ranked

\* The innermost frame as a sound fetch finds it.
LEMMA SoundTop ==
    ASSUME SoundState, NEW t \in Threads, Active(t)
    PROVE  /\ TypeInv
           /\ Top(t) \in Frame
           /\ SoundFrame(Top(t))
           /\ Top(t).at \in Claimed => ~TooDeep(Top(t)) /\ \A s : ~Clips(Top(t), s)
           /\ Top(t).at \in Waiting => answer[t] = "whole"
<1>1. TypeInv /\ GuardsInv
  BY DEF SoundState, ReadInv, StoreInv
<1>2. Top(t) \in Frame /\ Len(stack[t]) \in 1..Len(stack[t]) /\ Len(stack[t]) \in Nat
  BY <1>1, TopTyped DEF TypeInv
<1>3. SoundFrame(Top(t)) /\ (Top(t).at \in Waiting => answer[t] = "whole")
  BY <1>2 DEF SoundState, SoundInv, Top
<1>4. ASSUME Top(t).at \in Claimed
      PROVE  ~TooDeep(Top(t)) /\ \A s : ~Clips(Top(t), s)
  <2>1. Guarded(t, Len(stack[t]))
    BY <1>2, <1>4 DEF Guarded, Top
  <2>2. Top(t).nest = Len(stack[t]) - 1
    BY <2>1 DEF SoundState, NestInv, Top
  <2>3. Len(stack[t]) <= Cardinality(Objects)
    BY <1>1, <1>2, <2>1, GuardedDepth
  <2>4. Cardinality(Objects) \in Nat /\ MaxNesting \in Nat
    BY StoreAssumption, FS_CardinalityType
  <2>5. Top(t).nest + 1 < MaxNesting
    BY <1>2, <2>2, <2>3, <2>4 DEF SoundState, RoomyNesting
  <2> QED
    BY <1>2, <2>2, <2>4, <2>5 DEF TooDeep, Clips
<1> QED
  BY <1>1, <1>2, <1>3, <1>4

\* The frame a step leaves innermost, or suspended, is sound.
LeavesSound(t) == SoundFrame(stack'[t][Len(stack[t])])

LEMMA BecomeSound ==
    ASSUME TypeInv, NEW t \in Threads, Active(t), NEW f \in Frame,
           SoundFrame(f), Become(t, f)
    PROVE  LeavesSound(t)
<1>1. stack'[t][Len(stack[t])] = f
  BY BecomeStep DEF TypeInv
<1> QED
  BY <1>1 DEF LeavesSound

LEMMA CallSound ==
    ASSUME TypeInv, NEW t \in Threads, Active(t), NEW f \in Frame,
           NEW n \in Objects \union {Stray}, SoundFrame(f), Call(t, f, n)
    PROVE  LeavesSound(t)
<1>1. stack'[t][Len(stack[t])] = f
  BY CallStep DEF TypeInv
<1> QED
  BY <1>1 DEF LeavesSound

LEMMA DoneSound ==
    ASSUME TypeInv, NEW t \in Threads, Active(t), Done(t, "whole")
    PROVE  LeavesSound(t)
<1> DEFINE f == [Top(t) EXCEPT !.at = "done", !.val = "whole"]
<1>1. f \in Frame /\ f.at = "done" /\ f.val = "whole"
  BY TopShape DEF Frame, Claimed, Answers, Values
<1>2. Become(t, f)
  BY DEF Done
<1> HIDE DEF f
<1> QED
  BY <1>1, <1>2, BecomeSound DEF SoundFrame

LEMMA ParsedSound ==
    ASSUME TypeInv, Sound(file), NEW t \in Threads, Active(t),
           Top(t).num \in Objects, Parsed(t, "whole")
    PROVE  LeavesSound(t)
<1> DEFINE f == [Top(t) EXCEPT !.at = "publish", !.val = "whole"]
<1>1. f \in Frame /\ f.at = "publish" /\ f.val = "whole"
  BY TopShape DEF Frame, Claimed, Answers, Values
<1>2. Become(t, f)
  BY SoundSlot DEF Parsed
<1> HIDE DEF f
<1> QED
  BY <1>1, <1>2, BecomeSound DEF SoundFrame

LEMMA GotoSound ==
    ASSUME TypeInv, NEW t \in Threads, Active(t),
           NEW s \in {"parse", "container", "member"}, Goto(t, s),
           s = "member" => Top(t).box = "good"
    PROVE  LeavesSound(t)
<1> DEFINE f == [Top(t) EXCEPT !.at = s]
<1>1. f \in Frame /\ f.at = s /\ f.box = Top(t).box
  BY TopShape DEF Frame, Claimed
<1>2. Become(t, f)
  BY DEF Goto
<1> HIDE DEF f
<1>3. SoundFrame(f)
  BY <1>1 DEF SoundFrame
<1> QED
  BY <1>1, <1>2, <1>3, BecomeSound

LEMMA RecheckSound ==
    ASSUME SoundState, NEW t \in Threads, Recheck(t) PROVE LeavesSound(t)
<1>1. Active(t) /\ Top(t).at = "recheck" /\ TypeInv
  BY DEF Recheck, At, SoundState, ReadInv, StoreInv
<1>2. Top(t).num \in Objects
  BY <1>1, TopShape
<1>3. CASE cells[Top(t).num] # Empty
  <2>1. cells[Top(t).num] = "whole"
    BY <1>2, <1>3 DEF SoundState, SoundInv
  <2>2. Done(t, "whole")
    BY <1>3, <2>1 DEF Recheck
  <2> QED
    BY <1>1, <2>2, DoneSound
<1>4. CASE cells[Top(t).num] = Empty
  <2>1. Goto(t, "parse")
    BY <1>4 DEF Recheck
  <2> QED
    BY <1>1, <2>1, GotoSound
<1> QED
  BY <1>3, <1>4

LEMMA ParseSound ==
    ASSUME SoundState, NEW t \in Threads, Parse(t) PROVE LeavesSound(t)
<1> DEFINE f == Top(t)
<1> DEFINE o == file[f.num]
<1>1. Active(t) /\ f.at = "parse" /\ TypeInv /\ Sound(file)
  BY DEF Parse, At, SoundState, ReadInv, StoreInv
<1>2. f \in Frame /\ f.num \in Objects /\ o \in Slot
  BY <1>1, TopShape, FileTyped DEF TypeInv
<1>3. ~TooDeep(f) /\ ~Clips(f, o.shape)
  BY <1>1, SoundTop DEF Claimed
<1>4. o.where \in {"packed", "offset"}
  BY <1>1, <1>2, SoundSlot DEF Slot
<1>5. CASE o.where = "packed"
  <2>1. Goto(t, "container")
    BY <1>5 DEF Parse
  <2> QED
    BY <1>1, <2>1, GotoSound
<1>6. CASE o.where = "offset" /\ o.shape = "stream" /\ o.length # NoObject
  <2> DEFINE g == [f EXCEPT !.at = "length"]
  <2>1. g \in Frame /\ g.at = "length"
    BY <1>2 DEF Frame, Claimed, Waiting
  <2>2. Call(t, g, o.length)
    BY <1>3, <1>6 DEF Parse
  <2>3. o.length \in Objects \union {Stray}
    BY <1>2, <1>6 DEF Slot, Refs
  <2> HIDE DEF g
  <2> QED
    BY <1>1, <2>1, <2>2, <2>3, CallSound DEF SoundFrame
<1>7. CASE o.where = "offset" /\ ~(o.shape = "stream" /\ o.length # NoObject)
  <2>1. Parsed(t, "whole")
    BY <1>3, <1>7 DEF Parse, Reading
  <2> QED
    BY <1>1, <1>2, <2>1, ParsedSound
<1> QED
  BY <1>4, <1>5, <1>6, <1>7

LEMMA MeasureSound ==
    ASSUME SoundState, NEW t \in Threads, Measure(t) PROVE LeavesSound(t)
<1> DEFINE len == file[Top(t).num].length
<1>1. Active(t) /\ Top(t).at = "length" /\ TypeInv /\ Sound(file)
  BY DEF Measure, At, SoundState, ReadInv, StoreInv
<1>2. Top(t).num \in Objects /\ answer[t] = "whole"
  BY <1>1, TopShape, SoundTop DEF Waiting
<1>3. len \in Objects /\ file[len].shape = "number"
  <2>1. PICK k : k = Len(stack[t])
    OBVIOUS
  <2>2. k \in 1..k /\ stack[t][k] = Top(t)
    BY <1>1, <2>1, TopTyped DEF TypeInv, Top
  <2>3. Target(Top(t)) = len
    BY <1>1 DEF Target
  <2>4. Target(Top(t)) \in Objects
    BY <1>1, <1>2 DEF SoundState, ReadInv, ChainInv, Waiting, Values
  <2> QED
    BY <1>1, <1>2, <2>3, <2>4, SoundSlot, StoreAssumption
<1>4. Parsed(t, "whole")
  BY <1>2, <1>3 DEF Measure, FoundNumber
<1> QED
  BY <1>1, <1>2, <1>4, ParsedSound

\* The object stream of the innermost fetch, in a sound file.
LEMMA SoundArchive ==
    ASSUME SoundState, NEW t \in Threads, Active(t), Top(t).at \in PackedSteps
    PROVE  LET a == Archive(t) IN
           /\ a \in Objects /\ file[a] \in Slot /\ file[a].shape = "stream"
           /\ file[a].objstm /\ file[a].flagged /\ file[Top(t).num].listed
           /\ containers[a] \in {"untried", "good"}
           /\ file[a].filter # NoObject
                 => file[a].filter \in Objects /\ file[file[a].filter].shape = "name"
<1>1. TypeInv /\ Sound(file)
  BY DEF SoundState, ReadInv, StoreInv
<1>2. Top(t).num \in Objects /\ file[Top(t).num].where = "packed"
  BY <1>1, TopShape DEF PackedSteps
<1>3. /\ Archive(t) \in Objects /\ file[Archive(t)].shape = "stream"
      /\ file[Archive(t)].objstm /\ file[Archive(t)].flagged
      /\ file[Top(t).num].listed
  BY <1>1, <1>2, SoundSlot DEF Archive
<1>4. file[Archive(t)] \in Slot
  BY <1>1, <1>3, FileTyped DEF TypeInv
<1>5. containers[Archive(t)] \in {"untried", "good"}
  BY <1>3 DEF SoundState, SoundInv
<1> QED
  BY <1>1, <1>3, <1>4, <1>5, SoundSlot

LEMMA OpenContainerSound ==
    ASSUME SoundState, NEW t \in Threads, OpenContainer(t) PROVE LeavesSound(t)
<1> DEFINE a == Archive(t)
<1>1. Active(t) /\ Top(t).at = "container" /\ TypeInv
  BY DEF OpenContainer, At, SoundState, ReadInv, StoreInv
<1>2. Top(t) \in Frame /\ a \in Objects /\ file[a].flagged
      /\ containers[a] \in {"untried", "good"}
  BY <1>1, TopShape, SoundArchive DEF PackedSteps
<1>3. CASE containers[a] = "good"
  <2> DEFINE f == [Top(t) EXCEPT !.at = "member", !.box = "good"]
  <2>1. f \in Frame /\ f.at = "member" /\ f.box = "good"
    BY <1>2 DEF Frame, Claimed, Boxes
  <2>2. Become(t, f)
    BY <1>2, <1>3 DEF OpenContainer
  <2> HIDE DEF f
  <2> QED
    BY <1>1, <2>1, <2>2, BecomeSound DEF SoundFrame
<1>4. CASE containers[a] = "untried"
  <2> DEFINE f == [Top(t) EXCEPT !.at = "archive"]
  <2>1. f \in Frame /\ f.at = "archive"
    BY <1>2 DEF Frame, Claimed, Waiting
  <2>2. Call(t, f, a)
    BY <1>2, <1>4 DEF OpenContainer
  <2> HIDE DEF f
  <2> QED
    BY <1>1, <1>2, <2>1, <2>2, CallSound DEF SoundFrame
<1> QED
  BY <1>2, <1>3, <1>4

LEMMA BuildContainerSound ==
    ASSUME SoundState, NEW t \in Threads, BuildContainer(t) PROVE LeavesSound(t)
<1> DEFINE a == Archive(t)
<1> DEFINE f == [Top(t) EXCEPT !.val = answer[t]]
<1>1. Active(t) /\ Top(t).at = "archive" /\ TypeInv
  BY DEF BuildContainer, At, SoundState, ReadInv, StoreInv
<1>2. /\ a \in Objects /\ file[a] \in Slot
      /\ file[a].shape = "stream" /\ file[a].objstm
  BY <1>1, SoundArchive DEF PackedSteps
<1>3. answer[t] = "whole" /\ Top(t) \in Frame
  BY <1>1, SoundTop DEF Waiting
<1>4. f \in Frame /\ f.val = "whole"
  BY <1>3 DEF Frame, Answers, Values
<1>5. CASE file[a].filter # NoObject
  <2> DEFINE g == [f EXCEPT !.at = "filter"]
  <2>1. g \in Frame /\ g.at = "filter" /\ g.val = "whole"
    BY <1>4 DEF Frame, Claimed, Waiting
  <2>2. Call(t, g, file[a].filter)
    BY <1>2, <1>3, <1>5 DEF BuildContainer
  <2>3. file[a].filter \in Objects \union {Stray}
    BY <1>2, <1>5 DEF Slot, Refs
  <2> HIDE DEF g
  <2> QED
    BY <1>1, <2>1, <2>2, <2>3, CallSound DEF SoundFrame
<1>6. CASE file[a].filter = NoObject
  <2> DEFINE g == [f EXCEPT !.at = "index", !.box = "good"]
  <2>1. g \in Frame /\ g.at = "index" /\ g.box = "good"
    BY <1>4 DEF Frame, Claimed, Boxes
  <2>2. Become(t, g)
    BY <1>2, <1>3, <1>6 DEF BuildContainer
  <2> HIDE DEF g
  <2> QED
    BY <1>1, <2>1, <2>2, BecomeSound DEF SoundFrame
<1> QED
  BY <1>5, <1>6

LEMMA DecodeSound ==
    ASSUME SoundState, NEW t \in Threads, Decode(t) PROVE LeavesSound(t)
<1> DEFINE a == Archive(t)
<1>1. Active(t) /\ Top(t).at = "filter" /\ TypeInv
  BY DEF Decode, At, SoundState, ReadInv, StoreInv
<1>2. Top(t) \in Frame /\ Top(t).val = "whole" /\ answer[t] = "whole"
  BY <1>1, SoundTop DEF Waiting, SoundFrame
<1>3. file[a].filter \in Objects
  <2>1. Target(Top(t)) = file[a].filter
    BY <1>1 DEF Target, Archive
  <2> QED
    BY <1>1, <1>2, <2>1 DEF SoundState, ReadInv, ChainInv, Waiting, Values
<1>4. FoundFilter(file[a].filter, answer[t])
  BY <1>1, <1>2, <1>3, SoundArchive, StoreAssumption DEF FoundFilter, PackedSteps
<1> DEFINE g == [Top(t) EXCEPT !.at = "index", !.box = "good"]
<1>5. g \in Frame /\ g.at = "index" /\ g.box = "good"
  BY <1>2 DEF Frame, Claimed, Boxes
<1>6. Become(t, g)
  BY <1>2, <1>4 DEF Decode
<1> HIDE DEF g
<1> QED
  BY <1>1, <1>5, <1>6, BecomeSound DEF SoundFrame

LEMMA IndexSound ==
    ASSUME SoundState, NEW t \in Threads, Index(t)
    PROVE  LeavesSound(t) /\ \A a \in Objects : containers'[a] \in {"untried", "good"}
<1>1. Active(t) /\ Top(t).at = "index" /\ TypeInv /\ Goto(t, "member")
  BY DEF Index, At, SoundState, ReadInv, StoreInv
<1>2. Top(t).box = "good"
  BY <1>1, SoundTop DEF SoundFrame
<1>3. \A a \in Objects : containers'[a] \in {containers[a], "good"}
  BY <1>1, <1>2 DEF Index, TypeInv, TypeOK
<1> QED
  BY <1>1, <1>2, <1>3, GotoSound DEF SoundState, SoundInv

LEMMA MemberSound ==
    ASSUME SoundState, NEW t \in Threads, Member(t) PROVE LeavesSound(t)
<1>1. Active(t) /\ Top(t).at = "member" /\ TypeInv /\ Sound(file)
  BY DEF Member, At, SoundState, ReadInv, StoreInv
<1>2. /\ Top(t).num \in Objects /\ Top(t).box = "good"
      /\ ~TooDeep(Top(t)) /\ \A s : ~Clips(Top(t), s)
  BY <1>1, TopShape, SoundTop DEF SoundFrame, Claimed
<1>3. file[Top(t).num].listed
  BY <1>1, SoundArchive DEF PackedSteps
<1>4. Parsed(t, "whole")
  BY <1>2, <1>3 DEF Member, Reading
<1> QED
  BY <1>1, <1>2, <1>4, ParsedSound

LEMMA WorksSound ==
    ASSUME SoundState, NEW t \in Threads, Works(t)
    PROVE  LeavesSound(t) /\ \A a \in Objects : containers'[a] \in {"untried", "good"}
<1>1. LeavesSound(t)
  BY RecheckSound, ParseSound, MeasureSound, OpenContainerSound,
     BuildContainerSound, DecodeSound, IndexSound, MemberSound DEF Works
<1>2. Index(t) \/ containers' = containers
  BY DEF Works, Recheck, Parse, Measure, OpenContainer, BuildContainer, Decode, Member
<1> QED
  BY <1>1, <1>2, IndexSound DEF SoundState, SoundInv

\* The frames after a step of the only thread, and what its innermost one has
\* been told, when the step leaves the innermost or suspended frame sound ...
LEMMA WorksFrames ==
    ASSUME SoundState, NEW t \in Threads, Works(t)
    PROVE  /\ \A i \in 1..Len(stack'[t]) : SoundFrame(stack'[t][i])
           /\ ~(Top(t).at \in Waiting)'
<1> DEFINE k == Len(stack[t])
<1>1. TypeInv /\ ChainInv /\ BackedInv
  BY DEF SoundState, ReadInv, StoreInv
<1>2. Active(t)
  BY <1>1, WorksAdvance DEF Quiet
<1>3. SoundFrame(stack'[t][k])
  BY WorksSound DEF LeavesSound
<1>4. \A i \in 1..k : SoundFrame(stack[t][i])
  BY DEF SoundState, SoundInv
<1>5. k \in Nat \ {0}
  BY <1>1, <1>2, TopTyped DEF TypeInv
<1>6. \A n : SoundFrame(NewFrame(n))
  BY DEF SoundFrame, NewFrame
<1>7. ASSUME NEW f \in Frame, Become(t, f), f.at \notin Waiting
      PROVE  /\ \A i \in 1..Len(stack'[t]) : SoundFrame(stack'[t][i])
             /\ ~(Top(t).at \in Waiting)'
  <2>1. /\ Len(stack'[t]) = k /\ stack'[t][k] = f
        /\ \A i \in 1..k : i # k => stack'[t][i] = stack[t][i]
    BY <1>1, <1>2, <1>7, BecomeStep DEF TypeInv
  <2>2. \A i \in 1..Len(stack'[t]) : SoundFrame(stack'[t][i])
    BY <1>3, <1>4, <2>1
  <2> QED
    BY <1>7, <2>1, <2>2 DEF Top
<1>8. ASSUME NEW f \in Frame, Target(f) \in Objects \union {Stray},
             Call(t, f, Target(f))
      PROVE  /\ \A i \in 1..Len(stack'[t]) : SoundFrame(stack'[t][i])
             /\ ~(Top(t).at \in Waiting)'
  <2>1. /\ Len(stack'[t]) = k + 1 /\ stack'[t][k + 1] = NewFrame(Target(f))
        /\ \A i \in 1..k : i # k => stack'[t][i] = stack[t][i]
    BY <1>1, <1>2, <1>8, CallStep DEF TypeInv
  <2>2. ASSUME NEW i \in 1..Len(stack'[t]) PROVE SoundFrame(stack'[t][i])
    <3>1. i = k + 1 \/ i = k \/ (i \in 1..k /\ i # k)
      BY <1>5, <2>1
    <3> QED
      BY <1>3, <1>4, <1>6, <2>1, <3>1
  <2>3. Top(t)'.at = "lookup"
    BY <2>1 DEF Top, NewFrame
  <2> QED
    BY <2>2, <2>3 DEF Waiting
<1> QED
  BY <1>1, <1>7, <1>8, WorksAdvance DEF Advances

\* ... and when the innermost fetch ends: nothing it waited for was refused.
LEMMA AnswersWhole ==
    ASSUME SoundState, NEW t \in Threads, NEW r,
           \/ LookUp(t) \/ Claim(t) \/ Finish(t),
           Return(t, r), Len(stack[t]) > 1
    PROVE  r = "whole"
<1> DEFINE k == Len(stack[t])
<1>1. TypeInv /\ GuardsInv /\ SlotsInv /\ Sound(file)
  BY DEF SoundState, ReadInv, StoreInv
<1>2. Active(t) /\ answer'[t] = r /\ k \in Nat \ {0}
  BY <1>1, TopTyped DEF LookUp, Claim, Finish, At, Return, TypeInv, TypeOK
<1>3. PICK rank \in Rankings : Ranked(rank)
  BY <1>1, SoundRanked
<1>4. \A i, j \in 1..k : i < j => /\ stack[t][j].num \in Objects
                                  /\ rank[stack[t][j].num] < rank[stack[t][i].num]
  BY <1>3 DEF SoundState, DescentInv
<1>5. k \in 1..k /\ k - 1 \in 1..k /\ k - 1 < k
  BY <1>2
<1>6. Top(t).num \in Objects
  BY <1>4, <1>5 DEF Top
<1>7. CASE LookUp(t)
  <2>1. Top(t).num # Stray
    BY <1>6, StoreAssumption
  <2>2. Len(stack'[t]) = k - 1
    BY <1>1, <1>2, ReturnStep DEF TypeInv
  <2>3. ~Goto(t, "claim")
    <3>1. SUFFICES ASSUME Goto(t, "claim") PROVE FALSE
      OBVIOUS
    <3> DEFINE f == [Top(t) EXCEPT !.at = "claim"]
    <3>2. f \in Frame
      BY <1>1, <1>2, TopShape DEF Frame, Unclaimed
    <3>3. Become(t, f)
      BY <3>1 DEF Goto
    <3> HIDE DEF f
    <3>4. Len(stack'[t]) = k
      BY <1>1, <1>2, <3>2, <3>3, BecomeStep DEF TypeInv
    <3> QED
      BY <1>2, <2>2, <3>4
  <2>4. cells[Top(t).num] # Empty /\ answer' = [answer EXCEPT ![t] = cells[Top(t).num]]
    BY <1>7, <2>1, <2>3 DEF LookUp, Return
  <2>5. r = cells[Top(t).num]
    BY <1>1, <1>2, <2>4 DEF TypeInv, TypeOK
  <2> QED
    BY <1>6, <2>4, <2>5 DEF SoundState, SoundInv
<1>8. CASE Claim(t)
  <2>1. Top(t).at = "claim" /\ Top(t).at \notin Claimed
    BY <1>8 DEF Claim, At, Claimed, Waiting
  <2>2. Top(t).num \notin running
    <3>1. running = {stack[t][i].num : i \in 1..(k - 1)}
      BY <1>1, <1>2, <2>1, RunningBelow DEF SoundState
    <3>2. \A i \in 1..(k - 1) : i \in 1..k /\ i < k
      BY <1>2
    <3>3. \A i \in 1..(k - 1) : rank[Top(t).num] < rank[stack[t][i].num]
      BY <1>4, <1>5, <3>2 DEF Top
    <3>4. rank[Top(t).num] \in Int
      BY <1>6, StoreAssumption, FS_CardinalityType DEF Rankings
    <3>5. ~(rank[Top(t).num] < rank[Top(t).num])
      BY <3>4
    <3> QED
      BY <3>1, <3>3, <3>5
  <2> DEFINE f == [Top(t) EXCEPT !.at = "recheck", !.nest = Cardinality(running)]
  <2>3. f \in Frame
    BY <1>1, <1>2, TopShape, RunningFinite DEF Frame, Claimed, TypeInv
  <2>4. Become(t, f)
    BY <1>8, <2>2 DEF Claim
  <2> HIDE DEF f
  <2>5. Len(stack'[t]) = k /\ Len(stack'[t]) = k - 1
    BY <1>1, <1>2, <2>3, <2>4, BecomeStep, ReturnStep DEF TypeInv
  <2> QED
    BY <1>2, <2>5
<1>9. CASE Finish(t)
  <2>1. Top(t).at = "done" /\ answer' = [answer EXCEPT ![t] = Top(t).val]
    BY <1>9 DEF Finish, At, Return
  <2>2. Top(t).val = "whole"
    BY <1>2, <2>1, SoundTop DEF SoundFrame
  <2> QED
    BY <1>1, <1>2, <2>1, <2>2 DEF TypeInv, TypeOK
<1> QED
  BY <1>7, <1>8, <1>9

LEMMA OtherFrames ==
    ASSUME SoundState, NEW t \in Threads,
           LookUp(t) \/ Claim(t) \/ Publish(t) \/ Finish(t)
    PROVE  /\ \A i \in 1..Len(stack'[t]) : SoundFrame(stack'[t][i])
           /\ (Active(t) /\ Top(t).at \in Waiting)' => answer'[t] = "whole"
           /\ \A n \in Objects : cells'[n] \in {Empty, "whole"}
<1> DEFINE k == Len(stack[t])
<1>1. TypeInv /\ SlotsInv
  BY DEF SoundState, ReadInv, StoreInv
<1>2. Active(t)
  BY <1>1, OtherMoves
<1>3. k \in Nat \ {0} /\ \A i \in 1..k : SoundFrame(stack[t][i])
  BY <1>1, <1>2, TopTyped DEF TypeInv, SoundState, SoundInv
<1>4. Publish(t) => /\ Top(t).at = "publish" /\ Top(t).num \in Objects
                    /\ Top(t).val = "whole"
                    /\ cells[Top(t).num] \in {Empty, "whole"}
  <2> SUFFICES ASSUME Publish(t)
               PROVE  /\ Top(t).at = "publish" /\ Top(t).num \in Objects
                      /\ Top(t).val = "whole"
                      /\ cells[Top(t).num] \in {Empty, "whole"}
    OBVIOUS
  <2>1. Top(t).at = "publish"
    BY DEF Publish, At
  <2>2. Top(t).num \in Objects /\ Top(t).val = "whole"
    BY <1>1, <1>2, <2>1, TopShape, SoundTop DEF SoundFrame
  <2> QED
    BY <2>1, <2>2 DEF SoundState, SoundInv
<1>5. \A n \in Objects : cells'[n] \in {Empty, "whole"}
  <2>1. CASE Publish(t)
    BY <1>1, <1>4, <2>1 DEF Publish, TypeInv, TypeOK, SoundState, SoundInv
  <2>2. CASE ~Publish(t)
    BY <2>2 DEF LookUp, Claim, Finish, SoundState, SoundInv
  <2> QED
    BY <2>1, <2>2
<1>6. ASSUME NEW f \in Frame, Become(t, f), f.at \in {"claim", "recheck", "done"},
             f.at = "done" => f.val = "whole"
      PROVE  /\ \A i \in 1..Len(stack'[t]) : SoundFrame(stack'[t][i])
             /\ ~(Top(t).at \in Waiting)'
  <2>1. /\ Len(stack'[t]) = k /\ stack'[t][k] = f
        /\ \A i \in 1..k : i # k => stack'[t][i] = stack[t][i]
    BY <1>1, <1>2, <1>6, BecomeStep DEF TypeInv
  <2>2. SoundFrame(f)
    BY <1>6 DEF SoundFrame
  <2>3. \A i \in 1..Len(stack'[t]) : SoundFrame(stack'[t][i])
    BY <1>3, <2>1, <2>2
  <2> QED
    BY <1>6, <2>1, <2>3 DEF Top, Waiting
<1>7. ASSUME NEW r \in Answers, Return(t, r), ~Publish(t)
      PROVE  /\ \A i \in 1..Len(stack'[t]) : SoundFrame(stack'[t][i])
             /\ Active(t)' => answer'[t] = "whole"
  <2>1. /\ Len(stack'[t]) = k - 1
        /\ \A i \in 1..(k - 1) : stack'[t][i] = stack[t][i]
    BY <1>1, <1>2, <1>7, ReturnStep DEF TypeInv
  <2>2. \A i \in 1..(k - 1) : i \in 1..k
    BY <1>3
  <2>3. \A i \in 1..Len(stack'[t]) : SoundFrame(stack'[t][i])
    BY <1>3, <2>1, <2>2
  <2>4. ASSUME Active(t)' PROVE answer'[t] = "whole"
    <3>1. stack'[t] # <<>> /\ stack'[t] \in Seq(Frame)
      BY <1>1, <1>2, <1>7, <2>4, ReturnStep DEF Active, TypeInv
    <3>2. k > 1
      BY <1>3, <2>1, <3>1, EmptySeq
    <3>3. r = "whole"
      BY <1>7, <3>2, AnswersWhole
    <3> QED
      BY <1>1, <1>7, <3>3 DEF Return, TypeInv, TypeOK
  <2> QED
    BY <2>3, <2>4
<1>8. CASE Publish(t)
  <2> DEFINE f == [Top(t) EXCEPT !.at = "done", !.val = "whole"]
  <2>1. f \in Frame /\ f.at = "done" /\ f.val = "whole"
    BY <1>1, <1>2, TopShape DEF Frame, Claimed, Answers, Values
  <2>2. Become(t, f)
    BY <1>4, <1>8 DEF Publish, Done
  <2> HIDE DEF f
  <2> QED
    BY <1>5, <1>6, <2>1, <2>2
<1>9. CASE ~Publish(t)
  <2>1. CASE \E f \in Frame : /\ Become(t, f)
                              /\ f.num = Top(t).num
                              /\ f.at \in {"claim", "recheck", "done"}
    <3>1. PICK f \in Frame : Become(t, f) /\ f.at \in {"claim", "recheck", "done"}
      BY <2>1
    <3>2. f.at # "done"
      <4>1. Len(stack'[t]) = k /\ stack'[t][k] = f
        BY <1>1, <1>2, <3>1, BecomeStep DEF TypeInv
      <4>2. ASSUME NEW r, Return(t, r) PROVE FALSE
        <5>1. Len(stack'[t]) = k - 1
          BY <1>1, <1>2, <4>2, ReturnStep DEF TypeInv
        <5> QED
          BY <1>3, <4>1, <5>1
      <4>3. \/ Goto(t, "claim")
            \/ Become(t, [Top(t) EXCEPT !.at = "recheck", !.nest = Cardinality(running)])
        BY <1>9, <4>2 DEF LookUp, Claim, Finish
      <4>4. Top(t) \in Frame /\ Cardinality(running) \in Nat
        BY <1>1, <1>2, TopShape, RunningFinite DEF TypeInv
      <4> DEFINE g == [Top(t) EXCEPT !.at = "claim"]
      <4> DEFINE h == [Top(t) EXCEPT !.at = "recheck", !.nest = Cardinality(running)]
      <4>5. /\ g \in Frame /\ g.at = "claim" /\ h \in Frame /\ h.at = "recheck"
        BY <4>4 DEF Frame, Unclaimed, Claimed
      <4>6. Become(t, g) \/ Become(t, h)
        BY <4>3 DEF Goto
      <4> HIDE DEF g, h
      <4>7. f = g \/ f = h
        BY <1>1, <1>2, <4>1, <4>5, <4>6, BecomeStep DEF TypeInv
      <4> QED
        BY <4>5, <4>7
    <3> QED
      BY <1>5, <1>6, <3>1, <3>2
  <2>2. CASE \E r \in Answers : Return(t, r)
    BY <1>5, <1>7, <1>9, <2>2
  <2> QED
    BY <1>1, <2>1, <2>2, OtherMoves
<1> QED
  BY <1>8, <1>9

SoloInv == ReadInv /\ NestInv /\ DescentInv /\ SoundInv

LEMMA SoundStep ==
    ASSUME OneThread, RoomyNesting, SoloInv, [Next]_vars PROVE SoundInv'
<1>1. TypeInv /\ SlotsInv /\ ChainInv /\ BackedInv /\ file' = file
  BY Filled DEF SoloInv, ReadInv, StoreInv
<1> SUFFICES ASSUME Sound(file)
    PROVE  /\ \A n \in Objects : /\ cells'[n] \in {Empty, "whole"}
                                 /\ containers'[n] \in {"untried", "good"}
           /\ \A t \in Threads : \A i \in 1..Len(stack'[t]) : SoundFrame(stack'[t][i])
           /\ \A t \in Threads :
                (Active(t) /\ Top(t).at \in Waiting)' => answer'[t] = "whole"
  BY <1>1 DEF SoundInv
<1>2. SoundState
  BY DEF SoundState, SoloInv
<1>3. SoundInv
  BY DEF SoloInv
<1>4. PICK t : Threads = {t}
  BY DEF OneThread
<1>5. CASE Works(t)
  <2>1. cells' = cells
    BY <1>1, <1>4, <1>5, WorksAdvance DEF Quiet
  <2> QED
    BY <1>2, <1>3, <1>4, <1>5, <2>1, WorksFrames, WorksSound DEF SoundInv
<1>6. CASE LookUp(t) \/ Claim(t) \/ Publish(t) \/ Finish(t)
  <2>1. containers' = containers
    BY <1>6 DEF LookUp, Claim, Publish, Finish
  <2> QED
    BY <1>2, <1>3, <1>4, <1>6, <2>1, OtherFrames DEF SoundInv
<1>7. ASSUME NEW n \in Objects \union {Stray}, Get(t, n)
      PROVE  /\ \A m \in Objects : /\ cells'[m] \in {Empty, "whole"}
                                   /\ containers'[m] \in {"untried", "good"}
             /\ \A i \in 1..Len(stack'[t]) : SoundFrame(stack'[t][i])
             /\ ~(Top(t).at \in Waiting)'
  <2>1. Len(stack'[t]) = 1 /\ stack'[t][1] = NewFrame(n)
    BY <1>1, <1>4, <1>7, GetType
  <2>2. cells' = cells /\ containers' = containers
    BY <1>7 DEF Get
  <2>3. SoundFrame(NewFrame(n)) /\ NewFrame(n).at \notin Waiting
    BY DEF SoundFrame, NewFrame, Waiting
  <2>4. \A i \in 1..Len(stack'[t]) : i = 1
    BY <2>1
  <2> QED
    BY <1>3, <2>1, <2>2, <2>3, <2>4 DEF SoundInv, Top
<1>8. CASE UNCHANGED vars
  BY <1>3, <1>8 DEF vars, SoundInv, Active, Top
<1> QED
  BY <1>4, <1>5, <1>6, <1>7, <1>8, StepOrWork DEF Next

LEMMA SoloInvariant ==
    ASSUME OneThread, RoomyNesting PROVE Spec => []SoloInv
<1>1. Init => DescentInv /\ SoundInv
  <2> SUFFICES ASSUME Init PROVE DescentInv /\ SoundInv
    OBVIOUS
  <2>1. \A t \in Threads : Len(stack[t]) = 0 /\ ~Active(t)
    BY DEF Init, Active
  <2>2. DescentInv
    BY <2>1 DEF DescentInv
  <2>3. SoundInv
    BY <2>1 DEF SoundInv, Init
  <2> QED
    BY <2>2, <2>3
<1>2. SoloInv /\ [Next]_vars => (DescentInv /\ SoundInv)'
  BY SoundStep, DescentStep DEF SoloInv, ReadInv, StoreInv
<1> QED
  BY <1>1, <1>2, NestInvariant, PTL DEF Spec, SoloInv

\* One thread, any file whose references exist, have the right shapes and never
\* lead back, and a nesting limit above the number of its objects: every fetch
\* of an object of the table reads it whole.
THEOREM SoundFileCorrect ==
    ASSUME OneThread, RoomyNesting PROVE Spec => []SoundFileReadsWhole
<1>1. SoloInv => SoundFileReadsWhole
  BY SoundInvStated DEF SoloInv, ReadInv, StoreInv
<1> QED
  BY <1>1, SoloInvariant, PTL
=============================================================================
