---------------------------- MODULE ObjectStore ----------------------------
(***************************************************************************)
(* The lazy object store of pdfrum-parser (store.rs): what turns an object *)
(* number into a parsed object.  Threads share one store.  A fetch is a    *)
(* stack of frames, because parsing an object may need others: the object  *)
(* a stream's /Length names, the object stream a member is packed in, the  *)
(* /Filter that object stream names.  Every lock of the code is held for   *)
(* one step only, so each action is one critical section or one read.      *)
(*                                                                         *)
(* What an object holds is abstracted to how faithfully it was read:       *)
(*   "whole"      as the file has it                                       *)
(*   "rescanned"  a stream whose end was found by looking for a keyword,   *)
(*                because the object its /Length names did not answer      *)
(*   "clipped"    a dictionary read at the last level of nesting allowed:  *)
(*                its entries were refused and dropped                     *)
(*   "null"       an object whose body was refused outright for nesting    *)
(* Diagnostics and decryption leave no trace in these values.              *)
(***************************************************************************)
EXTENDS Naturals, Sequences, FiniteSets

CONSTANTS
    Threads,     \* the threads that share the document
    Objects,     \* the object numbers the cross-reference table describes
    Stray,       \* a number it does not: zero, or past its end
    NoObject,    \* no reference
    Files,       \* the files considered: functions from Objects to Slot
    MaxNesting   \* Limits::max_object_nesting

Refs == Objects \union {Stray, NoObject}

(***************************************************************************)
(* What the table and the file say of one object.                          *)
(*   where    "absent": free, at offset zero, or past the end of the file  *)
(*            "shifted": at an offset where another object's header is     *)
(*   length   what a stream's /Length names; NoObject when it is direct    *)
(*   filter   what an object stream's /Filter names; NoObject when direct  *)
(*   archive  the object stream a packed object is a member of             *)
(*   listed   that stream lists it, at the index the table has             *)
(*   flagged  some entry of the table named it as an object stream         *)
(*   objstm   its dictionary describes an object stream                    *)
(***************************************************************************)
Slot == [where   : {"absent", "offset", "shifted", "packed"},
         shape   : {"number", "name", "dict", "stream"},
         length  : Refs,
         filter  : Refs,
         archive : Objects \union {NoObject},
         listed  : BOOLEAN,
         flagged : BOOLEAN,
         objstm  : BOOLEAN]

ASSUME StoreAssumption ==
    /\ IsFiniteSet(Objects)
    /\ Stray \notin Objects
    /\ NoObject \notin Objects \union {Stray}
    /\ Files \subseteq [Objects -> Slot]
    /\ \A f \in Files, n \in Objects :
          f[n].where = "packed" => f[n].archive \in Objects
    /\ MaxNesting \in Nat \ {0}

Values  == {"whole", "rescanned", "clipped", "null"}
Empty   == "empty"                       \* a OnceLock nobody has filled
Answers == Values \union {"unresolved", "cycle"}

\* Containers: not tried yet, tried and refused, read, read from wrong bytes.
Boxes == {"untried", "none", "good", "garbled"}

\* The steps of one fetch.  From "recheck" on the frame holds a Guard.
Unclaimed == {"lookup", "claim"}
Waiting   == {"length", "archive", "filter"}
Claimed   == Waiting \union {"recheck", "parse", "container", "index",
                             "member", "publish", "done"}

Frame == [num  : Objects \union {Stray},
          at   : Unclaimed \union Claimed,
          nest : Nat,
          val  : Answers,
          box  : Boxes]

VARIABLES
    file,        \* the bytes and the table: fixed for the document's life
    cells,       \* the parsed objects, one OnceLock per number
    running,     \* in_progress: the numbers whose parse is running
    containers,  \* the decoded object streams
    stack,       \* the fetches each thread is inside, outermost first
    answer       \* what the thread's last fetch to end returned

vars == <<file, cells, running, containers, stack, answer>>

TypeOK ==
    /\ file \in Files
    /\ cells \in [Objects -> Values \union {Empty}]
    /\ running \in SUBSET (Objects \union {Stray})
    /\ containers \in [Objects -> Boxes]
    /\ stack \in [Threads -> Seq(Frame)]
    /\ answer \in [Threads -> Answers]

Init ==
    /\ file \in Files
    /\ cells = [n \in Objects |-> Empty]
    /\ running = {}
    /\ containers = [n \in Objects |-> "untried"]
    /\ stack = [t \in Threads |-> <<>>]
    /\ answer = [t \in Threads |-> "unresolved"]

----------------------------------------------------------------------------
(* Frames. *)

NewFrame(n) == [num |-> n, at |-> "lookup", nest |-> 0,
                val |-> "unresolved", box |-> "untried"]

Active(t) == stack[t] # <<>>
Top(t)    == stack[t][Len(stack[t])]
At(t, s)  == Active(t) /\ Top(t).at = s

\* The thread's innermost fetch goes on as frame f.
Become(t, f) == stack' = [stack EXCEPT ![t][Len(stack[t])] = f]

Goto(t, s) == Become(t, [Top(t) EXCEPT !.at = s])

\* The thread's innermost fetch goes on as f once a fetch of n has ended.
Call(t, f, n) ==
    stack' = [stack EXCEPT ![t] =
                Append([stack[t] EXCEPT ![Len(stack[t])] = f], NewFrame(n))]

\* The thread's innermost fetch ends with answer r.
Return(t, r) ==
    /\ stack' = [stack EXCEPT ![t] = SubSeq(stack[t], 1, Len(stack[t]) - 1)]
    /\ answer' = [answer EXCEPT ![t] = r]

\* It is over but for dropping the Guard, and will answer r.
Done(t, r) == Become(t, [Top(t) EXCEPT !.at = "done", !.val = r])

----------------------------------------------------------------------------
(* ObjectStore::get *)

\* A caller asks for an object.
Get(t, n) ==
    /\ ~Active(t)
    /\ stack' = [stack EXCEPT ![t] = <<NewFrame(n)>>]
    /\ UNCHANGED <<file, cells, running, containers, answer>>

\* The number is refused, or its slot answers, or the fetch goes on.
LookUp(t) ==
    /\ At(t, "lookup")
    /\ LET n == Top(t).num IN
         \/ n = Stray /\ Return(t, "unresolved")
         \/ n # Stray /\ cells[n] # Empty /\ Return(t, cells[n])
         \/ n # Stray /\ cells[n] = Empty /\ Goto(t, "claim")
                      /\ UNCHANGED answer
    /\ UNCHANGED <<file, cells, running, containers>>

\* Claim, were the guard to mark a number without looking for it.
ClaimUnguarded(t) ==
    /\ At(t, "claim")
    /\ running' = running \union {Top(t).num}
    /\ Become(t, [Top(t) EXCEPT !.at = "recheck", !.nest = Cardinality(running)])
    /\ UNCHANGED <<file, cells, containers, answer>>

\* Claim, were it to wait for a running parse instead of refusing.
ClaimWaits(t) ==
    /\ At(t, "claim")
    /\ \/ Top(t).num \in running /\ UNCHANGED <<running, stack>>
       \/ /\ Top(t).num \notin running
          /\ running' = running \union {Top(t).num}
          /\ Become(t, [Top(t) EXCEPT !.at = "recheck",
                                      !.nest = Cardinality(running)])
    /\ UNCHANGED <<file, cells, containers, answer>>

\* Claim, were the nesting taken after the push.
ClaimCountsItself(t) ==
    /\ At(t, "claim")
    /\ LET n == Top(t).num IN
         \/ n \in running /\ Return(t, "cycle") /\ UNCHANGED running
         \/ /\ n \notin running
            /\ running' = running \union {n}
            /\ Become(t, [Top(t) EXCEPT !.at = "recheck",
                                        !.nest = Cardinality(running')])
            /\ UNCHANGED answer
    /\ UNCHANGED <<file, cells, containers>>

\* Guard::enter: refused when the number's parse is running, in any thread;
\* otherwise nested inside every fetch in flight.
Claim(t) ==
    /\ At(t, "claim")
    /\ LET n == Top(t).num IN
         \/ n \in running /\ Return(t, "cycle") /\ UNCHANGED running
         \/ /\ n \notin running
            /\ running' = running \union {n}
            /\ Become(t, [Top(t) EXCEPT !.at = "recheck",
                                        !.nest = Cardinality(running)])
            /\ UNCHANGED answer
    /\ UNCHANGED <<file, cells, containers>>

\* Recheck, were the slot not looked at again under the guard.
RecheckSkipped(t) ==
    /\ At(t, "recheck")
    /\ Goto(t, "parse")
    /\ UNCHANGED <<file, cells, running, containers, answer>>

\* Another thread may have filled the slot since LookUp.
Recheck(t) ==
    /\ At(t, "recheck")
    /\ LET n == Top(t).num IN
         IF cells[n] # Empty THEN Done(t, cells[n]) ELSE Goto(t, "parse")
    /\ UNCHANGED <<file, cells, running, containers, answer>>

\* Publish, were the slot not filled.
PublishForgets(t) ==
    /\ At(t, "publish")
    /\ Done(t, Top(t).val)
    /\ UNCHANGED <<file, cells, running, containers, answer>>

\* The OnceLock keeps its first value; the caller gets what the lock holds.
Publish(t) ==
    /\ At(t, "publish")
    /\ LET n == Top(t).num
           v == IF cells[n] = Empty THEN Top(t).val ELSE cells[n] IN
         /\ cells' = [cells EXCEPT ![n] = v]
         /\ Done(t, v)
    /\ UNCHANGED <<file, running, containers, answer>>

\* Finish, were the guard dropped only when the fetch succeeds.
FinishLeaks(t) ==
    /\ At(t, "done")
    /\ running' = IF Top(t).val \in Values THEN running \ {Top(t).num} ELSE running
    /\ Return(t, Top(t).val)
    /\ UNCHANGED <<file, cells, containers>>

\* Guard::drop, and the answer.
Finish(t) ==
    /\ At(t, "done")
    /\ running' = running \ {Top(t).num}
    /\ Return(t, Top(t).val)
    /\ UNCHANGED <<file, cells, containers>>

----------------------------------------------------------------------------
(* ObjectStore::parse *)

\* body() refuses at this nesting; the entries of a dictionary are one deeper.
TooDeep(f)  == f.nest >= MaxNesting
Clips(f, s) == s \in {"dict", "stream"} /\ f.nest + 1 >= MaxNesting

\* What body() makes of an object of shape s it does not refuse.
Reading(f, s) == IF Clips(f, s) THEN "clipped" ELSE "whole"

\* What was read is kept unless it turns out to be another object.
Parsed(t, v) ==
    IF file[Top(t).num].where = "shifted"
    THEN Done(t, "unresolved")
    ELSE Become(t, [Top(t) EXCEPT !.at = "publish", !.val = v])

\* A stream asks for the object its /Length names, unless its entries were
\* dropped; any other object at an offset is read in one go.
Parse(t) ==
    /\ At(t, "parse")
    /\ LET f == Top(t)
           o == file[f.num] IN
         CASE o.where = "absent" -> Done(t, "unresolved")
           [] o.where = "packed" -> Goto(t, "container")
           [] o.where \in {"offset", "shifted"} ->
                IF TooDeep(f) THEN Parsed(t, "null")
                ELSE IF o.shape = "stream" /\ o.length # NoObject
                          /\ ~Clips(f, o.shape)
                     THEN Call(t, [f EXCEPT !.at = "length"], o.length)
                     ELSE Parsed(t, Reading(f, o.shape))
    /\ UNCHANGED <<file, cells, running, containers, answer>>

\* FoundNumber, were /Length read without following a reference.
FoundNoNumber(n, r) == FALSE

\* Whether a fetch of n that ended with answer r found an integer.
FoundNumber(n, r) ==
    n \in Objects /\ r = "whole" /\ file[n].shape = "number"

\* Measure, were any object taken for the length.
MeasureAnything(t) ==
    /\ At(t, "length")
    /\ Parsed(t, IF answer[t] \in Values THEN "whole" ELSE "rescanned")
    /\ UNCHANGED <<file, cells, running, containers, answer>>

\* Without a usable /Length the payload ends where a keyword is found.
Measure(t) ==
    /\ At(t, "length")
    /\ LET len == file[Top(t).num].length IN
         Parsed(t, IF FoundNumber(len, answer[t]) THEN "whole"
                                                  ELSE "rescanned")
    /\ UNCHANGED <<file, cells, running, containers, answer>>

----------------------------------------------------------------------------
(* ObjectStore::parse_member, container, build_container *)

Archive(t) == file[Top(t).num].archive

\* Only a flagged object is used as a container; one tried before answers
\* from the cache, whatever came of it; otherwise the object is fetched.
OpenContainer(t) ==
    /\ At(t, "container")
    /\ LET a == Archive(t) IN
         IF ~file[a].flagged THEN Done(t, "unresolved")
         ELSE IF containers[a] # "untried"
              THEN Become(t, [Top(t) EXCEPT !.at = "member",
                                            !.box = containers[a]])
              ELSE Call(t, [Top(t) EXCEPT !.at = "archive"], a)
    /\ UNCHANGED <<file, cells, running, containers, answer>>

\* ObjStm::build checks the dictionary, then decodes the payload, which may
\* need the object /Filter names.  A dictionary without entries names no type.
BuildContainer(t) ==
    /\ At(t, "archive")
    /\ LET a == Archive(t)
           v == answer[t]
           f == [Top(t) EXCEPT !.val = v] IN
         IF \/ v \notin {"whole", "rescanned"}
            \/ file[a].shape # "stream" \/ ~file[a].objstm
         THEN Become(t, [f EXCEPT !.at = "index", !.box = "none"])
         ELSE IF file[a].filter # NoObject
              THEN Call(t, [f EXCEPT !.at = "filter"], file[a].filter)
              ELSE Become(t, [f EXCEPT !.at = "index",
                                !.box = IF v = "whole" THEN "good"
                                                       ELSE "garbled"])
    /\ UNCHANGED <<file, cells, running, containers, answer>>

FoundFilter(n, r) ==
    n \in Objects /\ r = "whole" /\ file[n].shape = "name"

\* Decode, were a filter that did not answer not noticed.
DecodeBlindly(t) ==
    /\ At(t, "filter")
    /\ Become(t, [Top(t) EXCEPT !.at = "index", !.box = "good"])
    /\ UNCHANGED <<file, cells, running, containers, answer>>

\* A /Filter that does not answer reads as no filter: the bytes stay encoded.
Decode(t) ==
    /\ At(t, "filter")
    /\ LET f == Top(t)
           good == /\ f.val = "whole"
                   /\ FoundFilter(file[Archive(t)].filter, answer[t]) IN
         Become(t, [f EXCEPT !.at = "index",
                             !.box = IF good THEN "good" ELSE "garbled"])
    /\ UNCHANGED <<file, cells, running, containers, answer>>

\* The outcome is remembered, a refusal included; the last writer wins.
Index(t) ==
    /\ At(t, "index")
    /\ containers' = [containers EXCEPT ![Archive(t)] = Top(t).box]
    /\ Goto(t, "member")
    /\ UNCHANGED <<file, cells, running, answer>>

\* Member, were a member that did not parse kept as an object.
MemberKept(t) ==
    /\ At(t, "member")
    /\ LET f == Top(t) IN
         Parsed(t, IF f.box = "good" /\ file[f.num].listed
                   THEN Reading(f, file[f.num].shape) ELSE "unresolved")
    /\ UNCHANGED <<file, cells, running, containers, answer>>

\* ObjStm::member: unlike at an offset, a refused body is no object at all.
Member(t) ==
    /\ At(t, "member")
    /\ LET f == Top(t)
           o == file[f.num] IN
         IF f.box = "good" /\ o.listed /\ ~TooDeep(f)
         THEN Parsed(t, Reading(f, o.shape))
         ELSE Done(t, "unresolved")
    /\ UNCHANGED <<file, cells, running, containers, answer>>

----------------------------------------------------------------------------

Step(t) ==
    \/ LookUp(t) \/ Claim(t) \/ Recheck(t) \/ Publish(t) \/ Finish(t)
    \/ Parse(t) \/ Measure(t)
    \/ OpenContainer(t) \/ BuildContainer(t) \/ Decode(t) \/ Index(t)
    \/ Member(t)

Next == \E t \in Threads : Step(t) \/ \E n \in Objects \union {Stray} : Get(t, n)

Spec == Init /\ [][Next]_vars

\* The operating system runs every thread; nothing makes a caller ask again.
FairSpec == Spec /\ \A t \in Threads : WF_vars(Step(t))

----------------------------------------------------------------------------
(* Properties. *)

Frames == UNION {{<<t, i>> : i \in 1..Len(stack[t])} : t \in Threads}
FrameAt(c) == stack[c[1]][c[2]]
Guards == {c \in Frames : FrameAt(c).at \in Claimed}

\* Guard::enter and Guard::drop: in_progress names exactly the numbers whose
\* parse some fetch is inside, and no number is being parsed twice, whatever
\* fetches of any thread are in flight and however each of them ends.
GuardsExact ==
    /\ running = {FrameAt(c).num : c \in Guards}
    /\ \A c, d \in Guards : FrameAt(c).num = FrameAt(d).num => c = d

\* The second look into the slot, under the guard, is what makes each object
\* parsed once: a fetch past it works on a slot nobody has filled or can fill.
ParsedOnce ==
    \A c \in Guards :
       FrameAt(c).at \notin {"recheck", "done"} => cells[FrameAt(c).num] = Empty

\* Every caller gets the one object the slot holds, never its own copy.
AnswersTheSlot ==
    \A c \in Guards :
       FrameAt(c).at = "done" /\ FrameAt(c).val \in Values
          => cells[FrameAt(c).num] = FrameAt(c).val

\* A file whose lengths, filters and object streams refer to one another in
\* circles cannot drive a fetch deeper than the objects it has.
StackBounded == \A t \in Threads : Len(stack[t]) <= Cardinality(Objects) + 1

\* A stream that counts as read whole had its length from an integer that was
\* itself read whole, not from a fetch that was refused or cut short.
LengthBacked ==
    \A n \in Objects :
       LET o == file[n] IN
       cells[n] = "whole" /\ o.where = "offset" /\ o.shape = "stream"
          /\ o.length # NoObject
       => FoundNumber(o.length, IF o.length \in Objects THEN cells[o.length]
                                                        ELSE "unresolved")

\* A container served from the cache was decoded from an archive that the table
\* flags, that was read whole, and whose filter was found.
ContainerBacked ==
    \A a \in Objects :
       /\ containers[a] # "untried" => file[a].flagged
       /\ containers[a] = "good" =>
             /\ cells[a] = "whole"
             /\ file[a].filter \in Objects => cells[file[a].filter] = "whole"

\* Every fetch ends, on any file and beside any other thread.
FetchesEnd == \A t \in Threads : Active(t) ~> ~Active(t)

\* A file without defects: what each object refers to exists, has the right
\* shape, and is lower in some ranking, so nothing refers back to itself.
Sound(f) ==
    \E rank \in [Objects -> 1..Cardinality(Objects)] : \A n \in Objects :
       LET o == f[n]
           Below(m, s) == /\ m \in Objects
                          /\ f[m].shape = s
                          /\ rank[m] < rank[n] IN
       /\ o.where \notin {"absent", "shifted"}
       /\ o.length # NoObject => Below(o.length, "number")
       /\ o.filter # NoObject => Below(o.filter, "name")
       /\ o.where = "packed" => /\ Below(o.archive, "stream")
                                /\ f[o.archive].where = "offset"
                                /\ f[o.archive].objstm
                                /\ f[o.archive].flagged
                                /\ o.listed

\* On a file without defects, within the nesting limit, every fetch of every
\* object in the table succeeds and reads what the file has.
SoundFileReadsWhole ==
    Sound(file) =>
       /\ \A n \in Objects : /\ cells[n] \in {Empty, "whole"}
                             /\ containers[n] \in {"untried", "good"}
       /\ \A c \in Guards : FrameAt(c).at = "done" => FrameAt(c).val = "whole"

NestingIsOwn ==
    \A c \in Guards : FrameAt(c).nest = Cardinality({i \in 1..Len(stack[c[1]]) : i < c[2]})

CycleMeansReentry ==
    \A t \in Threads :
       At(t, "claim") /\ stack'[t] # stack[t] /\ answer'[t] = "cycle"
                      /\ Len(stack'[t]) < Len(stack[t])
         => \E i \in 1..Len(stack[t]) - 1 : stack[t][i].num = Top(t).num

\* What a fetch is refused for is its own doing.  store.rs, get: "Every fetch
\* already in flight is an object this parse is nested inside, so the nesting
\* budget continues from there", and Error::Cycle "when the fetch re-entered one
\* already running".
RefusalsAreOwn == [][NestingIsOwn' /\ CycleMeansReentry]_vars

\* store.rs, Containers: "`None` records a container that was tried and could
\* not be decoded".
NoneMeansUndecodable ==
    \A a \in Objects :
       containers[a] = "none" =>
          \/ file[a].where = "absent"
          \/ file[a].shape # "stream"
          \/ ~file[a].objstm
============================================================================
