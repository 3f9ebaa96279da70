---------------------------- MODULE EntryTable ----------------------------
(***************************************************************************)
(* The slot vector Xref keeps its map in (pdfrum-parser, xref/mod.rs,      *)
(* EntryTable): a slot per object number, a count of the slots in use and  *)
(* the end of the last one, both kept as the vector changes.               *)
(***************************************************************************)
EXTENDS XrefRules, Sequences, FiniteSets

CONSTANTS
    Tops,   \* the tables that merge_up is given
    None    \* a slot the table says nothing in

ASSUME TableAssumption == Tops \subseteq Tables /\ None \notin Entry

VARIABLES
    slots,      \* slots[n + 1] is object n
    occupied,   \* how many are in use
    end,        \* one past the largest number in use
    todo        \* what the running merge_up has still to put

vars == <<slots, occupied, end, todo>>

TypeOK ==
    /\ slots \in Seq(Entry \union {None})
    /\ occupied \in Nat
    /\ end \in Nat
    /\ todo \in Tables

Init ==
    /\ slots = <<>>
    /\ occupied = 0
    /\ end = 0
    /\ todo = NoEntries

Table == [slots |-> slots, occupied |-> occupied, end |-> end]

----------------------------------------------------------------------------
(* EntryTable: each operation takes and gives a vector with its counters. *)

Lookup(t, n) == IF n < Len(t.slots) THEN t.slots[n + 1] ELSE None

\* resize: the vector, long enough to hold n.
Grown(s, n) ==
    IF n < Len(s) THEN s
    ELSE [i \in 1..(n + 1) |-> IF i <= Len(s) THEN s[i] ELSE None]

\* PutEntry, were only the slots the vector grows by counted.
PutUncounted(t, n, e) ==
    [slots    |-> [Grown(t.slots, n) EXCEPT ![n + 1] = e],
     occupied |-> IF n < Len(t.slots) THEN t.occupied ELSE t.occupied + 1,
     end      |-> IF t.end > n THEN t.end ELSE n + 1]

\* EntryTable::put
PutEntry(t, n, e) ==
    [slots    |-> [Grown(t.slots, n) EXCEPT ![n + 1] = e],
     occupied |-> IF Lookup(t, n) = None THEN t.occupied + 1 ELSE t.occupied,
     end      |-> IF t.end > n THEN t.end ELSE n + 1]

\* EntryTable::or_default
Materialized(t, n) == IF Lookup(t, n) = None THEN PutEntry(t, n, Free(0)) ELSE t

InUse(s) == {i \in DOMAIN s : s[i] # None}

\* rposition: one past the last number in use.
LastInUse(s) ==
    IF InUse(s) = {} THEN 0
    ELSE CHOOSE i \in InUse(s) : \A j \in InUse(s) : j <= i

\* TruncateEntries, were end left where truncate found it.
TruncateKeepingEnd(t, size) ==
    IF size > Len(t.slots) THEN t
    ELSE LET kept == SubSeq(t.slots, 1, size) IN
         [slots    |-> kept,
          occupied |-> t.occupied - Cardinality({i \in InUse(t.slots) : i > size}),
          end      |-> t.end]

\* EntryTable::truncate
TruncateEntries(t, size) ==
    IF size > Len(t.slots) THEN t
    ELSE LET kept == SubSeq(t.slots, 1, size) IN
         [slots    |-> kept,
          occupied |-> t.occupied - Cardinality({i \in InUse(t.slots) : i > size}),
          end      |-> LastInUse(kept)]

\* EntryTable::clear
Cleared == [slots |-> <<>>, occupied |-> 0, end |-> 0]

----------------------------------------------------------------------------
(* Xref: one operation at a time. *)

Becomes(t) == slots' = t.slots /\ occupied' = t.occupied /\ end' = t.end

Idle == DOMAIN todo = {} /\ UNCHANGED todo

DoAddNormal(n, g, is, p) ==
    /\ Idle
    /\ LET old == Lookup(Table, n) IN
         Becomes(IF n > MaxNumber THEN Table
                 ELSE PutEntry(Table, n, IF old = None THEN At(p, g, is)
                                         ELSE NormalOver(old, g, is, p)))

\* DoAddCompressed, were the flag set on an archive that is already known only.
DoAddCompressedKnown(n, a, i) ==
    /\ Idle
    /\ LET old == Lookup(Table, n)
           put == PutEntry(Table, n, Packed(a, i)) IN
         Becomes(IF n > MaxNumber \/ a > MaxNumber THEN Table
                 ELSE IF old # None /\ Declines(old) THEN Table
                 ELSE IF Lookup(put, a) = None THEN put
                 ELSE [put EXCEPT !.slots[a + 1].flag = TRUE])

DoAddCompressed(n, a, i) ==
    /\ Idle
    /\ LET old == Lookup(Table, n)
           put == Materialized(PutEntry(Table, n, Packed(a, i)), a) IN
         Becomes(IF n > MaxNumber \/ a > MaxNumber THEN Table
                 ELSE IF old # None /\ Declines(old) THEN Table
                 ELSE [put EXCEPT !.slots[a + 1].flag = TRUE])

DoSetFree(n, g) == Idle /\ Becomes(PutEntry(Table, n, Free(g)))

DoSetSize(size) ==
    /\ Idle
    /\ Becomes(IF size = 0 THEN Cleared
               ELSE Materialized(TruncateEntries(Table, size), size - 1))

\* merge_up begins: its turns are all that happens until it is over.
StartMerge(top) ==
    /\ DOMAIN todo = {} /\ DOMAIN top # {}
    /\ todo' = top
    /\ UNCHANGED <<slots, occupied, end>>

\* MergeTurn, were the entry on top to win only an empty slot.
MergeTurnUnder ==
    \E n \in DOMAIN todo :
       /\ \A k \in DOMAIN todo : n <= k
       /\ LET old == Lookup(Table, n) IN
            Becomes(IF old = None THEN PutEntry(Table, n, todo[n]) ELSE Table)
       /\ todo' = [k \in DOMAIN todo \ {n} |-> todo[k]]

\* One turn of the loop: the smallest number left.
MergeTurn ==
    \E n \in DOMAIN todo :
       /\ \A k \in DOMAIN todo : n <= k
       /\ LET old == Lookup(Table, n) IN
            Becomes(PutEntry(Table, n, IF old = None THEN todo[n]
                                       ELSE TopOver(old, todo[n])))
       /\ todo' = [k \in DOMAIN todo \ {n} |-> todo[k]]

Called == 0..(MaxNumber + 1)

Next ==
    \/ \E n \in Called, g \in Generations, is \in BOOLEAN, p \in Offsets :
          DoAddNormal(n, g, is, p)
    \/ \E n, a \in Called, i \in Indexes : DoAddCompressed(n, a, i)
    \/ \E n \in Numbers, g \in Generations : DoSetFree(n, g)
    \/ \E size \in 0..(MaxNumber + 1) : DoSetSize(size)
    \/ \E top \in Tops : StartMerge(top)
    \/ MergeTurn

Spec == Init /\ [][Next]_vars

----------------------------------------------------------------------------
(* Properties. *)

\* The counters that len and last read instead of scanning are what a scan of
\* the slots would find, after any operations in any order.
CachesExact ==
    /\ occupied = Cardinality(InUse(slots))
    /\ end = LastInUse(slots)

\* The map the vector holds, a running merge_up taken as done.
Described ==
    MergeUp([n \in {i - 1 : i \in InUse(slots)} |-> slots[n + 1]], todo)

Map == INSTANCE XrefMap WITH map <- Described

\* EntryTable: "What it keeps is every rule about which entry wins, unchanged
\* and applied in the same order": the vector implements the plain map, and
\* merge_up's loop is one step of it.
ImplementsMap == Map!Spec
============================================================================
