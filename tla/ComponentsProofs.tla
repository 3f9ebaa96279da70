-------------------------- MODULE ComponentsProofs --------------------------
(***************************************************************************)
(* Proofs about the parts that do not meet: the viewer, the font cache,    *)
(* the two image caches, the timers, a form session and a text field's     *)
(* edit control, each for every value of its constants, and then each      *)
(* beside the others.                                                      *)
(***************************************************************************)
EXTENDS MCComponents, FoldProofs, SequenceTheorems, FiniteSetTheorems, TLAPS

----------------------------------------------------------------------------
(* The viewer.                                                             *)

\* One, two or three in a row.
LEMMA Rows ==
    ASSUME NEW S, NEW u \in S, NEW y \in S, NEW z \in S
    PROVE  /\ <<>> \o <<>> \o <<>> = <<>>
           /\ <<u>> \o <<>> \o <<>> = <<u>>
           /\ <<>> \o <<u>> \o <<>> = <<u>>
           /\ <<>> \o <<>> \o <<u>> = <<u>>
           /\ <<u>> \o <<y>> \o <<>> = <<u, y>>
           /\ <<u>> \o <<>> \o <<y>> = <<u, y>>
           /\ <<>> \o <<u>> \o <<y>> = <<u, y>>
           /\ <<u>> \o <<y>> \o <<z>> = <<u, y, z>>
<1>1. <<>> \in Seq(S) /\ <<u>> \in Seq(S) /\ <<y>> \in Seq(S) /\ <<u, y>> \in Seq(S)
  OBVIOUS
<1>2. /\ <<>> \o <<>> = <<>> /\ <<u>> \o <<>> = <<u>> /\ <<u, y>> \o <<>> = <<u, y>>
      /\ <<>> \o <<u>> = <<u>> /\ <<>> \o <<y>> = <<y>>
  BY <1>1, ConcatEmptySeq
<1>3. <<u>> \o <<y>> = <<u, y>>
  <2> DEFINE s == <<u>> \o <<y>>
             t == <<u, y>>
  <2>1. s \in Seq(S) /\ t \in Seq(S) /\ Len(s) = 2 /\ Len(t) = 2
    BY <1>1, ConcatProperties
  <2>2. \A i \in 1..2 : s[i] = t[i]
    BY <1>1, ConcatProperties
  <2> QED
    BY <2>1, <2>2, SeqEqual
<1>4. <<u, y>> \o <<z>> = <<u, y, z>>
  <2> DEFINE s == <<u, y>> \o <<z>>
             t == <<u, y, z>>
  <2>1. s \in Seq(S) /\ t \in Seq(S) /\ Len(s) = 3 /\ Len(t) = 3
    BY <1>1, ConcatProperties
  <2>2. \A i \in 1..3 : s[i] = t[i]
    BY <1>1, ConcatProperties
  <2> QED
    BY <2>1, <2>2, SeqEqual
<1> QED
  BY <1>2, <1>3, <1>4

LEMMA NeighboursAre ==
    ASSUME NEW k \in View!Key, Count \in Nat, NEW among \in SUBSET View!Key
    PROVE  LET s == View!Neighbours(k, among)
           IN  /\ s \in Seq(among)
               /\ Len(s) <= 3
               /\ \A i \in 1..Len(s) : s[i] \in among /\ s[i].page - k.page \in {-1, 1, 2}
                         /\ s[i].zoom = k.zoom /\ s[i].screen = k.screen
               /\ \A i, j \in 1..Len(s) : s[i] = s[j] => i = j
<1> DEFINE n1 == [k EXCEPT !.page = k.page + 1]
           n2 == [k EXCEPT !.page = k.page - 1]
           n3 == [k EXCEPT !.page = k.page + 2]
           near(n) == n.page - k.page \in {-1, 1, 2} /\ n.zoom = k.zoom /\ n.screen = k.screen
<1>1. /\ n1.page = k.page + 1 /\ n1.zoom = k.zoom /\ n1.screen = k.screen
      /\ n2.page = k.page - 1 /\ n2.zoom = k.zoom /\ n2.screen = k.screen
      /\ n3.page = k.page + 2 /\ n3.zoom = k.zoom /\ n3.screen = k.screen
      /\ k.page \in Int
  BY DEF View!Key, View!Pages
<1> DEFINE a1 == IF n1 \in among THEN <<n1>> ELSE <<>>
           a2 == IF n2 \in among THEN <<n2>> ELSE <<>>
           a3 == IF n3 \in among THEN <<n3>> ELSE <<>>
<1>2. View!Neighbours(k, among) = a1 \o a2 \o a3
  BY DEF View!Neighbours
<1> HIDE DEF n1, n2, n3
<1>3. /\ n1 # n2 /\ n1 # n3 /\ n2 # n3
      /\ near(n1) /\ near(n2) /\ near(n3)
  BY <1>1
<1> HIDE DEF near
<1>4. \A u, y, z : /\ <<>> \o <<>> \o <<>> = <<>>
           /\ <<u>> \o <<>> \o <<>> = <<u>>
           /\ <<>> \o <<u>> \o <<>> = <<u>>
           /\ <<>> \o <<>> \o <<u>> = <<u>>
           /\ <<u>> \o <<y>> \o <<>> = <<u, y>>
           /\ <<u>> \o <<>> \o <<y>> = <<u, y>>
           /\ <<>> \o <<u>> \o <<y>> = <<u, y>>
           /\ <<u>> \o <<y>> \o <<z>> = <<u, y, z>>
  <2> TAKE u, y, z
  <2> QED
    BY Rows, u \in {u, y, z}, y \in {u, y, z}, z \in {u, y, z}
<1> DEFINE good(s) ==
               /\ s \in Seq(among)
               /\ Len(s) <= 3
               /\ \A i \in 1..Len(s) : s[i] \in among /\ near(s[i])
               /\ \A i, j \in 1..Len(s) : s[i] = s[j] => i = j
<1>5. good(<<>>)
  OBVIOUS
<1>6. ASSUME NEW u \in among, near(u) PROVE good(<<u>>)
  BY <1>6
<1>7. ASSUME NEW u \in among, NEW y \in among, near(u), near(y), u # y PROVE good(<<u, y>>)
  BY <1>7
<1>8. ASSUME NEW u \in among, NEW y \in among, NEW z \in among, near(u), near(y), near(z),
             u # y, u # z, y # z
      PROVE  good(<<u, y, z>>)
  BY <1>8
<1> HIDE DEF good
<1>9. good(a1 \o a2 \o a3)
  <2>1. CASE n1 \in among /\ n2 \in among /\ n3 \in among
    <3>1. a1 \o a2 \o a3 = <<n1, n2, n3>>
      BY <2>1, <1>4
    <3>2. good(<<n1, n2, n3>>)
      BY <2>1, <1>3, <1>8
    <3> QED
      BY <3>1, <3>2
  <2>2. CASE n1 \in among /\ n2 \in among /\ n3 \notin among
    <3>1. a1 \o a2 \o a3 = <<n1, n2>>
      BY <2>2, <1>4
    <3>2. good(<<n1, n2>>)
      BY <2>2, <1>3, <1>7
    <3> QED
      BY <3>1, <3>2
  <2>3. CASE n1 \in among /\ n2 \notin among /\ n3 \in among
    <3>1. a1 \o a2 \o a3 = <<n1, n3>>
      BY <2>3, <1>4
    <3>2. good(<<n1, n3>>)
      BY <2>3, <1>3, <1>7
    <3> QED
      BY <3>1, <3>2
  <2>4. CASE n1 \notin among /\ n2 \in among /\ n3 \in among
    <3>1. a1 \o a2 \o a3 = <<n2, n3>>
      BY <2>4, <1>4
    <3>2. good(<<n2, n3>>)
      BY <2>4, <1>3, <1>7
    <3> QED
      BY <3>1, <3>2
  <2>5. CASE n1 \in among /\ n2 \notin among /\ n3 \notin among
    BY <2>5, <1>3, <1>4, <1>6
  <2>6. CASE n1 \notin among /\ n2 \in among /\ n3 \notin among
    BY <2>6, <1>3, <1>4, <1>6
  <2>7. CASE n1 \notin among /\ n2 \notin among /\ n3 \in among
    BY <2>7, <1>3, <1>4, <1>6
  <2>8. CASE n1 \notin among /\ n2 \notin among /\ n3 \notin among
    BY <2>8, <1>4, <1>5
  <2> QED
    BY <2>1, <2>2, <2>3, <2>4, <2>5, <2>6, <2>7, <2>8
<1> QED
  BY <1>2, <1>9 DEF good, near

\* The picture a step of transmit_ahead sends, in order and under which id.
Fresh == {k \in frames : k.page \notin Broken /\ k \notin DOMAIN stored}
Sent  == LET reached == View!Neighbours(wanted, Fresh)
         IN  SubSeq(reached, 1, View!Min({Len(reached), AheadLimit}))

\* A document has a number of pages, and so has what is sent ahead.
ViewLimits == Count \in Nat /\ AheadLimit \in Nat

\* The pictures the terminal keeps are those the pager knows, each under an
\* id of its own.
PicturesInv ==
    /\ \A k, l \in DOMAIN stored : stored[k] = stored[l] => k = l
    /\ held = {stored[k] : k \in DOMAIN stored}

\* From the draw on the picture on the screen is the page's, and once the
\* pager has forgotten what is far it keeps nothing that is.
DrawnInv ==
    /\ pager = "draw" => wanted \in frames
    /\ pager \in {"prune", "ahead", "read"} /\ wanted.page \notin Broken =>
          wanted \in DOMAIN stored /\ placed = stored[wanted]
    /\ pager \in {"ahead", "read"} => \A k \in DOMAIN stored : ~View!Far(k)

\* What is sent ahead: keys in the frames that were not sent, near, each once.
LEMMA SentAre ==
    ASSUME ViewLimits, View!TypeOK
    PROVE  /\ Len(Sent) \in Nat /\ DOMAIN Sent = 1..Len(Sent)
           /\ \A i \in 1..Len(Sent) : Sent[i] \in Fresh /\ ~View!Far(Sent[i])
           /\ \A i, j \in 1..Len(Sent) : Sent[i] = Sent[j] => i = j
<1> DEFINE reached == View!Neighbours(wanted, Fresh)
           n == View!Min({Len(reached), AheadLimit})
<1>1. /\ reached \in Seq(Fresh)
      /\ \A i \in 1..Len(reached) : reached[i] \in Fresh /\ reached[i].page - wanted.page \in {-1, 1, 2}
               /\ reached[i].zoom = wanted.zoom /\ reached[i].screen = wanted.screen
      /\ \A i, j \in 1..Len(reached) : reached[i] = reached[j] => i = j
  <2>1. Fresh \in SUBSET View!Key
    BY DEF Fresh, View!TypeOK
  <2> QED
    BY <2>1, NeighboursAre DEF View!TypeOK, ViewLimits
<1>2. \A i \in 1..Len(reached) : ~View!Far(reached[i])
  <2> TAKE i \in 1..Len(reached)
  <2>1. reached[i].page \in Int /\ wanted.page \in Int
    BY <1>1 DEF Fresh, View!TypeOK, View!Key, View!Pages
  <2> QED
    BY <1>1, <2>1 DEF View!Far
<1> HIDE DEF reached
<1>3. n \in 0..Len(reached)
  <2>1. Len(reached) \in Nat
    BY <1>1
  <2>2. \E u \in {Len(reached), AheadLimit} : \A y \in {Len(reached), AheadLimit} : u <= y
    BY <2>1 DEF ViewLimits
  <2>3. n \in {Len(reached), AheadLimit} /\ \A y \in {Len(reached), AheadLimit} : n <= y
    BY <2>2 DEF View!Min
  <2> QED
    BY <2>1, <2>3 DEF ViewLimits
<1> HIDE DEF n
<1>4. Sent = SubSeq(reached, 1, n)
  BY DEF Sent, reached, n
<1>5. /\ Len(Sent) = n /\ DOMAIN Sent = 1..n
      /\ \A i \in 1..n : Sent[i] = reached[i]
  <2>1. \A i \in 1..n : reached[i] \in Fresh
    BY <1>1, <1>3
  <2>2. /\ Sent \in Seq(Fresh)
        /\ Len(Sent) = n
        /\ \A i \in 1..n : Sent[i] = reached[i]
    BY <1>3, <1>4, <2>1, SubSeqProperties
  <2> QED
    BY <2>2, LenProperties
<1> QED
  BY <1>1, <1>2, <1>3, <1>5

\* The worker that serves a request has one.
ServeInv == worker \in {"look", "render", "ring"} => batch # <<>>

LEMMA ViewTypeStep ==
    ASSUME ViewLimits, View!TypeOK, ServeInv, [View!Next]_(View!vars)
    PROVE  View!TypeOK' /\ ServeInv'
<1> USE DEF View!WorkerPlace, View!PagerPlace
<1>1. CASE UNCHANGED View!vars
  BY <1>1 DEF View!TypeOK, ServeInv, View!vars
<1>2. CASE View!Receive
  BY <1>2 DEF View!TypeOK, ServeInv, View!Receive, View!terminalVars
<1>3. CASE View!Hangup \/ View!Pick
  BY <1>3 DEF View!TypeOK, ServeInv, View!Hangup, View!Pick, View!terminalVars
<1>4. ASSUME worker \in {"look", "render", "ring"}
      PROVE  Head(batch) \in View!Key /\ Tail(batch) \in Seq(View!Key)
  BY <1>4, HeadTailProperties DEF View!TypeOK, ServeInv
<1>5. CASE View!Look
  BY <1>4, <1>5 DEF View!TypeOK, ServeInv, View!Look, View!terminalVars
<1>6. CASE View!Render
  BY <1>4, <1>6 DEF View!TypeOK, ServeInv, View!Render, View!terminalVars
<1>7. CASE View!Ring
  BY <1>4, <1>7 DEF View!TypeOK, ServeInv, View!Ring, View!terminalVars
<1>8. CASE View!Send
  <2>1. View!Ahead(wanted) \in Seq(View!Key)
    BY NeighboursAre DEF View!TypeOK, View!Ahead, ViewLimits
  <2>2. <<wanted>> \in Seq(View!Key)
    BY DEF View!TypeOK
  <2>3. inbox' \in Seq(View!Key)
    BY <1>8, <2>1, <2>2, ConcatProperties DEF View!TypeOK, View!Send
  <2> QED
    BY <1>8, <2>3 DEF View!TypeOK, ServeInv, View!Send, View!workerVars, View!terminalVars
<1>9. CASE View!Wait \/ View!WakeUnrung \/ View!ReadKey
  BY <1>9
     DEF View!TypeOK, ServeInv, View!Wait, View!WakeUnrung, View!ReadKey, View!workerVars,
         View!terminalVars
<1>10. CASE View!Quit \/ View!Fail \/ View!SayStop \/ View!DropSender
  BY <1>10
     DEF View!TypeOK, ServeInv, View!Quit, View!Fail, View!SayStop, View!DropSender,
         View!workerVars, View!terminalVars
<1>11. CASE View!Draw
  <2>1. CASE UNCHANGED View!terminalVars
    BY <1>11, <2>1 DEF View!TypeOK, ServeInv, View!Draw, View!workerVars, View!terminalVars
  <2>2. CASE wanted \in frames /\ wanted.page \notin Broken
    <3>1. /\ stored' = View!With(wanted, stored, nextId)
          /\ placed' = stored'[wanted]
          /\ nextId' = IF wanted \in DOMAIN stored THEN nextId ELSE nextId + 1
          /\ held' = held \union {placed'}
      BY <1>11, <2>2 DEF View!Draw
    <3>2. /\ DOMAIN stored' = DOMAIN stored \union {wanted}
          /\ \A k \in DOMAIN stored' : stored'[k] = IF k \in DOMAIN stored THEN stored[k] ELSE nextId + 1
      BY <3>1 DEF View!With, View!IdOf
    <3>3. nextId' \in Nat /\ nextId <= nextId'
      BY <3>1 DEF View!TypeOK
    <3>4. \A k \in DOMAIN stored' : stored'[k] \in 1..nextId'
      BY <3>1, <3>2 DEF View!TypeOK
    <3>5. placed' \in 1..nextId'
      BY <3>1, <3>2, <3>4
    <3>7. held' \subseteq 1..nextId'
      <4>1. held \subseteq 1..nextId /\ nextId \in Nat
        BY DEF View!TypeOK
      <4>2. 1..nextId \subseteq 1..nextId'
        BY <3>3, <4>1
      <4> QED
        BY <3>1, <3>5, <4>1, <4>2
    <3>6. DOMAIN stored' \subseteq View!Key
      BY <3>2 DEF View!TypeOK
    <3> QED
      BY <1>11, <3>3, <3>4, <3>5, <3>6, <3>7 DEF View!TypeOK, ServeInv, View!Draw, View!workerVars
  <2> QED
    BY <1>11, <2>1, <2>2 DEF View!Draw
<1>12. CASE View!Prune
  <2>1. /\ DOMAIN stored' \subseteq DOMAIN stored
        /\ \A k \in DOMAIN stored' : stored'[k] = stored[k]
        /\ held' \subseteq held /\ frames' \subseteq frames
    BY <1>12 DEF View!Prune
  <2> QED
    BY <1>12, <2>1 DEF View!TypeOK, ServeInv, View!Prune
<1>13. CASE View!TransmitAhead
  <2>1. /\ DOMAIN stored' = DOMAIN stored \union View!Range(Sent)
        /\ \A k \in DOMAIN stored' :
              stored'[k] = IF k \in DOMAIN stored THEN stored[k]
                           ELSE nextId + CHOOSE i \in DOMAIN Sent : Sent[i] = k
        /\ nextId' = nextId + Len(Sent)
        /\ held' = held \union ((nextId + 1)..(nextId + Len(Sent)))
    BY <1>13 DEF View!TransmitAhead, Sent, Fresh
  <2> DEFINE place(k) == CHOOSE i \in DOMAIN Sent : Sent[i] = k
  <2>2. \A k \in View!Range(Sent) : k \in Fresh /\ place(k) \in 1..Len(Sent)
    BY SentAre DEF View!Range
  <2> HIDE DEF place
  <2>3. \A k \in DOMAIN stored' : stored'[k] \in 1..nextId'
    <3> TAKE k \in DOMAIN stored'
    <3>1. CASE k \in DOMAIN stored
      <4>1. stored'[k] \in 1..nextId /\ nextId \in Nat
        BY <2>1, <3>1 DEF View!TypeOK
      <4> QED
        BY <2>1, <4>1, SentAre
    <3>2. CASE k \notin DOMAIN stored
      <4>1. stored'[k] = nextId + place(k)
        BY <2>1, <3>2 DEF place
      <4> QED
        BY <2>1, <2>2, <3>2, <4>1, SentAre DEF View!TypeOK
    <3> QED
      BY <3>1, <3>2
  <2>4. DOMAIN stored' \subseteq View!Key
    BY <2>1, <2>2 DEF View!TypeOK, Fresh
  <2>5. /\ nextId' \in Nat /\ nextId <= nextId'
        /\ held' \subseteq 1..nextId' /\ placed \in 1..nextId' \union {NoPicture}
    <3>1. /\ nextId \in Nat /\ Len(Sent) \in Nat
          /\ held \subseteq 1..nextId /\ placed \in 1..nextId \union {NoPicture}
      BY SentAre DEF View!TypeOK
    <3>2. /\ nextId' \in Nat /\ nextId <= nextId'
          /\ 1..nextId \subseteq 1..nextId' /\ (nextId + 1)..(nextId + Len(Sent)) \subseteq 1..nextId'
      BY <2>1, <3>1
    <3>3. held' \subseteq 1..nextId'
      BY <2>1, <3>1, <3>2
    <3> QED
      BY <3>1, <3>2, <3>3
  <2>6. UNCHANGED <<wanted, stop, open, inbox, frames, batch, worker, placed>> /\ pager' = "read"
    BY <1>13 DEF View!TransmitAhead, View!workerVars
  <2> QED
    BY <2>3, <2>4, <2>5, <2>6 DEF View!TypeOK, ServeInv
<1> QED
  BY <1>1, <1>2, <1>3, <1>5, <1>6, <1>7, <1>8, <1>9, <1>10, <1>11, <1>12, <1>13
     DEF View!Next, View!WorkerStep, View!PagerStep, View!UserStep

\* The pictures in the terminal stay those the pager knows.
LEMMA PicturesHeldStep ==
    ASSUME ViewLimits, View!TypeOK, PicturesInv, [View!Next]_(View!vars)
    PROVE  PicturesInv'
<1>1. CASE UNCHANGED View!terminalVars
  BY <1>1 DEF PicturesInv, View!terminalVars
<1>2. CASE View!Draw /\ wanted \in frames /\ wanted.page \notin Broken
  <2>1. /\ stored' = View!With(wanted, stored, nextId)
        /\ held' = held \union {stored'[wanted]}
    BY <1>2 DEF View!Draw
  <2>2. /\ DOMAIN stored' = DOMAIN stored \union {wanted}
        /\ \A k \in DOMAIN stored' : stored'[k] = IF k \in DOMAIN stored THEN stored[k] ELSE nextId + 1
    BY <2>1 DEF View!With, View!IdOf
  <2>3. \A k \in DOMAIN stored : stored[k] # nextId + 1
    BY DEF View!TypeOK
  <2>4. \A k, l \in DOMAIN stored' : stored'[k] = stored'[l] => k = l
    BY <2>2, <2>3 DEF PicturesInv
  <2>5. held' = {stored'[k] : k \in DOMAIN stored'}
    BY <2>1, <2>2 DEF PicturesInv
  <2> QED
    BY <2>4, <2>5 DEF PicturesInv
<1>3. CASE View!Prune
  <2> DEFINE gone == {k \in DOMAIN stored : View!Far(k)}
  <2>1. /\ DOMAIN stored' = DOMAIN stored \ gone
        /\ \A k \in DOMAIN stored' : stored'[k] = stored[k]
        /\ held' = held \ {stored[k] : k \in gone}
    BY <1>3 DEF View!Prune
  <2> HIDE DEF gone
  <2>2. gone \subseteq DOMAIN stored
    BY DEF gone
  <2>3. held' = {stored'[k] : k \in DOMAIN stored'}
    BY <2>1, <2>2 DEF PicturesInv
  <2> QED
    BY <2>1, <2>3 DEF PicturesInv
<1>4. CASE View!TransmitAhead
  <2> DEFINE place(k) == CHOOSE i \in DOMAIN Sent : Sent[i] = k
  <2>1. /\ DOMAIN stored' = DOMAIN stored \union View!Range(Sent)
        /\ \A k \in DOMAIN stored' :
              stored'[k] = IF k \in DOMAIN stored THEN stored[k] ELSE nextId + place(k)
        /\ held' = held \union ((nextId + 1)..(nextId + Len(Sent)))
    BY <1>4 DEF View!TransmitAhead, Sent, Fresh
  <2>2. \A k \in View!Range(Sent) : place(k) \in 1..Len(Sent) /\ Sent[place(k)] = k /\ k \notin DOMAIN stored
    BY SentAre DEF View!Range, Fresh
  <2>3. \A i \in 1..Len(Sent) : Sent[i] \in View!Range(Sent) /\ place(Sent[i]) = i
    BY SentAre DEF View!Range
  <2> HIDE DEF place
  <2>4. \A k, l \in DOMAIN stored' : stored'[k] = stored'[l] => k = l
    <3> TAKE k, l \in DOMAIN stored'
    <3>1. CASE k \in DOMAIN stored /\ l \in DOMAIN stored
      BY <2>1, <3>1 DEF PicturesInv
    <3>2. CASE k \notin DOMAIN stored /\ l \notin DOMAIN stored
      <4>1. stored'[k] = nextId + place(k) /\ stored'[l] = nextId + place(l)
        BY <2>1, <3>2
      <4>2. /\ place(k) \in 1..Len(Sent) /\ Sent[place(k)] = k
            /\ place(l) \in 1..Len(Sent) /\ Sent[place(l)] = l
        BY <2>1, <2>2, <3>2
      <4> QED
        BY <4>1, <4>2, SentAre DEF View!TypeOK
    <3>3. ASSUME NEW m \in DOMAIN stored, NEW n \in DOMAIN stored', n \notin DOMAIN stored
          PROVE  stored'[m] # stored'[n]
      <4>1. stored'[n] = nextId + place(n) /\ place(n) \in 1..Len(Sent)
        BY <2>1, <2>2, <3>3
      <4>2. stored'[m] \in 1..nextId
        BY <2>1 DEF View!TypeOK
      <4> QED
        BY <4>1, <4>2, SentAre DEF View!TypeOK
    <3> QED
      BY <2>1, <3>1, <3>2, <3>3
  <2>5. held' = {stored'[k] : k \in DOMAIN stored'}
    <3>1. ASSUME NEW k \in DOMAIN stored' PROVE stored'[k] \in held'
      <4>1. CASE k \in DOMAIN stored
        BY <2>1, <4>1 DEF PicturesInv
      <4>2. CASE k \notin DOMAIN stored
        BY <2>1, <2>2, <4>2, SentAre DEF View!TypeOK
      <4> QED
        BY <4>1, <4>2
    <3>2. ASSUME NEW i \in held' PROVE \E k \in DOMAIN stored' : stored'[k] = i
      <4>1. CASE i \in held
        BY <2>1, <4>1 DEF PicturesInv
      <4>2. CASE i \in (nextId + 1)..(nextId + Len(Sent))
        <5>1. i - nextId \in 1..Len(Sent)
          BY <4>2, SentAre DEF View!TypeOK
        <5>2. /\ Sent[i - nextId] \in View!Range(Sent) /\ place(Sent[i - nextId]) = i - nextId
              /\ Sent[i - nextId] \notin DOMAIN stored
          BY <2>2, <2>3, <5>1
        <5>3. stored'[Sent[i - nextId]] = nextId + (i - nextId)
          BY <2>1, <5>2
        <5> QED
          BY <2>1, <4>2, <5>2, <5>3, SentAre DEF View!TypeOK
      <4> QED
        BY <2>1, <4>1, <4>2
    <3> QED
      BY <3>1, <3>2
  <2> QED
    BY <2>4, <2>5 DEF PicturesInv
<1> QED
  BY <1>1, <1>2, <1>3, <1>4
     DEF View!Next, View!WorkerStep, View!PagerStep, View!UserStep, View!Receive, View!Hangup, View!Pick, View!Look, View!Render, View!Ring,
         View!Send, View!Wait, View!Draw, View!SayStop, View!DropSender, View!ReadKey,
         View!Quit, View!Fail, View!WakeUnrung, View!terminalVars, View!vars
\* The picture of the page stays on the screen until another is asked for.
LEMMA DrawnStep ==
    ASSUME ViewLimits, View!TypeOK, DrawnInv, [View!Next]_(View!vars)
    PROVE  DrawnInv'
<1>1. CASE UNCHANGED View!vars
  BY <1>1 DEF DrawnInv, View!Far, View!vars
<1>2. CASE View!Receive \/ View!Hangup \/ View!Pick \/ View!Look
  BY <1>2 DEF DrawnInv, View!Far, View!Receive, View!Hangup, View!Pick, View!Look, View!terminalVars
<1>3. CASE View!Render \/ View!Ring
  BY <1>3 DEF DrawnInv, View!Far, View!Render, View!Ring, View!terminalVars
<1>4. CASE View!Send \/ View!WakeUnrung \/ View!ReadKey \/ View!Quit
  BY <1>4 DEF DrawnInv, View!Send, View!WakeUnrung, View!ReadKey, View!Quit
<1>5. CASE View!Fail \/ View!SayStop \/ View!DropSender
  BY <1>5 DEF DrawnInv, View!Fail, View!SayStop, View!DropSender
<1>6. CASE View!Wait
  BY <1>6 DEF DrawnInv, View!Wait, View!workerVars
<1>7. CASE View!Draw
  <2>1. pager' = "prune" /\ UNCHANGED wanted
    BY <1>7 DEF View!Draw
  <2>2. wanted \in frames
    BY <1>7 DEF View!Draw, DrawnInv
  <2>3. wanted.page \notin Broken => wanted \in DOMAIN stored' /\ placed' = stored'[wanted]
    BY <1>7, <2>2 DEF View!Draw, View!With
  <2> QED
    BY <2>1, <2>3 DEF DrawnInv
<1>8. CASE View!Prune
  <2>1. /\ pager' = "ahead" /\ UNCHANGED <<wanted, placed>>
        /\ stored' = [k \in DOMAIN stored \ {k \in DOMAIN stored : View!Far(k)} |-> stored[k]]
    BY <1>8 DEF View!Prune
  <2>2. ~View!Far(wanted)
    BY DEF View!Far, View!TypeOK, View!Key, View!Pages
  <2>3. \A k \in DOMAIN stored' : ~View!Far(k)'
    BY <2>1 DEF View!Far
  <2>4. wanted.page \notin Broken => wanted \in DOMAIN stored' /\ placed' = stored'[wanted]
    BY <1>8, <2>1, <2>2 DEF View!Prune, DrawnInv
  <2> QED
    BY <2>1, <2>3, <2>4 DEF DrawnInv
<1>9. CASE View!TransmitAhead
  <2>1. /\ pager = "ahead" /\ pager' = "read" /\ UNCHANGED <<wanted, placed>>
        /\ DOMAIN stored' = DOMAIN stored \union View!Range(Sent)
        /\ \A k \in DOMAIN stored : stored'[k] = stored[k]
    BY <1>9 DEF View!TransmitAhead, Sent, Fresh
  <2>2. \A k \in View!Range(Sent) : ~View!Far(k)
    BY SentAre DEF View!Range
  <2>3. \A k \in DOMAIN stored' : ~View!Far(k)'
    BY <2>1, <2>2 DEF DrawnInv, View!Far
  <2> QED
    BY <2>1, <2>3 DEF DrawnInv
<1> QED
  BY <1>1, <1>2, <1>3, <1>4, <1>5, <1>6, <1>7, <1>8, <1>9
     DEF View!Next, View!WorkerStep, View!PagerStep, View!UserStep

LEMMA InitScreen ==
    ASSUME View!Init
    PROVE  View!TypeOK /\ ServeInv /\ PicturesInv /\ DrawnInv
<1>1. stored = <<>> /\ DOMAIN stored = {} /\ inbox = <<>> /\ batch = <<>> /\ <<>> \in Seq(View!Key)
  BY DEF View!Init
<1> QED
  BY <1>1
     DEF View!Init, View!TypeOK, ServeInv, PicturesInv, DrawnInv, View!WorkerPlace,
         View!PagerPlace

\* When a key is read, the picture on the screen is that of the page asked
\* for, and the terminal keeps no pictures but those near it, for documents
\* of any length, any zooms and any sizes of the terminal, whatever the
\* threads do meanwhile (draw, prune, transmit_ahead, wait_for).
THEOREM ScreenCorrect ==
    ASSUME ViewLimits
    PROVE  View!Init /\ [][View!Next]_(View!vars) => [](View!TypeOK /\ View!ScreenShowsPage)
<1> DEFINE Inv == View!TypeOK /\ ServeInv /\ PicturesInv /\ DrawnInv
<1>1. View!Init => Inv
  BY InitScreen
<1>2. Inv /\ [View!Next]_(View!vars) => Inv'
  BY ViewTypeStep, PicturesHeldStep, DrawnStep
<1>3. Inv => View!TypeOK /\ View!ScreenShowsPage
  BY DEF PicturesInv, DrawnInv, View!ScreenShowsPage
<1> QED
  BY <1>1, <1>2, <1>3, PTL

----------------------------------------------------------------------------
(* The font cache.                                                         *)

\* The shape of the state.
LEMMA FontTypeStep ==
    ASSUME MaxFonts \in Nat, Font!TypeOK, [Font!Next]_(Font!vars)
    PROVE  Font!TypeOK'
<1>1. CASE UNCHANGED Font!vars
  BY <1>1 DEF Font!TypeOK, Font!vars
<1>2. ASSUME NEW t \in Threads, Font!Call(t) PROVE Font!TypeOK'
  BY <1>2 DEF Font!TypeOK, Font!Call
<1>3. ASSUME NEW t \in Threads, Font!Hit(t) PROVE Font!TypeOK'
  <2>1. loaded[asks[t]] \in Font!Fonts
    BY <1>3 DEF Font!TypeOK, Font!Hit
  <2> QED
    BY <1>3, <2>1 DEF Font!TypeOK, Font!Hit, Font!Answer
<1>4. ASSUME NEW t \in Threads, Font!Miss(t) PROVE Font!TypeOK'
  BY <1>4 DEF Font!TypeOK, Font!Miss
<1>5. ASSUME NEW t \in Threads, Font!Load(t) PROVE Font!TypeOK'
  <2>1. fontId \in Font!Fonts /\ NoFont \in Font!Fonts /\ fontId + 1 \in 0..MaxFonts
    BY <1>5 DEF Font!TypeOK, Font!Load, Font!Fonts
  <2> QED
    BY <1>5, <2>1 DEF Font!TypeOK, Font!Load
<1>6. ASSUME NEW t \in Threads, Font!Publish(t) PROVE Font!TypeOK'
  <2>1. asks[t] \in Refs /\ copy[t] \in Font!Fonts
    BY DEF Font!TypeOK
  <2>2. DOMAIN loaded' \subseteq Refs /\ \A r \in DOMAIN loaded' : loaded'[r] \in Font!Fonts
    BY <1>6, <2>1 DEF Font!TypeOK, Font!Publish
  <2>3. loaded'[asks[t]] \in Font!Fonts
    BY <1>6, <2>2 DEF Font!Publish
  <2> QED
    BY <1>6, <2>1, <2>2, <2>3 DEF Font!TypeOK, Font!Publish, Font!Answer
<1> QED
  BY <1>1, <1>2, <1>3, <1>4, <1>5, <1>6 DEF Font!Next

\* What was answered for a reference is what the cache holds for it.
AnswersHeld ==
    \A r \in Refs : answers[r] \subseteq {loaded[s] : s \in {r} \intersect DOMAIN loaded}

LEMMA AnswersHeldStep ==
    ASSUME Font!TypeOK, AnswersHeld, [Font!Next]_(Font!vars)
    PROVE  AnswersHeld'
<1>1. CASE UNCHANGED Font!vars
  BY <1>1 DEF AnswersHeld, Font!vars
<1>2. ASSUME NEW t \in Threads, Font!Call(t) \/ Font!Miss(t) \/ Font!Load(t) PROVE AnswersHeld'
  BY <1>2 DEF AnswersHeld, Font!Call, Font!Miss, Font!Load
<1>3. ASSUME NEW t \in Threads, Font!Hit(t) PROVE AnswersHeld'
  BY <1>3 DEF Font!TypeOK, AnswersHeld, Font!Hit, Font!Answer
<1>4. ASSUME NEW t \in Threads, Font!Publish(t) PROVE AnswersHeld'
  \* The first copy stays: no entry changes.
  <2>1. /\ DOMAIN loaded' = DOMAIN loaded \union {asks[t]}
        /\ \A r \in DOMAIN loaded : loaded'[r] = loaded[r]
    BY <1>4 DEF Font!Publish
  <2>2. answers' = [answers EXCEPT ![asks[t]] = @ \union {loaded'[asks[t]]}]
    BY <1>4 DEF Font!Publish, Font!Answer
  <2>3. SUFFICES ASSUME NEW r \in Refs, NEW font \in answers'[r]
                 PROVE  r \in DOMAIN loaded' /\ font = loaded'[r]
    BY DEF AnswersHeld
  <2>4. font \in answers[r] \/ (r = asks[t] /\ font = loaded'[r])
    BY <2>2, <2>3 DEF Font!TypeOK
  <2>5. font \in answers[r] => r \in DOMAIN loaded /\ font = loaded[r]
    BY DEF AnswersHeld
  <2> QED
    BY <2>1, <2>4, <2>5
<1> QED
  BY <1>1, <1>2, <1>3, <1>4 DEF Font!Next

LEMMA HeldIsOne ==
    ASSUME AnswersHeld
    PROVE  Font!OneInstance
BY DEF AnswersHeld, Font!OneInstance

LEMMA InitAnswers ==
    ASSUME MaxFonts \in Nat, Font!Init
    PROVE  Font!TypeOK /\ AnswersHeld
<1>1. NoFont \in Font!Fonts /\ 0 \in 0..MaxFonts
  BY DEF Font!Fonts
<1> QED
  BY <1>1 DEF Font!Init, Font!TypeOK, AnswersHeld

\* The cache keeps its shape, as long as a reference, an identity and a
\* place are what the code has them be (FontCache, load.rs).
THEOREM FontTypeCorrect ==
    ASSUME MaxFonts \in Nat
    PROVE  Font!Spec => []Font!TypeOK
<1>1. Font!Init => Font!TypeOK
  BY InitAnswers
<1>2. Font!TypeOK /\ [Font!Next]_(Font!vars) => Font!TypeOK'
  BY FontTypeStep
<1> QED
  BY <1>1, <1>2, PTL DEF Font!Spec

\* However many threads load a font at once, and whichever of them is first
\* to insert it, all that ever asked for its reference are answered the one
\* instance (get_or_load).
THEOREM OneInstanceCorrect ==
    ASSUME MaxFonts \in Nat
    PROVE  Font!Spec => []Font!OneInstance
<1>1. Font!Init => Font!TypeOK /\ AnswersHeld
  BY InitAnswers
<1>2. Font!TypeOK /\ AnswersHeld /\ [Font!Next]_(Font!vars) => Font!TypeOK' /\ AnswersHeld'
  BY FontTypeStep, AnswersHeldStep
<1>3. AnswersHeld => Font!OneInstance
  BY HeldIsOne
<1> QED
  BY <1>1, <1>2, <1>3, PTL DEF Font!Spec

----------------------------------------------------------------------------
(* The decoded images.                                                     *)

\* An image has samples and a device pixels; the limits are numbers.
DecodedLimits ==
    /\ Wide \in [Images -> Nat \ {0}]
    /\ Devices \subseteq Nat \ {0}
    /\ MaxEntries \in Nat /\ MaxBytes \in Nat

\* The entries are finitely many, each as wide as it was asked for, and no
\* two were used at once.
UsesInv ==
    /\ IsFiniteSet(DOMAIN decoded) /\ DOMAIN decoded \subseteq Decoded!Keys
    /\ \A k \in DOMAIN decoded :
          decoded[k].width \in Decoded!Decodes(k[1], k[2]) /\ decoded[k].used \in 1..tick
    /\ \A k, l \in DOMAIN decoded : decoded[k].used = decoded[l].used => k = l
    /\ tick \in Nat

\* The account is exact and within its limits, and what was drawn covers
\* what it was asked for.
DecodedInv ==
    /\ UsesInv /\ decodedBytes = Decoded!BytesOf(decoded, DOMAIN decoded)
    /\ Cardinality(DOMAIN decoded) <= MaxEntries
    /\ decodedBytes > MaxBytes => Cardinality(DOMAIN decoded) = 1
    /\ image \in [image : Images, size : Decoded!Sizes, width : Nat]
    /\ image.width \in Decoded!Decodes(image.image, image.size)

LEMMA DecodesWidth ==
    ASSUME DecodedLimits, NEW i \in Images, NEW s \in Decoded!Sizes
    PROVE  Decoded!Decodes(i, s) \subseteq 1..Wide[i] /\ Wide[i] \in Decoded!Decodes(i, s) /\ Wide[i] \in Nat \ {0}
BY DEF DecodedLimits, Decoded!Decodes

\* Counting and summing are what they are elsewhere.
LEMMA DecodedSums ==
    /\ \A S : Decoded!Cardinality(S) = Cardinality(S)
    /\ \A f, S : Decoded!SumFunctionOnSet(f, S) = SumFunctionOnSet(f, S)
<1>1. \A S : Decoded!Cardinality(S) = Cardinality(S)
  BY DEF Decoded!Cardinality, Cardinality
<1>2. \A f, S : Decoded!SumFunctionOnSet(f, S) = SumFunctionOnSet(f, S)
  BY DEF Decoded!SumFunctionOnSet, SumFunctionOnSet, Decoded!FoldFunctionOnSet, FoldFunctionOnSet,
         Decoded!MapThenFoldSet, MapThenFoldSet
<1> QED
  BY <1>1, <1>2

LEMMA RenderedSums ==
    /\ \A S : Rendered!Cardinality(S) = Cardinality(S)
    /\ \A f : Rendered!SumFunction(f) = SumFunctionOnSet(f, DOMAIN f)
<1>1. \A S : Rendered!Cardinality(S) = Cardinality(S)
  BY DEF Rendered!Cardinality, Cardinality
<1>2. \A f : Rendered!SumFunction(f) = SumFunctionOnSet(f, DOMAIN f)
  BY DEF Rendered!SumFunction, SumFunctionOnSet, Rendered!SumFunctionOnSet, Rendered!FoldFunctionOnSet,
         FoldFunctionOnSet, Rendered!MapThenFoldSet, MapThenFoldSet
<1> QED
  BY <1>1, <1>2

\* The oldest are as many as are asked for.
LEMMA OldestCount ==
    ASSUME NEW es, IsFiniteSet(DOMAIN es), \A k \in DOMAIN es : es[k].used \in Nat,
           \A k, l \in DOMAIN es : es[k].used = es[l].used => k = l,
           NEW n \in 0..Cardinality(DOMAIN es)
    PROVE  Decoded!Oldest(es, n) \subseteq DOMAIN es /\ Cardinality(Decoded!Oldest(es, n)) = n
<1> DEFINE f == [k \in DOMAIN es |-> es[k].used]
<1>1. Decoded!Oldest(es, n) = First(f, DOMAIN es, n)
  <2>1. \A k \in DOMAIN es : {l \in DOMAIN es : es[l].used < es[k].used} = Before(f, DOMAIN es, k)
    BY DEF Before
  <2> QED
    BY <2>1, DecodedSums DEF Decoded!Oldest, First
<1>2. Cardinality(First(f, DOMAIN es, n)) = n
  <2>1. /\ \A k \in DOMAIN es : f[k] \in Nat
        /\ \A k, l \in DOMAIN es : f[k] = f[l] => k = l
    OBVIOUS
  <2> HIDE DEF f
  <2> QED
    BY <2>1, FirstCount
<1> QED
  BY <1>1, <1>2 DEF Decoded!Oldest

\* What a cache of widths holds in bytes.
LEMMA BytesAre ==
    ASSUME NEW es, IsFiniteSet(DOMAIN es), \A k \in DOMAIN es : es[k].width \in Nat
    PROVE  /\ Decoded!BytesOf(es, {}) = 0
           /\ \A K \in SUBSET DOMAIN es : Decoded!BytesOf(es, K) \in Nat
           /\ \A K \in SUBSET DOMAIN es :
                 Decoded!BytesOf(es, DOMAIN es) = Decoded!BytesOf(es, K) + Decoded!BytesOf(es, DOMAIN es \ K)
           /\ \A k \in DOMAIN es :
                 Decoded!BytesOf(es, DOMAIN es) = es[k].width + Decoded!BytesOf(es, DOMAIN es \ {k})
<1> DEFINE f == [k \in DOMAIN es |-> es[k].width]
<1>1. \A k \in DOMAIN es : f[k] = es[k].width /\ f[k] \in Nat /\ f[k] \in Int
  OBVIOUS
<1> HIDE DEF f
<1>2. \A K : Decoded!BytesOf(es, K) = SumFunctionOnSet(f, K)
  BY DecodedSums DEF Decoded!BytesOf, f
<1>3. \A K \in SUBSET DOMAIN es : SumFunctionOnSet(f, K) \in Nat
  BY <1>1, SumNat, FS_Subset
<1>4. \A K \in SUBSET DOMAIN es :
        SumFunctionOnSet(f, DOMAIN es) = SumFunctionOnSet(f, K) + SumFunctionOnSet(f, DOMAIN es \ K)
  BY <1>1, SumParts
<1>5. /\ SumFunctionOnSet(f, {}) = 0
      /\ \A k \in DOMAIN es :
            SumFunctionOnSet(f, DOMAIN es) = f[k] + SumFunctionOnSet(f, DOMAIN es \ {k})
  BY <1>1, SumTake
<1> QED
  BY <1>1, <1>2, <1>3, <1>4, <1>5

LEMMA BytesSame ==
    ASSUME NEW es, NEW fs, NEW K, IsFiniteSet(K), K \subseteq DOMAIN es, K \subseteq DOMAIN fs,
           \A k \in K : es[k].width \in Nat /\ fs[k].width = es[k].width
    PROVE  Decoded!BytesOf(es, K) = Decoded!BytesOf(fs, K)
<1> DEFINE f == [k \in DOMAIN es |-> es[k].width]
           g == [k \in DOMAIN fs |-> fs[k].width]
<1>1. \A k \in K : f[k] \in Int /\ g[k] = f[k]
  OBVIOUS
<1> HIDE DEF f, g
<1>2. SumFunctionOnSet(g, K) = SumFunctionOnSet(f, K)
  BY <1>1, SumSame
<1> QED
  BY <1>2, DecodedSums DEF Decoded!BytesOf, f, g

\* What eviction leaves is within both limits.
LEMMA EvictedLeaves ==
    ASSUME DecodedLimits, NEW es, IsFiniteSet(DOMAIN es),
           \A k \in DOMAIN es : es[k].width \in Nat /\ es[k].used \in Nat,
           \A k, l \in DOMAIN es : es[k].used = es[l].used => k = l,
           NEW account, account = Decoded!BytesOf(es, DOMAIN es)
    PROVE  LET gone == Decoded!Evicted(es, account)
               left == DOMAIN es \ gone
           IN  /\ gone \subseteq DOMAIN es
               /\ Cardinality(left) <= MaxEntries
               /\ account - Decoded!BytesOf(es, gone) = Decoded!BytesOf(es, left)
               /\ Decoded!BytesOf(es, left) > MaxBytes => Cardinality(left) = 1
<1> DEFINE D == DOMAIN es
           c == Cardinality(D)
           over == IF c > MaxEntries THEN c - MaxEntries ELSE 0
           rest(n) == account - Decoded!BytesOf(es, Decoded!Oldest(es, n))
           enough == {n \in over..c : rest(n) <= MaxBytes \/ n >= c - 1}
           m == Decoded!Min(enough)
<1>1. Decoded!Evicted(es, account) = Decoded!Oldest(es, m)
  BY DecodedSums DEF Decoded!Evicted
<1>2. c \in Nat /\ over \in 0..c /\ c - over <= MaxEntries
  BY FS_CardinalityType DEF DecodedLimits
<1>3. enough \subseteq Nat /\ c \in enough
  BY <1>2
<1>4. m \in enough
  <2> HIDE DEF enough
  <2>1. \E u \in enough : \A y \in enough : u <= y
    BY <1>3, LeastNatural
  <2> QED
    BY <2>1 DEF Decoded!Min
<1>5. m \in 0..c /\ m >= over /\ (rest(m) <= MaxBytes \/ m >= c - 1)
  BY <1>2, <1>4
<1> HIDE DEF m, enough
<1> DEFINE gone == Decoded!Oldest(es, m)
<1>6. gone \subseteq D /\ Cardinality(gone) = m
  BY <1>5, OldestCount
<1>7. Cardinality(D \ gone) = c - m /\ IsFiniteSet(D \ gone)
  <2>1. D \intersect gone = gone
    BY <1>6
  <2> HIDE DEF gone
  <2>2. /\ IsFiniteSet(D \ gone)
        /\ Cardinality(D \ gone) = Cardinality(D) - Cardinality(D \intersect gone)
    BY FS_Difference
  <2> QED
    BY <1>6, <2>1, <2>2
<1>8. account - Decoded!BytesOf(es, gone) = Decoded!BytesOf(es, D \ gone)
  <2>1. Decoded!BytesOf(es, gone) \in Nat /\ Decoded!BytesOf(es, D \ gone) \in Nat
    BY <1>6, BytesAre
  <2>2. account = Decoded!BytesOf(es, gone) + Decoded!BytesOf(es, D \ gone)
    BY <1>6, BytesAre
  <2> QED
    BY <2>1, <2>2
<1>9. ASSUME Decoded!BytesOf(es, D \ gone) > MaxBytes PROVE Cardinality(D \ gone) = 1
  <2>1. Decoded!BytesOf(es, D \ gone) \in Nat
    BY BytesAre
  <2>2. m >= c - 1
    BY <1>5, <1>8, <1>9, <2>1 DEF DecodedLimits
  <2>3. m # c
    <3>1. SUFFICES ASSUME m = c PROVE FALSE
      OBVIOUS
    <3>2. D \ gone = {}
      BY <1>2, <1>7, <3>1, FS_EmptySet
    <3> QED
      BY <1>9, <3>2, BytesAre DEF DecodedLimits
  <2> QED
    BY <1>2, <1>5, <1>7, <2>2, <2>3
<1>10. Cardinality(D \ gone) <= MaxEntries
  BY <1>2, <1>5, <1>7 DEF DecodedLimits
<1> QED
  BY <1>1, <1>6, <1>8, <1>9, <1>10

LEMMA InitImages ==
    ASSUME DecodedLimits, Decoded!Init
    PROVE  DecodedInv
<1>1. decoded = <<>> /\ DOMAIN decoded = {} /\ tick = 0 /\ decodedBytes = 0
  BY DEF Decoded!Init
<1>2. IsFiniteSet({}) /\ Cardinality({}) = 0
  BY FS_EmptySet
<1>3. UsesInv
  BY <1>1, <1>2 DEF UsesInv
<1>4. Decoded!BytesOf(decoded, DOMAIN decoded) = 0
  BY <1>1, <1>2, BytesAre
<1>5. PICK i \in Images : image = [image |-> i, size |-> Decoded!Full, width |-> Wide[i]]
  BY DEF Decoded!Init
<1>6. image \in [image : Images, size : Decoded!Sizes, width : Nat] /\ image.width \in Decoded!Decodes(image.image, image.size)
  BY <1>5 DEF Decoded!Sizes, Decoded!Decodes, DecodedLimits
<1> QED
  BY <1>1, <1>2, <1>3, <1>4, <1>6 DEF DecodedInv, DecodedLimits

\* The widths and the uses of the entries are numbers.
LEMMA EntryNumbers ==
    ASSUME DecodedLimits, UsesInv
    PROVE  \A k \in DOMAIN decoded : decoded[k].width \in Nat /\ decoded[k].used \in Nat
<1> TAKE k \in DOMAIN decoded
<1>1. k[1] \in Images /\ k[2] \in Decoded!Sizes
  BY DEF UsesInv, Decoded!Keys
<1>2. decoded[k].width \in 1..Wide[k[1]]
  BY <1>1, DecodesWidth DEF UsesInv
<1> QED
  BY <1>1, <1>2 DEF UsesInv, DecodedLimits

LEMMA ImageHit ==
    ASSUME DecodedLimits, DecodedInv, NEW i \in Images, NEW s \in Decoded!Sizes, Decoded!Hit(i, s)
    PROVE  DecodedInv'
<1>1. PICK k \in Decoded!Serving(i, s) :
        /\ decoded' = [decoded EXCEPT ![k].used = tick + 1]
        /\ image' = [image |-> i, size |-> s, width |-> decoded[k].width]
  BY DEF Decoded!Hit
<1>2. tick' = tick + 1 /\ decodedBytes' = decodedBytes /\ tick \in Nat
  BY DEF Decoded!Hit, DecodedInv, UsesInv
<1>3. k \in DOMAIN decoded /\ k[1] = i /\ (k[2] = s \/ Decoded!Satisfies(k[2], decoded[k].width, s))
  BY DEF Decoded!Serving, Decoded!Satisfies
<1>4. /\ DOMAIN decoded' = DOMAIN decoded
      /\ \A l \in DOMAIN decoded :
            /\ decoded'[l].width = decoded[l].width
            /\ decoded'[l].used = IF l = k THEN tick + 1 ELSE decoded[l].used
  BY <1>1, <1>3
<1>5. UsesInv'
  BY <1>2, <1>4 DEF DecodedInv, UsesInv
<1>6. decodedBytes' = Decoded!BytesOf(decoded', DOMAIN decoded')
  <2>1. Decoded!BytesOf(decoded, DOMAIN decoded) = Decoded!BytesOf(decoded', DOMAIN decoded)
    BY <1>4, BytesSame, EntryNumbers DEF DecodedInv, UsesInv
  <2> QED
    BY <1>2, <1>4, <2>1 DEF DecodedInv
<1>7. decoded[k].width \in Decoded!Decodes(i, s)
  <2>1. decoded[k].width \in Decoded!Decodes(i, k[2])
    BY <1>3 DEF DecodedInv, UsesInv
  <2>2. CASE k[2] = s
    BY <2>1, <2>2
  <2>3. CASE k[2] # s /\ k[2] = Decoded!Full
    BY <2>1, <2>3, DecodesWidth DEF Decoded!Decodes
  <2>4. CASE k[2] # s /\ k[2] # Decoded!Full
    BY <1>3, <2>1, <2>4 DEF Decoded!Decodes, Decoded!Satisfies
  <2> QED
    BY <2>2, <2>3, <2>4
<1>8. /\ image' \in [image : Images, size : Decoded!Sizes, width : Nat]
      /\ image'.width \in Decoded!Decodes(image'.image, image'.size)
  BY <1>1, <1>3, <1>7, EntryNumbers DEF DecodedInv
<1> QED
  BY <1>2, <1>4, <1>5, <1>6, <1>8 DEF DecodedInv

LEMMA ImageMiss ==
    ASSUME DecodedLimits, DecodedInv, NEW i \in Images, NEW s \in Decoded!Sizes, Decoded!Miss(i, s)
    PROVE  DecodedInv'
<1>1. <<i, s>> \notin DOMAIN decoded
  BY DEF Decoded!Miss, Decoded!Serving
<1> DEFINE k == <<i, s>>
<1>2. PICK w \in Decoded!Decodes(i, s) :
        /\ Decoded!Keep(Decoded!Inserted(k, w), decodedBytes + w)
        /\ image' = [image |-> i, size |-> s, width |-> w]
  BY DEF Decoded!Miss
<1>3. w \in Nat /\ tick' = tick + 2 /\ tick \in Nat
  BY DecodesWidth DEF Decoded!Miss, DecodedInv, UsesInv
<1>4. PICK e : e = Decoded!Inserted(k, w)
  OBVIOUS
<1>5. /\ DOMAIN e = DOMAIN decoded \union {k}
      /\ e[k].width = w /\ e[k].used = tick + 2
      /\ \A l \in DOMAIN decoded : e[l] = decoded[l] /\ l # k
  BY <1>1, <1>4 DEF Decoded!Inserted
<1>6. IsFiniteSet(DOMAIN e)
  BY <1>5, FS_AddElement DEF DecodedInv, UsesInv
<1>7. /\ \A l \in DOMAIN e : /\ e[l].width \in Nat /\ e[l].used \in Nat
                             /\ e[l].used \in 1..tick'
                             /\ e[l].width \in Decoded!Decodes(l[1], l[2])
      /\ DOMAIN e \subseteq Decoded!Keys
      /\ \A l, m \in DOMAIN e : e[l].used = e[m].used => l = m
  <2>1. \A l \in DOMAIN decoded : decoded[l].used \in 1..tick /\ decoded[l].width \in Decoded!Decodes(l[1], l[2])
    BY DEF DecodedInv, UsesInv
  <2>2. \A l \in DOMAIN decoded : decoded[l].width \in Nat /\ decoded[l].used \in Nat
    BY EntryNumbers DEF DecodedInv
  <2>3. k[1] = i /\ k[2] = s /\ k \in Decoded!Keys
    BY DEF Decoded!Keys
  <2> HIDE DEF k
  <2>4. ASSUME NEW l \in DOMAIN e
        PROVE  /\ e[l].width \in Nat /\ e[l].used \in Nat
               /\ e[l].used \in 1..tick'
               /\ e[l].width \in Decoded!Decodes(l[1], l[2])
    <3>1. CASE l = k
      BY <1>2, <1>3, <1>5, <2>3, <3>1
    <3>2. CASE l \in DOMAIN decoded
      BY <1>3, <1>5, <2>1, <2>2, <3>2
    <3> QED
      BY <1>5, <3>1, <3>2
  <2>5. \A l, m \in DOMAIN e : e[l].used = e[m].used => l = m
    BY <1>3, <1>5, <2>1 DEF DecodedInv, UsesInv
  <2> QED
    BY <1>5, <2>3, <2>4, <2>5 DEF DecodedInv, UsesInv
<1>8. decodedBytes + w = Decoded!BytesOf(e, DOMAIN e)
  <2>1. Decoded!BytesOf(e, DOMAIN e) = w + Decoded!BytesOf(e, DOMAIN e \ {k})
    BY <1>5, <1>6, <1>7, BytesAre
  <2>2. DOMAIN e \ {k} = DOMAIN decoded
    BY <1>1, <1>5
  <2>3. Decoded!BytesOf(decoded, DOMAIN decoded) = Decoded!BytesOf(e, DOMAIN decoded)
    BY <1>5, BytesSame, EntryNumbers DEF DecodedInv, UsesInv
  <2>4. decodedBytes \in Nat /\ decodedBytes = Decoded!BytesOf(decoded, DOMAIN decoded)
    BY BytesAre, EntryNumbers DEF DecodedInv, UsesInv
  <2> QED
    BY <1>3, <2>1, <2>2, <2>3, <2>4
<1>16. PICK account : account = decodedBytes + w
  OBVIOUS
<1> DEFINE gone == Decoded!Evicted(e, account)
           left == DOMAIN e \ gone
<1>9. /\ gone \subseteq DOMAIN e
      /\ Cardinality(left) <= MaxEntries
      /\ account - Decoded!BytesOf(e, gone) = Decoded!BytesOf(e, left)
      /\ Decoded!BytesOf(e, left) > MaxBytes => Cardinality(left) = 1
  BY <1>6, <1>7, <1>8, <1>16, EvictedLeaves
<1>10. /\ decoded' = [l \in left |-> e[l]]
       /\ decodedBytes' = account - Decoded!BytesOf(e, gone)
  BY <1>2, <1>4, <1>16 DEF Decoded!Keep
<1> HIDE DEF gone, k
<1>11. DOMAIN decoded' = left /\ left \subseteq DOMAIN e /\ \A l \in left : decoded'[l] = e[l]
  BY <1>10
<1>12. IsFiniteSet(left)
  BY <1>6, <1>11, FS_Subset
<1>13. UsesInv'
  BY <1>3, <1>7, <1>11, <1>12 DEF UsesInv
<1>14. Decoded!BytesOf(e, left) = Decoded!BytesOf(decoded', left)
  BY <1>7, <1>11, <1>12, BytesSame
<1>15. /\ image' \in [image : Images, size : Decoded!Sizes, width : Nat]
       /\ image'.width \in Decoded!Decodes(image'.image, image'.size)
  BY <1>2, <1>3
<1> HIDE DEF left
<1> QED
  BY <1>9, <1>10, <1>11, <1>13, <1>14, <1>15 DEF DecodedInv

LEMMA ImageStep ==
    ASSUME DecodedLimits, DecodedInv, [Decoded!Next]_(Decoded!vars)
    PROVE  DecodedInv'
<1>1. CASE UNCHANGED Decoded!vars
  BY <1>1 DEF Decoded!vars, DecodedInv, UsesInv, Decoded!BytesOf
<1>2. ASSUME NEW i \in Images, NEW s \in Decoded!Sizes, Decoded!Refused(i, s) PROVE DecodedInv'
  BY <1>2 DEF Decoded!Refused, DecodedInv, UsesInv, Decoded!BytesOf
<1>3. CASE Decoded!Clear
  <2>1. DOMAIN decoded' = {} /\ decodedBytes' = 0 /\ UNCHANGED <<tick, image>>
    BY <1>3 DEF Decoded!Clear
  <2>2. IsFiniteSet({}) /\ Cardinality({}) = 0
    BY FS_EmptySet
  <2>3. Decoded!BytesOf(decoded', DOMAIN decoded') = 0
    BY <2>1, <2>2, BytesAre
  <2> QED
    BY <2>1, <2>2, <2>3 DEF DecodedInv, UsesInv, DecodedLimits
<1> QED
  BY <1>1, <1>2, <1>3, ImageHit, ImageMiss DEF Decoded!Next

LEMMA DecodedInvMeans ==
    ASSUME DecodedLimits, DecodedInv
    PROVE  Decoded!TypeOK /\ Decoded!NeverCoarser /\ Decoded!BudgetKept
<1>1. \A k \in DOMAIN decoded : k[1] \in Images /\ k[2] \in Decoded!Sizes
  BY DEF DecodedInv, UsesInv, Decoded!Keys
<1>2. \A k \in DOMAIN decoded : decoded[k].width \in 1..Wide[k[1]]
  BY <1>1, DecodesWidth DEF DecodedInv, UsesInv
<1>3. decodedBytes \in Nat
  BY BytesAre, EntryNumbers DEF DecodedInv, UsesInv
<1> QED
  BY <1>2, <1>3, DecodedSums
     DEF DecodedInv, UsesInv, Decoded!TypeOK, Decoded!NeverCoarser, Decoded!BudgetKept

\* Every image drawn covers what was asked for, and the cache counts its
\* bytes exactly and keeps within both of its limits, for any images, any
\* widths a decoder may choose and any order of requests (get, insert, evict).
THEOREM ImagesCorrect ==
    ASSUME DecodedLimits
    PROVE  Decoded!Spec => [](Decoded!TypeOK /\ Decoded!NeverCoarser /\ Decoded!BudgetKept)
<1>1. Decoded!Init => DecodedInv
  BY InitImages
<1>2. DecodedInv /\ [Decoded!Next]_(Decoded!vars) => DecodedInv'
  BY ImageStep
<1>3. DecodedInv => Decoded!TypeOK /\ Decoded!NeverCoarser /\ Decoded!BudgetKept
  BY DecodedInvMeans
<1> QED
  BY <1>1, <1>2, <1>3, PTL DEF Decoded!Spec

----------------------------------------------------------------------------
(* The rendered images.                                                    *)

\* Widths and the budget are numbers.
RenderedLimits ==
    /\ Wide \in [Images -> Nat]
    /\ Covered \subseteq Nat /\ Shears \subseteq Nat /\ Budget \in Nat

\* Finitely many pixmaps, each as wide as some image, device or shear.
RenderedInv ==
    /\ Rendered!TypeOK
    /\ IsFiniteSet(DOMAIN rendered) /\ rendered \in [DOMAIN rendered -> Rendered!Widths]
    /\ Rendered!BudgetHeld

LEMMA RenderedWidths ==
    ASSUME RenderedLimits
    PROVE  /\ Rendered!Widths \subseteq Nat
           /\ \A i \in Images : Wide[i] \in Rendered!Widths
           /\ \A h \in Covered \union Shears : h \in Rendered!Widths
           /\ \A i \in Images, c \in Covered : Rendered!Reduced(i, c) \in Rendered!Widths
<1>1. Rendered!Widths \subseteq Nat
  BY DEF RenderedLimits, Rendered!Widths
<1>2. ASSUME NEW i \in Images, NEW c \in Covered PROVE Rendered!Reduced(i, c) \in Rendered!Widths
  <2>1. Wide[i] \in Nat /\ c \in Nat
    BY DEF RenderedLimits
  <2>2. \E u \in {Wide[i], c} : \A y \in {Wide[i], c} : u <= y
    BY <2>1
  <2>3. Rendered!Reduced(i, c) \in {Wide[i], c}
    BY <2>2 DEF Rendered!Reduced, Rendered!Min
  <2> QED
    BY <2>3 DEF Rendered!Widths
<1> QED
  BY <1>1, <1>2 DEF Rendered!Widths

LEMMA RequestStep ==
    ASSUME RenderedLimits, RenderedInv, NEW k \in Images \X Rendered!Widths, NEW made \in Rendered!Widths, Rendered!Request(k, made)
    PROVE  /\ DOMAIN rendered' \subseteq Images \X Rendered!Widths
           /\ IsFiniteSet(DOMAIN rendered') /\ rendered' \in [DOMAIN rendered' -> Rendered!Widths]
           /\ renderedBytes' \in Nat /\ Rendered!BudgetHeld'
<1>0. made \in Nat /\ Rendered!Widths \subseteq Nat
  BY RenderedWidths
<1>1. CASE UNCHANGED <<rendered, renderedBytes>>
  BY <1>1 DEF RenderedInv, Rendered!TypeOK, Rendered!BudgetHeld
<1>2. CASE Rendered!Kept(k, made)
  <2>1. /\ rendered' = [u \in DOMAIN rendered \union {k} |-> IF u = k THEN made ELSE rendered[u]]
        /\ renderedBytes' = renderedBytes + made
        /\ k \notin DOMAIN rendered
        /\ renderedBytes + made <= Budget \/ DOMAIN rendered = {}
    BY <1>2 DEF Rendered!Request, Rendered!Kept
  <2> DEFINE D == DOMAIN rendered
  <2>2. PICK es : es = rendered'
    OBVIOUS
  <2>3. DOMAIN es = D \union {k} /\ es[k] = made /\ \A u \in D : es[u] = rendered[u]
    BY <2>1, <2>2
  <2>4. IsFiniteSet(D) /\ IsFiniteSet(DOMAIN es) /\ \A u \in D : rendered[u] \in Rendered!Widths
    BY <2>3, FS_AddElement DEF RenderedInv
  <2>5. \A u \in DOMAIN es : es[u] \in Rendered!Widths /\ es[u] \in Int
    BY <1>0, <2>3, <2>4
  <2>6. SumFunctionOnSet(es, DOMAIN es) = made + SumFunctionOnSet(es, D)
    <3>1. (D \union {k}) \ {k} = D
      BY <2>1
    <3>0. PICK S : S = DOMAIN es
      OBVIOUS
    <3>2. SumFunctionOnSet(es, S) = es[k] + SumFunctionOnSet(es, S \ {k})
      <4>1. IsFiniteSet(S) /\ (\A u \in S : es[u] \in Int) /\ k \in S /\ S \in SUBSET S
        BY <2>3, <2>4, <2>5, <3>0
      <4> QED
        BY <4>1, SumTake
    <3>3. SumFunctionOnSet(es, DOMAIN es) = SumFunctionOnSet(es, S)
      BY <3>0
    <3>4. S \ {k} = D
      BY <2>3, <3>0, <3>1
    <3> QED
      BY <2>3, <3>2, <3>3, <3>4
  <2>7. SumFunctionOnSet(es, D) = SumFunctionOnSet(rendered, DOMAIN rendered)
    <3>1. \A u \in D : rendered[u] \in Int /\ es[u] = rendered[u]
      <4> TAKE u \in D
      <4>1. rendered[u] \in Rendered!Widths /\ es[u] = rendered[u]
        BY <2>3, <2>4
      <4>2. rendered[u] \in Nat
        BY <1>0, <4>1, Zenon
      <4> QED
        BY <4>1, <4>2
    <3> QED
      BY <2>4, <3>1, SumSame
  <2>8. renderedBytes' = SumFunctionOnSet(rendered', DOMAIN rendered')
    BY <1>0, <2>1, <2>2, <2>6, <2>7, RenderedSums
       DEF RenderedInv, Rendered!BudgetHeld, Rendered!TypeOK
  <2>9. renderedBytes' > Budget => Cardinality(DOMAIN rendered') = 1
    <3>1. ASSUME renderedBytes' > Budget PROVE Cardinality(DOMAIN rendered') = 1
      <4>1. DOMAIN rendered = {}
        BY <1>0, <2>1, <3>1 DEF RenderedInv, Rendered!TypeOK, RenderedLimits
      <4>2. DOMAIN rendered' = {k}
        BY <2>1, <4>1
      <4> QED
        BY <4>2, FS_Singleton
    <3> QED
      BY <3>1
  <2>10. rendered' \in [DOMAIN rendered' -> Rendered!Widths]
    BY <2>1, <2>2, <2>3, <2>5
  <2> QED
    BY <1>0, <2>1, <2>2, <2>3, <2>4, <2>8, <2>9, <2>10, RenderedSums
       DEF Rendered!BudgetHeld, RenderedInv, Rendered!TypeOK
<1> QED
  BY <1>1, <1>2 DEF Rendered!Request

LEMMA RenderedStep ==
    ASSUME RenderedLimits, RenderedInv, [Rendered!Next]_(Rendered!vars)
    PROVE  RenderedInv'
<1>1. CASE UNCHANGED Rendered!vars
  BY <1>1 DEF Rendered!vars, RenderedInv, Rendered!TypeOK, Rendered!BudgetHeld
<1>2. ASSUME NEW i \in Images, NEW c \in Covered, Rendered!DrawUpright(i, c) PROVE RenderedInv'
  <2> DEFINE k == <<i, Rendered!Reduced(i, c)>>
  <2>1. /\ Rendered!Reduced(i, c) \in Rendered!Widths /\ k \in Images \X Rendered!Widths
    BY RenderedWidths
  <2>2. /\ Rendered!Request(k, Rendered!Reduced(i, c))
        /\ upright' = [placed |-> Rendered!Reduced(i, c), pixels |-> Rendered!Answered(k, Rendered!Reduced(i, c))]
    BY <1>2 DEF Rendered!DrawUpright
  <2>3. Rendered!Answered(k, Rendered!Reduced(i, c)) \in Rendered!Widths
    BY <2>1 DEF Rendered!Answered, RenderedInv
  <2> HIDE DEF k
  <2> QED
    BY <2>1, <2>2, <2>3, RequestStep DEF RenderedInv, Rendered!TypeOK
<1>3. ASSUME NEW i \in Images, NEW h \in Shears, Rendered!DrawSheared(i, h) PROVE RenderedInv'
  <2>1. Wide[i] \in Rendered!Widths /\ h \in Rendered!Widths /\ <<i, h>> \in Images \X Rendered!Widths
    BY RenderedWidths
  <2>2. Rendered!Request(<<i, h>>, Wide[i]) /\ upright' = upright
    BY <1>3 DEF Rendered!DrawSheared
  <2> QED
    BY <2>1, <2>2, RequestStep DEF RenderedInv, Rendered!TypeOK
<1> QED
  BY <1>1, <1>2, <1>3 DEF Rendered!Next

\* The cache of rendered images counts its bytes exactly, and only one that
\* is alone is larger than the budget (get_or_render).
THEOREM RenderedCorrect ==
    ASSUME RenderedLimits
    PROVE  Rendered!Spec => [](Rendered!TypeOK /\ Rendered!BudgetHeld)
<1>1. Rendered!Init => RenderedInv
  <2> SUFFICES ASSUME Rendered!Init PROVE RenderedInv
    OBVIOUS
  <2>1. rendered = <<>> /\ DOMAIN rendered = {} /\ renderedBytes = 0 /\ upright = [placed |-> 0, pixels |-> 0]
    BY DEF Rendered!Init
  <2>2. IsFiniteSet({}) /\ Cardinality({}) = 0
    BY FS_EmptySet
  <2>3. SumFunctionOnSet(rendered, DOMAIN rendered) = 0
    BY <2>1, <2>2, SumTake
  <2> QED
    BY <2>1, <2>2, <2>3, RenderedSums
       DEF RenderedInv, Rendered!TypeOK, Rendered!BudgetHeld, RenderedLimits
<1>2. RenderedInv /\ [Rendered!Next]_(Rendered!vars) => RenderedInv'
  BY RenderedStep
<1>3. RenderedInv => Rendered!TypeOK /\ Rendered!BudgetHeld
  BY DEF RenderedInv
<1> QED
  BY <1>1, <1>2, <1>3, PTL DEF Rendered!Spec

----------------------------------------------------------------------------
(* The timers.                                                             *)

\* What a script may ask for and a host may say has passed.
TimerLimits == Intervals \subseteq Nat /\ Steps \subseteq Nat /\ MaxTimers \in Nat

LEMMA MarkedKeeps ==
    ASSUME Timers!TypeOK, NEW t, NEW processing \in BOOLEAN
    PROVE  /\ DOMAIN Timers!Marked(t, processing) = DOMAIN armed
           /\ \A u \in DOMAIN armed : Timers!Marked(t, processing)[u] \in Timers!Timer
           /\ \A u \in DOMAIN armed : Timers!Marked(t, processing)[u].due = armed[u].due
           /\ \A u \in DOMAIN armed : u # t => Timers!Marked(t, processing)[u] = armed[u]
           /\ t \in DOMAIN armed => Timers!Marked(t, processing)[t].processing = processing
BY DEF Timers!TypeOK, Timers!Marked, Timers!Timer

LEMMA IntervalPositive ==
    ASSUME TimerLimits, NEW delay \in Intervals
    PROVE  Timers!Interval(delay) \in Nat \ {0}
BY DEF TimerLimits, Timers!Interval

\* What advance does to the armed timers, one by one.
LEMMA AdvanceArmed ==
    ASSUME TimerLimits, Timers!TypeOK, NEW millis \in Steps, Timers!Advance(millis)
    PROVE  /\ elapsed' = elapsed + millis /\ elapsed' \in Nat
           /\ DOMAIN armed' \subseteq DOMAIN armed
           /\ \A t \in DOMAIN armed' :
                 /\ armed'[t] \in Timers!Timer
                 /\ armed'[t].processing = armed[t].processing
                 /\ armed[t].processing \/ armed'[t].due > elapsed'
<1> DEFINE later == elapsed + millis
           due == {t \in DOMAIN armed : armed[t].due <= later /\ ~armed[t].processing}
<1>1. elapsed' = later /\ later \in Nat
  BY DEF TimerLimits, Timers!TypeOK, Timers!Advance
<1>2. armed' = [t \in DOMAIN armed \ {t \in due : ~armed[t].repeats} |->
                   IF t \in due THEN [armed[t] EXCEPT !.due = Timers!NextDue(armed[t], later)] ELSE armed[t]]
  BY DEF Timers!Advance
<1>3. DOMAIN armed' \subseteq DOMAIN armed
  BY <1>2
<1>4. ASSUME NEW t \in DOMAIN armed'
      PROVE  /\ armed'[t] \in Timers!Timer
             /\ armed'[t].processing = armed[t].processing
             /\ armed[t].processing \/ armed'[t].due > later
  <2>1. armed[t] \in Timers!Timer
    BY <1>3 DEF Timers!TypeOK
  <2>2. CASE t \in due
    <3>1. armed'[t] = [armed[t] EXCEPT !.due = later + armed[t].interval]
      BY <1>2, <2>2 DEF Timers!NextDue
    <3> QED
      BY <1>1, <2>1, <3>1 DEF Timers!Timer
  <2>3. CASE t \notin due
    <3>1. armed'[t] = armed[t]
      BY <1>2, <2>3
    <3> QED
      BY <1>1, <1>3, <2>1, <2>3, <3>1 DEF Timers!Timer
  <2> QED
    BY <2>2, <2>3
<1> QED
  BY <1>1, <1>3, <1>4

\* What advance takes to run.
LEMMA AdvanceReady ==
    ASSUME Timers!TypeOK, NEW millis \in Steps, Timers!Advance(millis)
    PROVE  /\ DOMAIN ready' \subseteq DOMAIN armed
           /\ \A t \in DOMAIN ready' : ready'[t] \in Nat
           /\ silenced' = 1..lastId \ DOMAIN armed
           /\ running = 0 /\ UNCHANGED <<lastId, failNext, running>>
<1> DEFINE later == elapsed + millis
           due == {t \in DOMAIN armed : armed[t].due <= later /\ ~armed[t].processing}
<1>1. ready' = [t \in {t \in due : armed[t].runs} |-> armed[t].due]
  BY DEF Timers!Advance
<1>2. \A t \in DOMAIN armed : armed[t].due \in Nat
  BY DEF Timers!TypeOK, Timers!Timer
<1> QED
  BY <1>1, <1>2 DEF Timers!Advance

LEMMA InitTimers ==
    ASSUME TimerLimits, Timers!Init
    PROVE  Timers!TypeOK /\ Timers!FiresOnceWhenDue
<1>1. DOMAIN armed = {} /\ DOMAIN ready = {}
  BY DEF Timers!Init, Timers!NoTimers
<1>2. elapsed = 0 /\ lastId = 0 /\ failNext = FALSE /\ running = 0 /\ silenced = {}
  BY DEF Timers!Init
<1>3. 0 \in 0..MaxTimers /\ 0 \in 0..0
  BY DEF TimerLimits
<1> QED
  BY <1>1, <1>2, <1>3 DEF Timers!TypeOK, Timers!FiresOnceWhenDue

LEMMA TimersTypeStep ==
    ASSUME TimerLimits, Timers!TypeOK, [Timers!Next]_(Timers!vars)
    PROVE  Timers!TypeOK'
<1>1. CASE UNCHANGED Timers!vars
  BY <1>1 DEF Timers!TypeOK, Timers!vars
<1>2. ASSUME NEW repeats \in BOOLEAN, NEW delay \in Intervals, Timers!Set(repeats, delay)
      PROVE  Timers!TypeOK'
  <2>1. CASE failNext
    BY <1>2, <2>1 DEF Timers!TypeOK, Timers!Set
  <2>2. CASE ~failNext
    <3> DEFINE timer == [repeats |-> repeats, interval |-> Timers!Interval(delay),
                         runs |-> repeats \/ delay > 0,
                         due |-> elapsed + Timers!Interval(delay), processing |-> FALSE]
    <3>1. timer \in Timers!Timer
      <4>1. (repeats \/ delay > 0) \in BOOLEAN
        OBVIOUS
      <4>2. elapsed + Timers!Interval(delay) \in Nat
        BY IntervalPositive DEF Timers!TypeOK
      <4> QED
        BY <4>1, <4>2, IntervalPositive DEF Timers!Timer
    <3>2. /\ lastId' = lastId + 1 /\ lastId' \in 0..MaxTimers
          /\ armed' = [t \in DOMAIN armed \union {lastId'} |->
                          IF t = lastId' THEN timer ELSE armed[t]]
      BY <1>2, <2>2 DEF TimerLimits, Timers!TypeOK, Timers!Set
    <3> HIDE DEF timer
    <3>3. \A t \in DOMAIN armed' : t \in 1..lastId' /\ armed'[t] \in Timers!Timer
      BY <3>1, <3>2 DEF TimerLimits, Timers!TypeOK
    <3>4. 1..lastId \subseteq 1..lastId' /\ 0..lastId \subseteq 0..lastId'
      BY <3>2 DEF TimerLimits, Timers!TypeOK
    <3>5. UNCHANGED <<elapsed, ready, running, silenced>> /\ failNext' = FALSE
      BY <1>2 DEF Timers!Set
    <3> QED
      BY <3>2, <3>3, <3>4, <3>5 DEF Timers!TypeOK
  <2> QED
    BY <2>1, <2>2
<1>3. ASSUME NEW t \in Timers!Ids, Timers!Cancel(t) PROVE Timers!TypeOK'
  BY <1>3 DEF Timers!TypeOK, Timers!Cancel, Timers!Restrict
<1>4. ASSUME NEW t \in Timers!Ids, Timers!Begin(t) PROVE Timers!TypeOK'
  <2>1. t \in 0..lastId
    BY <1>4 DEF TimerLimits, Timers!TypeOK, Timers!Begin
  <2> QED
    BY <1>4, <2>1, MarkedKeeps DEF Timers!TypeOK, Timers!Begin, Timers!Restrict
<1>5. ASSUME NEW millis \in Steps, Timers!Advance(millis) PROVE Timers!TypeOK'
  BY <1>5, AdvanceArmed, AdvanceReady DEF Timers!TypeOK
<1>6. CASE Timers!FailNext
  BY <1>6 DEF Timers!TypeOK, Timers!FailNext
<1>7. CASE Timers!End
  <2>1. 0 \in 0..lastId
    BY DEF TimerLimits, Timers!TypeOK
  <2> QED
    BY <1>7, <2>1, MarkedKeeps DEF Timers!TypeOK, Timers!End
<1> QED
  BY <1>1, <1>2, <1>3, <1>4, <1>5, <1>6, <1>7 DEF Timers!Next

LEMMA FiresStep ==
    ASSUME TimerLimits, Timers!TypeOK, Timers!FiresOnceWhenDue, [Timers!Next]_(Timers!vars)
    PROVE  Timers!FiresOnceWhenDue'
<1>1. CASE UNCHANGED Timers!vars
  BY <1>1 DEF Timers!FiresOnceWhenDue, Timers!vars
<1>2. ASSUME NEW repeats \in BOOLEAN, NEW delay \in Intervals, Timers!Set(repeats, delay)
      PROVE  Timers!FiresOnceWhenDue'
  <2>1. CASE failNext
    BY <1>2, <2>1 DEF Timers!FiresOnceWhenDue, Timers!Set
  <2>2. CASE ~failNext
    <3>1. elapsed + Timers!Interval(delay) > elapsed
      BY IntervalPositive DEF Timers!TypeOK
    <3>2. \A t \in DOMAIN armed' :
             IF t = lastId'
             THEN armed'[t].due = elapsed + Timers!Interval(delay) /\ ~armed'[t].processing
             ELSE t \in DOMAIN armed /\ armed'[t] = armed[t]
      BY <1>2, <2>2 DEF Timers!Set
    <3>3. UNCHANGED <<elapsed, ready, running, silenced>>
      BY <1>2 DEF Timers!Set
    <3> QED
      BY <3>1, <3>2, <3>3 DEF Timers!FiresOnceWhenDue
  <2> QED
    BY <2>1, <2>2
<1>3. ASSUME NEW t \in Timers!Ids, Timers!Cancel(t) PROVE Timers!FiresOnceWhenDue'
  BY <1>3 DEF Timers!FiresOnceWhenDue, Timers!Cancel, Timers!Restrict
<1>4. ASSUME NEW t \in Timers!Ids, Timers!Begin(t) PROVE Timers!FiresOnceWhenDue'
  <2>1. \A u \in DOMAIN armed : ~armed[u].processing
    \* No script runs, so none is marked: an id is not zero.
    BY <1>4 DEF Timers!TypeOK, Timers!FiresOnceWhenDue, Timers!Begin
  <2> DEFINE later == Timers!Marked(t, TRUE)
  <2>4. /\ DOMAIN later = DOMAIN armed
        /\ \A u \in DOMAIN armed : later[u].due = armed[u].due /\ (u # t => later[u] = armed[u])
    BY MarkedKeeps
  <2> HIDE DEF later
  <2>5. armed' = later /\ running' = t /\ elapsed' = elapsed
    BY <1>4 DEF Timers!Begin, later
  <2>2. \A u \in DOMAIN armed' : armed'[u].due > elapsed' /\ (armed'[u].processing => u = running')
    BY <2>1, <2>4, <2>5 DEF Timers!FiresOnceWhenDue
  <2>3. DOMAIN ready' = DOMAIN ready \ {t} /\ running' = t /\ silenced' = silenced /\ t \in DOMAIN ready
    BY <1>4 DEF Timers!Begin, Timers!Restrict
  <2> QED
    BY <2>2, <2>3 DEF Timers!FiresOnceWhenDue
<1>5. ASSUME NEW millis \in Steps, Timers!Advance(millis) PROVE Timers!FiresOnceWhenDue'
  <2>1. \A u \in DOMAIN armed : ~armed[u].processing
    BY <1>5, AdvanceReady DEF Timers!TypeOK, Timers!FiresOnceWhenDue
  <2>2. \A u \in DOMAIN armed' : armed'[u].due > elapsed' /\ ~armed'[u].processing
    BY <1>5, <2>1, AdvanceArmed
  <2>3. running' \notin silenced' \union DOMAIN ready'
    BY <1>5, AdvanceReady DEF Timers!TypeOK
  <2> QED
    BY <1>5, <2>2, <2>3, AdvanceReady DEF Timers!FiresOnceWhenDue
<1>6. CASE Timers!FailNext
  BY <1>6 DEF Timers!FiresOnceWhenDue, Timers!FailNext
<1>7. CASE Timers!End
  <2> DEFINE later == Timers!Marked(running, FALSE)
  <2>3. /\ DOMAIN later = DOMAIN armed
        /\ \A u \in DOMAIN armed : later[u].due = armed[u].due /\ (u # running => later[u] = armed[u])
        /\ running \in DOMAIN armed => later[running].processing = FALSE
    BY MarkedKeeps
  <2> HIDE DEF later
  <2>4. armed' = later /\ elapsed' = elapsed
    BY <1>7 DEF Timers!End, later
  <2>1. \A u \in DOMAIN armed' : armed'[u].due > elapsed' /\ ~armed'[u].processing
    BY <2>3, <2>4 DEF Timers!FiresOnceWhenDue
  <2>2. 0 \notin silenced \union DOMAIN ready
    BY DEF Timers!TypeOK
  <2> QED
    BY <1>7, <2>1, <2>2 DEF Timers!FiresOnceWhenDue, Timers!End
<1> QED
  BY <1>1, <1>2, <1>3, <1>4, <1>5, <1>6, <1>7 DEF Timers!Next

\* The timers keep their shape: ids are handed out in order, an interval is
\* never zero (Timers, timer.rs).
THEOREM TimerTypeCorrect ==
    ASSUME TimerLimits
    PROVE  Timers!Spec => []Timers!TypeOK
<1>1. Timers!Init => Timers!TypeOK
  BY InitTimers
<1>2. Timers!TypeOK /\ [Timers!Next]_(Timers!vars) => Timers!TypeOK'
  BY TimersTypeStep
<1> QED
  BY <1>1, <1>2, PTL DEF Timers!Spec

\* Whatever scripts arm and cancel while they run and however far a call
\* moves the clock, nothing armed is overdue and nothing silenced before the
\* call runs in it (advance_time).
THEOREM FiresCorrect ==
    ASSUME TimerLimits
    PROVE  Timers!Spec => []Timers!FiresOnceWhenDue
<1>1. Timers!Init => Timers!TypeOK /\ Timers!FiresOnceWhenDue
  BY InitTimers
<1>2. Timers!TypeOK /\ Timers!FiresOnceWhenDue /\ [Timers!Next]_(Timers!vars) => Timers!TypeOK' /\ Timers!FiresOnceWhenDue'
  BY TimersTypeStep, FiresStep
<1> QED
  BY <1>1, <1>2, PTL DEF Timers!Spec
----------------------------------------------------------------------------
(* A form session over a form of one page, of any fields and any values.  *)
(* Each routing operator is shown to keep what is good about a session,    *)
(* whatever it is given; each action then is one of them.                  *)

\* A form of one page: two pages would share the states of their fields.
OnePageForms ==
    /\ Empty \in Values
    /\ \A f \in Forms :
          /\ \E p : DOMAIN f = {p}
          /\ \A p \in DOMAIN f :
                /\ DOMAIN f[p] \subseteq Nat
                /\ \A i \in DOMAIN f[p] : f[p][i].kind \in Kinds /\ f[p][i].stored \in Values

\* No focus is not a focus.
NoneAssumption == \A p, i : None # [page |-> p, field |-> i]

Writes == [index : Indices, value : Values]

----------------------------------------------------------------------------
(* What is good about a session.                                           *)

\* A session is a record of five parts.
IsSession(s) ==
    s = [fields |-> s.fields, focus |-> s.focus, dirty |-> s.dirty,
         formatted |-> s.formatted, passed |-> s.passed]

\* What has state is a field of the page, of that field's kind.
Kept(s, p) ==
    /\ IsSession(s)
    /\ s.fields = [i \in DOMAIN s.fields |-> s.fields[i]]
    /\ DOMAIN s.fields \subseteq Ids(p)
    /\ \A i \in DOMAIN s.fields : s.fields[i] \in State /\ s.fields[i].kind = form[p][i].kind

\* The gates let the text through, a calculation wrote it, or it is the file's.
LetThrough(s, p, i) ==
    s.fields[i].text # Stored(p, i) => i \in DOMAIN s.passed /\ s.passed[i] = s.fields[i].text

TextField(s, i) == i \in DOMAIN s.fields /\ s.fields[i].kind = "text"

Unfocused(s, i) == s.focus = None \/ s.focus.field # i

Good(s, p) ==
    /\ Kept(s, p)
    /\ s.focus # None => s.focus = [page |-> p, field |-> s.focus.field]
    /\ \A i : TextField(s, i) =>
          /\ s.fields[i].text # Stored(p, i) => i \in s.dirty
          /\ Unfocused(s, i) => ~s.fields[i].undo /\ LetThrough(s, p, i)

----------------------------------------------------------------------------
(* One field.                                                              *)

Marked(s, g, D) == [s EXCEPT !.fields = g, !.dirty = D]

LEMMA MarkedIs ==
    ASSUME NEW s, IsSession(s), NEW g, NEW D
    PROVE  LET t == Marked(s, g, D) IN
           /\ IsSession(t) /\ t.fields = g /\ t.dirty = D
           /\ t.focus = s.focus /\ t.passed = s.passed
<1> DEFINE r == [s EXCEPT !.fields = g]
           t == Marked(s, g, D)
<1>1. /\ IsSession(r) /\ r.fields = g /\ r.focus = s.focus
      /\ r.passed = s.passed
  BY DEF IsSession
<1>2. t = [r EXCEPT !.dirty = D]
  BY DEF Marked
<1> HIDE DEF r, t
<1>3. /\ IsSession(t) /\ t.fields = g /\ t.dirty = D
      /\ t.focus = s.focus /\ t.passed = s.passed
  BY <1>1, <1>2 DEF IsSession
<1> QED
  BY <1>3 DEF t

\* A field takes another state of its kind.
LEMMA FieldChanged ==
    ASSUME NEW p, NEW s, Good(s, p), NEW i \in DOMAIN s.fields,
           NEW w \in State, w.kind = s.fields[i].kind,
           NEW t, IsSession(t), t.fields = [s.fields EXCEPT ![i] = w],
           t.focus = s.focus, t.passed = s.passed, s.dirty \subseteq t.dirty,
           w.kind = "text" => i \in t.dirty /\ ~Unfocused(s, i)
    PROVE  Good(t, p)
<1>1. DOMAIN t.fields = DOMAIN s.fields /\ t.fields[i] = w
  BY DEF Good, Kept
<1>2. t.fields = [j \in DOMAIN t.fields |-> t.fields[j]]
  BY DEF Good, Kept
<1>3. \A j \in DOMAIN s.fields : j # i => t.fields[j] = s.fields[j]
  BY DEF Good, Kept
<1>4. Kept(t, p)
  BY <1>1, <1>2, <1>3 DEF Good, Kept
<1>5. ASSUME NEW j, TextField(t, j)
      PROVE  /\ t.fields[j].text # Stored(p, j) => j \in t.dirty
             /\ Unfocused(t, j) => ~t.fields[j].undo /\ LetThrough(t, p, j)
  <2>1. CASE j = i
    BY <1>1, <1>5, <2>1 DEF TextField, Unfocused
  <2>2. CASE j # i
    <3>1. TextField(s, j) /\ t.fields[j] = s.fields[j]
      BY <1>1, <1>3, <1>5, <2>2 DEF TextField
    <3> QED
      BY <3>1 DEF Good, Unfocused, LetThrough
  <2> QED
    BY <2>1, <2>2
<1> QED
  BY <1>4, <1>5 DEF Good

LEMMA SetFieldTextIs ==
    ASSUME NEW p, NEW s, Kept(s, p), NEW i, NEW v \in Values
    PROVE  LET t == SetFieldText(s, i, v) IN
           /\ Kept(t, p)
           /\ t.focus = s.focus /\ t.dirty = s.dirty /\ t.passed = s.passed
           /\ DOMAIN t.fields = DOMAIN s.fields
           /\ \A j \in DOMAIN s.fields : j # i => t.fields[j] = s.fields[j]
           /\ TextField(s, i) => t.fields[i].text = v /\ ~t.fields[i].undo
<1> DEFINE t == SetFieldText(s, i, v)
<1>1. CASE ~HasText(s, i)
  BY <1>1 DEF SetFieldText, HasText, TextField
<1>2. CASE HasText(s, i)
  <2> DEFINE g == [s.fields EXCEPT ![i].text = v, ![i].undo = FALSE]
  <2>1. t = [s EXCEPT !.fields = g]
    BY <1>2 DEF SetFieldText, HasText, Kept, IsSession
  <2>2. IsSession(t) /\ t.fields = g /\ t.focus = s.focus /\ t.dirty = s.dirty /\ t.passed = s.passed
    BY <2>1 DEF Kept, IsSession
  <2>3. DOMAIN g = DOMAIN s.fields /\ g = [j \in DOMAIN g |-> g[j]]
    BY DEF Kept
  <2>4. \A j \in DOMAIN s.fields : j # i => g[j] = s.fields[j]
    BY DEF Kept
  <2>5. i \in DOMAIN s.fields /\ s.fields[i] \in State
    BY <1>2 DEF HasText, Kept
  <2>6. g[i] \in State /\ g[i].kind = s.fields[i].kind /\ g[i].text = v /\ ~g[i].undo
    BY <2>5 DEF State, Kept
  <2> HIDE DEF g, t
  <2>7. Kept(t, p)
    BY <2>2, <2>3, <2>4, <2>5, <2>6 DEF Kept
  <2> QED
    BY <2>2, <2>3, <2>4, <2>6, <2>7 DEF t
<1> QED
  BY <1>1, <1>2

\* What is shown of a value says nothing of the value.
LEMMA FormattedGood ==
    ASSUME NEW p, NEW s, Good(s, p), NEW m
    PROVE  LET t == [s EXCEPT !.formatted = m] IN
           /\ Good(t, p)
           /\ t.fields = s.fields /\ t.focus = s.focus /\ t.dirty = s.dirty /\ t.passed = s.passed
<1> DEFINE t == [s EXCEPT !.formatted = m]
<1>1. /\ IsSession(t)
      /\ t.fields = s.fields /\ t.focus = s.focus /\ t.dirty = s.dirty /\ t.passed = s.passed
  BY DEF Good, Kept, IsSession
<1> HIDE DEF t
<1>2. Good(t, p)
  BY <1>1 DEF Good, Kept, TextField, Unfocused, LetThrough
<1> QED
  BY <1>1, <1>2 DEF t

LEMMA RecordDisplayGood ==
    ASSUME NEW p, NEW s, Good(s, p), NEW i, NEW v
    PROVE  LET t == RecordDisplay(s, p, i, v) IN
           /\ Good(t, p)
           /\ t.fields = s.fields /\ t.focus = s.focus /\ t.dirty = s.dirty /\ t.passed = s.passed
<1> DEFINE m == IF i \in Ids(p) /\ form[p][i].format
                THEN With(s.formatted, i, v) ELSE Without(s.formatted, i)
<1>1. RecordDisplay(s, p, i, v) = [s EXCEPT !.formatted = m]
  BY DEF RecordDisplay
<1> HIDE DEF m
<1> DEFINE t == [s EXCEPT !.formatted = m]
<1>2. /\ Good(t, p)
      /\ t.fields = s.fields /\ t.focus = s.focus /\ t.dirty = s.dirty /\ t.passed = s.passed
  BY FormattedGood
<1> HIDE DEF t
<1> QED
  BY <1>1, <1>2 DEF t

LEMMA EnsureStateGood ==
    ASSUME OnePageForms, form \in Forms, NEW p \in Pages,
           NEW s, Good(s, p), NEW i \in Ids(p)
    PROVE  LET t == EnsureState(s, p, i) IN
           Good(t, p) /\ t.focus = s.focus /\ i \in DOMAIN t.fields
<1> DEFINE t == EnsureState(s, p, i)
           w == NewState(form[p][i])
<1>1. CASE i \in DOMAIN s.fields
  BY <1>1 DEF EnsureState
<1>2. CASE i \notin DOMAIN s.fields
  <2> DEFINE g == With(s.fields, i, w)
  <2>1. w \in State /\ w.kind = form[p][i].kind /\ ~w.undo
    BY DEF OnePageForms, NewState, State, Pages, Ids
  <2>2. w.kind = "text" => w.text = Stored(p, i)
    BY DEF NewState, Stored
  <2> HIDE DEF w
  <2>3. /\ DOMAIN g = DOMAIN s.fields \union {i} /\ g = [j \in DOMAIN g |-> g[j]]
        /\ g[i] = w /\ \A j \in DOMAIN s.fields : g[j] = s.fields[j]
    BY <1>2 DEF With
  <2>4. t = [s EXCEPT !.fields = g]
    BY <1>2 DEF EnsureState, w
  <2>5. /\ IsSession(t) /\ t.fields = g /\ t.focus = s.focus /\ t.dirty = s.dirty
        /\ t.passed = s.passed
    BY <2>4 DEF Good, Kept, IsSession
  <2> HIDE DEF g, t
  <2>6. Kept(t, p)
    BY <2>1, <2>3, <2>5 DEF Good, Kept
  <2>7. ASSUME NEW j, TextField(t, j)
        PROVE  /\ t.fields[j].text # Stored(p, j) => j \in t.dirty
               /\ Unfocused(t, j) => ~t.fields[j].undo /\ LetThrough(t, p, j)
    <3>1. CASE j = i
      BY <2>1, <2>2, <2>3, <2>5, <2>7, <3>1 DEF TextField, LetThrough
    <3>2. CASE j # i
      <4>1. TextField(s, j) /\ t.fields[j] = s.fields[j]
        BY <2>3, <2>5, <2>7, <3>2 DEF TextField
      <4> QED
        BY <2>5, <4>1 DEF Good, Unfocused, LetThrough
    <3> QED
      BY <3>1, <3>2
  <2>8. Good(t, p)
    BY <2>5, <2>6, <2>7 DEF Good
  <2> QED
    BY <2>3, <2>5, <2>8 DEF t
<1> QED
  BY <1>1, <1>2

----------------------------------------------------------------------------
(* The commit.                                                             *)

\* A calculation writes a field: what was let through stays so.
LEMMA CalculatedGood ==
    ASSUME NEW p, NEW s, Good(s, p), NEW write \in Writes
    PROVE  LET t == Calculated(s, p, write) IN
           /\ Good(t, p) /\ t.focus = s.focus
           /\ \A j : TextField(t, j) => TextField(s, j) /\ (LetThrough(s, p, j) => LetThrough(t, p, j))
<1> DEFINE own == FieldOfIndex(p, write.index)
           i   == IF own = None THEN write.index ELSE own
           u   == SetFieldText(s, i, write.value)
           t   == [u EXCEPT !.dirty = u.dirty \union {i}, !.passed = With(u.passed, i, write.value)]
           d   == RecordDisplay(t, p, i, write.value)
<1>1. d = Calculated(s, p, write)
  BY DEF Calculated
<1> HIDE DEF own, i
<1>2. write.value \in Values
  BY DEF Writes
<1>3. /\ Kept(u, p)
      /\ u.focus = s.focus /\ u.dirty = s.dirty /\ u.passed = s.passed
      /\ DOMAIN u.fields = DOMAIN s.fields
      /\ \A j \in DOMAIN s.fields : j # i => u.fields[j] = s.fields[j]
      /\ TextField(s, i) => u.fields[i].text = write.value /\ ~u.fields[i].undo
  BY <1>2, SetFieldTextIs DEF Good
<1> HIDE DEF u
<1>4. /\ IsSession(t) /\ t.fields = u.fields /\ t.focus = s.focus
      /\ t.dirty = s.dirty \union {i} /\ t.passed = With(s.passed, i, write.value)
  <2> DEFINE D == u.dirty \union {i}
             P == With(u.passed, i, write.value)
             r == [u EXCEPT !.dirty = D]
  <2>1. t = [r EXCEPT !.passed = P]
    OBVIOUS
  <2>2. D = s.dirty \union {i} /\ P = With(s.passed, i, write.value)
    BY <1>3
  <2> HIDE DEF D, P
  <2>3. /\ IsSession(r) /\ r.fields = u.fields /\ r.focus = u.focus
        /\ r.dirty = D /\ r.passed = u.passed
    BY <1>3 DEF Kept, IsSession
  <2> HIDE DEF r, t
  <2> QED
    BY <1>3, <2>1, <2>2, <2>3 DEF IsSession
<1>5. /\ i \in DOMAIN t.passed /\ t.passed[i] = write.value
      /\ \A j \in DOMAIN s.passed : j # i => j \in DOMAIN t.passed /\ t.passed[j] = s.passed[j]
  BY <1>4 DEF With
<1> HIDE DEF t
<1>6. Kept(t, p)
  BY <1>3, <1>4 DEF Kept
<1>7. ASSUME NEW j, TextField(t, j)
      PROVE  /\ TextField(s, j)
             /\ t.fields[j].text # Stored(p, j) => j \in t.dirty
             /\ Unfocused(t, j) => ~t.fields[j].undo
             /\ LetThrough(s, p, j) => LetThrough(t, p, j)
  <2>1. j \in DOMAIN s.fields /\ t.fields[j].kind = form[p][j].kind /\ s.fields[j].kind = form[p][j].kind
    BY <1>3, <1>4, <1>6, <1>7 DEF TextField, Good, Kept
  <2>2. TextField(s, j)
    BY <1>7, <2>1 DEF TextField
  <2>3. CASE j = i
    BY <1>3, <1>4, <1>5, <2>2, <2>3 DEF LetThrough
  <2>4. CASE j # i
    <3>1. t.fields[j] = s.fields[j]
      BY <1>3, <1>4, <2>1, <2>4
    <3> QED
      BY <1>4, <1>5, <2>2, <2>4, <3>1 DEF Good, Unfocused, LetThrough
  <2> QED
    BY <2>2, <2>3, <2>4
<1>8. Good(t, p)
  <2>1. ASSUME NEW j, TextField(t, j), Unfocused(t, j) PROVE LetThrough(t, p, j)
    BY <1>4, <1>7, <2>1 DEF Good, Unfocused
  <2> QED
    BY <1>4, <1>6, <1>7, <2>1 DEF Good
<1>9. /\ Good(d, p) /\ d.fields = t.fields /\ d.focus = t.focus /\ d.passed = t.passed
  BY <1>8, RecordDisplayGood
<1> HIDE DEF d
<1>10. \A j : TextField(d, j) => TextField(s, j) /\ (LetThrough(s, p, j) => LetThrough(d, p, j))
  BY <1>7, <1>9 DEF TextField, LetThrough
<1> QED
  BY <1>1, <1>4, <1>9, <1>10

\* The committing field's own text is let through.
LEMMA SavedGood ==
    ASSUME NEW p, NEW s, Good(s, p), NEW i, HasText(s, i),
           NEW write \in Writes \union {None}
    PROVE  LET t == Saved(s, p, i, write) IN
           /\ Good(t, p) /\ t.focus = s.focus
           /\ TextField(t, i) => LetThrough(t, p, i)
<1> DEFINE v == s.fields[i].text
           u == [s EXCEPT !.passed = With(s.passed, i, v)]
           c == IF write = None THEN u ELSE Calculated(u, p, write)
           t == RecordDisplay(c, p, i, v)
<1>1. t = Saved(s, p, i, write)
  BY DEF Saved
<1>2. /\ IsSession(u) /\ u.fields = s.fields /\ u.focus = s.focus
      /\ u.dirty = s.dirty /\ u.passed = With(s.passed, i, v)
  BY DEF Good, Kept, IsSession
<1>3. /\ i \in DOMAIN u.passed /\ u.passed[i] = v
      /\ \A j \in DOMAIN s.passed : j # i => j \in DOMAIN u.passed /\ u.passed[j] = s.passed[j]
  BY <1>2 DEF With
<1> HIDE DEF u
<1>4. LetThrough(u, p, i)
  BY <1>2, <1>3 DEF LetThrough
<1>5. Good(u, p)
  <2>1. Kept(u, p)
    BY <1>2 DEF Good, Kept
  <2>2. ASSUME NEW j, TextField(u, j), Unfocused(u, j) PROVE ~u.fields[j].undo /\ LetThrough(u, p, j)
    <3>1. TextField(s, j) /\ Unfocused(s, j)
      BY <1>2, <2>2 DEF TextField, Unfocused
    <3>2. j # i => LetThrough(u, p, j)
      BY <1>2, <1>3, <3>1 DEF Good, LetThrough
    <3> QED
      BY <1>2, <1>4, <3>1, <3>2 DEF Good
  <2>3. \A j : TextField(u, j) => (u.fields[j].text # Stored(p, j) => j \in u.dirty)
    BY <1>2 DEF Good, TextField
  <2> QED
    BY <1>2, <2>1, <2>2, <2>3 DEF Good
<1>6. /\ Good(c, p) /\ c.focus = s.focus
      /\ TextField(c, i) => LetThrough(c, p, i)
  <2>1. CASE write = None
    BY <1>2, <1>4, <1>5, <2>1
  <2>2. CASE write # None
    <3> DEFINE d == Calculated(u, p, write)
    <3>1. write \in Writes
      BY <2>2
    <3>2. /\ Good(d, p) /\ d.focus = u.focus
          /\ \A j : TextField(d, j) => TextField(u, j) /\ (LetThrough(u, p, j) => LetThrough(d, p, j))
      BY <1>5, <3>1, CalculatedGood
    <3> QED
      BY <1>2, <1>4, <2>2, <3>2
  <2> QED
    BY <2>1, <2>2
<1> HIDE DEF c
<1>7. /\ Good(t, p)
      /\ t.fields = c.fields /\ t.focus = c.focus /\ t.passed = c.passed
  BY <1>6, RecordDisplayGood
<1> HIDE DEF t
<1>8. TextField(t, i) => LetThrough(t, p, i)
  BY <1>6, <1>7 DEF TextField, LetThrough
<1> QED
  BY <1>1, <1>6, <1>7, <1>8

\* A refusal puts the file's text back.
LEMMA RevertedGood ==
    ASSUME OnePageForms, form \in Forms, NEW p \in Pages, NEW s, Good(s, p),
           NEW i \in Ids(p), HasText(s, i)
    PROVE  Good(Reverted(s, p, i), p) /\ Reverted(s, p, i).focus = s.focus
<1> DEFINE u == SetFieldText(s, i, Stored(p, i))
           m == Without(u.formatted, i)
           t == [u EXCEPT !.formatted = m]
<1>1. Reverted(s, p, i) = t
  BY DEF Reverted
<1>2. Stored(p, i) \in Values
  BY DEF OnePageForms, Pages, Ids, Stored
<1>3. /\ Kept(u, p)
      /\ u.focus = s.focus /\ u.dirty = s.dirty /\ u.passed = s.passed
      /\ DOMAIN u.fields = DOMAIN s.fields
      /\ \A j \in DOMAIN s.fields : j # i => u.fields[j] = s.fields[j]
      /\ TextField(s, i) => u.fields[i].text = Stored(p, i) /\ ~u.fields[i].undo
  BY <1>2, SetFieldTextIs DEF Good
<1> HIDE DEF u
<1>4. ASSUME NEW j, TextField(u, j)
      PROVE  /\ u.fields[j].text # Stored(p, j) => j \in u.dirty
             /\ Unfocused(u, j) => ~u.fields[j].undo /\ LetThrough(u, p, j)
  <2>1. TextField(s, j)
    BY <1>3, <1>4 DEF TextField, Good, Kept
  <2>2. CASE j = i
    BY <1>3, <2>1, <2>2 DEF LetThrough
  <2>3. CASE j # i
    <3>1. u.fields[j] = s.fields[j]
      BY <1>3, <2>1, <2>3 DEF TextField
    <3> QED
      BY <1>3, <2>1, <3>1 DEF Good, Unfocused, LetThrough
  <2> QED
    BY <2>2, <2>3
<1>5. Good(u, p)
  BY <1>3, <1>4 DEF Good
<1> HIDE DEF m
<1>6. Good(t, p) /\ t.focus = u.focus
  BY <1>5, FormattedGood
<1> QED
  BY <1>1, <1>3, <1>6

\* Whatever the scripts answer: and if they let the field go, its text is
\* let through.
LEMMA CommitGood ==
    ASSUME OnePageForms, form \in Forms, NEW p \in Pages, NEW s, Good(s, p),
           NEW answer \in Writes \union {None, Refuse}
    PROVE  LET c == CommitField(s, p, answer) IN
           /\ Good(c, p) /\ c.focus = s.focus
           /\ (s.focus # None /\ ~Refused(s, p, answer) /\ TextField(c, s.focus.field))
                 => LetThrough(c, p, s.focus.field)
<1> DEFINE i == s.focus.field
           c == CommitField(s, p, answer)
<1>1. CASE s.focus = None
  BY <1>1 DEF CommitField
<1>2. CASE s.focus # None /\ ~Changed(s, p, i)
  <2>1. c = s
    BY <1>2 DEF CommitField
  <2>2. TextField(s, i) => LetThrough(s, p, i)
    BY <1>2 DEF Changed, HasText, TextField, LetThrough, Good, Kept
  <2> QED
    BY <2>1, <2>2
<1>3. CASE s.focus # None /\ Changed(s, p, i) /\ answer = Refuse
  <2>1. c = Reverted(s, p, i) /\ Refused(s, p, answer)
    BY <1>3 DEF CommitField, Refused
  <2>2. i \in Ids(p) /\ HasText(s, i)
    BY <1>3 DEF Changed
  <2> QED
    BY <2>1, <2>2, RevertedGood
<1>4. CASE s.focus # None /\ Changed(s, p, i) /\ answer # Refuse
  <2>1. c = Saved(s, p, i, answer)
    BY <1>4 DEF CommitField
  <2>2. HasText(s, i) /\ answer \in Writes \union {None}
    BY <1>4 DEF Changed
  <2> DEFINE t == Saved(s, p, i, answer)
  <2>3. /\ Good(t, p) /\ t.focus = s.focus
        /\ TextField(t, i) => LetThrough(t, p, i)
    BY <2>2, SavedGood
  <2> QED
    BY <2>1, <2>3
<1> QED
  BY <1>1, <1>2, <1>3, <1>4

----------------------------------------------------------------------------
(* Focus.                                                                  *)

\* What the field leaves behind: nothing to undo.
LEMMA ClearUndoIs ==
    ASSUME NEW p, NEW s, Good(s, p)
    PROVE  LET t == ClearUndo(s) IN
           /\ Kept(t, p)
           /\ t.focus = s.focus /\ t.dirty = s.dirty /\ t.passed = s.passed
           /\ DOMAIN t.fields = DOMAIN s.fields
           /\ \A j \in DOMAIN s.fields :
                 /\ t.fields[j].text = s.fields[j].text
                 /\ t.fields[j].undo => s.fields[j].undo
                 /\ (s.focus # None /\ j = s.focus.field) => ~t.fields[j].undo
<1> DEFINE t == ClearUndo(s)
           i == s.focus.field
<1>1. CASE ~(s.focus # None /\ i \in DOMAIN s.fields)
  BY <1>1 DEF ClearUndo, Good
<1>2. CASE s.focus # None /\ i \in DOMAIN s.fields
  <2> DEFINE g == [s.fields EXCEPT ![i].undo = FALSE]
  <2>1. t = [s EXCEPT !.fields = g]
    BY <1>2 DEF ClearUndo
  <2>2. IsSession(t) /\ t.fields = g /\ t.focus = s.focus /\ t.dirty = s.dirty /\ t.passed = s.passed
    BY <2>1 DEF Good, Kept, IsSession
  <2>3. DOMAIN g = DOMAIN s.fields /\ g = [j \in DOMAIN g |-> g[j]]
    BY DEF Good, Kept
  <2>4. \A j \in DOMAIN s.fields : j # i => g[j] = s.fields[j]
    BY DEF Good, Kept
  <2>5. s.fields[i] \in State
    BY <1>2 DEF Good, Kept
  <2>6. g[i] \in State /\ g[i].kind = s.fields[i].kind /\ g[i].text = s.fields[i].text /\ ~g[i].undo
    BY <1>2, <2>5 DEF State, Good, Kept
  <2> HIDE DEF g, t
  <2>7. Kept(t, p)
    BY <2>2, <2>3, <2>4, <2>6 DEF Good, Kept
  <2> QED
    BY <2>2, <2>3, <2>4, <2>6, <2>7 DEF t
<1> QED
  BY <1>1, <1>2

\* Lists that close say nothing of texts.
LEMMA CloseAllPopupsGood ==
    ASSUME NEW p, NEW s, Good(s, p)
    PROVE  LET t == CloseAllPopups(s) IN
           /\ Good(t, p) /\ t.focus = s.focus
           /\ \A i : Changed(t, p, i) => Changed(s, p, i)
<1> DEFINE t == CloseAllPopups(s)
           g == [i \in DOMAIN s.fields |-> [s.fields[i] EXCEPT !.open = FALSE]]
<1>1. t = [s EXCEPT !.fields = g]
  BY DEF CloseAllPopups
<1>2. \A j \in DOMAIN s.fields :
         /\ g[j] \in State /\ g[j].kind = s.fields[j].kind
         /\ g[j].text = s.fields[j].text /\ g[j].undo = s.fields[j].undo
  <2> SUFFICES ASSUME NEW j \in DOMAIN s.fields
               PROVE  /\ g[j] \in State /\ g[j].kind = s.fields[j].kind
                      /\ g[j].text = s.fields[j].text /\ g[j].undo = s.fields[j].undo
    OBVIOUS
  <2>1. s.fields[j] \in State
    BY DEF Good, Kept
  <2>2. g[j] = [s.fields[j] EXCEPT !.open = FALSE]
    OBVIOUS
  <2> QED
    BY <2>1, <2>2 DEF State
<1>3. DOMAIN g = DOMAIN s.fields /\ g = [j \in DOMAIN g |-> g[j]]
  OBVIOUS
<1> HIDE DEF g
<1>4. IsSession(t) /\ t.fields = g /\ t.focus = s.focus /\ t.dirty = s.dirty /\ t.passed = s.passed
  BY <1>1 DEF Good, Kept, IsSession
<1> HIDE DEF t
<1>5. Kept(t, p)
  BY <1>2, <1>3, <1>4 DEF Good, Kept
<1>6. ASSUME NEW j, TextField(t, j)
      PROVE  /\ t.fields[j].text # Stored(p, j) => j \in t.dirty
             /\ Unfocused(t, j) => ~t.fields[j].undo /\ LetThrough(t, p, j)
  <2>1. TextField(s, j) /\ t.fields[j].text = s.fields[j].text /\ t.fields[j].undo = s.fields[j].undo
    BY <1>2, <1>3, <1>4, <1>6 DEF TextField
  <2> QED
    BY <1>4, <2>1 DEF Good, Unfocused, LetThrough
<1>7. Good(t, p)
  BY <1>4, <1>5, <1>6 DEF Good
<1>8. \A i : Changed(t, p, i) => Changed(s, p, i)
  BY <1>2, <1>3, <1>4 DEF Changed, HasText
<1> QED
  BY <1>4, <1>7, <1>8 DEF t

\* A field that goes without a refusal is left settled, wherever the
\* keyboard goes.
LEMMA LeftGood ==
    ASSUME NEW p, NEW c, Good(c, p),
           (c.focus # None /\ TextField(c, c.focus.field)) => LetThrough(c, p, c.focus.field),
           NEW to, to # None => to = [page |-> p, field |-> to.field],
           NEW s, \/ s = ClearUndo(c)
                  \/ s = c /\ (c.focus = None \/ (to # None /\ to.field = c.focus.field))
    PROVE  Good([s EXCEPT !.focus = to], p)
<1> DEFINE t == [s EXCEPT !.focus = to]
<1>1. /\ Kept(s, p)
      /\ s.focus = c.focus /\ s.dirty = c.dirty /\ s.passed = c.passed
      /\ DOMAIN s.fields = DOMAIN c.fields
      /\ \A j \in DOMAIN c.fields :
            /\ s.fields[j].text = c.fields[j].text
            /\ s.fields[j].undo => c.fields[j].undo
            /\ (c.focus # None /\ j = c.focus.field /\ ~(to # None /\ to.field = j))
                  => ~s.fields[j].undo
  <2>1. CASE s = c /\ (c.focus = None \/ (to # None /\ to.field = c.focus.field))
    BY <2>1 DEF Good
  <2>2. CASE s = ClearUndo(c)
    BY <2>2, ClearUndoIs
  <2> QED
    BY <2>1, <2>2
<1>2. /\ IsSession(t) /\ t.fields = s.fields /\ t.focus = to
      /\ t.dirty = s.dirty /\ t.passed = s.passed
  BY <1>1 DEF Kept, IsSession
<1> HIDE DEF t
<1>3. Kept(t, p)
  BY <1>1, <1>2 DEF Kept
<1>4. ASSUME NEW j, TextField(t, j)
      PROVE  /\ t.fields[j].text # Stored(p, j) => j \in t.dirty
             /\ Unfocused(t, j) => ~t.fields[j].undo /\ LetThrough(t, p, j)
  <2>1. /\ TextField(c, j) /\ j \in DOMAIN c.fields
        /\ t.fields[j].text = c.fields[j].text /\ (t.fields[j].undo => c.fields[j].undo)
    BY <1>1, <1>2, <1>4 DEF TextField, Good, Kept
  <2>2. LetThrough(c, p, j) => LetThrough(t, p, j)
    BY <1>1, <1>2, <2>1 DEF LetThrough
  <2>3. CASE Unfocused(c, j)
    BY <1>1, <1>2, <2>1, <2>2, <2>3 DEF Good
  <2>4. CASE ~Unfocused(c, j)
    <3>1. c.focus # None /\ j = c.focus.field
      BY <2>4 DEF Unfocused
    <3>2. LetThrough(t, p, j)
      BY <2>1, <2>2, <3>1
    <3>3. Unfocused(t, j) => ~t.fields[j].undo
      BY <1>1, <1>2, <2>1, <3>1 DEF Unfocused
    <3> QED
      BY <1>1, <1>2, <2>1, <3>2, <3>3 DEF Good
  <2> QED
    BY <2>3, <2>4
<1> QED
  BY <1>2, <1>3, <1>4 DEF Good, t

LEMMA TakeFocusGood ==
    ASSUME OnePageForms, NoneAssumption, form \in Forms, NEW p \in Pages, NEW s, Good(s, p),
           NEW i, NEW answer \in Writes \union {None, Refuse}
    PROVE  Good(TakeFocus(s, p, i, answer), p)
<1> DEFINE target == [page |-> p, field |-> i]
           c      == CommitField(s, p, answer)
           left   == IF c.focus # None /\ c.focus.field # i THEN ClearUndo(c) ELSE c
           t      == TakeFocus(s, p, i, answer)
<1>1. /\ Good(c, p) /\ c.focus = s.focus
      /\ (s.focus # None /\ ~Refused(s, p, answer) /\ TextField(c, s.focus.field))
            => LetThrough(c, p, s.focus.field)
  BY CommitGood
<1>2. t = IF s.focus = target THEN s
          ELSE IF Refused(s, p, answer) THEN c
          ELSE [left EXCEPT !.focus = target]
  BY DEF TakeFocus
<1>3. CASE s.focus # target /\ ~Refused(s, p, answer)
  <2>1. target # None /\ target = [page |-> p, field |-> target.field] /\ target.field = i
    BY DEF NoneAssumption
  <2>2. \/ left = ClearUndo(c)
        \/ left = c /\ (c.focus = None \/ (target # None /\ target.field = c.focus.field))
    BY <2>1
  <2>3. t = [left EXCEPT !.focus = target]
    BY <1>2, <1>3
  <2>4. (c.focus # None /\ TextField(c, c.focus.field)) => LetThrough(c, p, c.focus.field)
    BY <1>1, <1>3
  <2> HIDE DEF c, target, left, t
  <2>5. Good([left EXCEPT !.focus = target], p)
    BY <1>1, <2>1, <2>2, <2>4, LeftGood
  <2> QED
    BY <2>3, <2>5 DEF t
<1>4. CASE s.focus = target \/ Refused(s, p, answer)
  BY <1>1, <1>2, <1>4
<1> QED
  BY <1>3, <1>4

LEMMA DropFocusGood ==
    ASSUME OnePageForms, form \in Forms, NEW p \in Pages, NEW s, Good(s, p),
           NEW answer \in Writes \union {None, Refuse}
    PROVE  Good(DropFocus(s, p, answer), p)
<1> DEFINE u == CloseAllPopups(s)
           c == CommitField(u, p, answer)
<1>1. /\ Good(u, p) /\ u.focus = s.focus
      /\ \A i : Changed(u, p, i) => Changed(s, p, i)
  BY CloseAllPopupsGood
<1>2. Refused(u, p, answer) => Refused(s, p, answer)
  BY <1>1 DEF Refused
<1> HIDE DEF u
<1>3. /\ Good(c, p) /\ c.focus = u.focus
      /\ (u.focus # None /\ ~Refused(u, p, answer) /\ TextField(c, u.focus.field))
            => LetThrough(c, p, u.focus.field)
  BY <1>1, CommitGood
<1>4. DropFocus(s, p, answer) = IF Refused(s, p, answer) THEN c
                                ELSE [ClearUndo(c) EXCEPT !.focus = None]
  BY DEF DropFocus, u
<1> HIDE DEF c
<1>5. CASE ~Refused(s, p, answer)
  <2> DEFINE left == ClearUndo(c)
  <2>1. (c.focus # None /\ TextField(c, c.focus.field)) => LetThrough(c, p, c.focus.field)
    BY <1>2, <1>3, <1>5
  <2> HIDE DEF left
  <2>2. Good([left EXCEPT !.focus = None], p)
    BY <1>3, <2>1, LeftGood DEF left
  <2> QED
    BY <1>4, <1>5, <2>2 DEF left
<1> QED
  BY <1>3, <1>4, <1>5

LEMMA FocusFieldGood ==
    ASSUME OnePageForms, NoneAssumption, form \in Forms, NEW p \in Pages, NEW s, Good(s, p),
           NEW index, NEW answer \in Writes \union {None, Refuse}
    PROVE  Good(FocusField(s, p, index, answer), p)
<1> DEFINE i == FieldOfIndex(p, index)
           t == TakeFocus(s, p, i, answer)
<1>1. i = None \/ i \in Ids(p)
  BY DEF FieldOfIndex
<1>2. FocusField(s, p, index, answer) =
         IF i = None \/ s.focus = [page |-> p, field |-> i] THEN s ELSE EnsureState(t, p, i)
  BY DEF FocusField
<1> HIDE DEF i
<1>3. Good(t, p)
  BY TakeFocusGood
<1> HIDE DEF t
<1>4. i \in Ids(p) => Good(EnsureState(t, p, i), p)
  BY <1>3, EnsureStateGood
<1> QED
  BY <1>1, <1>2, <1>4

----------------------------------------------------------------------------
(* Fields with rows, toggles and keys.                                     *)

LEMMA TogglePopupGood ==
    ASSUME NEW p, NEW s, Good(s, p), NEW i, IsList(s, i)
    PROVE  Good(TogglePopup(s, i), p)
<1> DEFINE w == [s.fields[i] EXCEPT !.open = ~@]
           g == [s.fields EXCEPT ![i] = w]
           t == TogglePopup(s, i)
<1>1. i \in DOMAIN s.fields /\ s.fields[i] \in State /\ s.fields[i].kind # "text"
  BY DEF IsList, Good, Kept
<1>2. w \in State /\ w.kind = s.fields[i].kind
  BY <1>1 DEF State
<1>3. t = [s EXCEPT !.fields = g]
  BY DEF TogglePopup
<1> HIDE DEF w
<1>4. IsSession(t) /\ t.fields = g /\ t.focus = s.focus /\ t.dirty = s.dirty /\ t.passed = s.passed
  BY <1>3 DEF Good, Kept, IsSession
<1> HIDE DEF t
<1>5. Good(t, p)
  BY <1>1, <1>2, <1>4, FieldChanged
<1> QED
  BY <1>5 DEF t

LEMMA ClosePopupGood ==
    ASSUME NEW p, NEW s, Good(s, p), NEW i, IsList(s, i)
    PROVE  Good(Closed(s, i), p)
<1> DEFINE w == [s.fields[i] EXCEPT !.open = FALSE]
           g == [s.fields EXCEPT ![i] = w]
           t == Closed(s, i)
<1>1. i \in DOMAIN s.fields /\ s.fields[i] \in State /\ s.fields[i].kind # "text"
  BY DEF IsList, Good, Kept
<1>2. w \in State /\ w.kind = s.fields[i].kind
  BY <1>1 DEF State
<1>3. t = [s EXCEPT !.fields = g]
  BY DEF Closed
<1> HIDE DEF w, t
<1>4. IsSession(t) /\ t.fields = g /\ t.focus = s.focus /\ t.dirty = s.dirty /\ t.passed = s.passed
  BY <1>3 DEF Good, Kept, IsSession
<1>5. Good(t, p)
  BY <1>1, <1>2, <1>4, FieldChanged
<1> QED
  BY <1>5 DEF t

LEMMA ReleaseInPopupGood ==
    ASSUME NEW p, NEW s, Good(s, p), NEW i, IsList(s, i), NEW row \in Values
    PROVE  Good(ReleaseInPopup(s, i, row), p)
<1> DEFINE w == [s.fields[i] EXCEPT !.open = FALSE, !.text = row]
           g == [s.fields EXCEPT ![i] = w]
           D == s.dirty \union {i}
           t == Marked(s, g, D)
<1>1. i \in DOMAIN s.fields /\ s.fields[i] \in State /\ s.fields[i].kind # "text"
  BY DEF IsList, Good, Kept
<1>2. w \in State /\ w.kind = s.fields[i].kind
  BY <1>1 DEF State
<1>3. ReleaseInPopup(s, i, row) = t
  BY <1>1 DEF ReleaseInPopup, Marked
<1> HIDE DEF w
<1>4. /\ IsSession(t) /\ t.fields = g /\ t.dirty = D
      /\ t.focus = s.focus /\ t.passed = s.passed
  <2> HIDE DEF g, D
  <2> QED
    BY MarkedIs DEF Good, Kept
<1> HIDE DEF t
<1>5. Good(t, p)
  BY <1>1, <1>2, <1>4, FieldChanged
<1> QED
  BY <1>3, <1>5

LEMMA ActivatedGood ==
    ASSUME NEW p, NEW s, Good(s, p), NEW i \in DOMAIN s.fields,
           s.fields[i].kind # "text", NEW v \in Values
    PROVE  Good(Activated(s, i, v), p)
<1> DEFINE w == [s.fields[i] EXCEPT !.text = v]
           g == [s.fields EXCEPT ![i] = w]
           D == s.dirty \union {i}
           t == Marked(s, g, D)
<1>1. s.fields[i] \in State
  BY DEF Good, Kept
<1>2. w \in State /\ w.kind = s.fields[i].kind
  BY <1>1 DEF State
<1>3. Activated(s, i, v) = t
  BY <1>1 DEF Activated, Marked
<1> HIDE DEF w
<1>4. /\ IsSession(t) /\ t.fields = g /\ t.dirty = D
      /\ t.focus = s.focus /\ t.passed = s.passed
  <2> HIDE DEF g, D
  <2> QED
    BY MarkedIs DEF Good, Kept
<1> HIDE DEF t
<1>5. Good(t, p)
  BY <1>1, <1>2, <1>4, FieldChanged
<1> QED
  BY <1>3, <1>5

\* What is typed is marked, and is the focused field's.
LEMMA TypedGood ==
    ASSUME NEW p, NEW s, Good(s, p), NEW i, s.focus # None, i = s.focus.field, HasText(s, i),
           NEW v \in Values, NEW undo \in BOOLEAN
    PROVE  Good(Typed(s, i, v, undo), p)
<1> DEFINE w == [s.fields[i] EXCEPT !.text = v, !.undo = undo]
           g == [s.fields EXCEPT ![i] = w]
           D == s.dirty \union {i}
           t == Marked(s, g, D)
<1>1. i \in DOMAIN s.fields /\ s.fields[i] \in State
  BY DEF HasText, Good, Kept
<1>2. w \in State /\ w.kind = s.fields[i].kind
  BY <1>1 DEF State
<1>3. Typed(s, i, v, undo) = t
  BY <1>1 DEF Typed, Marked
<1> HIDE DEF w
<1>4. /\ IsSession(t) /\ t.fields = g /\ t.dirty = D
      /\ t.focus = s.focus /\ t.passed = s.passed
  <2> HIDE DEF g, D
  <2> QED
    BY MarkedIs DEF Good, Kept
<1> HIDE DEF t
<1>5. ~Unfocused(s, i) /\ i \in t.dirty
  BY <1>4 DEF Unfocused
<1>6. Good(t, p)
  BY <1>1, <1>2, <1>4, <1>5, FieldChanged
<1> QED
  BY <1>3, <1>6

----------------------------------------------------------------------------
(* The actions.                                                            *)

Inv == form \in Forms /\ page \in Pages \union {None} /\ \A p \in Pages : Good(Session, p)

\* The page the form has, when it has the one.
Only(p) ==
    /\ OnePageForms /\ NoneAssumption
    /\ form \in Forms /\ Pages = {p} /\ page \in {p, None}
    /\ Good(Session, p)

LEMMA SessionIs ==
    /\ Session.fields = fields /\ Session.focus = focus /\ Session.dirty = dirty
    /\ Session.passed = passed
BY DEF Session

LEMMA BecomesGood ==
    ASSUME NEW p, NEW s, Good(s, p), Becomes(s)
    PROVE  Good(Session, p)' /\ form' = form
<1>1. form' = form
  BY DEF Becomes
<1>2. Session' = s
  <2>1. s = [fields |-> s.fields, focus |-> s.focus, dirty |-> s.dirty,
             formatted |-> s.formatted, passed |-> s.passed]
    BY DEF Good, Kept, IsSession
  <2> QED
    BY <2>1 DEF Session, Becomes
<1> QED
  BY <1>1, <1>2 DEF Good, Kept, IsSession, TextField, Unfocused, LetThrough, Stored, Ids

\* Focus goes to a field, and the field has a state.
LEMMA FocusedGood ==
    ASSUME NEW p, Only(p), NEW i \in Ids(p), NEW answer \in Writes \union {None, Refuse}
    PROVE  Good(EnsureState(TakeFocus(Session, p, i, answer), p, i), p)
<1> DEFINE t == TakeFocus(Session, p, i, answer)
<1>1. Good(t, p) /\ p \in Pages
  BY TakeFocusGood DEF Only
<1> HIDE DEF t
<1>2. Good(EnsureState(t, p, i), p)
  BY <1>1, EnsureStateGood DEF Only
<1> QED
  BY <1>2 DEF t

\* Events that move the focus.
LEMMA FocusEvents ==
    ASSUME NEW p, Only(p), NEW answer \in Answers(p), NEW i \in Ids(p),
           \/ \E button \in BOOLEAN : Click(p, i, answer, button)
           \/ FocusAt(p, i, answer) \/ Tab(p, i, answer)
           \/ ClickAway(p, answer) \/ Blur(p, answer)
           \/ Wheel(p, i)
    PROVE  \E s : Good(s, p) /\ Becomes(s)
<1> DEFINE e == EnsureState(TakeFocus(Session, p, i, answer), p, i)
<1>1. answer \in Writes \union {None, Refuse}
  BY DEF Answers, Writes
<1>2. Good(e, p)
  BY <1>1, FocusedGood
<1> HIDE DEF e
<1>3. ASSUME NEW button \in BOOLEAN, Click(p, i, answer, button)
      PROVE  \E s : Good(s, p) /\ Becomes(s)
  <2>1. Becomes(IF button /\ IsList(e, i) THEN TogglePopup(e, i) ELSE e)
    BY <1>3 DEF Click, Route, e
  <2>2. IsList(e, i) => Good(TogglePopup(e, i), p)
    BY <1>2, TogglePopupGood
  <2> QED
    BY <1>2, <2>1, <2>2
<1>4. CASE FocusAt(p, i, answer) \/ Tab(p, i, answer)
  BY <1>2, <1>4 DEF FocusAt, Tab, Route, e
<1>5. CASE ClickAway(p, answer) \/ Blur(p, answer)
  <2>1. Good(DropFocus(Session, p, answer), p)
    BY <1>1, DropFocusGood DEF Only
  <2> QED
    BY <1>5, <2>1 DEF ClickAway, Blur, Route
<1>6. CASE Wheel(p, i)
  <2> DEFINE t == EnsureState(Session, p, i)
  <2>1. Good(t, p)
    BY EnsureStateGood DEF Only
  <2> QED
    BY <1>6, <2>1 DEF Wheel, Route
<1> QED
  BY <1>3, <1>4, <1>5, <1>6

LEMMA LeastExists ==
    ASSUME NEW S, S \subseteq Nat, S # {}
    PROVE  \E k \in S : \A j \in S : k <= j
<1> DEFINE R == OpToRel(<, Nat)
<1>1. IsWellFoundedOn(R, Nat)
  BY NatLessThanWellFounded
<1> HIDE DEF R
<1>2. \E k \in S : \A j \in S : <<j, k>> \notin R
  BY <1>1, WFMin
<1>3. \A k, j \in Nat : <<j, k>> \notin R => k <= j
  <2>1. \A k, j \in Nat : j < k => <<j, k>> \in R
    BY DEF R, OpToRel
  <2> QED
    BY <2>1
<1> QED
  BY <1>2, <1>3

\* Releases, which may set what they are over.
LEMMA ReleaseEvents ==
    ASSUME NEW p, Only(p), NEW answer \in Answers(p), NEW v \in Values,
           \/ \E i \in Ids(p) : Release(p, i, answer, v)
           \/ \E over \in Ids(p) \union {None} : ReleaseOnRow(p, over, answer, v)
    PROVE  \E s : Good(s, p) /\ Becomes(s)
<1>1. answer \in Writes \union {None, Refuse} /\ p \in Pages
  BY DEF Answers, Writes, Only
<1>2. ASSUME NEW i \in Ids(p), Release(p, i, answer, v)
      PROVE  \E s : Good(s, p) /\ Becomes(s)
  <2> DEFINE t == TakeFocus(Session, p, i, answer)
  <2>1. Good(t, p)
    BY <1>1, TakeFocusGood DEF Only
  <2>2. Becomes(IF i \in DOMAIN t.fields /\ t.fields[i].kind = "toggle"
                THEN Activated(t, i, v) ELSE t)
    BY <1>2 DEF Release, Route
  <2> HIDE DEF t
  <2>3. (i \in DOMAIN t.fields /\ t.fields[i].kind = "toggle") => Good(Activated(t, i, v), p)
    BY <2>1, ActivatedGood
  <2> QED
    BY <2>1, <2>2, <2>3
<1>3. ASSUME NEW over \in Ids(p) \union {None}, ReleaseOnRow(p, over, answer, v)
      PROVE  \E s : Good(s, p) /\ Becomes(s)
  <2> DEFINE t == IF over = None THEN Session ELSE TakeFocus(Session, p, over, answer)
             i == OpenOn(t, p)
  <2>1. Good(t, p)
    BY <1>1, TakeFocusGood DEF Only
  <2>2. i # None /\ Becomes(ReleaseInPopup(t, i, v))
    BY <1>3 DEF ReleaseOnRow, Route
  <2> HIDE DEF t
  <2> DEFINE S == {k \in Ids(p) : IsList(t, k) /\ t.fields[k].open}
  <2>3. i = IF S = {} THEN None ELSE CHOOSE k \in S : \A j \in S : k <= j
    BY DEF OpenOn
  <2>4. IsList(t, i)
    <3>1. S # {} /\ S \subseteq Nat
      BY <1>1, <2>2, <2>3 DEF Only, OnePageForms, Ids, Pages
    <3> HIDE DEF S
    <3>2. i \in S
      BY <2>3, <3>1, LeastExists
    <3> QED
      BY <3>2 DEF S
  <2> HIDE DEF i
  <2>5. Good(ReleaseInPopup(t, i, v), p)
    BY <2>1, <2>4, ReleaseInPopupGood
  <2> QED
    BY <2>2, <2>5
<1> QED
  BY <1>2, <1>3

\* Keys, and scripts that only ask for the keyboard.
LEMMA KeyEvents ==
    ASSUME NEW p, Only(p),
           \/ \E q \in Pages : Script(q)
           \/ \E v \in Values : PickKey(v) \/ \E undone \in BOOLEAN : Type(v, undone)
           \/ OpenKey
    PROVE  \E s : Good(s, p) /\ Becomes(s)
<1>1. Good(Session, p)
  BY DEF Only
<1>2. CASE \E q \in Pages : Script(q)
  BY <1>1, <1>2 DEF Script, Route
<1>3. ASSUME NEW v \in Values, PickKey(v)
      PROVE  \E s : Good(s, p) /\ Becomes(s)
  <2>1. focus.field \in DOMAIN Session.fields /\ Session.fields[focus.field].kind # "text"
    BY <1>3, SessionIs DEF PickKey
  <2>2. Good(Activated(Session, focus.field, v), p)
    BY <1>1, <2>1, ActivatedGood
  <2> QED
    BY <1>3, <2>2 DEF PickKey, Route
<1>4. ASSUME NEW v \in Values, NEW undone \in BOOLEAN, Type(v, undone)
      PROVE  \E s : Good(s, p) /\ Becomes(s)
  <2> DEFINE undo == fields[focus.field].kind = "text" /\ ~undone
  <2>1. Becomes(Typed(Session, focus.field, v, undo)) /\ HasText(Session, focus.field)
    BY <1>4 DEF Type, Route
  <2>2. Session.focus # None /\ focus.field = Session.focus.field
    BY <1>4, SessionIs DEF Type
  <2>3. undo \in BOOLEAN
    OBVIOUS
  <2> HIDE DEF undo
  <2>4. Good(Typed(Session, focus.field, v, undo), p)
    BY <1>1, <2>1, <2>2, <2>3, TypedGood
  <2> QED
    BY <2>1, <2>4
<1>5. CASE OpenKey
  <2>1. IsList(Session, focus.field) /\ Becomes(TogglePopup(Session, focus.field))
    BY <1>5 DEF OpenKey, Route
  <2>2. Good(TogglePopup(Session, focus.field), p)
    BY <1>1, <2>1, TogglePopupGood
  <2> QED
    BY <2>1, <2>2
<1> QED
  BY <1>2, <1>3, <1>4, <1>5

LEMMA EventGood ==
    ASSUME NEW p, Only(p), Event
    PROVE  \E s : Good(s, p) /\ Becomes(s)
<1>1. Pages = {p}
  BY DEF Only
<1>2. CASE \E answer \in Answers(p) : ClickAway(p, answer) \/ Blur(p, answer)
  <2>1. PICK answer \in Answers(p) : ClickAway(p, answer) \/ Blur(p, answer)
    BY <1>2
  <2>2. answer \in Writes \union {None, Refuse} /\ p \in Pages
    BY <1>1 DEF Answers, Writes
  <2>3. Good(DropFocus(Session, p, answer), p)
    BY <2>2, DropFocusGood DEF Only
  <2> QED
    BY <2>1, <2>3 DEF ClickAway, Blur, Route
<1>3. ASSUME NEW answer \in Answers(p), NEW i \in Ids(p),
             \/ \E button \in BOOLEAN : Click(p, i, answer, button)
             \/ FocusAt(p, i, answer) \/ Tab(p, i, answer)
      PROVE  \E s : Good(s, p) /\ Becomes(s)
  BY <1>3, FocusEvents
<1>4. ASSUME NEW answer \in Answers(p), NEW v \in Values,
             \/ \E i \in Ids(p) : Release(p, i, answer, v)
             \/ \E over \in Ids(p) \union {None} : ReleaseOnRow(p, over, answer, v)
      PROVE  \E s : Good(s, p) /\ Becomes(s)
  BY <1>4, ReleaseEvents
<1>5. ASSUME NEW i \in Ids(p), Wheel(p, i)
      PROVE  \E s : Good(s, p) /\ Becomes(s)
  <2>1. None \in Answers(p)
    BY DEF Answers
  <2> QED
    BY <1>5, <2>1, FocusEvents
<1>6. CASE \/ \E q \in Pages : Script(q)
           \/ \E v \in Values : PickKey(v) \/ \E undone \in BOOLEAN : Type(v, undone)
           \/ OpenKey
  BY <1>6, KeyEvents
<1> QED
  BY <1>1, <1>2, <1>3, <1>4, <1>5, <1>6 DEF Event

\* What the scripts of an event, or the host, ask for afterwards.
LEMMA SpendGood ==
    ASSUME NEW p, Only(p), Spend \/ Honour
    PROVE  \E s : Good(s, p) /\ Becomes(s)
<1>1. ASSUME NEW answer \in Answers(p), Becomes(FocusField(Session, p, request, answer))
      PROVE  \E s : Good(s, p) /\ Becomes(s)
  <2>1. answer \in Writes \union {None, Refuse} /\ p \in Pages
    BY DEF Answers, Writes, Only
  <2>2. Good(FocusField(Session, p, request, answer), p)
    BY <2>1, FocusFieldGood DEF Only
  <2> QED
    BY <1>1, <2>2
<1>2. CASE Honour
  BY <1>1, <1>2 DEF Honour, Only
<1>3. CASE Spend
  BY <1>1, <1>3 DEF Spend, Only
<1> QED
  BY <1>2, <1>3

LEMMA HostGood ==
    ASSUME NEW p, Only(p),
           \E i \in AllIds : ClosePopup(p, i) \/ \E row \in Values : Choose(p, i, row)
    PROVE  \E s : Good(s, p) /\ Becomes(s)
<1>1. PICK i \in AllIds : ClosePopup(p, i) \/ \E row \in Values : Choose(p, i, row)
  OBVIOUS
<1>2. Good(Session, p) /\ IsList(Session, i)
  BY <1>1 DEF Only, ClosePopup, Choose
<1>3. Good(Closed(Session, i), p) /\ \A row \in Values : Good(ReleaseInPopup(Session, i, row), p)
  BY <1>2, ClosePopupGood, ReleaseInPopupGood
<1> QED
  BY <1>1, <1>3 DEF ClosePopup, Choose

\* The event in hand is one of the form's page.
LEMMA PageStep ==
    ASSUME NEW p, Only(p), Next
    PROVE  page' \in {p, None}
<1>1. focus # None => focus.page = p
  <2>1. focus # None => focus = [page |-> p, field |-> focus.field]
    BY SessionIs DEF Only, Good
  <2> QED
    BY <2>1
<1>2. CASE Event
  <2>1. \A q \in Pages : \A s : Route(q, s) => page' = p
    BY DEF Route, Only
  <2>2. \A s : focus # None /\ Route(focus.page, s) => page' = p
    BY <1>1 DEF Route
  <2> QED
    BY <1>2, <2>1, <2>2
       DEF Event, ClickAway, Blur, Click, FocusAt, Tab, Release, ReleaseOnRow, Script, Wheel,
           PickKey, Type, OpenKey
<1>3. CASE Spend
  BY <1>3 DEF Spend, Only
<1>4. CASE Answered
  BY <1>4 DEF Answered
<1>5. CASE Host
  BY <1>5 DEF Host, ClosePopup, Choose, OutsideScript, Honour, Only
<1> QED
  BY <1>2, <1>3, <1>4, <1>5 DEF Next

LEMMA NextGood ==
    ASSUME NEW p, Only(p), Next
    PROVE  \E s : Good(s, p) /\ Becomes(s)
<1>1. CASE Event
  BY <1>1, EventGood
<1>2. CASE Spend \/ Honour
  BY <1>2, SpendGood
<1>3. CASE \E q \in Pages, i \in AllIds :
             ClosePopup(q, i) \/ \E row \in Values : Choose(q, i, row)
  <2>1. \E i \in AllIds : ClosePopup(p, i) \/ \E row \in Values : Choose(p, i, row)
    BY <1>3 DEF Only
  <2> QED
    BY <2>1, HostGood
<1>4. CASE Answered \/ OutsideScript
  <2>1. Good(Session, p) /\ Becomes(Session)
    BY <1>4, SessionIs DEF Answered, OutsideScript, Becomes, Only, Session
  <2> QED
    BY <2>1
<1> QED
  BY <1>1, <1>2, <1>3, <1>4 DEF Next, Host

LEMMA InvStep ==
    ASSUME OnePageForms, NoneAssumption, Inv, [Next]_vars
    PROVE  Inv'
<1>1. PICK p : Pages = {p}
  BY DEF Inv, OnePageForms, Pages
<1>2. Only(p)
  BY <1>1 DEF Inv, Only
<1>3. CASE Next
  <2>1. PICK s : Good(s, p) /\ Becomes(s)
    BY <1>2, <1>3, NextGood
  <2>2. Good(Session, p)' /\ form' = form
    BY <2>1, BecomesGood
  <2>3. page' \in {p, None} /\ Pages' = {p}
    BY <1>1, <1>2, <1>3, <2>2, PageStep DEF Pages
  <2> QED
    BY <2>2, <2>3 DEF Inv
<1>4. CASE UNCHANGED vars
  <2>1. Session' = Session /\ form' = form /\ page' = page
    BY <1>4 DEF vars, Session
  <2> QED
    BY <2>1 DEF Inv, Good, Kept, IsSession, TextField, Unfocused, LetThrough, Stored, Ids, Pages
<1> QED
  BY <1>3, <1>4

LEMMA InitInv ==
    ASSUME Init
    PROVE  Inv
<1> SUFFICES ASSUME NEW p \in Pages PROVE Good(Session, p)
  BY DEF Init, Inv
<1>1. /\ IsSession(Session) /\ Session.focus = None
      /\ Session.fields = <<>>
  BY DEF Init, Session, IsSession
<1>2. DOMAIN Session.fields = {} /\ Session.fields = [i \in {} |-> Session.fields[i]]
  BY <1>1
<1> QED
  BY <1>1, <1>2 DEF Good, Kept, TextField

LEMMA InvSettles ==
    ASSUME Inv
    PROVE  LeftFieldIsSettled
<1> SUFFICES ASSUME NEW p \in Pages, NEW i \in Ids(p) \intersect DOMAIN fields,
                    form[p][i].kind = "text", focus = None \/ focus.field # i
             PROVE  /\ ~fields[i].undo
                    /\ fields[i].text # Stored(p, i) =>
                         i \in dirty /\ i \in DOMAIN passed /\ passed[i] = fields[i].text
  BY DEF LeftFieldIsSettled
<1>1. TextField(Session, i) /\ Unfocused(Session, i)
  BY SessionIs DEF Inv, Good, Kept, TextField, Unfocused
<1> QED
  BY <1>1, SessionIs DEF Inv, Good, LetThrough

\* On a form of one page, whatever is clicked, typed, chosen and tabbed, and
\* whatever its scripts answer, write and give the keyboard to: a text field
\* that was left holds what the file does or what was let through, is marked
\* if it differs, and has nothing to undo (commit.rs, route.rs).
THEOREM LeftFieldCorrect ==
    ASSUME OnePageForms, NoneAssumption
    PROVE  Spec => []LeftFieldIsSettled
<1>1. Init => Inv
  BY InitInv
<1>2. Inv /\ [Next]_vars => Inv'
  BY InvStep
<1>3. Inv => LeftFieldIsSettled
  BY InvSettles
<1> QED
  BY <1>1, <1>2, <1>3, PTL DEF Spec

----------------------------------------------------------------------------
(* The edit control: sections and places.                                  *)

\* iter folds the first n numbers into base from the left, each by a step.
LeftIter(iter, n, base, step) ==
    \A s \in SUBSET (1..n) :
        iter[s] = IF s = {} THEN base ELSE step[<<Max(s), iter[s \ {Max(s)}]>>]

LEMMA MaxOfSome ==
    ASSUME NEW n \in Nat, NEW d \in SUBSET (1..n), d # {}
    PROVE  Max(d) \in d /\ Max(d) \in 1..n /\ d \ {Max(d)} \in SUBSET (1..n)
<1>1. d \in SUBSET (0..n)
  OBVIOUS
<1>2. Max(d) \in d
  BY <1>1, LargestNatural DEF Max
<1> QED
  BY <1>2

LEMMA LeftIterExists ==
    ASSUME NEW n \in Nat, NEW V, NEW base \in V, NEW step, step \in [(1..n) \X V -> V]
    PROVE  \E g \in [SUBSET (1..n) -> V] : LeftIter(g, n, base, step)
<1> DEFINE pick == [s \in SUBSET (1..n) |-> Max(s)]
<1>1. \A s \in SUBSET (1..n) : pick[s] = Max(s)
  OBVIOUS
<1> HIDE DEF pick
<1>2. \A s \in SUBSET (1..n) : s # {} => Max(s) \in s
  BY MaxOfSome
<1>3. \A s \in SUBSET (1..n) : s # {} => pick[s] \in s
  BY <1>1, <1>2
<1>4. IsFiniteSet(1..n)
  BY FS_Interval
<1>5. \E g \in [SUBSET (1..n) -> V] : Folds(g, 1..n, base, pick, step)
  BY <1>3, <1>4, FoldExists
<1> QED
  BY <1>1, <1>5 DEF Folds, LeftIter

\* The largest of the first numbers is the last.
LEMMA LastIsMax ==
    ASSUME NEW k \in Nat \ {0}
    PROVE  Max(1..k) = k /\ (1..k) \ {k} = 1..(k - 1)
<1>1. k \in 1..k /\ \A j \in 1..k : k >= j
  OBVIOUS
<1>2. \A m \in 1..k : (\A j \in 1..k : m >= j) => m = k
  BY <1>1
<1>3. Max(1..k) = k
  BY <1>1, <1>2 DEF Max
<1>4. (1..k) \ {k} = 1..(k - 1)
  OBVIOUS
<1> QED
  BY <1>3, <1>4

\* A sum from the left, term by term.
SumsLeft(r, base, s) == r[0] = base /\ \A k \in 1..Len(s) : r[k] = r[k - 1] + s[k]

SumIter(g, base, s) ==
    g = [d \in SUBSET DOMAIN s |-> IF d = {} THEN base ELSE g[d \ {Max(d)}] + s[Max(d)]]

SumLeft(base, s) == (CHOOSE g : SumIter(g, base, s))[DOMAIN s]

LEMMA LeftSum ==
    ASSUME NEW s \in Seq(Nat), NEW base \in Nat
    PROVE  \E r \in [0..Len(s) -> Nat] : SumsLeft(r, base, s) /\ r[Len(s)] = SumLeft(base, s)
<1>1. PICK iter : iter = CHOOSE g : SumIter(g, base, s)
  OBVIOUS
<1>2. SumLeft(base, s) = iter[DOMAIN s]
  BY <1>1 DEF SumLeft
<1> DEFINE n == Len(s)
<1>3. n \in Nat /\ DOMAIN s = 1..n /\ \A i \in 1..n : s[i] \in Nat
  OBVIOUS
<1> HIDE DEF n
<1> DEFINE step == [q \in (1..n) \X Nat |-> q[2] + s[q[1]]]
<1>4. /\ step \in [(1..n) \X Nat -> Nat]
      /\ \A i \in 1..n : \A v \in Nat : step[<<i, v>>] = v + s[i]
  BY <1>3
<1> HIDE DEF step
<1>5. PICK h \in [SUBSET (1..n) -> Nat] : LeftIter(h, n, base, step)
  BY <1>3, <1>4, LeftIterExists
<1>6. \A d \in SUBSET (1..n) : d # {} => Max(d) \in 1..n /\ d \ {Max(d)} \in SUBSET (1..n)
  BY <1>3, MaxOfSome
<1>7. SumIter(h, base, s)
  <2>1. \A d \in SUBSET (1..n) :
          h[d] = IF d = {} THEN base ELSE h[d \ {Max(d)}] + s[Max(d)]
    BY <1>4, <1>5, <1>6 DEF LeftIter
  <2> QED
    BY <1>3, <1>5, <2>1 DEF SumIter
<1>8. SumIter(iter, base, s)
  BY <1>1, <1>7
<1>9. /\ iter[{}] = base
      /\ \A d \in SUBSET (1..n) : d # {} => iter[d] = iter[d \ {Max(d)}] + s[Max(d)]
  BY <1>3, <1>8 DEF SumIter
<1> DEFINE r == [k \in 0..n |-> iter[1..k]]
<1>10. /\ r[0] = base /\ r[n] = iter[1..n]
       /\ \A k \in 1..n : r[k] = r[k - 1] + s[k]
  <2>1. 1..0 = {} /\ 0 \in 0..n /\ n \in 0..n
    BY <1>3
  <2>2. r[0] = base
    <3>1. r[0] = iter[1..0]
      BY <2>1
    <3> QED
      BY <1>9, <2>1, <3>1
  <2>3. r[n] = iter[1..n]
    BY <2>1
  <2>4. ASSUME NEW k \in 1..n PROVE r[k] = r[k - 1] + s[k]
    <3>0. k \in Nat \ {0} /\ k \in 1..k /\ k - 1 \in 0..n /\ k \in 0..n
      BY <1>3
    <3>1. 1..k \in SUBSET (1..n) /\ 1..k # {}
      <4>1. \A j \in 1..k : j \in 1..n
        BY <1>3
      <4>2. 1..k # {}
        BY <3>0
      <4>3. 1..k \subseteq 1..n
        BY <4>1
      <4> QED
        BY <4>2, <4>3
    <3>2. iter[1..k] = iter[1..(k - 1)] + s[k]
      BY <1>9, <3>0, <3>1, LastIsMax
    <3> QED
      BY <3>0, <3>2
  <2> QED
    BY <2>2, <2>3, <2>4
<1> HIDE DEF r
<1>11. \A k \in 0..n : r[k] \in Nat
  <2> DEFINE G == {k \in 0..n : r[k] \in Nat}
  <2>1. 0 \in G
    BY <1>3, <1>10
  <2>3. ASSUME NEW k \in 1..n, k - 1 \in G PROVE k \in G
    <3>1. r[k] = r[k - 1] + s[k] /\ s[k] \in Nat /\ r[k - 1] \in Nat /\ k \in 0..n
      BY <1>3, <1>10, <2>3
    <3> QED
      BY <3>1
  <2> HIDE DEF G
  <2>2. 0..n \subseteq G
    BY <1>3, <2>1, <2>3, CountInduction
  <2> QED
    BY <2>2 DEF G
<1>12. r \in [0..n -> Nat]
  BY <1>11 DEF r
<1>13. SumsLeft(r, base, s)
  BY <1>10 DEF SumsLeft, n
<1>14. r[Len(s)] = SumLeft(base, s)
  BY <1>2, <1>3, <1>10 DEF n
<1> QED
  BY <1>12, <1>13, <1>14 DEF n

\* What comes before a section: one more for each, and what the section holds.
Stacks(lens) ==
    /\ Text!Before(lens, 1) = 0
    /\ \A k \in 1..(Len(lens) + 1) : Text!Before(lens, k) \in Nat
    /\ \A k \in 1..Len(lens) : Text!Before(lens, k + 1) = Text!Before(lens, k) + lens[k] + 1

LEMMA BeforeStacks ==
    ASSUME NEW lens \in Seq(Nat)
    PROVE  Stacks(lens)
<1> DEFINE head(k) == SubSeq(lens, 1, k - 1)
<1>1. ASSUME NEW k \in 1..(Len(lens) + 1)
      PROVE  /\ head(k) \in Seq(Nat) /\ Len(head(k)) = k - 1 /\ k - 1 \in Nat
             /\ \A j \in 1..(k - 1) : head(k)[j] = lens[j]
  OBVIOUS
<1>2. ASSUME NEW k PROVE Text!Before(lens, k) = SumLeft(k - 1, head(k))
  BY DEF Text!Before, Text!FoldLeft, Text!MapThenFoldSet, Text!Max, Max, SumLeft, SumIter
<1> HIDE DEF head
<1>3. ASSUME NEW k \in 1..(Len(lens) + 1)
      PROVE  \E r \in [0..(k - 1) -> Nat] :
                /\ r[0] = k - 1 /\ \A j \in 1..(k - 1) : r[j] = r[j - 1] + lens[j]
                /\ r[k - 1] = Text!Before(lens, k)
  <2>1. PICK s : s = head(k)
    OBVIOUS
  <2>2. s \in Seq(Nat) /\ Len(s) = k - 1 /\ k - 1 \in Nat /\ \A j \in 1..(k - 1) : s[j] = lens[j]
    BY <1>1, <2>1
  <2>3. PICK r \in [0..Len(s) -> Nat] : SumsLeft(r, k - 1, s) /\ r[Len(s)] = SumLeft(k - 1, s)
    BY <2>2, LeftSum
  <2>4. r[Len(s)] = Text!Before(lens, k)
    BY <1>2, <2>1, <2>3
  <2>5. r[0] = k - 1 /\ \A j \in 1..(k - 1) : r[j] = r[j - 1] + lens[j]
    BY <2>2, <2>3 DEF SumsLeft
  <2> QED
    BY <2>2, <2>4, <2>5
<1>4. Text!Before(lens, 1) = 0
  <2>1. 1 \in 1..(Len(lens) + 1)
    OBVIOUS
  <2>2. PICK r \in [0..(1 - 1) -> Nat] : r[0] = 1 - 1 /\ r[1 - 1] = Text!Before(lens, 1)
    BY <1>3, <2>1
  <2> QED
    BY <2>2
<1>5. \A k \in 1..(Len(lens) + 1) : Text!Before(lens, k) \in Nat
  <2> TAKE k \in 1..(Len(lens) + 1)
  <2>1. PICK r \in [0..(k - 1) -> Nat] : r[k - 1] = Text!Before(lens, k)
    BY <1>3
  <2> QED
    BY <2>1
<1>6. ASSUME NEW k \in 1..Len(lens)
      PROVE  Text!Before(lens, k + 1) = Text!Before(lens, k) + lens[k] + 1
  <2>1. k \in 1..(Len(lens) + 1) /\ k + 1 \in 1..(Len(lens) + 1) /\ (k + 1) - 1 = k /\ k - 1 \in Nat
    OBVIOUS
  <2>0. PICK m \in Nat : m = k - 1
    BY <2>1
  <2>9. \A j \in 1..k : lens[j] \in Nat
    OBVIOUS
  <2>2. PICK r \in [0..m -> Nat] :
           /\ r[0] = m /\ \A j \in 1..m : r[j] = r[j - 1] + lens[j]
           /\ r[m] = Text!Before(lens, k)
    BY <1>3, <2>0, <2>1
  <2>3. PICK q \in [0..k -> Nat] :
           /\ q[0] = k /\ \A j \in 1..k : q[j] = q[j - 1] + lens[j]
           /\ q[k] = Text!Before(lens, k + 1)
    BY <1>3, <2>1
  <2> DEFINE G == {j \in 0..m : q[j] = r[j] + 1}
  <2>4. 0 \in G
    BY <2>0, <2>2, <2>3, <2>9
  <2>5. ASSUME NEW j \in 1..m, j - 1 \in G PROVE j \in G
    <3>1. j - 1 \in 0..m /\ j \in 0..m /\ j \in 1..k /\ q[j - 1] = r[j - 1] + 1
      BY <2>0, <2>5
    <3>2. q[j] = q[j - 1] + lens[j] /\ r[j] = r[j - 1] + lens[j]
      BY <2>2, <2>3, <3>1
    <3>3. lens[j] \in Nat /\ r[j - 1] \in Nat
      BY <2>0, <2>2, <2>9, <3>1
    <3>4. q[j] = r[j] + 1
      <4>1. q[j] = (r[j - 1] + 1) + lens[j] /\ r[j] = r[j - 1] + lens[j]
        BY <3>1, <3>2
      <4>2. PICK a \in Nat, l \in Nat : a = r[j - 1] /\ l = lens[j]
        BY <3>3
      <4>3. q[j] = (a + 1) + l /\ r[j] = a + l
        BY <4>1, <4>2
      <4> QED
        BY <4>3
    <3> QED
      BY <3>1, <3>4
  <2> HIDE DEF G
  <2>6. 0..m \subseteq G
    BY <2>4, <2>5, CountInduction
  <2>7. q[m] = r[m] + 1
    BY <2>6 DEF G
  <2>8. q[k] = q[m] + lens[k] /\ lens[k] \in Nat /\ r[m] \in Nat
    BY <2>0, <2>2, <2>3, <2>9
  <2>10. q[k] = r[m] + lens[k] + 1
    BY <2>7, <2>8
  <2>11. r[m] = Text!Before(lens, k) /\ q[k] = Text!Before(lens, k + 1)
    BY <2>2, <2>3
  <2> QED
    BY <2>10, <2>11
<1> QED
  BY <1>4, <1>5, <1>6 DEF Stacks

\* A later section lies past all of an earlier one.
LEMMA LaterSection ==
    ASSUME NEW lens \in Seq(Nat), NEW j \in 1..Len(lens), NEW k \in (j + 1)..(Len(lens) + 1)
    PROVE  Text!Before(lens, j) + lens[j] + 1 <= Text!Before(lens, k)
<1> DEFINE n == Len(lens) + 1
           b == [i \in 0..n |-> Text!Before(lens, i)]
           G == {i \in 0..n : j < i => b[j] + lens[j] + 1 <= b[i]}
<1>1. /\ n \in Nat /\ \A i \in 1..n : b[i] \in Nat
      /\ \A i \in 1..(n - 1) : b[i + 1] = b[i] + lens[i] + 1 /\ lens[i] \in Nat
  BY BeforeStacks DEF Stacks
<1>2. b[j] = Text!Before(lens, j) /\ b[k] = Text!Before(lens, k) /\ j \in 1..(n - 1) /\ k \in 0..n /\ j < k
  OBVIOUS
<1> HIDE DEF n, b
<1>3. 0 \in G
  BY <1>1, <1>2
<1>4. ASSUME NEW i \in 1..n, i - 1 \in G PROVE i \in G
  <2>1. CASE j < i - 1
    <3>1. i - 1 \in 1..(n - 1) /\ (i - 1) + 1 = i /\ b[j] + lens[j] + 1 <= b[i - 1]
      BY <1>1, <1>2, <1>4, <2>1
    <3>2. b[i] = b[i - 1] + lens[i - 1] + 1 /\ lens[i - 1] \in Nat
      BY <1>1, <3>1
    <3>3. b[i - 1] \in Nat /\ b[j] \in Nat /\ lens[j] \in Nat
      BY <1>1, <1>2, <3>1
    <3> QED
      <4>1. PICK p, q, r, u, v : p = b[i - 1] /\ q = b[i] /\ r = lens[i - 1] /\ u = b[j] /\ v = lens[j]
        OBVIOUS
      <4>2. p \in Nat /\ r \in Nat /\ u \in Nat /\ v \in Nat
        BY <3>2, <3>3, <4>1, Zenon
      <4>3. u + v + 1 <= p /\ q = p + r + 1
        BY <3>1, <3>2, <4>1, Zenon
      <4>4. u + v + 1 <= q
        BY <4>2, <4>3
      <4>5. i \in 0..n /\ (j < i => b[j] + lens[j] + 1 <= b[i])
        BY <1>4, <4>1, <4>4
      <4> QED
        BY <4>5
  <2>2. CASE j = i - 1
    <3>1. b[j + 1] = b[j] + lens[j] + 1 /\ i = j + 1 /\ b[i] \in Nat
      BY <1>1, <1>2, <2>2
    <3> QED
      BY <1>1, <3>1
  <2>3. CASE ~(j < i)
    BY <1>1, <2>3
  <2> QED
    BY <1>2, <2>1, <2>2, <2>3
<1> HIDE DEF G
<1>5. 0..n \subseteq G
  BY <1>1, <1>3, <1>4, CountInduction
<1> QED
  BY <1>2, <1>5 DEF G

\* split_sections, a character at a time.
LayOp(lens, c) ==
    IF c = Break THEN Append(lens, 0) ELSE [lens EXCEPT ![Len(lens)] = @ + 1]

LayIter(g, t) ==
    g = [d \in SUBSET DOMAIN t |-> IF d = {} THEN <<0>> ELSE LayOp(g[d \ {Max(d)}], t[Max(d)])]

Lengths == Seq(Nat) \ {<<>>}

Lays(r, t) == r[0] = <<0>> /\ \A k \in 1..Len(t) : r[k] = LayOp(r[k - 1], t[k])

LEMMA LayOpLengths ==
    ASSUME NEW lens \in Lengths, NEW c
    PROVE  /\ LayOp(lens, c) \in Lengths
           /\ Len(LayOp(lens, c)) = IF c = Break THEN Len(lens) + 1 ELSE Len(lens)
           /\ \A k \in 1..(Len(lens) - 1) : LayOp(lens, c)[k] = lens[k]
           /\ LayOp(lens, c)[Len(lens)] = IF c = Break THEN lens[Len(lens)] ELSE lens[Len(lens)] + 1
           /\ c = Break => LayOp(lens, c)[Len(lens) + 1] = 0
<1>1. lens \in Seq(Nat) /\ Len(lens) \in Nat /\ Len(lens) > 0
  BY DEF Lengths
<1>2. CASE c = Break
  BY <1>1, <1>2 DEF LayOp, Lengths
<1>3. CASE c # Break
  <2>1. Len(lens) \in 1..Len(lens) /\ lens[Len(lens)] + 1 \in Nat
    BY <1>1
  <2>2. PICK e : e = [lens EXCEPT ![Len(lens)] = @ + 1]
    OBVIOUS
  <2>3. /\ e \in Seq(Nat) /\ Len(e) = Len(lens)
        /\ \A j \in 1..Len(lens) : e[j] = IF j = Len(lens) THEN lens[Len(lens)] + 1 ELSE lens[j]
    BY <1>1, <2>1, <2>2, ExceptSeq
  <2>4. LayOp(lens, c) = e
    BY <1>3, <2>2 DEF LayOp
  <2>5. e # <<>>
    BY <1>1, <2>3
  <2>6. \A k \in 1..(Len(lens) - 1) : e[k] = lens[k]
    BY <1>1, <2>3
  <2> QED
    BY <1>1, <1>3, <2>1, <2>3, <2>4, <2>5, <2>6 DEF Lengths
<1> QED
  BY <1>2, <1>3

LEMMA LayoutRuns ==
    ASSUME NEW A, NEW T, NEW t \in Seq(A), t = Text!Take(T, MaxLen)
    PROVE  \E r \in [0..Len(t) -> Lengths] : Lays(r, t) /\ r[Len(t)] = Text!Layout(T)
<1>1. PICK iter : iter = CHOOSE g : LayIter(g, t)
  OBVIOUS
<1>2. Text!Layout(T) = iter[DOMAIN t]
  BY <1>1 DEF Text!Layout, Text!FoldLeft, Text!MapThenFoldSet, Text!Max, Max, LayIter, LayOp
<1> DEFINE n == Len(t)
<1>3. n \in Nat /\ DOMAIN t = 1..n
  OBVIOUS
<1> HIDE DEF n
<1> DEFINE step == [q \in (1..n) \X Lengths |-> LayOp(q[2], t[q[1]])]
<1>4. /\ step \in [(1..n) \X Lengths -> Lengths]
      /\ \A i \in 1..n : \A v \in Lengths : step[<<i, v>>] = LayOp(v, t[i])
  <2>1. \A q \in (1..n) \X Lengths : LayOp(q[2], t[q[1]]) \in Lengths
    BY LayOpLengths
  <2> QED
    BY <2>1
<1> HIDE DEF step
<1>0. <<0>> \in Lengths
  BY DEF Lengths
<1>5. PICK h \in [SUBSET (1..n) -> Lengths] : LeftIter(h, n, <<0>>, step)
  BY <1>0, <1>3, <1>4, LeftIterExists
<1>6. \A d \in SUBSET (1..n) : d # {} => Max(d) \in 1..n /\ d \ {Max(d)} \in SUBSET (1..n)
  BY <1>3, MaxOfSome
<1>7. LayIter(h, t)
  <2>1. \A d \in SUBSET (1..n) :
          h[d] = IF d = {} THEN <<0>> ELSE LayOp(h[d \ {Max(d)}], t[Max(d)])
    BY <1>4, <1>5, <1>6 DEF LeftIter
  <2> QED
    BY <1>3, <1>5, <2>1 DEF LayIter
<1>8. LayIter(iter, t)
  BY <1>1, <1>7
<1>9. /\ iter[{}] = <<0>>
      /\ \A d \in SUBSET (1..n) : d # {} => iter[d] = LayOp(iter[d \ {Max(d)}], t[Max(d)])
  BY <1>3, <1>8 DEF LayIter
<1> DEFINE r == [k \in 0..n |-> iter[1..k]]
<1>10. /\ r[0] = <<0>> /\ r[n] = iter[1..n]
       /\ \A k \in 1..n : r[k] = LayOp(r[k - 1], t[k])
  <2>1. 1..0 = {} /\ 0 \in 0..n /\ n \in 0..n
    BY <1>3
  <2>2. r[0] = <<0>>
    <3>1. r[0] = iter[1..0]
      BY <2>1
    <3> QED
      BY <1>9, <2>1, <3>1
  <2>3. r[n] = iter[1..n]
    BY <2>1
  <2>4. ASSUME NEW k \in 1..n PROVE r[k] = LayOp(r[k - 1], t[k])
    <3>0. k \in Nat \ {0} /\ k \in 1..k /\ k - 1 \in 0..n /\ k \in 0..n
      BY <1>3
    <3>1. 1..k \in SUBSET (1..n) /\ 1..k # {}
      <4>1. \A j \in 1..k : j \in 1..n
        BY <1>3
      <4>2. 1..k # {}
        BY <3>0
      <4>3. 1..k \subseteq 1..n
        BY <4>1
      <4> QED
        BY <4>2, <4>3
    <3>2. iter[1..k] = LayOp(iter[1..(k - 1)], t[k])
      BY <1>9, <3>0, <3>1, LastIsMax
    <3> QED
      BY <3>0, <3>2
  <2> QED
    BY <2>2, <2>3, <2>4
<1> HIDE DEF r
<1>11. \A k \in 0..n : r[k] \in Lengths
  <2> DEFINE G == {k \in 0..n : r[k] \in Lengths}
  <2>1. 0 \in G
    BY <1>0, <1>3, <1>10
  <2>3. ASSUME NEW k \in 1..n, k - 1 \in G PROVE k \in G
    <3>1. r[k] = LayOp(r[k - 1], t[k]) /\ r[k - 1] \in Lengths /\ k \in 0..n
      BY <1>3, <1>10, <2>3
    <3> QED
      BY <3>1, LayOpLengths
  <2> HIDE DEF G
  <2>2. 0..n \subseteq G
    BY <1>3, <2>1, <2>3, CountInduction
  <2> QED
    BY <2>2 DEF G
<1>12. r \in [0..n -> Lengths]
  BY <1>11 DEF r
<1>13. Lays(r, t)
  BY <1>10 DEF Lays, n
<1>14. r[Len(t)] = Text!Layout(T)
  BY <1>2, <1>3, <1>10 DEF n
<1> QED
  BY <1>12, <1>13, <1>14 DEF n

\* The layout of what begins like another: the last section may be longer, and
\* more may follow.
Begins(lens, more) ==
    /\ Len(lens) <= Len(more)
    /\ \A k \in 1..(Len(lens) - 1) : more[k] = lens[k]
    /\ lens[Len(lens)] <= more[Len(lens)]

\* Where the caret stands past all of a layout.
EndOf(lens) == Text!Place(Len(lens), lens[Len(lens)])

\* After i characters the layout reaches i.
ReachesTo(lens, i) ==
    /\ Text!Before(lens, Len(lens)) + lens[Len(lens)] = i
    /\ Len(lens) <= i + 1 /\ lens[Len(lens)] <= i

\* Before a section is only what the sections before it hold.
LEMMA SameBefore ==
    ASSUME NEW lens \in Seq(Nat), NEW more \in Seq(Nat), NEW k \in 1..(Len(lens) + 1),
           k <= Len(more) + 1, \A j \in 1..(k - 1) : more[j] = lens[j]
    PROVE  Text!Before(more, k) = Text!Before(lens, k)
<1>1. SubSeq(more, 1, k - 1) = SubSeq(lens, 1, k - 1)
  OBVIOUS
<1> QED
  BY <1>1 DEF Text!Before, Text!FoldLeft, Text!MapThenFoldSet

LEMMA LayOpReaches ==
    ASSUME NEW lens \in Lengths, NEW c, NEW i \in Nat, ReachesTo(lens, i)
    PROVE  ReachesTo(LayOp(lens, c), i + 1) /\ Begins(lens, LayOp(lens, c))
<1>1. PICK l, v : l = Len(lens) /\ v = LayOp(lens, c)
  OBVIOUS
<1>0. /\ v \in Lengths
      /\ Len(v) = IF c = Break THEN l + 1 ELSE l
      /\ \A k \in 1..(l - 1) : v[k] = lens[k]
      /\ v[l] = IF c = Break THEN lens[l] ELSE lens[l] + 1
      /\ c = Break => v[l + 1] = 0
  BY <1>1, LayOpLengths
<1>7. v \in Seq(Nat) /\ l \in Nat /\ l > 0 /\ lens \in Seq(Nat)
  BY <1>0, <1>1 DEF Lengths
<1>2. /\ v \in Lengths /\ v \in Seq(Nat) /\ l \in Nat /\ l > 0 /\ lens \in Seq(Nat)
      /\ Len(v) = IF c = Break THEN l + 1 ELSE l
      /\ \A k \in 1..(l - 1) : v[k] = lens[k]
      /\ v[l] = IF c = Break THEN lens[l] ELSE lens[l] + 1
      /\ c = Break => v[l + 1] = 0
  BY <1>0, <1>7
<1>3. lens[l] \in Nat /\ lens[l] <= i /\ l <= i + 1 /\ Text!Before(lens, l) + lens[l] = i
  BY <1>1, <1>2 DEF ReachesTo
<1>4. Text!Before(v, l) = Text!Before(lens, l) /\ Text!Before(lens, l) \in Nat
  <2>1. l \in 1..(Len(lens) + 1) /\ l <= Len(v) + 1
    BY <1>1, <1>2
  <2> QED
    BY <1>2, <2>1, SameBefore, BeforeStacks DEF Stacks
<1>5. Begins(lens, v)
  BY <1>1, <1>2, <1>3 DEF Begins
<1>6. ReachesTo(v, i + 1)
  <2>1. CASE c = Break
    <3>0. l \in 1..Len(v) /\ Stacks(v)
      BY <1>2, <2>1, BeforeStacks
    <3>1. Text!Before(v, l + 1) = Text!Before(v, l) + v[l] + 1
      BY <3>0 DEF Stacks
    <3>2. Text!Before(v, l + 1) + 0 = i + 1
      BY <1>2, <1>3, <1>4, <2>1, <3>1
    <3> QED
      BY <1>2, <1>3, <2>1, <3>2 DEF ReachesTo
  <2>2. CASE c # Break
    <3>0. PICK b \in Nat, w \in Nat : b = Text!Before(lens, l) /\ w = lens[l]
      BY <1>3, <1>4
    <3>4. v[l] = w + 1 /\ Text!Before(v, l) = b /\ b + w = i
      BY <1>2, <1>3, <1>4, <2>2, <3>0
    <3>1. Text!Before(v, l) + v[l] = i + 1
      BY <3>4
    <3> QED
      BY <1>2, <1>3, <2>2, <3>1 DEF ReachesTo
  <2> QED
    BY <2>1, <2>2
<1> QED
  BY <1>1, <1>5, <1>6

LEMMA BeginsOn ==
    ASSUME NEW a \in Lengths, NEW b \in Lengths, NEW c \in Lengths, Begins(a, b), Begins(b, c)
    PROVE  Begins(a, c)
<1>1. PICK l, m : l = Len(a) /\ m = Len(b)
  OBVIOUS
<1>2. /\ l \in Nat /\ l > 0 /\ m \in Nat /\ Len(c) \in Nat /\ l <= m /\ m <= Len(c)
      /\ a[l] \in Nat /\ b[l] \in Nat /\ c[l] \in Nat /\ c[m] \in Nat /\ b[m] \in Nat
  <2>1. /\ a \in Seq(Nat) /\ b \in Seq(Nat) /\ c \in Seq(Nat)
        /\ l \in Nat /\ m \in Nat /\ Len(c) \in Nat /\ l # 0 /\ m # 0
    BY <1>1 DEF Lengths
  <2>2. l <= m /\ m <= Len(c)
    BY <1>1 DEF Begins
  <2>3. l \in 1..Len(a) /\ l \in 1..Len(b) /\ l \in 1..Len(c) /\ m \in 1..Len(b) /\ m \in 1..Len(c)
    BY <1>1, <2>1, <2>2
  <2>4. a[l] \in Nat /\ b[l] \in Nat /\ c[l] \in Nat /\ c[m] \in Nat /\ b[m] \in Nat
    BY <2>1, <2>3, ElementOfSeq, Zenon
  <2>5. l > 0
    BY <2>1
  <2> QED
    BY <2>1, <2>2, <2>4, <2>5, Zenon
<1>3. /\ \A k \in 1..(l - 1) : b[k] = a[k]
      /\ \A k \in 1..(m - 1) : c[k] = b[k]
      /\ a[l] <= b[l] /\ b[m] <= c[m]
  BY <1>1 DEF Begins
<1>4. \A k \in 1..(l - 1) : c[k] = a[k]
  BY <1>2, <1>3
<1>5. a[l] <= c[l]
  <2>1. CASE l = m
    BY <1>2, <1>3, <2>1
  <2>2. CASE l # m
    <3>1. c[l] = b[l]
      BY <1>2, <1>3, <2>2
    <3> QED
      BY <1>2, <1>3, <3>1
  <2> QED
    BY <2>1, <2>2
<1>6. l <= Len(c)
  BY <1>2
<1> QED
  BY <1>1, <1>4, <1>5, <1>6 DEF Begins

\* The layouts of the beginnings of a text.
LEMMA RunReaches ==
    ASSUME NEW t, NEW n \in Nat, n = Len(t), NEW r \in [0..n -> Lengths], Lays(r, t)
    PROVE  /\ \A i \in 0..n : ReachesTo(r[i], i)
           /\ \A i \in 0..n : Begins(r[i], r[n])
<1>1. r[0] = <<0>> /\ \A k \in 1..n : r[k] = LayOp(r[k - 1], t[k])
  BY DEF Lays
<1>2. \A i \in 0..n : ReachesTo(r[i], i)
  <2> DEFINE G == {i \in 0..n : ReachesTo(r[i], i)}
  <2>1. 0 \in G
    <3>1. ReachesTo(<<0>>, 0)
      <4>1. <<0>> \in Seq(Nat) /\ Len(<<0>>) = 1 /\ <<0>>[1] = 0
        OBVIOUS
      <4>2. Text!Before(<<0>>, 1) = 0
        BY <4>1, BeforeStacks DEF Stacks
      <4> QED
        BY <4>1, <4>2 DEF ReachesTo
    <3> QED
      BY <1>1, <3>1
  <2>2. ASSUME NEW k \in 1..n, k - 1 \in G PROVE k \in G
    <3>1. k - 1 \in Nat /\ k \in 0..n /\ r[k - 1] \in Lengths /\ ReachesTo(r[k - 1], k - 1) /\ (k - 1) + 1 = k
      BY <2>2
    <3>2. ReachesTo(LayOp(r[k - 1], t[k]), (k - 1) + 1)
      BY <3>1, LayOpReaches
    <3> QED
      BY <1>1, <3>1, <3>2
  <2> HIDE DEF G
  <2>3. 0..n \subseteq G
    BY <2>1, <2>2, CountInduction
  <2> QED
    BY <2>3 DEF G
<1>3. ASSUME NEW i \in 0..n PROVE Begins(r[i], r[n])
  <2> DEFINE G == {j \in 0..n : i <= j => Begins(r[i], r[j])}
  <2>1. ASSUME NEW j \in 0..n, i = j PROVE Begins(r[i], r[j])
    <3>1. PICK v \in Lengths : v = r[i] /\ v = r[j]
      BY <2>1
    <3>2. Len(v) \in Nat /\ Len(v) > 0 /\ v[Len(v)] \in Nat
      BY DEF Lengths
    <3>3. Begins(v, v)
      BY <3>2 DEF Begins
    <3> QED
      BY <3>1, <3>3
  <2>2. 0 \in G
    BY <2>1
  <2>3. ASSUME NEW k \in 1..n, k - 1 \in G PROVE k \in G
    <3>1. CASE i <= k - 1
      <4>1. k - 1 \in 0..n /\ k - 1 \in Nat /\ k \in 0..n /\ Begins(r[i], r[k - 1]) /\ ReachesTo(r[k - 1], k - 1)
        BY <1>2, <2>3, <3>1
      <4>2. r[i] \in Lengths /\ r[k - 1] \in Lengths /\ r[k] \in Lengths
        BY <4>1
      <4>3. Begins(r[k - 1], r[k])
        BY <1>1, <4>1, <4>2, LayOpReaches
      <4>4. Begins(r[i], r[k])
        BY <4>1, <4>2, <4>3, BeginsOn
      <4> QED
        BY <4>1, <4>4
    <3>2. CASE i > k - 1
      <4>1. i >= k /\ k \in 0..n
        BY <3>2
      <4>2. i <= k => Begins(r[i], r[k])
        BY <2>1, <4>1
      <4> QED
        BY <4>1, <4>2
    <3> QED
      BY <3>1, <3>2
  <2> HIDE DEF G
  <2>4. 0..n \subseteq G
    BY <2>2, <2>3, CountInduction
  <2> QED
    BY <2>4 DEF G
<1> QED
  BY <1>2, <1>3

\* No section reaches past its layout.
LEMMA SectionWithin ==
    ASSUME NEW lens \in Lengths, NEW n \in Nat, ReachesTo(lens, n), NEW k \in 1..Len(lens)
    PROVE  /\ Text!Before(lens, k) \in Nat /\ lens[k] \in Nat
           /\ Text!Before(lens, k) + lens[k] <= n
           /\ Text!Before(lens, Len(lens) + 1) = n + 1
<1>1. PICK l : l = Len(lens)
  OBVIOUS
<1>2. l \in Nat /\ l > 0 /\ l \in 1..Len(lens) /\ l \in (1..(Len(lens) + 1)) /\ k \in 1..(Len(lens) + 1)
      /\ lens \in Seq(Nat) /\ lens[k] \in Nat /\ lens[l] \in Nat
  BY <1>1 DEF Lengths
<1>3. Stacks(lens) /\ Text!Before(lens, l) + lens[l] = n
  BY <1>1, <1>2, BeforeStacks DEF ReachesTo
<1>4. Text!Before(lens, k) \in Nat /\ Text!Before(lens, l) \in Nat
      /\ Text!Before(lens, l + 1) = Text!Before(lens, l) + lens[l] + 1
  BY <1>2, <1>3 DEF Stacks
<1>5. CASE k = l
  BY <1>1, <1>2, <1>3, <1>4, <1>5
<1>6. CASE k # l
  <2>1. l \in (k + 1)..(Len(lens) + 1)
    BY <1>1, <1>2, <1>6
  <2>2. Text!Before(lens, k) + lens[k] + 1 <= Text!Before(lens, l)
    BY <1>2, <2>1, LaterSection
  <2>3. PICK b \in Nat, v \in Nat, c \in Nat, w \in Nat :
           b = Text!Before(lens, k) /\ v = lens[k] /\ c = Text!Before(lens, l) /\ w = lens[l]
    BY <1>2, <1>4
  <2>4. b + v + 1 <= c /\ c + w = n
    BY <1>3, <2>2, <2>3
  <2>5. b + v <= n /\ c + w + 1 = n + 1
    BY <2>4
  <2> QED
    BY <1>1, <1>2, <1>4, <2>3, <2>5
<1> QED
  BY <1>5, <1>6

\* A place recorded after i characters is found again in whatever begins with
\* them.
LEMMA PlaceAfter ==
    ASSUME NEW lens \in Lengths, NEW more \in Lengths, NEW i \in Nat, NEW n \in Nat,
           ReachesTo(lens, i), ReachesTo(more, n), Begins(lens, more)
    PROVE  /\ Text!PlaceOf(more, i) = EndOf(lens)
           /\ Text!IndexOf(more, EndOf(lens)) = i
<1>1. PICK l : l = Len(lens)
  OBVIOUS
<1>2. /\ l \in Nat /\ l > 0 /\ Len(more) \in Nat /\ l <= Len(more) /\ DOMAIN more = 1..Len(more)
      /\ l \in 1..Len(more) /\ lens[l] \in Nat /\ more[l] \in Nat /\ lens[l] <= more[l]
      /\ lens \in Seq(Nat) /\ more \in Seq(Nat) /\ \A k \in 1..(l - 1) : more[k] = lens[k]
  BY <1>1 DEF Lengths, Begins
<1>3. Text!Before(more, l) = Text!Before(lens, l) /\ Text!Before(more, l) + lens[l] = i
  <2>1. l \in 1..(Len(lens) + 1) /\ l <= Len(more) + 1
    BY <1>1, <1>2
  <2>2. Text!Before(more, l) = Text!Before(lens, l)
    BY <1>2, <2>1, SameBefore
  <2> QED
    BY <1>1, <2>2 DEF ReachesTo
<1>4. Text!Before(more, l) \in Nat
  BY <1>2, SectionWithin
<1>5. ASSUME NEW k \in 1..Len(more), i <= Text!Before(more, k) + more[k] PROVE l <= k
  <2>1. SUFFICES ASSUME k < l PROVE FALSE
    BY <1>2
  <2>2. l \in (k + 1)..(Len(more) + 1)
    BY <1>2, <2>1
  <2>3. Text!Before(more, k) + more[k] + 1 <= Text!Before(more, l)
    BY <1>2, <2>2, LaterSection
  <2>4. PICK b \in Nat, v \in Nat, c \in Nat, w \in Nat :
           b = Text!Before(more, k) /\ v = more[k] /\ c = Text!Before(more, l) /\ w = lens[l]
    BY <1>2, <1>4, SectionWithin
  <2>5. b + v + 1 <= c /\ c + w = i /\ i <= b + v
    BY <1>3, <1>5, <2>3, <2>4
  <2>6. b \in Nat /\ v \in Nat /\ c \in Nat /\ w \in Nat
    OBVIOUS
  <2>7. c <= b + v
    BY <2>5, <2>6
  <2> QED
    BY <2>5, <2>6, <2>7
<1>6. i <= Text!Before(more, l) + more[l]
  BY <1>2, <1>3, <1>4
<1> DEFINE reach == {k \in DOMAIN more : i <= Text!Before(more, k) + more[k]}
<1>7. l \in reach /\ \A k \in reach : l <= k /\ k \in Nat
  BY <1>2, <1>5, <1>6
<1>8. Text!PlaceOf(more, i) = IF reach = {} THEN Text!Place(Len(more), more[Len(more)])
         ELSE Text!Place(CHOOSE k \in reach : \A j \in reach : k <= j,
                         i - Text!Before(more, CHOOSE k \in reach : \A j \in reach : k <= j))
  BY DEF Text!PlaceOf
<1> HIDE DEF reach
<1>9. (CHOOSE k \in reach : \A j \in reach : k <= j) = l
  <2>1. \A k \in reach : (\A j \in reach : k <= j) => k = l
    BY <1>2, <1>7
  <2>2. \E k \in reach : \A j \in reach : k <= j
    BY <1>7
  <2> QED
    BY <2>1, <2>2
<1>10. Text!PlaceOf(more, i) = Text!Place(l, i - Text!Before(more, l))
  BY <1>7, <1>8, <1>9
<1>11. i - Text!Before(more, l) = lens[l]
  BY <1>2, <1>3, <1>4
<1>12. Text!PlaceOf(more, i) = EndOf(lens)
  BY <1>1, <1>10, <1>11 DEF EndOf
<1>13. Text!IndexOf(more, EndOf(lens)) = i
  <2>1. EndOf(lens).section = l /\ EndOf(lens).word = lens[l]
    BY <1>1 DEF EndOf, Text!Place
  <2>2. Text!IndexOf(more, EndOf(lens)) = Text!Before(more, l) + lens[l]
    BY <1>2, <2>1 DEF Text!IndexOf
  <2> QED
    BY <1>3, <2>2
<1> QED
  BY <1>12, <1>13

LEMMA PlacePast ==
    ASSUME NEW lens \in Lengths, NEW n \in Nat, ReachesTo(lens, n), NEW i \in Nat, i > n
    PROVE  Text!PlaceOf(lens, i) = EndOf(lens)
<1>1. DOMAIN lens = 1..Len(lens)
  BY DEF Lengths
<1>2. \A k \in DOMAIN lens : ~(i <= Text!Before(lens, k) + lens[k])
  <2> TAKE k \in DOMAIN lens
  <2>1. PICK b \in Nat, v \in Nat : b = Text!Before(lens, k) /\ v = lens[k] /\ b + v <= n
    BY <1>1, SectionWithin
  <2>2. ~(i <= b + v)
    BY <2>1
  <2> QED
    BY <2>1, <2>2
<1>3. {k \in DOMAIN lens : i <= Text!Before(lens, k) + lens[k]} = {}
  BY <1>2
<1> QED
  BY <1>3 DEF Text!PlaceOf, EndOf

\* A place of any kind.
Places == [section : Nat \ {0}, word : Nat]

\* The place that is not the earlier one.
Other(p, q) == IF Text!Earlier(p, q) = p THEN q ELSE p

\* Any place has an index in the layout.
LEMMA IndexWithin ==
    ASSUME NEW lens \in Lengths, NEW n \in Nat, ReachesTo(lens, n), NEW p \in Places
    PROVE  Text!IndexOf(lens, p) \in 0..n
<1>1. DOMAIN lens = 1..Len(lens) /\ p.section \in Nat /\ p.word \in Nat /\ Len(lens) \in 1..Len(lens)
  BY DEF Lengths, Places
<1>2. CASE p.section \in DOMAIN lens
  <2>0. PICK k \in 1..Len(lens) : k = p.section
    BY <1>1, <1>2
  <2>3. Text!Before(lens, k) \in Nat /\ lens[k] \in Nat /\ Text!Before(lens, k) + lens[k] <= n
    BY SectionWithin
  <2>1. PICK b \in Nat, v \in Nat : b = Text!Before(lens, p.section) /\ v = lens[p.section] /\ b + v <= n
    BY <2>0, <2>3
  <2>2. Text!IndexOf(lens, p) = b + IF p.word > v THEN v ELSE p.word
    BY <1>2, <2>1 DEF Text!IndexOf
  <2> QED
    BY <1>1, <2>1, <2>2
<1>3. CASE p.section \notin DOMAIN lens
  <2>1. Text!Before(lens, Len(lens) + 1) = n + 1
    BY <1>1, SectionWithin
  <2>2. Text!IndexOf(lens, p) = (n + 1) - 1
    BY <1>3, <2>1 DEF Text!IndexOf
  <2> QED
    BY <2>2
<1> QED
  BY <1>2, <1>3

\* Of two places the earlier has no greater index.
LEMMA IndexOrdered ==
    ASSUME NEW lens \in Lengths, NEW n \in Nat, ReachesTo(lens, n), NEW p \in Places, NEW q \in Places,
           p.section < q.section \/ (p.section = q.section /\ p.word <= q.word)
    PROVE  Text!IndexOf(lens, p) <= Text!IndexOf(lens, q)
<1>1. /\ DOMAIN lens = 1..Len(lens) /\ Len(lens) \in 1..Len(lens) /\ lens \in Seq(Nat)
      /\ p.section \in Nat /\ p.word \in Nat /\ q.section \in Nat /\ q.word \in Nat
      /\ p.section > 0 /\ q.section > 0
  BY DEF Lengths, Places
<1>2. Text!IndexOf(lens, p) \in 0..n /\ Text!IndexOf(lens, q) \in 0..n
  BY IndexWithin
<1>3. CASE q.section \notin DOMAIN lens
  <2>1. Text!IndexOf(lens, q) = (n + 1) - 1
    BY <1>1, <1>3, SectionWithin DEF Text!IndexOf
  <2> QED
    BY <1>2, <2>1
<1>4. CASE q.section \in DOMAIN lens
  <2>1. p.section \in DOMAIN lens
    BY <1>1, <1>4
  <2>2. PICK b \in Nat, v \in Nat, c \in Nat, w \in Nat :
           /\ b = Text!Before(lens, p.section) /\ v = lens[p.section]
           /\ c = Text!Before(lens, q.section) /\ w = lens[q.section]
    BY <1>1, <1>4, <2>1, SectionWithin
  <2>3. /\ Text!IndexOf(lens, p) = b + IF p.word > v THEN v ELSE p.word
        /\ Text!IndexOf(lens, q) = c + IF q.word > w THEN w ELSE q.word
    BY <1>4, <2>1, <2>2 DEF Text!IndexOf
  <2>4. CASE p.section = q.section
    <3>1. b = c /\ v = w /\ p.word <= q.word
      BY <1>1, <2>2, <2>4
    <3> QED
      BY <1>1, <2>3, <3>1
  <2>5. CASE p.section < q.section
    <3>1. p.section \in 1..Len(lens) /\ q.section \in (p.section + 1)..(Len(lens) + 1)
      BY <1>1, <1>4, <2>1, <2>5
    <3>2. b + v + 1 <= c
      BY <1>1, <2>2, <3>1, LaterSection
    <3>3. PICK y \in Nat, z \in Nat : y = Text!IndexOf(lens, p) /\ z = Text!IndexOf(lens, q)
      BY <1>2
    <3>4. y <= b + v /\ c <= z
      BY <1>1, <2>3, <3>3
    <3>5. y <= z
      BY <3>2, <3>4
    <3> QED
      BY <3>3, <3>5
  <2> QED
    BY <2>4, <2>5
<1> QED
  BY <1>3, <1>4

LEMMA EarlierFirst ==
    ASSUME NEW lens \in Lengths, NEW n \in Nat, ReachesTo(lens, n), NEW p \in Places, NEW q \in Places
    PROVE  Text!IndexOf(lens, Text!Earlier(p, q)) <= Text!IndexOf(lens, Other(p, q))
<1>1. /\ p.section \in Nat /\ p.word \in Nat /\ q.section \in Nat /\ q.word \in Nat
      /\ p = [section |-> p.section, word |-> p.word] /\ q = [section |-> q.section, word |-> q.word]
  BY DEF Places
<1>2. CASE p.section < q.section \/ (p.section = q.section /\ p.word <= q.word)
  <2>1. Text!Earlier(p, q) = p /\ Other(p, q) = q
    BY <1>2 DEF Text!Earlier, Other
  <2> QED
    BY <1>2, <2>1, IndexOrdered
<1>3. CASE ~(p.section < q.section \/ (p.section = q.section /\ p.word <= q.word))
  <2>1. q.section < p.section \/ (q.section = p.section /\ q.word <= p.word)
    BY <1>1, <1>3
  <2>2. Text!Earlier(p, q) = q
    BY <1>3 DEF Text!Earlier
  <2>3. p # q
    BY <1>1, <1>3
  <2>4. Other(p, q) = p
    BY <2>2, <2>3 DEF Other
  <2> QED
    BY <2>1, <2>2, <2>4, IndexOrdered
<1> QED
  BY <1>2, <1>3

----------------------------------------------------------------------------
(* The edit control: places of a text.                                     *)

Texts == Seq(Text!Characters)

\* How much of a text is laid out.
Width(T) == IF MaxLen < Len(T) THEN MaxLen ELSE Len(T)

LEMMA WidthIs ==
    ASSUME MaxLen \in Nat, NEW T \in Texts
    PROVE  /\ Width(T) \in Nat /\ Width(T) <= MaxLen /\ Width(T) <= Len(T) /\ Len(T) \in Nat
           /\ Text!Take(T, MaxLen) \in Texts /\ Len(Text!Take(T, MaxLen)) = Width(T)
           /\ \A k \in 1..Width(T) : Text!Take(T, MaxLen)[k] = T[k]
<1>1. T \in Seq(Text!Characters) /\ Len(T) \in Nat
  BY DEF Texts
<1>2. Text!Take(T, MaxLen) = SubSeq(T, 1, Width(T))
  BY DEF Text!Take, Width
<1>3. Width(T) \in Nat /\ Width(T) <= MaxLen /\ Width(T) <= Len(T)
  BY <1>1 DEF Width
<1> QED
  BY <1>1, <1>2, <1>3 DEF Texts

\* The layout of a text and of its beginnings.
TextRun(r, T) ==
    /\ r \in [0..Width(T) -> Lengths]
    /\ r[0] = <<0>> /\ \A k \in 1..Width(T) : r[k] = LayOp(r[k - 1], T[k])
    /\ \A i \in 0..Width(T) : ReachesTo(r[i], i) /\ Begins(r[i], r[Width(T)])
    /\ Text!Layout(T) = r[Width(T)]

LEMMA TextRuns ==
    ASSUME MaxLen \in Nat, NEW T \in Texts
    PROVE  \E r : TextRun(r, T)
<1>1. PICK t, n : t = Text!Take(T, MaxLen) /\ n = Width(T)
  OBVIOUS
<1>2. /\ n \in Nat /\ t \in Seq(Text!Characters) /\ n = Len(t)
      /\ \A k \in 1..n : t[k] = T[k]
  BY <1>1, WidthIs DEF Texts
<1>3. PICK r \in [0..n -> Lengths] : Lays(r, t) /\ r[n] = Text!Layout(T)
  BY <1>1, <1>2, LayoutRuns
<1>4. \A i \in 0..n : ReachesTo(r[i], i) /\ Begins(r[i], r[n])
  BY <1>2, <1>3, RunReaches
<1>5. r[0] = <<0>> /\ \A k \in 1..n : r[k] = LayOp(r[k - 1], T[k])
  BY <1>2, <1>3 DEF Lays
<1> QED
  BY <1>1, <1>3, <1>4, <1>5 DEF TextRun

\* Two texts begin with the same i characters.
Alike(T, U, i) ==
    i <= Width(T) /\ i <= Width(U) /\ \A k \in 1..i : T[k] = U[k]

\* A place recorded in one text is found again in another that is the same up
\* to it.
LEMMA SamePlace ==
    ASSUME MaxLen \in Nat, NEW T \in Texts, NEW U \in Texts, NEW i \in Nat, Alike(T, U, i)
    PROVE  /\ Text!PlaceOf(Text!Layout(T), i) = Text!PlaceOf(Text!Layout(U), i)
           /\ Text!IndexOf(Text!Layout(U), Text!PlaceOf(Text!Layout(T), i)) = i
<1>1. PICK m, n : m = Width(T) /\ n = Width(U)
  OBVIOUS
<1>2. m \in Nat /\ n \in Nat /\ i <= m /\ i <= n /\ \A k \in 1..i : T[k] = U[k]
  BY <1>1, WidthIs DEF Alike
<1>3. PICK r : TextRun(r, T)
  BY TextRuns
<1>4. PICK s : TextRun(s, U)
  BY TextRuns
<1>5. r[0] = <<0>> /\ s[0] = <<0>> /\ \A k \in 1..i : r[k] = LayOp(r[k - 1], T[k]) /\ s[k] = LayOp(s[k - 1], U[k])
  BY <1>1, <1>2, <1>3, <1>4 DEF TextRun
<1>6. r[i] = s[i]
  <2> DEFINE G == {k \in 0..i : r[k] = s[k]}
  <2>1. 0 \in G
    BY <1>5
  <2>2. \A k \in 1..i : k - 1 \in G => k \in G
    BY <1>2, <1>5
  <2> HIDE DEF G
  <2>3. 0..i \subseteq G
    BY <2>1, <2>2, CountInduction
  <2> QED
    BY <2>3 DEF G
<1>7. PICK l, a, b : l = r[i] /\ a = r[m] /\ b = s[n]
  OBVIOUS
<1>8. /\ l \in Lengths /\ a \in Lengths /\ b \in Lengths /\ ReachesTo(l, i) /\ ReachesTo(a, m) /\ ReachesTo(b, n)
      /\ Begins(l, a) /\ Begins(l, b) /\ Text!Layout(T) = a /\ Text!Layout(U) = b
  <2>1. i \in 0..m /\ i \in 0..n /\ m \in 0..m /\ n \in 0..n
    BY <1>2
  <2> QED
    BY <1>1, <1>3, <1>4, <1>6, <1>7, <2>1 DEF TextRun
<1>9. Text!PlaceOf(a, i) = EndOf(l) /\ Text!PlaceOf(b, i) = EndOf(l) /\ Text!IndexOf(b, EndOf(l)) = i
  BY <1>2, <1>8, PlaceAfter
<1> QED
  BY <1>8, <1>9

LEMMA OwnPlace ==
    ASSUME MaxLen \in Nat, NEW T \in Texts, NEW i \in 0..Width(T)
    PROVE  Text!IndexOf(Text!Layout(T), Text!PlaceOf(Text!Layout(T), i)) = i
<1>1. i \in Nat /\ Alike(T, T, i)
  BY WidthIs DEF Alike
<1> QED
  BY <1>1, SamePlace

\* Every index has a place and every place an index.
LEMMA PlacesOfText ==
    ASSUME MaxLen \in Nat, NEW T \in Texts
    PROVE  /\ \A i \in Nat : Text!PlaceOf(Text!Layout(T), i) \in Text!PlaceType
           /\ \A p \in Text!PlaceType : Text!IndexOf(Text!Layout(T), p) \in 0..Width(T)
           /\ \A p, q \in Text!PlaceType :
                 Text!IndexOf(Text!Layout(T), Text!Earlier(p, q)) <= Text!IndexOf(Text!Layout(T), Other(p, q))
           /\ Text!Before(Text!Layout(T), Len(Text!Layout(T)) + 1) - 1 = Width(T)
<1>1. PICK n \in Nat : n = Width(T) /\ n <= MaxLen
  BY WidthIs
<1>2. PICK r : TextRun(r, T)
  BY TextRuns
<1>3. PICK a \in Lengths : a = Text!Layout(T) /\ ReachesTo(a, n)
  <2>1. n \in 0..n
    OBVIOUS
  <2> QED
    BY <1>1, <1>2, <2>1 DEF TextRun
<1>4. Text!PlaceType \subseteq Places
  BY DEF Text!PlaceType, Places
<1>5. ASSUME NEW i \in 0..n PROVE EndOf(r[i]) \in Text!PlaceType
  <2>1. PICK l \in Lengths : l = r[i] /\ ReachesTo(l, i)
    BY <1>1, <1>2 DEF TextRun
  <2>2. Len(l) \in Nat /\ Len(l) > 0 /\ l[Len(l)] \in Nat /\ Len(l) <= i + 1 /\ l[Len(l)] <= i
    BY <2>1 DEF Lengths, ReachesTo
  <2>3. Len(l) \in 1..(MaxLen + 1) /\ l[Len(l)] \in 0..MaxLen
    BY <1>1, <2>2
  <2> QED
    BY <2>1, <2>3 DEF EndOf, Text!Place, Text!PlaceType
<1>6. \A i \in Nat : Text!PlaceOf(a, i) \in Text!PlaceType
  <2> TAKE i \in Nat
  <2>1. CASE i <= n
    <3>1. PICK l \in Lengths : l = r[i] /\ ReachesTo(l, i) /\ Begins(l, a)
      BY <1>1, <1>2, <1>3, <2>1 DEF TextRun
    <3>2. Text!PlaceOf(a, i) = EndOf(l)
      BY <1>3, <3>1, PlaceAfter
    <3> QED
      BY <1>5, <2>1, <3>1, <3>2
  <2>2. CASE i > n
    <3>1. Text!PlaceOf(a, i) = EndOf(a)
      BY <1>3, <2>2, PlacePast
    <3>2. n \in 0..n /\ a = r[n]
      BY <1>1, <1>2, <1>3 DEF TextRun
    <3> QED
      BY <1>5, <3>1, <3>2
  <2> QED
    BY <2>1, <2>2
<1>7. Text!Before(a, Len(a) + 1) - 1 = n
  <2>1. 1 \in 1..Len(a)
    BY DEF Lengths
  <2>2. Text!Before(a, Len(a) + 1) = n + 1
    BY <1>3, <2>1, SectionWithin
  <2> QED
    BY <2>2
<1>8. \A p \in Text!PlaceType : Text!IndexOf(a, p) \in 0..n
  BY <1>3, <1>4, IndexWithin
<1>9. \A p, q \in Text!PlaceType : Text!IndexOf(a, Text!Earlier(p, q)) <= Text!IndexOf(a, Other(p, q))
  BY <1>3, <1>4, EarlierFirst
<1> QED
  BY <1>1, <1>3, <1>6, <1>7, <1>8, <1>9

----------------------------------------------------------------------------
(* The edit control: a replacement and its inverse.                        *)

EditType ==
    [text : Texts, items : Seq(Text!ItemType), pos : Nat,
     caret : Text!PlaceType, anchor : Text!PlaceType, active : Text!PlaceType]

\* s with what is between from and to replaced.
Spliced(s, from, to, insert) == SubSeq(s, 1, from) \o insert \o SubSeq(s, to + 1, Len(s))

\* What stands between two places of a sequence.
LEMMA SliceIs ==
    ASSUME NEW S, NEW s \in Seq(S), NEW m \in Nat, NEW n \in Nat, m <= n, n <= Len(s)
    PROVE  /\ SubSeq(s, m + 1, n) \in Seq(S)
           /\ Len(SubSeq(s, m + 1, n)) = n - m
           /\ \A k \in 1..(n - m) : SubSeq(s, m + 1, n)[k] = s[m + k]
<1>1. PICK l, t : l = m + 1 /\ t = SubSeq(s, m + 1, n)
  OBVIOUS
<1>2. l \in Int /\ n \in Int /\ \A i \in l..n : s[i] \in S
  <2>1. l \in Int /\ \A i \in l..n : i \in 1..Len(s)
    BY <1>1
  <2> QED
    BY <2>1, ElementOfSeq
<1>3. /\ t \in Seq(S) /\ Len(t) = IF l <= n THEN n - l + 1 ELSE 0
      /\ \A k \in 1..(n - l + 1) : t[k] = s[l + k - 1]
  BY <1>1, <1>2, SubSeqProperties
<1>4. Len(t) = n - m
  BY <1>1, <1>3
<1>5. \A k \in 1..(n - m) : t[k] = s[m + k]
  <2> TAKE k \in 1..(n - m)
  <2>1. k \in 1..(n - l + 1) /\ l + k - 1 = m + k
    BY <1>1
  <2> QED
    BY <1>3, <2>1
<1> QED
  BY <1>1, <1>3, <1>4, <1>5, Zenon

LEMMA JoinIs ==
    ASSUME NEW s \in Texts, NEW t \in Texts
    PROVE  /\ s \o t \in Texts /\ Len(s) \in Nat /\ Len(t) \in Nat
           /\ Len(s \o t) = Len(s) + Len(t)
           /\ \A k \in 1..Len(s) : (s \o t)[k] = s[k]
           /\ \A k \in 1..Len(t) : (s \o t)[Len(s) + k] = t[k]
<1>1. PICK S, u, m, n : S = Text!Characters /\ u = s \o t /\ m = Len(s) /\ n = Len(t)
  OBVIOUS
<1>2. s \in Seq(S) /\ t \in Seq(S) /\ Texts = Seq(S)
  BY <1>1 DEF Texts
<1>3. m \in Nat /\ n \in Nat
  BY <1>1, <1>2
<1>4. u \in Seq(S) /\ Len(u) = m + n
  BY <1>1, <1>2, ConcatProperties
<1>5. \A k \in 1..(m + n) : u[k] = IF k <= m THEN s[k] ELSE t[k - m]
  BY <1>1, <1>2, ConcatProperties
<1>6. \A k \in 1..m : u[k] = s[k]
  BY <1>3, <1>5
<1>7. \A k \in 1..n : u[m + k] = t[k]
  BY <1>3, <1>5
<1>8. u \in Texts
  BY <1>2, <1>4
<1> QED
  BY <1>1, <1>3, <1>4, <1>6, <1>7, <1>8

LEMMA SplicedIs ==
    ASSUME NEW s \in Texts, NEW from \in Nat, NEW to \in Nat, from <= Len(s), from <= to, NEW insert \in Texts
    PROVE  /\ Spliced(s, from, to, insert) \in Texts
           /\ \A k \in 1..from : Spliced(s, from, to, insert)[k] = s[k]
           /\ to <= Len(s) => Len(Spliced(s, from, to, insert)) = from + Len(insert) + (Len(s) - to)
           /\ from <= Len(Spliced(s, from, to, insert))
<1>1. PICK a, c : a = SubSeq(s, 1, from) /\ c = SubSeq(s, to + 1, Len(s))
  OBVIOUS
<1>2. a \in Texts /\ Len(a) = from /\ \A k \in 1..from : a[k] = s[k]
  BY <1>1 DEF Texts
<1>3. /\ c \in Texts /\ Len(c) \in Nat
      /\ to <= Len(s) => Len(c) = Len(s) - to
  <2>1. \A i \in (to + 1)..Len(s) : s[i] \in Text!Characters
    BY DEF Texts
  <2>2. to + 1 \in Int /\ Len(s) \in Int /\ Len(s) \in Nat
    BY DEF Texts
  <2>3. c \in Texts /\ Len(c) = IF to + 1 <= Len(s) THEN Len(s) - (to + 1) + 1 ELSE 0
    BY <1>1, <2>1, <2>2, SubSeqProperties DEF Texts
  <2> QED
    BY <2>2, <2>3
<1>4. insert \in Texts /\ Len(insert) \in Nat
  BY DEF Texts
<1>5. PICK b : b = a \o insert
  OBVIOUS
<1>6. b \in Texts /\ Len(b) = from + Len(insert) /\ \A k \in 1..from : b[k] = a[k]
  BY <1>2, <1>4, <1>5, JoinIs
<1>7. PICK d : d = b \o c
  OBVIOUS
<1>8. d \in Texts /\ Len(d) = Len(b) + Len(c) /\ \A k \in 1..from : d[k] = b[k]
  <2>1. d \in Texts /\ Len(d) = Len(b) + Len(c) /\ \A k \in 1..Len(b) : d[k] = b[k]
    BY <1>3, <1>6, <1>7, JoinIs
  <2> QED
    BY <1>4, <1>6, <2>1
<1>9. Spliced(s, from, to, insert) = d
  BY <1>1, <1>5, <1>7 DEF Spliced
<1>10. \A k \in 1..from : d[k] = s[k]
  BY <1>2, <1>6, <1>8
<1>11. /\ to <= Len(s) => Len(d) = from + Len(insert) + (Len(s) - to)
       /\ from <= Len(d)
  BY <1>3, <1>4, <1>6, <1>8
<1> QED
  BY <1>8, <1>9, <1>10, <1>11

\* What was put in is taken out again, and the other way around.
LEMMA SpliceBack ==
    ASSUME NEW s \in Texts, NEW i \in Nat, i <= Len(s), NEW chars \in Texts
    PROVE  Spliced(Spliced(s, i, i, chars), i, i + Len(chars), <<>>) = s
<1>1. PICK a, c : a = SubSeq(s, 1, i) /\ c = SubSeq(s, i + 1, Len(s))
  OBVIOUS
<1>2. /\ a \in Texts /\ Len(a) = i /\ c \in Texts /\ Len(c) = Len(s) - i /\ Len(s) \in Nat
      /\ \A k \in 1..i : a[k] = s[k]
      /\ \A k \in 1..(Len(s) - i) : c[k] = s[i + k]
      /\ chars \in Texts /\ Len(chars) \in Nat
  BY <1>1 DEF Texts
<1>3. PICK d : d = a \o chars \o c
  OBVIOUS
<1>4. /\ d \in Texts /\ Len(d) = i + Len(chars) + Len(c)
      /\ \A k \in 1..i : d[k] = a[k]
      /\ \A k \in 1..Len(c) : d[i + Len(chars) + k] = c[k]
  <2>1. PICK b : b = a \o chars
    OBVIOUS
  <2>2. b \in Texts /\ Len(b) = i + Len(chars) /\ \A k \in 1..i : b[k] = a[k]
    BY <1>2, <2>1, JoinIs
  <2>3. d = b \o c
    BY <1>3, <2>1
  <2>4. /\ d \in Texts /\ Len(d) = Len(b) + Len(c)
        /\ \A k \in 1..Len(b) : d[k] = b[k]
        /\ \A k \in 1..Len(c) : d[Len(b) + k] = c[k]
    <3>1. b \in Texts /\ c \in Texts
      BY <1>2, <2>2
    <3> QED
      BY <2>3, <3>1, JoinIs
  <2>5. \A k \in 1..i : k \in 1..Len(b)
    BY <1>2, <2>2
  <2> QED
    BY <2>2, <2>4, <2>5
<1>5. SubSeq(d, 1, i) = a
  BY <1>2, <1>4 DEF Texts
<1>6. SubSeq(d, i + Len(chars) + 1, Len(d)) = c
  <2>1. PICK n \in Nat : n = Len(chars)
    BY <1>2
  <2>2. \A j \in (i + n + 1)..Len(d) : d[j] \in Text!Characters
    BY <1>4, <2>1 DEF Texts
  <2>3. PICK b : b = SubSeq(d, i + n + 1, Len(d))
    OBVIOUS
  <2>4. /\ b \in Texts /\ Len(b) = Len(c)
        /\ \A k \in 1..Len(c) : b[k] = d[i + n + k]
    <3>1. /\ b \in Seq(Text!Characters)
          /\ Len(b) = IF i + n + 1 <= Len(d) THEN Len(d) - (i + n + 1) + 1 ELSE 0
          /\ \A k \in 1..(Len(d) - (i + n + 1) + 1) : b[k] = d[i + n + 1 + k - 1]
      BY <1>2, <1>4, <2>1, <2>2, <2>3, SubSeqProperties
    <3>2. Len(d) = i + n + Len(c) /\ Len(c) \in Nat
      BY <1>2, <1>4, <2>1
    <3> QED
      BY <3>1, <3>2 DEF Texts
  <2>5. \A k \in 1..Len(c) : b[k] = c[k]
    BY <1>4, <2>1, <2>4
  <2>6. b = c
    BY <1>2, <2>4, <2>5, SeqEqual DEF Texts
  <2> QED
    BY <2>1, <2>3, <2>6
<1>7. a \o <<>> \o c = s
  <2>1. a \o <<>> = a
    BY <1>2 DEF Texts
  <2>2. a \o c = s
    <3>1. PICK b : b = a \o c
      OBVIOUS
    <3>2. b \in Texts /\ Len(b) = Len(s) /\ \A k \in 1..Len(s) : b[k] = IF k <= i THEN a[k] ELSE c[k - i]
      BY <1>2, <3>1 DEF Texts
    <3>3. \A k \in 1..Len(s) : b[k] = s[k]
      BY <1>2, <3>2
    <3> QED
      BY <1>2, <3>1, <3>2, <3>3, SeqEqual DEF Texts
  <2> QED
    BY <2>1, <2>2
<1> QED
  BY <1>1, <1>3, <1>5, <1>6, <1>7 DEF Spliced

\* Taking out what stands between, and putting it back.
LEMMA SpliceOut ==
    ASSUME NEW s \in Texts, NEW from \in Nat, NEW to \in Nat, from <= to, to <= Len(s)
    PROVE  /\ SubSeq(s, from + 1, to) \in Texts /\ Len(SubSeq(s, from + 1, to)) = to - from
           /\ Spliced(Spliced(s, from, to, <<>>), from, from, SubSeq(s, from + 1, to)) = s
           /\ \A other : Spliced(Spliced(s, from, to, <<>>), from, from, other) = Spliced(s, from, to, other)
<1>1. PICK a, b, c : a = SubSeq(s, 1, from) /\ b = SubSeq(s, from + 1, to) /\ c = SubSeq(s, to + 1, Len(s))
  OBVIOUS
<1>2. /\ a \in Texts /\ Len(a) = from /\ Len(s) \in Nat
      /\ b \in Texts /\ Len(b) = to - from /\ c \in Texts /\ Len(c) = Len(s) - to
      /\ \A k \in 1..from : a[k] = s[k]
      /\ \A k \in 1..(to - from) : b[k] = s[from + k]
      /\ \A k \in 1..(Len(s) - to) : c[k] = s[to + k]
  <2>1. s \in Seq(Text!Characters) /\ Len(s) \in Nat /\ 0 \in Nat /\ 0 + 1 = 1 /\ from - 0 = from /\ from <= Len(s)
    BY DEF Texts
  <2>2. /\ a \in Seq(Text!Characters) /\ Len(a) = from
        /\ \A k \in 1..from : a[k] = s[0 + k]
    <3>1. a = SubSeq(s, 0 + 1, from) /\ 0 <= from
      BY <1>1, <2>1
    <3> QED
      BY <2>1, <3>1, SliceIs
  <2>3. /\ b \in Seq(Text!Characters) /\ Len(b) = to - from
        /\ \A k \in 1..(to - from) : b[k] = s[from + k]
    BY <1>1, <2>1, SliceIs
  <2>4. /\ c \in Seq(Text!Characters) /\ Len(c) = Len(s) - to
        /\ \A k \in 1..(Len(s) - to) : c[k] = s[to + k]
    BY <1>1, <2>1, SliceIs
  <2>5. \A k \in 1..from : a[k] = s[k]
    BY <2>2
  <2> QED
    BY <2>1, <2>2, <2>3, <2>4, <2>5, Zenon DEF Texts
<1>3. PICK d : d = a \o c
  OBVIOUS
<1>4. /\ d \in Texts /\ Len(d) = from + Len(c)
      /\ \A k \in 1..from : d[k] = a[k]
      /\ \A k \in 1..Len(c) : d[from + k] = c[k]
  BY <1>2, <1>3, JoinIs
<1>5. SubSeq(d, 1, from) = a
  BY <1>2, <1>4 DEF Texts
<1>6. SubSeq(d, from + 1, Len(d)) = c
  BY <1>2, <1>4 DEF Texts
<1>7. a \o b \o c = s
  <2>1. PICK f : f = a \o b
    OBVIOUS
  <2>2. f \in Texts /\ Len(f) = to /\ \A k \in 1..to : f[k] = IF k <= from THEN a[k] ELSE b[k - from]
    <3>1. /\ f \in Texts /\ Len(f) = from + (to - from)
          /\ \A k \in 1..(from + (to - from)) : f[k] = IF k <= from THEN a[k] ELSE b[k - from]
      <4>1. a \in Seq(Text!Characters) /\ b \in Seq(Text!Characters)
        BY <1>2, Zenon DEF Texts
      <4>2. /\ f \in Seq(Text!Characters) /\ Len(f) = Len(a) + Len(b)
            /\ \A k \in 1..(Len(a) + Len(b)) : f[k] = IF k <= Len(a) THEN a[k] ELSE b[k - Len(a)]
        BY <2>1, <4>1, ConcatProperties
      <4>3. Len(a) = from /\ Len(b) = to - from
        BY <1>2, Zenon
      <4> QED
        BY <4>2, <4>3 DEF Texts
    <3>2. from + (to - from) = to
      OBVIOUS
    <3> QED
      BY <3>1, <3>2
  <2>3. PICK g : g = f \o c
    OBVIOUS
  <2>4. g \in Texts /\ Len(g) = Len(s) /\ \A k \in 1..Len(s) : g[k] = IF k <= to THEN f[k] ELSE c[k - to]
    BY <1>2, <2>2, <2>3 DEF Texts
  <2>5. \A k \in 1..Len(s) : g[k] = s[k]
    BY <1>2, <2>2, <2>4
  <2>6. g = s
    BY <1>2, <2>4, <2>5, SeqEqual DEF Texts
  <2> QED
    BY <2>1, <2>3, <2>6
<1>8. Spliced(s, from, to, <<>>) = d
  <2>1. a \o <<>> = a
    BY <1>2 DEF Texts
  <2> QED
    BY <1>1, <1>3, <2>1 DEF Spliced
<1>9. ASSUME NEW other PROVE Spliced(Spliced(s, from, to, <<>>), from, from, other) = Spliced(s, from, to, other)
  BY <1>1, <1>5, <1>6, <1>8 DEF Spliced
<1> QED
  <2>1. Spliced(Spliced(s, from, to, <<>>), from, from, b) = s
    BY <1>5, <1>6, <1>7, <1>8 DEF Spliced
  <2> QED
    BY <1>1, <1>2, <1>9, <2>1

LEMMA ReplacedIs ==
    ASSUME MaxLen \in Nat, NEW e \in EditType, NEW from \in Nat, NEW to \in Nat,
           from <= Len(e.text), from <= to, NEW insert \in Texts
    PROVE  LET t == Text!Replaced(e, from, to, insert) IN
           /\ t \in EditType /\ t.items = e.items /\ t.pos = e.pos
           /\ to <= Len(e.text) => t.text = Spliced(e.text, from, to, insert)
           /\ insert # <<>> \/ from # to =>
                 /\ t.text = Spliced(e.text, from, to, insert)
                 /\ t.caret = Text!PlaceOf(Text!Layout(t.text), from + Len(insert))
<1>1. PICK text, items, pos, caret, anchor, active, removed, new :
        /\ text = e.text /\ items = e.items /\ pos = e.pos
        /\ caret = e.caret /\ anchor = e.anchor /\ active = e.active
        /\ removed = SubSeq(text, from + 1, to) /\ new = Spliced(text, from, to, insert)
  OBVIOUS
<1>2. /\ text \in Texts /\ items \in Seq(Text!ItemType) /\ pos \in Nat
      /\ caret \in Text!PlaceType /\ anchor \in Text!PlaceType /\ active \in Text!PlaceType
      /\ e = [text |-> text, items |-> items, pos |-> pos, caret |-> caret, anchor |-> anchor, active |-> active]
  BY <1>1 DEF EditType
<1>3. new \in Texts
  BY <1>1, <1>2, SplicedIs
<1>4. Len(insert) \in Nat
  BY DEF Texts
<1>5. PICK p : p = Text!PlaceOf(Text!Layout(new), from + Len(insert))
  OBVIOUS
<1>6. p \in Text!PlaceType
  BY <1>3, <1>4, <1>5, PlacesOfText
<1>7. PICK u : u = [text |-> new, items |-> items, pos |-> pos, caret |-> p, anchor |-> p, active |-> p]
  OBVIOUS
<1>8. u \in EditType
  BY <1>2, <1>3, <1>6, <1>7 DEF EditType
<1>9. Text!At([e EXCEPT !.text = SubSeq(@, 1, from) \o insert \o SubSeq(@, to + 1, Len(@))], from + Len(insert)) = u
  <2>1. SubSeq(text, 1, from) \o insert \o SubSeq(text, to + 1, Len(text)) = new
    BY <1>1 DEF Spliced
  <2>2. [e EXCEPT !.text = SubSeq(@, 1, from) \o insert \o SubSeq(@, to + 1, Len(@))]
          = [e EXCEPT !.text = new]
    BY <1>1, <2>1, Zenon
  <2>3. PICK v : v = [e EXCEPT !.text = new]
    OBVIOUS
  <2>4. v = [text |-> new, items |-> items, pos |-> pos, caret |-> caret, anchor |-> anchor, active |-> active]
    <3>1. v = [[text |-> text, items |-> items, pos |-> pos, caret |-> caret, anchor |-> anchor, active |-> active]
                 EXCEPT !.text = new]
      BY <1>2, <2>3, Zenon
    <3> QED
      BY <3>1
  <2>7. v \in EditType /\ v.text = new
    BY <1>2, <1>3, <2>4 DEF EditType
  <2>8. PICK w : w = [v EXCEPT !.caret = p, !.anchor = p, !.active = p]
    OBVIOUS
  <2>9. /\ w \in EditType /\ w.text = v.text /\ w.items = v.items /\ w.pos = v.pos
        /\ w.caret = p /\ w.anchor = p /\ w.active = p
    BY <1>6, <2>7, <2>8 DEF EditType
  <2>10. w = [text |-> w.text, items |-> w.items, pos |-> w.pos, caret |-> w.caret, anchor |-> w.anchor, active |-> w.active]
    BY <2>9 DEF EditType
  <2>5. v.text = new /\ [v EXCEPT !.caret = p, !.anchor = p, !.active = p] = u
    BY <1>7, <2>4, <2>8, <2>9, <2>10
  <2>6. Text!At(v, from + Len(insert)) = u
    BY <1>5, <2>5 DEF Text!At
  <2> QED
    BY <2>2, <2>3, <2>6
<1>10. Text!Replaced(e, from, to, insert) = IF removed = <<>> /\ insert = <<>> THEN e ELSE u
  BY <1>1, <1>9 DEF Text!Replaced
<1>11. CASE removed = <<>> /\ insert = <<>>
  <2>1. from = to
    <3>1. Len(removed) = IF from + 1 <= to THEN to - (from + 1) + 1 ELSE 0
      BY <1>1
    <3>2. Len(removed) = 0
      BY <1>11
    <3> QED
      BY <3>1, <3>2
  <2>2. new = text
    <3>1. text \in Seq(Text!Characters) /\ from \in 0..Len(text) /\ Len(text) \in Nat
      BY <1>1, <1>2 DEF Texts
    <3>2. PICK a : a = SubSeq(text, 1, from)
      OBVIOUS
    <3>3. a \in Seq(Text!Characters)
      BY <3>1, <3>2
    <3>4. a \o <<>> = a
      BY <3>3
    <3>5. a \o SubSeq(text, from + 1, Len(text)) = SubSeq(text, 1, Len(text))
      <4>1. 1 \in 1..(Len(text) + 1) /\ from \in (1 - 1)..Len(text) /\ Len(text) \in from..Len(text)
        BY <3>1
      <4> QED
        BY <3>1, <3>2, <4>1, ConcatAdjacentSubSeq
    <3>6. SubSeq(text, 1, Len(text)) = text
      BY <3>1, SubSeqFull
    <3> QED
      BY <1>1, <1>11, <2>1, <3>2, <3>4, <3>5, <3>6 DEF Spliced
  <2> QED
    BY <1>1, <1>10, <1>11, <2>1, <2>2
<1>12. CASE ~(removed = <<>> /\ insert = <<>>)
  <2>1. u.text = new /\ u.items = items /\ u.pos = pos /\ u.caret = p
    BY <1>7
  <2> QED
    BY <1>1, <1>5, <1>8, <1>10, <1>12, <2>1
<1> QED
  BY <1>11, <1>12

\* One item, and the text without what it put in or took out, and with it.
Puts(x, A, B) ==
    \E i \in 0..Width(A) :
        /\ x.place = Text!PlaceOf(Text!Layout(A), i)
        /\ B = Spliced(A, i, i, x.chars)

ItemsOnly == Text!ItemType \ {Text!Boundary}

LEMMA ItemIs ==
    ASSUME NEW x \in ItemsOnly
    PROVE  /\ x.kind \in {"insert", "clear"} /\ x.place \in Text!PlaceType /\ x.chars \in Texts
           /\ x.anchor \in Text!PlaceType /\ x.active \in Text!PlaceType /\ x # Text!Boundary
  BY DEF ItemsOnly, Text!ItemType, Texts

\* What an item changes e to, forwards or backwards.
LEMMA TakenIs ==
    ASSUME MaxLen \in Nat, NEW e \in EditType, NEW x \in Text!ItemType, NEW kind
    PROVE  LET t == Text!Taken(e, x, kind) IN
           /\ t \in EditType /\ t.items = e.items /\ t.pos = e.pos
           /\ x = Text!Boundary => t = e
           /\ x # Text!Boundary /\ x.kind = kind =>
                 \A A \in Texts : Puts(x, A, e.text) => t.text = A
           /\ x # Text!Boundary /\ x.kind # kind =>
                 \A B \in Texts : Puts(x, e.text, B) => t.text = B
<1>1. CASE x = Text!Boundary
  <2>1. Text!Taken(e, x, kind) = e
    BY <1>1 DEF Text!Taken
  <2> QED
    BY <1>1, <2>1
<1>2. CASE x # Text!Boundary
  <2>1. x \in ItemsOnly
    BY <1>2 DEF ItemsOnly
  <2>2. x.place \in Text!PlaceType /\ x.chars \in Texts
    BY <2>1, ItemIs
  <2>3. PICK from : from = Text!IndexOf(Text!Layout(e.text), x.place)
    OBVIOUS
  <2>4. e.text \in Texts
    BY DEF EditType
  <2>5. from \in Nat /\ from <= Width(e.text) /\ from <= Len(e.text) /\ Len(e.text) \in Nat
    <3>1. from \in 0..Width(e.text)
      BY <2>2, <2>3, <2>4, PlacesOfText
    <3>2. Width(e.text) \in Nat /\ Width(e.text) <= Len(e.text) /\ Len(e.text) \in Nat
      BY <2>4, WidthIs
    <3> QED
      BY <3>1, <3>2
  <2>6. PICK n \in Nat : n = Len(x.chars)
    BY <2>2 DEF Texts
  <2>7. <<>> \in Texts
    BY DEF Texts
  <2>8. CASE x.kind = kind
    <3>1. PICK t : t = Text!Replaced(e, from, from + n, <<>>)
      OBVIOUS
    <3>2. Text!Taken(e, x, kind) = t
      BY <1>2, <2>3, <2>6, <2>8, <3>1 DEF Text!Taken
    <3>3. from + n \in Nat /\ from <= from + n
      BY <2>5, <2>6
    <3>4. /\ t \in EditType /\ t.items = e.items /\ t.pos = e.pos
          /\ from + n <= Len(e.text) => t.text = Spliced(e.text, from, from + n, <<>>)
      BY <2>5, <2>7, <3>1, <3>3, ReplacedIs
    <3>5. ASSUME NEW A \in Texts, Puts(x, A, e.text) PROVE t.text = A
      <4>1. PICK i \in 0..Width(A) :
               x.place = Text!PlaceOf(Text!Layout(A), i) /\ e.text = Spliced(A, i, i, x.chars)
        BY <3>5 DEF Puts
      <4>2. i \in Nat /\ i <= Len(A) /\ i <= MaxLen /\ i <= Width(A) /\ Len(A) \in Nat
        BY WidthIs
      <4>3. /\ \A k \in 1..i : e.text[k] = A[k]
            /\ Len(e.text) = i + n + (Len(A) - i)
        <5>1. PICK c, u : c \in Texts /\ c = x.chars /\ u = Spliced(A, i, i, c)
          BY <2>2
        <5>3. /\ \A k \in 1..i : Spliced(A, i, i, c)[k] = A[k]
              /\ Len(Spliced(A, i, i, c)) = i + Len(c) + (Len(A) - i)
          <6>1. i <= Len(A) /\ i <= i /\ c \in Texts /\ i \in Nat
            BY <4>2, <5>1
          <6> QED
            BY <6>1, SplicedIs
        <5>2. /\ \A k \in 1..i : u[k] = A[k]
              /\ Len(u) = i + Len(c) + (Len(A) - i)
          BY <5>1, <5>3
        <5> QED
          BY <2>6, <4>1, <5>1, <5>2
      <4>4. i <= Len(e.text) /\ i + n <= Len(e.text)
        BY <2>6, <4>2, <4>3
      <4>5. Alike(A, e.text, i)
        BY <4>2, <4>3, <4>4 DEF Alike, Width
      <4>6. from = i
        BY <2>3, <2>4, <4>1, <4>2, <4>5, SamePlace
      <4>7. Spliced(e.text, i, i + n, <<>>) = A
        BY <2>2, <2>6, <4>1, <4>2, SpliceBack
      <4> QED
        BY <3>4, <4>4, <4>6, <4>7
    <3> QED
      BY <1>2, <2>8, <3>2, <3>4, <3>5
  <2>9. CASE x.kind # kind
    <3>1. PICK t : t = Text!Replaced(e, from, from, x.chars)
      OBVIOUS
    <3>2. Text!Taken(e, x, kind) = t
      BY <1>2, <2>3, <2>9, <3>1 DEF Text!Taken
    <3>4. /\ t \in EditType /\ t.items = e.items /\ t.pos = e.pos
          /\ t.text = Spliced(e.text, from, from, x.chars)
      BY <2>2, <2>5, <3>1, ReplacedIs
    <3>5. ASSUME NEW B \in Texts, Puts(x, e.text, B) PROVE t.text = B
      <4>1. PICK i \in 0..Width(e.text) :
               x.place = Text!PlaceOf(Text!Layout(e.text), i) /\ B = Spliced(e.text, i, i, x.chars)
        BY <3>5 DEF Puts
      <4>2. from = i
        BY <2>3, <2>4, <4>1, OwnPlace
      <4> QED
        BY <3>4, <4>1, <4>2
    <3> QED
      BY <1>2, <2>9, <3>2, <3>4, <3>5
  <2> QED
    BY <2>8, <2>9
<1> QED
  BY <1>1, <1>2

\* invert or apply, an item at a time.
TakeIter(g, e, s, kind) ==
    g = [d \in SUBSET DOMAIN s |-> IF d = {} THEN e ELSE Text!Taken(g[d \ {Max(d)}], s[Max(d)], kind)]

TakeAll(e, s, kind) == (CHOOSE g : TakeIter(g, e, s, kind))[DOMAIN s]

TakesEach(r, e, s, kind) ==
    r[0] = e /\ \A k \in 1..Len(s) : r[k] = Text!Taken(r[k - 1], s[k], kind)

LEMMA TakeRuns ==
    ASSUME MaxLen \in Nat, NEW e \in EditType, NEW s \in Seq(Text!ItemType), NEW kind
    PROVE  \E r \in [0..Len(s) -> EditType] :
              TakesEach(r, e, s, kind) /\ r[Len(s)] = TakeAll(e, s, kind)
<1>1. PICK iter : iter = CHOOSE g : TakeIter(g, e, s, kind)
  OBVIOUS
<1>2. TakeAll(e, s, kind) = iter[DOMAIN s]
  BY <1>1 DEF TakeAll
<1> DEFINE n == Len(s)
<1>3. n \in Nat /\ DOMAIN s = 1..n /\ \A i \in 1..n : s[i] \in Text!ItemType
  OBVIOUS
<1> HIDE DEF n
<1> DEFINE step == [q \in (1..n) \X EditType |-> Text!Taken(q[2], s[q[1]], kind)]
<1>4. /\ step \in [(1..n) \X EditType -> EditType]
      /\ \A i \in 1..n : \A v \in EditType : step[<<i, v>>] = Text!Taken(v, s[i], kind)
  <2>1. \A i \in 1..n : \A v \in EditType : Text!Taken(v, s[i], kind) \in EditType
    BY <1>3, TakenIs
  <2>2. \A q \in (1..n) \X EditType : Text!Taken(q[2], s[q[1]], kind) \in EditType
    BY <2>1
  <2> QED
    BY <2>2
<1> HIDE DEF step
<1>5. PICK h \in [SUBSET (1..n) -> EditType] : LeftIter(h, n, e, step)
  BY <1>3, <1>4, LeftIterExists
<1>6. \A d \in SUBSET (1..n) : d # {} => Max(d) \in 1..n /\ d \ {Max(d)} \in SUBSET (1..n)
  BY <1>3, MaxOfSome
<1>7. TakeIter(h, e, s, kind)
  <2>1. \A d \in SUBSET (1..n) :
          h[d] = IF d = {} THEN e ELSE Text!Taken(h[d \ {Max(d)}], s[Max(d)], kind)
    BY <1>4, <1>5, <1>6 DEF LeftIter
  <2> QED
    BY <1>3, <1>5, <2>1 DEF TakeIter
<1>8. TakeIter(iter, e, s, kind)
  BY <1>1, <1>7
<1>9. /\ iter[{}] = e
      /\ \A d \in SUBSET (1..n) : d # {} => iter[d] = Text!Taken(iter[d \ {Max(d)}], s[Max(d)], kind)
  BY <1>3, <1>8 DEF TakeIter
<1> DEFINE r == [k \in 0..n |-> iter[1..k]]
<1>10. /\ r[0] = e /\ r[n] = iter[1..n]
       /\ \A k \in 1..n : r[k] = Text!Taken(r[k - 1], s[k], kind)
  <2>1. 1..0 = {} /\ 0 \in 0..n /\ n \in 0..n
    BY <1>3
  <2>2. r[0] = e
    <3>1. r[0] = iter[1..0]
      BY <2>1
    <3> QED
      BY <1>9, <2>1, <3>1
  <2>3. r[n] = iter[1..n]
    BY <2>1
  <2>4. ASSUME NEW k \in 1..n PROVE r[k] = Text!Taken(r[k - 1], s[k], kind)
    <3>0. k \in Nat \ {0} /\ k \in 1..k /\ k - 1 \in 0..n /\ k \in 0..n
      BY <1>3
    <3>1. 1..k \in SUBSET (1..n) /\ 1..k # {}
      <4>1. \A j \in 1..k : j \in 1..n
        BY <1>3
      <4>2. 1..k # {}
        BY <3>0
      <4>3. 1..k \subseteq 1..n
        BY <4>1
      <4> QED
        BY <4>2, <4>3
    <3>2. iter[1..k] = Text!Taken(iter[1..(k - 1)], s[k], kind)
      BY <1>9, <3>0, <3>1, LastIsMax
    <3> QED
      BY <3>0, <3>2
  <2> QED
    BY <2>2, <2>3, <2>4
<1> HIDE DEF r
<1>11. \A k \in 0..n : r[k] \in EditType
  <2> DEFINE G == {k \in 0..n : r[k] \in EditType}
  <2>1. 0 \in G
    BY <1>3, <1>10
  <2>3. ASSUME NEW k \in 1..n, k - 1 \in G PROVE k \in G
    <3>1. r[k] = Text!Taken(r[k - 1], s[k], kind) /\ r[k - 1] \in EditType /\ k \in 0..n /\ s[k] \in Text!ItemType
      BY <1>3, <1>10, <2>3
    <3> QED
      BY <3>1, TakenIs
  <2> HIDE DEF G
  <2>2. 0..n \subseteq G
    BY <1>3, <2>1, <2>3, CountInduction
  <2> QED
    BY <2>2 DEF G
<1>12. r \in [0..n -> EditType]
  BY <1>11 DEF r
<1>13. TakesEach(r, e, s, kind)
  BY <1>10 DEF TakesEach, n
<1>14. r[Len(s)] = TakeAll(e, s, kind)
  BY <1>2, <1>3, <1>10 DEF n
<1> QED
  BY <1>12, <1>13, <1>14 DEF n

\* A group of one, and a group of four of which the ends are boundaries.
LEMMA TakeOne ==
    ASSUME MaxLen \in Nat, NEW e \in EditType, NEW s \in Seq(Text!ItemType), NEW kind, Len(s) = 1
    PROVE  TakeAll(e, s, kind) = Text!Taken(e, s[1], kind)
<1>1. PICK r \in [0..Len(s) -> EditType] : TakesEach(r, e, s, kind) /\ r[Len(s)] = TakeAll(e, s, kind)
  BY TakeRuns
<1>2. r[0] = e /\ r[1] = Text!Taken(r[1 - 1], s[1], kind) /\ r[1] = TakeAll(e, s, kind)
  BY <1>1 DEF TakesEach
<1>3. 1 - 1 = 0
  OBVIOUS
<1> QED
  BY <1>2, <1>3, Zenon

LEMMA TakeFour ==
    ASSUME MaxLen \in Nat, NEW e \in EditType, NEW s \in Seq(Text!ItemType), NEW kind, Len(s) = 4,
           s[1] = Text!Boundary, s[4] = Text!Boundary
    PROVE  TakeAll(e, s, kind) = Text!Taken(Text!Taken(e, s[2], kind), s[3], kind)
<1>1. PICK r \in [0..Len(s) -> EditType] : TakesEach(r, e, s, kind) /\ r[Len(s)] = TakeAll(e, s, kind)
  BY TakeRuns
<1>2. /\ r[0] = e /\ r[4] = TakeAll(e, s, kind)
      /\ r[1] = Text!Taken(r[0], s[1], kind) /\ r[2] = Text!Taken(r[1], s[2], kind)
      /\ r[3] = Text!Taken(r[2], s[3], kind) /\ r[4] = Text!Taken(r[3], s[4], kind)
  <2>1. r[0] = e /\ r[4] = TakeAll(e, s, kind) /\ \A k \in 1..4 : r[k] = Text!Taken(r[k - 1], s[k], kind)
    BY <1>1 DEF TakesEach
  <2>2. 1 - 1 = 0 /\ 2 - 1 = 1 /\ 3 - 1 = 2 /\ 4 - 1 = 3
    OBVIOUS
  <2>3. 1 \in 1..4 /\ 2 \in 1..4 /\ 3 \in 1..4 /\ 4 \in 1..4
    OBVIOUS
  <2> QED
    BY <2>1, <2>2, <2>3, Zenon
<1>3. \A f : Text!Taken(f, Text!Boundary, kind) = f
  BY DEF Text!Taken
<1> QED
  BY <1>2, <1>3

----------------------------------------------------------------------------
(* The edit control: groups of items.                                      *)

HeldType == [text : Texts, anchor : Text!PlaceType, active : Text!PlaceType]

\* The item carries the selection the edit was made over.
Over(x, h) == x.anchor = h.anchor /\ x.active = h.active

\* One item leads from a text to another.
Turns(x, T, U) == IF x.kind = "insert" THEN Puts(x, T, U) ELSE Puts(x, U, T)

LeadsByOne(its, a, b, h, g) ==
    /\ b = a + 1
    /\ its[a + 1] \in ItemsOnly /\ Over(its[a + 1], h) /\ Turns(its[a + 1], h.text, g.text)

LeadsByFour(its, a, b, h, g) ==
    /\ b = a + 4
    /\ its[a + 1] = Text!Boundary /\ its[a + 4] = Text!Boundary
    /\ its[a + 2] \in ItemsOnly /\ Over(its[a + 2], h) /\ its[a + 2].kind = "clear"
    /\ its[a + 3] \in ItemsOnly /\ Over(its[a + 3], h) /\ its[a + 3].kind = "insert"
    /\ \E mid \in Texts : Puts(its[a + 2], mid, h.text) /\ Puts(its[a + 3], mid, g.text)

\* The items after a and up to b are a group, made of an edit that found h and
\* left g.
Leads(its, a, b, h, g) == LeadsByOne(its, a, b, h, g) \/ LeadsByFour(its, a, b, h, g)

\* The group of the first items, however long the rest.
LEMMA GroupIs ==
    ASSUME NEW its \in Seq(Text!ItemType), NEW b \in Nat, b <= Len(its), NEW h, NEW g, Leads(its, 0, b, h, g)
    PROVE  Text!Group(its) = b /\ b > 0
<1>1. CASE LeadsByOne(its, 0, b, h, g)
  <2>1. b = 1 /\ its[1] # Text!Boundary
    BY <1>1, ItemIs DEF LeadsByOne
  <2> QED
    BY <2>1 DEF Text!Group
<1>2. CASE LeadsByFour(its, 0, b, h, g)
  <2>1. /\ b = 4 /\ its[1] = Text!Boundary /\ its[4] = Text!Boundary
        /\ its[2] # Text!Boundary /\ its[3] # Text!Boundary
    BY <1>2, ItemIs DEF LeadsByFour
  <2> DEFINE ends == {i \in 2..Len(its) : its[i] = Text!Boundary}
  <2>2. 4 \in ends /\ \A i \in ends : 4 <= i
    BY <2>1
  <2>3. Text!Group(its) = CHOOSE i \in ends : \A j \in ends : i <= j
    BY <2>1, <2>2 DEF Text!Group
  <2>4. \A i \in ends : (\A j \in ends : i <= j) => i = 4
    BY <2>2
  <2> HIDE DEF ends
  <2>5. Text!Group(its) = 4
    BY <2>2, <2>3, <2>4
  <2> QED
    BY <2>1, <2>5
<1> QED
  BY <1>1, <1>2 DEF Leads

\* A group is the same wherever it stands.
LEMMA LeadsMoved ==
    ASSUME NEW its, NEW new, NEW a \in Nat, NEW b \in Nat, NEW c \in Nat, NEW d \in Nat,
           d - c = b - a, \A j \in 1..(b - a) : new[c + j] = its[a + j],
           NEW h, NEW g, NEW p, NEW q, p = h, q.text = g.text, Leads(its, a, b, h, g)
    PROVE  Leads(new, c, d, p, q)
<1>1. CASE LeadsByOne(its, a, b, h, g)
  <2>1. b - a = 1
    BY <1>1 DEF LeadsByOne
  <2>2. d = c + 1 /\ new[c + 1] = its[a + 1]
    BY <2>1
  <2>3. LeadsByOne(new, c, d, p, q)
    BY <1>1, <2>2 DEF LeadsByOne
  <2> QED
    BY <2>3 DEF Leads
<1>2. CASE LeadsByFour(its, a, b, h, g)
  <2>1. b - a = 4
    BY <1>2 DEF LeadsByFour
  <2>2. /\ d = c + 4 /\ new[c + 1] = its[a + 1] /\ new[c + 2] = its[a + 2]
        /\ new[c + 3] = its[a + 3] /\ new[c + 4] = its[a + 4]
    BY <2>1
  <2>3. LeadsByFour(new, c, d, p, q)
    BY <1>2, <2>2 DEF LeadsByFour
  <2> QED
    BY <2>3 DEF Leads
<1> QED
  BY <1>1, <1>2 DEF Leads

\* The first item of s that is an edit.
FirstAt(s) ==
    IF {i \in 1..Len(s) : s[i] # Text!Boundary} # {}
    THEN CHOOSE x \in {i \in 1..Len(s) : s[i] # Text!Boundary} :
            \A y \in {i \in 1..Len(s) : s[i] # Text!Boundary} : x <= y
    ELSE 0

LEMMA FirstEdit ==
    ASSUME NEW s \in Seq(Text!ItemType), NEW k \in 1..Len(s), s[k] # Text!Boundary,
           \A j \in 1..(k - 1) : s[j] = Text!Boundary
    PROVE  FirstAt(s) = k
<1> DEFINE found == {i \in 1..Len(s) : s[i] # Text!Boundary}
<1>1. k \in found /\ \A i \in found : k <= i
  OBVIOUS
<1>2. FirstAt(s) = IF found # {} THEN CHOOSE x \in found : \A y \in found : x <= y ELSE 0
  BY DEF FirstAt
<1>3. \A x \in found : (\A y \in found : x <= y) => x = k
  BY <1>1
<1> HIDE DEF found
<1>4. (CHOOSE x \in found : \A y \in found : x <= y) = k
  BY <1>1, <1>3
<1> QED
  BY <1>1, <1>2, <1>4

\* What an undo takes from the stack, and what it leaves.
UndoneBy(e, taken) ==
    LET t == TakeAll(e, Text!Reverse(taken), "insert")
        x == taken[FirstAt(taken)]
    IN [t EXCEPT !.anchor = x.anchor, !.active = x.active, !.caret = x.active, !.pos = Text!UndoFrom(e) - 1]

LEMMA UndoneTakes ==
    ASSUME NEW e
    PROVE  Text!Undone(e) = UndoneBy(e, SubSeq(e.items, Text!UndoFrom(e), e.pos))
<1>1. PICK taken, first : taken = SubSeq(e.items, Text!UndoFrom(e), e.pos) /\ first = Text!UndoFrom(e)
  OBVIOUS
<1> QED
  BY DEF Text!Undone, UndoneBy, FirstAt, TakeAll, TakeIter, Text!SelectInSeq, Text!Min, Text!FoldLeft,
         Text!MapThenFoldSet, Text!Max, Max, Text!Invert

RedoneBy(e, taken) ==
    LET t == TakeAll(e, taken, "clear") IN
    [t EXCEPT !.anchor = t.caret, !.active = t.caret, !.pos = Text!RedoTo(e)]

LEMMA RedoneTakes ==
    ASSUME NEW e
    PROVE  Text!Redone(e) = RedoneBy(e, SubSeq(e.items, e.pos + 1, Text!RedoTo(e)))
  BY DEF Text!Redone, RedoneBy, TakeAll, TakeIter, Text!FoldLeft, Text!MapThenFoldSet, Text!Max, Max, Text!Apply

\* An edit whose stack ends, or goes on, with a group.
AtGroup(e, a, b, h, g) ==
    /\ e \in EditType /\ a \in Nat /\ b \in Nat /\ b <= Len(e.items)
    /\ h \in HeldType /\ g \in HeldType /\ Leads(e.items, a, b, h, g)

\* An undo of one item.
LEMMA UndoneOne ==
    ASSUME MaxLen \in Nat, NEW e, NEW a, NEW h, NEW g, AtGroup(e, a, e.pos, h, g), e.text = g.text,
           LeadsByOne(e.items, a, e.pos, h, g)
    PROVE  LET t == Text!Undone(e) IN
           /\ t \in EditType /\ t.items = e.items /\ t.pos = a
           /\ t.text = h.text /\ t.anchor = h.anchor /\ t.active = h.active
<1>1. PICK x, p : x = e.items[a + 1] /\ p = e.pos
  OBVIOUS
<1>2. /\ p = a + 1 /\ x \in ItemsOnly /\ Over(x, h) /\ Turns(x, h.text, g.text)
      /\ e \in EditType /\ a \in Nat /\ p \in Nat /\ p <= Len(e.items) /\ h \in HeldType /\ g \in HeldType
  BY <1>1 DEF AtGroup, LeadsByOne
<1>3. x # Text!Boundary /\ x.kind \in {"insert", "clear"} /\ x \in Text!ItemType
      /\ x.anchor \in Text!PlaceType /\ x.active \in Text!PlaceType
  BY <1>2, ItemIs DEF ItemsOnly
<1>4. Text!UndoFrom(e) = p
  BY <1>1, <1>2, <1>3 DEF Text!UndoFrom
<1>5. PICK taken : taken = SubSeq(e.items, p, p)
  OBVIOUS
<1>6. taken \in Seq(Text!ItemType) /\ Len(taken) = 1 /\ taken[1] = x
  <2>1. e.items \in Seq(Text!ItemType) /\ p \in 1..Len(e.items) /\ e.items[p] = x
    BY <1>1, <1>2 DEF EditType
  <2> QED
    BY <1>5, <2>1
<1>7. PICK back : back = Text!Reverse(taken)
  OBVIOUS
<1>8. back \in Seq(Text!ItemType) /\ Len(back) = 1 /\ back[1] = x
  <2>1. back = [i \in 1..1 |-> taken[(1 - i) + 1]]
    BY <1>6, <1>7 DEF Text!Reverse
  <2> QED
    BY <1>3, <1>6, <2>1
<1>9. FirstAt(taken) = 1
  <2>1. 1 \in 1..Len(taken) /\ taken[1] # Text!Boundary
    BY <1>3, <1>6
  <2>2. \A j \in 1..(1 - 1) : taken[j] = Text!Boundary
    OBVIOUS
  <2> QED
    BY <1>6, <2>1, <2>2, FirstEdit
<1>10. PICK t : t = Text!Taken(e, x, "insert")
  OBVIOUS
<1>11. TakeAll(e, back, "insert") = t
  BY <1>2, <1>8, <1>10, TakeOne
<1>12. t \in EditType /\ t.items = e.items /\ t.text = h.text
  <2>1. h.text \in Texts /\ g.text \in Texts
    BY <1>2 DEF HeldType
  <2>2. /\ t \in EditType /\ t.items = e.items
        /\ x.kind = "insert" => \A A \in Texts : Puts(x, A, e.text) => t.text = A
        /\ x.kind # "insert" => \A B \in Texts : Puts(x, e.text, B) => t.text = B
    BY <1>2, <1>3, <1>10, TakenIs
  <2> QED
    BY <1>2, <2>1, <2>2 DEF Turns
<1>13. PICK u : u = [t EXCEPT !.anchor = x.anchor, !.active = x.active, !.caret = x.active, !.pos = p - 1]
  OBVIOUS
<1>17. p - 1 = a
  BY <1>2
<1>14. u \in EditType /\ u.items = t.items /\ u.text = t.text /\ u.pos = a /\ u.anchor = x.anchor /\ u.active = x.active
  <2>1. u = [t EXCEPT !.anchor = x.anchor, !.active = x.active, !.caret = x.active, !.pos = a]
    BY <1>13, <1>17
  <2> QED
    BY <1>2, <1>3, <1>12, <2>1 DEF EditType
<1>15. UndoneBy(e, taken) = u
  BY <1>4, <1>6, <1>7, <1>9, <1>11, <1>13 DEF UndoneBy
<1>16. Text!Undone(e) = u
  BY <1>1, <1>4, <1>5, <1>15, UndoneTakes
<1> QED
  BY <1>2, <1>12, <1>14, <1>16 DEF Over

\* An undo of a replacement.
LEMMA UndoneFour ==
    ASSUME MaxLen \in Nat, NEW e, NEW a, NEW h, NEW g, AtGroup(e, a, e.pos, h, g), e.text = g.text,
           LeadsByFour(e.items, a, e.pos, h, g)
    PROVE  LET t == Text!Undone(e) IN
           /\ t \in EditType /\ t.items = e.items /\ t.pos = a
           /\ t.text = h.text /\ t.anchor = h.anchor /\ t.active = h.active
<1>1. PICK x, y, p : x = e.items[a + 2] /\ y = e.items[a + 3] /\ p = e.pos
  OBVIOUS
<1>2. /\ p = a + 4 /\ x \in ItemsOnly /\ y \in ItemsOnly /\ Over(x, h) /\ x.kind = "clear" /\ y.kind = "insert"
      /\ e.items[a + 1] = Text!Boundary /\ e.items[a + 4] = Text!Boundary
      /\ e \in EditType /\ a \in Nat /\ p \in Nat /\ p <= Len(e.items) /\ h \in HeldType /\ g \in HeldType
  BY <1>1 DEF AtGroup, LeadsByFour
<1>0. PICK mid \in Texts : Puts(x, mid, h.text) /\ Puts(y, mid, g.text)
  BY <1>1 DEF LeadsByFour
<1>3. /\ x # Text!Boundary /\ x \in Text!ItemType /\ x.anchor \in Text!PlaceType /\ x.active \in Text!PlaceType
      /\ y # Text!Boundary /\ y \in Text!ItemType
  BY <1>2, ItemIs DEF ItemsOnly
<1>4. Text!UndoFrom(e) = a + 1
  <2> DEFINE starts == {i \in 1..(p - 1) : e.items[i] = Text!Boundary}
  <2>1. a + 1 \in starts
    BY <1>2
  <2>2. ASSUME NEW i \in starts PROVE i <= a + 1
    <3>1. i \in 1..(a + 3) /\ e.items[i] = Text!Boundary
      BY <1>2
    <3>2. i # a + 2 /\ i # a + 3
      BY <1>1, <1>3, <3>1
    <3> QED
      BY <1>2, <3>1, <3>2
  <2>3. e.items[p] = Text!Boundary
    BY <1>2
  <2>4. Text!UndoFrom(e) = CHOOSE i \in starts : \A j \in starts : j <= i
    BY <1>1, <2>1, <2>3 DEF Text!UndoFrom
  <2>5. \A i \in starts : (\A j \in starts : j <= i) => i = a + 1
    BY <1>2, <2>1, <2>2
  <2> HIDE DEF starts
  <2> QED
    BY <2>1, <2>2, <2>4, <2>5
<1>5. PICK taken : taken = SubSeq(e.items, a + 1, p)
  OBVIOUS
<1>6. /\ taken \in Seq(Text!ItemType) /\ Len(taken) = 4
      /\ taken[1] = Text!Boundary /\ taken[2] = x /\ taken[3] = y /\ taken[4] = Text!Boundary
  <2>1. e.items \in Seq(Text!ItemType)
    BY <1>2 DEF EditType
  <2>2. taken \in Seq(Text!ItemType) /\ Len(taken) = 4 /\ \A i \in 1..4 : taken[i] = e.items[a + i]
    BY <1>2, <1>5, <2>1
  <2> QED
    BY <1>1, <1>2, <2>2
<1>7. PICK back : back = Text!Reverse(taken)
  OBVIOUS
<1>8. /\ back \in Seq(Text!ItemType) /\ Len(back) = 4
      /\ back[1] = Text!Boundary /\ back[2] = y /\ back[3] = x /\ back[4] = Text!Boundary
  <2>1. back = [i \in 1..4 |-> taken[(4 - i) + 1]]
    BY <1>6, <1>7 DEF Text!Reverse
  <2>4. \A i \in 1..4 : (4 - i) + 1 \in 1..4
    OBVIOUS
  <2>5. \A i \in 1..4 : taken[i] \in Text!ItemType
    BY <1>6, ElementOfSeq
  <2>6. \A i \in 1..4 : taken[(4 - i) + 1] \in Text!ItemType
    BY <2>4, <2>5
  <2>2. back \in Seq(Text!ItemType) /\ Len(back) = 4
    BY <2>1, <2>6
  <2>3. back[1] = taken[4] /\ back[2] = taken[3] /\ back[3] = taken[2] /\ back[4] = taken[1]
    BY <2>1
  <2> QED
    BY <1>6, <2>2, <2>3
<1>9. FirstAt(taken) = 2
  BY <1>3, <1>6, FirstEdit
<1>10. PICK s, t : s = Text!Taken(e, y, "insert") /\ t = Text!Taken(s, x, "insert")
  OBVIOUS
<1>11. TakeAll(e, back, "insert") = t
  BY <1>2, <1>8, <1>10, TakeFour
<1>12. t \in EditType /\ t.items = e.items /\ t.text = h.text
  <2>1. h.text \in Texts /\ g.text \in Texts
    BY <1>2 DEF HeldType
  <2>2. /\ s \in EditType /\ s.items = e.items
        /\ \A A \in Texts : Puts(y, A, e.text) => s.text = A
    BY <1>2, <1>3, <1>10, TakenIs
  <2>3. s.text = mid
    BY <1>0, <2>2
  <2>4. /\ t \in EditType /\ t.items = s.items
        /\ \A B \in Texts : Puts(x, s.text, B) => t.text = B
    BY <1>2, <1>3, <1>10, <2>2, TakenIs
  <2> QED
    BY <1>0, <2>1, <2>2, <2>3, <2>4
<1>13. PICK u : u = [t EXCEPT !.anchor = x.anchor, !.active = x.active, !.caret = x.active, !.pos = (a + 1) - 1]
  OBVIOUS
<1>17. (a + 1) - 1 = a
  BY <1>2
<1>14. u \in EditType /\ u.items = t.items /\ u.text = t.text /\ u.pos = a /\ u.anchor = x.anchor /\ u.active = x.active
  <2>1. u = [t EXCEPT !.anchor = x.anchor, !.active = x.active, !.caret = x.active, !.pos = a]
    BY <1>13, <1>17
  <2> QED
    BY <1>2, <1>3, <1>12, <2>1 DEF EditType
<1>15. UndoneBy(e, taken) = u
  BY <1>4, <1>6, <1>7, <1>9, <1>11, <1>13 DEF UndoneBy
<1>16. Text!Undone(e) = u
  BY <1>1, <1>4, <1>5, <1>15, UndoneTakes
<1> QED
  BY <1>2, <1>12, <1>14, <1>16 DEF Over

\* A redo of the group that comes next.
LEMMA RedoneIs ==
    ASSUME MaxLen \in Nat, NEW e, NEW b, NEW h, NEW g, AtGroup(e, e.pos, b, h, g), e.text = h.text
    PROVE  LET t == Text!Redone(e) IN
           t \in EditType /\ t.items = e.items /\ t.pos = b /\ t.text = g.text
<1>1. PICK p, its : p = e.pos /\ its = e.items
  OBVIOUS
<1>2. /\ e \in EditType /\ p \in Nat /\ b \in Nat /\ b <= Len(its) /\ Leads(its, p, b, h, g)
      /\ its \in Seq(Text!ItemType) /\ Len(its) \in Nat /\ h.text \in Texts /\ g.text \in Texts
  BY <1>1 DEF AtGroup, EditType, HeldType
<1>3. b = p + 1 \/ b = p + 4
  BY <1>2 DEF Leads, LeadsByOne, LeadsByFour
<1>4. PICK rest : rest = SubSeq(its, p + 1, Len(its))
  OBVIOUS
<1>5. rest \in Seq(Text!ItemType) /\ Len(rest) = Len(its) - p /\ \A j \in 1..(b - p) : rest[j] = its[p + j]
  BY <1>2, <1>3, <1>4
<1>6. Leads(rest, 0, b - p, h, g)
  <2>1. b - p \in Nat /\ (b - p) - 0 = b - p /\ \A j \in 1..(b - p) : rest[0 + j] = its[p + j]
    BY <1>2, <1>3, <1>5
  <2> QED
    BY <1>2, <2>1, LeadsMoved
<1>7. Text!RedoTo(e) = b
  <2>1. b - p \in Nat /\ b - p <= Len(rest)
    BY <1>2, <1>3, <1>5
  <2>2. Text!Group(rest) = b - p
    BY <1>5, <1>6, <2>1, GroupIs
  <2>3. Text!RedoTo(e) = p + (b - p)
    BY <1>1, <1>4, <2>2 DEF Text!RedoTo
  <2> QED
    BY <1>2, <2>3
<1>8. PICK taken : taken = SubSeq(its, p + 1, b)
  OBVIOUS
<1>9. taken \in Seq(Text!ItemType) /\ Len(taken) = b - p /\ \A j \in 1..(b - p) : taken[j] = its[p + j]
  <2>1. p \in Nat /\ b \in Nat /\ p <= b /\ b <= Len(its) /\ its \in Seq(Text!ItemType)
    BY <1>2, <1>3
  <2> QED
    BY <1>8, <2>1, SliceIs
<1>10. PICK t : t = TakeAll(e, taken, "clear")
  OBVIOUS
<1>11. t \in EditType /\ t.items = its /\ t.text = g.text
  <2>1. CASE LeadsByOne(its, p, b, h, g)
    <3>1. PICK x : x = its[p + 1]
      OBVIOUS
    <3>2. b = p + 1 /\ x \in ItemsOnly /\ Turns(x, h.text, g.text)
      BY <2>1, <3>1 DEF LeadsByOne
    <3>3. x # Text!Boundary /\ x.kind \in {"insert", "clear"} /\ x \in Text!ItemType
      BY <3>2, ItemIs DEF ItemsOnly
    <3>4. Len(taken) = 1 /\ taken[1] = x
      BY <1>2, <1>9, <3>1, <3>2
    <3>5. t = Text!Taken(e, x, "clear")
      BY <1>2, <1>9, <1>10, <3>4, TakeOne
    <3>6. /\ t \in EditType /\ t.items = its
          /\ x.kind = "clear" => \A A \in Texts : Puts(x, A, e.text) => t.text = A
          /\ x.kind # "clear" => \A B \in Texts : Puts(x, e.text, B) => t.text = B
      BY <1>1, <1>2, <3>3, <3>5, TakenIs
    <3> QED
      BY <1>2, <3>2, <3>3, <3>6 DEF Turns
  <2>2. CASE LeadsByFour(its, p, b, h, g)
    <3>1. PICK x, y : x = its[p + 2] /\ y = its[p + 3]
      OBVIOUS
    <3>2. /\ b = p + 4 /\ x \in ItemsOnly /\ y \in ItemsOnly /\ x.kind = "clear" /\ y.kind = "insert"
          /\ its[p + 1] = Text!Boundary /\ its[p + 4] = Text!Boundary
      BY <2>2, <3>1 DEF LeadsByFour
    <3>0. PICK mid \in Texts : Puts(x, mid, h.text) /\ Puts(y, mid, g.text)
      BY <2>2, <3>1 DEF LeadsByFour
    <3>3. x # Text!Boundary /\ x \in Text!ItemType /\ y # Text!Boundary /\ y \in Text!ItemType
      BY <3>2, ItemIs DEF ItemsOnly
    <3>4. Len(taken) = 4 /\ taken[1] = Text!Boundary /\ taken[2] = x /\ taken[3] = y /\ taken[4] = Text!Boundary
      BY <1>2, <1>9, <3>1, <3>2
    <3>5. PICK s : s = Text!Taken(e, x, "clear")
      OBVIOUS
    <3>6. t = Text!Taken(s, y, "clear")
      BY <1>2, <1>9, <1>10, <3>4, <3>5, TakeFour
    <3>7. /\ s \in EditType /\ s.items = its
          /\ \A A \in Texts : Puts(x, A, e.text) => s.text = A
      BY <1>1, <1>2, <3>2, <3>3, <3>5, TakenIs
    <3>8. s.text = mid
      BY <3>0, <3>7
    <3>9. /\ t \in EditType /\ t.items = s.items
          /\ \A B \in Texts : Puts(y, s.text, B) => t.text = B
      BY <3>2, <3>3, <3>6, <3>7, TakenIs
    <3> QED
      BY <1>2, <3>0, <3>7, <3>8, <3>9
  <2> QED
    BY <1>2, <2>1, <2>2 DEF Leads
<1>12. PICK u : u = [t EXCEPT !.anchor = t.caret, !.active = t.caret, !.pos = b]
  OBVIOUS
<1>13. u \in EditType /\ u.items = t.items /\ u.text = t.text /\ u.pos = b
  BY <1>2, <1>11, <1>12 DEF EditType
<1>14. RedoneBy(e, taken) = u
  BY <1>7, <1>10, <1>12 DEF RedoneBy
<1>15. Text!Redone(e) = u
  BY <1>1, <1>7, <1>8, <1>14, RedoneTakes
<1> QED
  BY <1>1, <1>11, <1>13, <1>15

----------------------------------------------------------------------------
(* The edit control: the undo stack.                                       *)

\* Where the groups of a stack end that lead from what tr[lo] holds to what
\* tr[hi] does.
Cuts(ends, its, lo, hi, tr) ==
    /\ lo \in 1..hi /\ ends \in [lo..hi -> Nat] /\ ends[lo] = 0
    /\ \A j, k \in lo..hi : j < k => ends[j] < ends[k]
    /\ \A k \in (lo + 1)..hi : Leads(its, ends[k - 1], ends[k], tr[k - 1], tr[k])

\* A stack of such groups, and what was pushed of one that is not done.
Stacked(its, hi, tr, tail) ==
    /\ its \in Seq(Text!ItemType)
    /\ \E lo : \E ends :
          /\ Cuts(ends, its, lo, hi, tr)
          /\ Len(its) = ends[hi] + Len(tail)
          /\ \A j \in 1..Len(tail) : its[ends[hi] + j] = tail[j]

\* The cursor stands between two groups: below it what an undo takes, above it
\* what a redo does.
Grouped(its, pos, on, tr) ==
    \E lo : \E ends :
        /\ Cuts(ends, its, lo, Len(tr), tr)
        /\ on \in lo..Len(tr) /\ ends[on] = pos /\ ends[Len(tr)] = Len(its)

\* The stack makes room by the group at its head.
LEMMA DropGroup ==
    ASSUME NEW its, NEW hi \in Nat, NEW tr, NEW tail, Stacked(its, hi, tr, tail),
           Len(tail) \in 0..3, Len(its) >= 4
    PROVE  /\ Stacked(SubSeq(its, Text!Group(its) + 1, Len(its)), hi, tr, tail)
           /\ Len(SubSeq(its, Text!Group(its) + 1, Len(its))) < Len(its)
<1>1. PICK lo, ends :
        /\ Cuts(ends, its, lo, hi, tr)
        /\ Len(its) = ends[hi] + Len(tail)
        /\ \A j \in 1..Len(tail) : its[ends[hi] + j] = tail[j]
  BY DEF Stacked
<1>2. /\ lo \in Nat /\ lo >= 1 /\ lo <= hi /\ ends \in [lo..hi -> Nat] /\ ends[lo] = 0
      /\ \A j, k \in lo..hi : j < k => ends[j] < ends[k]
      /\ \A k \in (lo + 1)..hi : Leads(its, ends[k - 1], ends[k], tr[k - 1], tr[k])
  BY <1>1 DEF Cuts
<1>3. its \in Seq(Text!ItemType) /\ Len(its) \in Nat /\ hi \in lo..hi /\ ends[hi] \in Nat
  BY <1>2 DEF Stacked
<1>4. lo < hi
  <2>1. ends[hi] # 0
    BY <1>1, <1>3
  <2> QED
    BY <1>2, <2>1
<1>5. PICK b \in Nat : b = ends[lo + 1]
  BY <1>2, <1>4
<1>6. b <= ends[hi] /\ b <= Len(its)
  <2>1. b <= ends[hi]
    <3>1. lo + 1 \in lo..hi /\ (lo + 1 = hi \/ lo + 1 < hi)
      BY <1>2, <1>4
    <3> QED
      BY <1>2, <1>3, <1>5, <3>1
  <2> QED
    BY <1>1, <1>3, <2>1
<1>7. Text!Group(its) = b /\ b > 0
  <2>1. lo + 1 \in (lo + 1)..hi /\ (lo + 1) - 1 = lo
    BY <1>2, <1>4
  <2>2. Leads(its, 0, b, tr[lo], tr[lo + 1])
    BY <1>2, <1>5, <2>1
  <2> QED
    BY <1>3, <1>6, <2>2, GroupIs
<1>8. PICK rest : rest = SubSeq(its, b + 1, Len(its))
  OBVIOUS
<1>9. /\ rest \in Seq(Text!ItemType) /\ Len(rest) = Len(its) - b
      /\ \A j \in 1..(Len(its) - b) : rest[j] = its[b + j]
  BY <1>3, <1>6, <1>8
<1>10. PICK new : new = [k \in (lo + 1)..hi |-> ends[k] - b]
  OBVIOUS
<1>11. \A k \in (lo + 1)..hi : ends[k] \in Nat /\ b <= ends[k] /\ ends[k] <= ends[hi] /\ new[k] = ends[k] - b
  <2> TAKE k \in (lo + 1)..hi
  <2>1. k \in lo..hi /\ lo + 1 \in lo..hi /\ (k = lo + 1 \/ lo + 1 < k) /\ (k = hi \/ k < hi)
    BY <1>2, <1>4
  <2>2. ends[k] \in Nat /\ new[k] = ends[k] - b
    BY <1>2, <1>10, <2>1
  <2>3. b <= ends[k]
    <3>1. k = lo + 1 \/ ends[lo + 1] < ends[k]
      BY <1>2, <2>1
    <3> QED
      BY <1>5, <2>2, <3>1
  <2>4. ends[k] <= ends[hi]
    <3>1. k = hi \/ ends[k] < ends[hi]
      BY <1>2, <1>3, <2>1
    <3> QED
      BY <1>3, <2>2, <3>1
  <2> QED
    BY <2>2, <2>3, <2>4
<1>12. Cuts(new, rest, lo + 1, hi, tr)
  <2>1. lo + 1 \in 1..hi /\ lo + 1 \in (lo + 1)..hi
    BY <1>2, <1>4
  <2>2. new \in [(lo + 1)..hi -> Nat]
    <3>1. \A k \in (lo + 1)..hi : ends[k] - b \in Nat
      BY <1>11
    <3> QED
      BY <1>10, <3>1
  <2>3. new[lo + 1] = 0
    BY <1>5, <1>11, <2>1
  <2>4. ASSUME NEW j \in (lo + 1)..hi, NEW k \in (lo + 1)..hi, j < k PROVE new[j] < new[k]
    <3>1. j \in lo..hi /\ k \in lo..hi
      BY <1>2
    <3>2. ends[j] < ends[k]
      BY <1>2, <2>4, <3>1
    <3> QED
      BY <1>11, <3>2
  <2>5. ASSUME NEW k \in ((lo + 1) + 1)..hi PROVE Leads(rest, new[k - 1], new[k], tr[k - 1], tr[k])
    <3>1. k \in (lo + 1)..hi /\ k - 1 \in (lo + 1)..hi /\ k - 1 < k /\ k \in lo..hi /\ k - 1 \in lo..hi
      BY <1>2
    <3>2. PICK a \in Nat, d \in Nat : a = ends[k - 1] /\ d = ends[k]
      BY <1>11, <3>1
    <3>3. a < d /\ b <= a /\ d <= ends[hi] /\ new[k - 1] = a - b /\ new[k] = d - b
      BY <1>2, <1>11, <3>1, <3>2
    <3>4. Leads(its, a, d, tr[k - 1], tr[k])
      BY <1>2, <3>1, <3>2
    <3>5. d <= Len(its)
      BY <1>1, <1>3, <3>3
    <3>6. a - b \in Nat /\ d - b \in Nat /\ (d - b) - (a - b) = d - a
      BY <3>3
    <3>7. \A j \in 1..(d - a) : rest[(a - b) + j] = its[a + j]
      <4> TAKE j \in 1..(d - a)
      <4>1. (a - b) + j \in 1..(Len(its) - b) /\ b + ((a - b) + j) = a + j
        BY <1>3, <3>3, <3>5
      <4> QED
        BY <1>9, <4>1
    <3>8. PICK h, g : h = tr[k - 1] /\ g = tr[k]
      OBVIOUS
    <3>9. PICK x \in Nat, y \in Nat : x = a - b /\ y = d - b
      BY <3>6
    <3>10. y - x = d - a /\ \A j \in 1..(d - a) : rest[x + j] = its[a + j]
      BY <3>6, <3>7, <3>9
    <3>11. Leads(its, a, d, h, g)
      BY <3>4, <3>8
    <3>12. h = h /\ g.text = g.text
      OBVIOUS
    <3>13. Leads(rest, x, y, h, g)
      BY <3>10, <3>11, <3>12, LeadsMoved
    <3> QED
      BY <3>3, <3>8, <3>9, <3>13
  <2> QED
    BY <2>1, <2>2, <2>3, <2>4, <2>5 DEF Cuts
<1>13. hi \in (lo + 1)..hi /\ new[hi] = ends[hi] - b
  BY <1>4, <1>2, <1>11
<1>14. Len(rest) = new[hi] + Len(tail)
  BY <1>1, <1>3, <1>9, <1>13
<1>15. \A j \in 1..Len(tail) : rest[new[hi] + j] = tail[j]
  <2> TAKE j \in 1..Len(tail)
  <2>1. (ends[hi] - b) + j \in 1..(Len(its) - b) /\ b + ((ends[hi] - b) + j) = ends[hi] + j
    BY <1>1, <1>3, <1>6
  <2> QED
    BY <1>1, <1>9, <1>13, <2>1
<1>16. Stacked(rest, hi, tr, tail)
  BY <1>9, <1>12, <1>14, <1>15 DEF Stacked
<1>17. Len(rest) < Len(its)
  BY <1>3, <1>7, <1>9
<1> QED
  BY <1>7, <1>8, <1>16, <1>17

LEMMA AppendStacked ==
    ASSUME NEW its, NEW hi \in Nat, NEW tr, NEW tail \in Seq(Text!ItemType), Stacked(its, hi, tr, tail),
           NEW x \in Text!ItemType
    PROVE  Stacked(Append(its, x), hi, tr, Append(tail, x))
<1>1. PICK lo, ends :
        /\ Cuts(ends, its, lo, hi, tr)
        /\ Len(its) = ends[hi] + Len(tail)
        /\ \A j \in 1..Len(tail) : its[ends[hi] + j] = tail[j]
  BY DEF Stacked
<1>2. /\ lo \in Nat /\ lo >= 1 /\ lo <= hi /\ ends \in [lo..hi -> Nat] /\ ends[lo] = 0
      /\ \A j, k \in lo..hi : j < k => ends[j] < ends[k]
      /\ \A k \in (lo + 1)..hi : Leads(its, ends[k - 1], ends[k], tr[k - 1], tr[k])
  <2>1. /\ lo \in 1..hi /\ ends \in [lo..hi -> Nat] /\ ends[lo] = 0
        /\ \A j, k \in lo..hi : j < k => ends[j] < ends[k]
        /\ \A k \in (lo + 1)..hi : Leads(its, ends[k - 1], ends[k], tr[k - 1], tr[k])
    BY <1>1, Zenon DEF Cuts
  <2>2. lo \in Nat /\ lo >= 1 /\ lo <= hi
    BY <2>1
  <2> QED
    BY <2>1, <2>2, Zenon
<1>3. PICK m, n, z : m = Len(its) /\ n = Len(tail) /\ z = ends[hi]
  OBVIOUS
<1>4. its \in Seq(Text!ItemType) /\ m \in Nat /\ n \in Nat /\ z \in Nat /\ m = z + n
  BY <1>1, <1>2, <1>3 DEF Stacked
<1>5. PICK new, more : new = Append(its, x) /\ more = Append(tail, x)
  OBVIOUS
<1>6. /\ new \in Seq(Text!ItemType) /\ Len(new) = m + 1 /\ new[m + 1] = x
      /\ \A j \in 1..m : new[j] = its[j]
  <2>1. PICK S : S = Text!ItemType
    OBVIOUS
  <2>2. its \in Seq(S) /\ x \in S
    BY <1>4, <2>1
  <2>3. Append(its, x) \in Seq(S) /\ Len(Append(its, x)) = Len(its) + 1 /\ Append(its, x)[Len(its) + 1] = x
        /\ \A j \in 1..Len(its) : Append(its, x)[j] = its[j]
    BY <2>2
  <2> QED
    BY <1>3, <1>5, <2>1, <2>3
<1>7. Len(more) = n + 1 /\ more[n + 1] = x /\ \A j \in 1..n : more[j] = tail[j]
  BY <1>3, <1>4, <1>5
<1>8. Cuts(ends, new, lo, hi, tr)
  <2>1. ASSUME NEW k \in (lo + 1)..hi PROVE Leads(new, ends[k - 1], ends[k], tr[k - 1], tr[k])
    <3>1. k \in lo..hi /\ k - 1 \in lo..hi /\ k - 1 < k /\ (k = hi \/ k < hi) /\ hi \in lo..hi
      BY <1>2
    <3>2. PICK a \in Nat, d \in Nat : a = ends[k - 1] /\ d = ends[k]
      BY <1>2, <3>1
    <3>3. a < d /\ d <= z
      BY <1>2, <1>3, <3>1, <3>2
    <3>4. Leads(its, a, d, tr[k - 1], tr[k])
      BY <1>2, <3>2
    <3>5. \A j \in 1..(d - a) : new[a + j] = its[a + j]
      <4> TAKE j \in 1..(d - a)
      <4>1. a + j \in 1..m
        BY <1>4, <3>3
      <4> QED
        BY <1>6, <4>1
    <3>6. PICK h, g : h = tr[k - 1] /\ g = tr[k]
      OBVIOUS
    <3>7. Leads(its, a, d, h, g) /\ d - a = d - a /\ h = h /\ g.text = g.text
      BY <3>4, <3>6
    <3>8. Leads(new, a, d, h, g)
      BY <3>5, <3>7, LeadsMoved
    <3> QED
      BY <3>2, <3>6, <3>8
  <2>2. lo \in 1..hi
    BY <1>2
  <2> QED
    BY <1>2, <2>1, <2>2 DEF Cuts
<1>9. Len(new) = ends[hi] + Len(more)
  <2>1. m + 1 = z + (n + 1)
    BY <1>4
  <2> QED
    BY <1>3, <1>6, <1>7, <2>1
<1>10. \A j \in 1..Len(more) : new[ends[hi] + j] = more[j]
  <2> TAKE j \in 1..Len(more)
  <2>1. CASE j = n + 1
    <3>1. z + j = m + 1
      BY <1>4, <2>1
    <3> QED
      BY <1>3, <1>6, <1>7, <2>1, <3>1
  <2>2. CASE j # n + 1
    <3>1. j \in 1..n /\ z + j \in 1..m
      BY <1>4, <1>7, <2>2
    <3>2. its[z + j] = tail[j]
      BY <1>1, <1>3, <3>1
    <3> QED
      BY <1>3, <1>6, <1>7, <3>1, <3>2
  <2> QED
    BY <2>1, <2>2
<1>11. Stacked(new, hi, tr, more)
  BY <1>6, <1>8, <1>9, <1>10 DEF Stacked
<1> QED
  BY <1>5, <1>11

StackLimits == MaxLen \in Nat /\ MaxItems \in Nat /\ MaxItems >= 4

\* The stack up to the cursor is groups and the beginning of one.
Open(e, hi, tr, tail) ==
    /\ e \in EditType /\ e.pos <= Len(e.items) /\ e.pos <= MaxItems
    /\ tail \in Seq(Text!ItemType)
    /\ Stacked(SubSeq(e.items, 1, e.pos), hi, tr, tail)

\* A push leaves the groups and what was pushed of the one that is not done.
LEMMA PushKeeps ==
    ASSUME StackLimits, NEW hi \in Nat, NEW tr, NEW tail, NEW e, Open(e, hi, tr, tail), Len(tail) <= 3,
           NEW x \in Text!ItemType
    PROVE  LET t == Text!Push(e, x) IN
           /\ Open(t, hi, tr, Append(tail, x))
           /\ t.pos = Len(t.items) /\ t.text = e.text /\ t.caret = e.caret
           /\ t.anchor = e.anchor /\ t.active = e.active
<1>1. PICK its : its = SubSeq(e.items, 1, e.pos)
  OBVIOUS
<1>2. /\ e \in EditType /\ e.items \in Seq(Text!ItemType) /\ e.pos \in Nat /\ e.pos <= Len(e.items) /\ e.pos <= MaxItems
      /\ tail \in Seq(Text!ItemType) /\ Len(tail) \in 0..3 /\ Stacked(its, hi, tr, tail)
      /\ MaxItems \in Nat /\ MaxItems >= 4
  <2>1. e \in EditType /\ e.pos <= Len(e.items) /\ e.pos <= MaxItems /\ tail \in Seq(Text!ItemType)
        /\ Stacked(its, hi, tr, tail)
    BY <1>1 DEF Open
  <2>2. e.items \in Seq(Text!ItemType) /\ e.pos \in Nat
    BY <2>1 DEF EditType
  <2>3. Len(tail) \in 0..3
    <3>1. PICK n : n = Len(tail)
      OBVIOUS
    <3>2. n \in Nat
      BY <2>1, <3>1
    <3>3. n <= 3
      BY <3>1, Zenon
    <3>4. n \in 0..3
      BY <3>2, <3>3
    <3> QED
      BY <3>1, <3>4
  <2> QED
    BY <2>1, <2>2, <2>3 DEF StackLimits
<1>3. its \in Seq(Text!ItemType) /\ Len(its) = e.pos
  BY <1>1, <1>2
<1>4. PICK kept : kept = Text!Room(its)
  OBVIOUS
<1>5. Stacked(kept, hi, tr, tail) /\ Len(kept) < MaxItems
  <2>1. CASE Len(its) < MaxItems
    BY <1>2, <1>4, <2>1 DEF Text!Room
  <2>2. CASE ~(Len(its) < MaxItems)
    <3>1. Len(its) = MaxItems /\ Len(its) >= 4
      BY <1>2, <1>3, <2>2
    <3> QED
      BY <1>2, <1>4, <2>2, <3>1, DropGroup DEF Text!Room
  <2> QED
    BY <2>1, <2>2
<1>6. PICK new : new = Append(kept, x)
  OBVIOUS
<1>7. Stacked(new, hi, tr, Append(tail, x))
  BY <1>2, <1>5, <1>6, AppendStacked
<1>8. kept \in Seq(Text!ItemType) /\ Len(kept) \in Nat /\ new \in Seq(Text!ItemType) /\ Len(new) = Len(kept) + 1
  BY <1>5, <1>6 DEF Stacked
<1>9. PICK t : t = Text!Push(e, x)
  OBVIOUS
<1>10. t = [e EXCEPT !.items = new, !.pos = Len(kept) + 1]
  BY <1>1, <1>4, <1>6, <1>9, Zenon DEF Text!Push
<1>11. /\ t \in EditType /\ t.items = new /\ t.pos = Len(kept) + 1 /\ t.text = e.text /\ t.caret = e.caret
       /\ t.anchor = e.anchor /\ t.active = e.active
  <2>1. PICK n \in Nat : n = Len(kept) + 1
    BY <1>8
  <2>2. t = [e EXCEPT !.items = new, !.pos = n]
    BY <1>10, <2>1, Zenon
  <2>3. PICK I : I = Seq(Text!ItemType)
    OBVIOUS
  <2>4. EditType = [text : Texts, items : I, pos : Nat, caret : Text!PlaceType, anchor : Text!PlaceType,
                    active : Text!PlaceType]
    BY <2>3, Zenon DEF EditType
  <2>5. new \in I
    BY <1>8, <2>3
  <2>6. t \in EditType /\ t.items = new /\ t.pos = n /\ t.text = e.text /\ t.caret = e.caret
        /\ t.anchor = e.anchor /\ t.active = e.active
    BY <1>2, <2>1, <2>2, <2>4, <2>5
  <2> QED
    BY <2>1, <2>6
<1>12. SubSeq(new, 1, Len(new)) = new
  BY <1>8, SubSeqFull
<1>13. Len(kept) + 1 <= MaxItems
  BY <1>2, <1>5, <1>8
<1>14. Append(tail, x) \in Seq(Text!ItemType)
  BY <1>2
<1>15. Open(t, hi, tr, Append(tail, x))
  <2>1. SubSeq(t.items, 1, t.pos) = new
    BY <1>8, <1>11, <1>12
  <2>2. t.pos <= Len(t.items) /\ t.pos <= MaxItems
    BY <1>8, <1>11, <1>13
  <2> QED
    BY <1>7, <1>11, <1>14, <2>1, <2>2 DEF Open
<1> QED
  BY <1>8, <1>9, <1>11, <1>15

StandsAt(its, z, tail, m) == \A j \in 1..m : its[z + j] = tail[j]

\* What was pushed is a group where it stands.
LEMMA LeadsAfter ==
    ASSUME NEW its, NEW tail, NEW z \in Nat, NEW m \in Nat, NEW h, NEW g,
           Leads(tail, 0, m, h, g), StandsAt(its, z, tail, m)
    PROVE  Leads(its, z, z + m, h, g)
<1>1. CASE LeadsByOne(tail, 0, m, h, g)
  <2>1. m = 1 /\ tail[1] \in ItemsOnly /\ Over(tail[1], h) /\ Turns(tail[1], h.text, g.text)
    BY <1>1 DEF LeadsByOne
  <2>2. its[z + 1] = tail[1]
    BY <2>1 DEF StandsAt
  <2>3. LeadsByOne(its, z, z + m, h, g)
    BY <2>1, <2>2 DEF LeadsByOne
  <2> QED
    BY <2>3 DEF Leads
<1>2. CASE LeadsByFour(tail, 0, m, h, g)
  <2>1. m = 4
    BY <1>2 DEF LeadsByFour
  <2>2. its[z + 1] = tail[1] /\ its[z + 2] = tail[2] /\ its[z + 3] = tail[3] /\ its[z + 4] = tail[4]
    BY <2>1 DEF StandsAt
  <2>3. LeadsByFour(its, z, z + m, h, g)
    BY <1>2, <2>1, <2>2 DEF LeadsByFour
  <2> QED
    BY <2>3 DEF Leads
<1> QED
  BY <1>1, <1>2 DEF Leads

\* A group leads to whatever holds the text.
LEMMA LeadsHeld ==
    ASSUME NEW its, NEW a, NEW b, NEW h, NEW g, NEW q, q.text = g.text, Leads(its, a, b, h, g)
    PROVE  Leads(its, a, b, h, q)
<1>1. CASE LeadsByOne(its, a, b, h, g)
  BY <1>1 DEF LeadsByOne, Leads
<1>2. CASE LeadsByFour(its, a, b, h, g)
  BY <1>2 DEF LeadsByFour, Leads
<1> QED
  BY <1>1, <1>2 DEF Leads

\* The groups below the cursor are a stack.
LEMMA OpenStacked ==
    ASSUME NEW its \in Seq(Text!ItemType), NEW tr, Len(tr) \in Nat, NEW pos, NEW on, Grouped(its, pos, on, tr)
    PROVE  /\ Stacked(SubSeq(its, 1, pos), on, tr, <<>>)
           /\ pos \in 0..Len(its) /\ on \in 1..Len(tr)
<1>1. PICK lo, ends :
        /\ Cuts(ends, its, lo, Len(tr), tr)
        /\ on \in lo..Len(tr) /\ ends[on] = pos /\ ends[Len(tr)] = Len(its)
  BY DEF Grouped
<1>2. PICK n : n = Len(tr)
  OBVIOUS
<1>3. /\ n \in Nat /\ lo \in Nat /\ lo >= 1 /\ lo <= n /\ on \in lo..n /\ ends \in [lo..n -> Nat] /\ ends[lo] = 0
      /\ \A j, k \in lo..n : j < k => ends[j] < ends[k]
      /\ \A k \in (lo + 1)..n : Leads(its, ends[k - 1], ends[k], tr[k - 1], tr[k])
      /\ ends[on] = pos /\ ends[n] = Len(its)
  BY <1>1, <1>2 DEF Cuts
<1>4. on \in Nat /\ on \in 1..n /\ pos \in Nat /\ Len(its) \in Nat /\ n \in lo..n
  BY <1>3
<1>5. pos <= Len(its)
  <2>1. on = n \/ ends[on] < ends[n]
    BY <1>3, <1>4
  <2> QED
    BY <1>3, <1>4, <2>1
<1>6. PICK below, kept : below = SubSeq(its, 1, pos) /\ kept = [k \in lo..on |-> ends[k]]
  OBVIOUS
<1>7. below \in Seq(Text!ItemType) /\ Len(below) = pos /\ \A j \in 1..pos : below[j] = its[j]
  BY <1>4, <1>5, <1>6
<1>8. \A k \in lo..on : k \in lo..n /\ kept[k] = ends[k] /\ ends[k] \in Nat /\ ends[k] <= pos
  <2> TAKE k \in lo..on
  <2>1. k \in lo..n /\ (k = on \/ k < on)
    BY <1>3
  <2>2. kept[k] = ends[k] /\ ends[k] \in Nat
    BY <1>3, <1>6, <2>1
  <2>3. k = on \/ ends[k] < ends[on]
    BY <1>3, <2>1
  <2> QED
    BY <1>3, <1>4, <2>1, <2>2, <2>3
<1>9. Cuts(kept, below, lo, on, tr)
  <2>1. lo \in 1..on /\ lo \in lo..on
    BY <1>3
  <2>2. kept \in [lo..on -> Nat] /\ kept[lo] = 0
    <3>1. \A k \in lo..on : ends[k] \in Nat
      BY <1>8
    <3> QED
      BY <1>3, <1>6, <1>8, <2>1, <3>1
  <2>3. \A j, k \in lo..on : j < k => kept[j] < kept[k]
    BY <1>3, <1>8
  <2>4. ASSUME NEW k \in (lo + 1)..on PROVE Leads(below, kept[k - 1], kept[k], tr[k - 1], tr[k])
    <3>1. k \in lo..on /\ k - 1 \in lo..on /\ k - 1 < k /\ k \in (lo + 1)..n
      BY <1>3
    <3>2. PICK a \in Nat, d \in Nat : a = ends[k - 1] /\ d = ends[k]
      BY <1>8, <3>1
    <3>3. a < d /\ d <= pos /\ kept[k - 1] = a /\ kept[k] = d
      BY <1>3, <1>8, <3>1, <3>2
    <3>4. PICK h, g : h = tr[k - 1] /\ g = tr[k]
      OBVIOUS
    <3>5. Leads(its, a, d, h, g)
      BY <1>3, <3>1, <3>2, <3>4
    <3>6. \A j \in 1..(d - a) : below[a + j] = its[a + j]
      <4> TAKE j \in 1..(d - a)
      <4>1. a + j \in 1..pos
        BY <1>4, <3>3
      <4> QED
        BY <1>7, <4>1
    <3>7. d - a = d - a /\ h = h /\ g.text = g.text
      OBVIOUS
    <3>8. Leads(below, a, d, h, g)
      BY <3>5, <3>6, <3>7, LeadsMoved
    <3> QED
      BY <3>3, <3>4, <3>8
  <2> QED
    BY <2>1, <2>2, <2>3, <2>4 DEF Cuts
<1>10. kept[on] = pos
  BY <1>3, <1>8
<1>11. PICK none : none = <<>>
  OBVIOUS
<1>12. Len(none) = 0 /\ 1..Len(none) = {}
  BY <1>11
<1>13. Len(below) = kept[on] + Len(none) /\ \A j \in 1..Len(none) : below[kept[on] + j] = none[j]
  BY <1>4, <1>7, <1>10, <1>12
<1>14. Stacked(below, on, tr, none)
  BY <1>7, <1>9, <1>13 DEF Stacked
<1> QED
  BY <1>2, <1>4, <1>5, <1>6, <1>11, <1>14

\* What was pushed is a group more.
LEMMA CloseStacked ==
    ASSUME NEW hi \in Nat, NEW tr, NEW tail, NEW e, Open(e, hi, tr, tail), e.pos = Len(e.items),
           NEW h, NEW g, Leads(tail, 0, Len(tail), h, g),
           NEW new, Len(new) = hi + 1, new[hi] = h, new[hi + 1] = g, h.text = tr[hi].text,
           \A j \in 1..(hi - 1) : new[j] = tr[j]
    PROVE  Grouped(e.items, e.pos, hi + 1, new)
<1>1. PICK its : its = e.items
  OBVIOUS
<1>2. its \in Seq(Text!ItemType) /\ tail \in Seq(Text!ItemType) /\ e.pos = Len(its)
  BY <1>1 DEF Open, EditType
<1>3. Stacked(its, hi, tr, tail)
  <2>1. SubSeq(its, 1, Len(its)) = its
    BY <1>2, SubSeqFull
  <2> QED
    BY <1>1, <1>2, <2>1 DEF Open
<1>4. PICK lo, ends :
        /\ Cuts(ends, its, lo, hi, tr)
        /\ Len(its) = ends[hi] + Len(tail)
        /\ \A j \in 1..Len(tail) : its[ends[hi] + j] = tail[j]
  BY <1>3 DEF Stacked
<1>5. /\ lo \in Nat /\ lo >= 1 /\ lo <= hi /\ ends \in [lo..hi -> Nat] /\ ends[lo] = 0
      /\ \A j, k \in lo..hi : j < k => ends[j] < ends[k]
      /\ \A k \in (lo + 1)..hi : Leads(its, ends[k - 1], ends[k], tr[k - 1], tr[k])
  BY <1>4 DEF Cuts
<1>6. PICK m, z : m = Len(tail) /\ z = ends[hi]
  OBVIOUS
<1>7. m \in Nat /\ z \in Nat /\ Len(its) = z + m /\ Leads(tail, 0, m, h, g) /\ \A j \in 1..m : its[z + j] = tail[j]
  BY <1>2, <1>4, <1>5, <1>6
<1>8. m > 0
  <2>1. m <= Len(tail)
    BY <1>6, <1>7
  <2> QED
    BY <1>2, <1>7, <2>1, GroupIs
<1>9. Leads(its, z, z + m, h, g)
  <2>1. StandsAt(its, z, tail, m)
    BY <1>7 DEF StandsAt
  <2> QED
    BY <1>7, <2>1, LeadsAfter
<1>10. PICK more : more = [k \in lo..(hi + 1) |-> IF k = hi + 1 THEN z + m ELSE ends[k]]
  OBVIOUS
<1>11. more \in [lo..(hi + 1) -> Nat] /\ more[hi + 1] = z + m
  <2>1. \A k \in lo..(hi + 1) : (IF k = hi + 1 THEN z + m ELSE ends[k]) \in Nat
    BY <1>5, <1>7
  <2>2. hi + 1 \in lo..(hi + 1)
    BY <1>5
  <2> QED
    BY <1>10, <2>1, <2>2
<1>12. \A k \in lo..hi : k \in lo..(hi + 1) /\ more[k] = ends[k] /\ ends[k] \in Nat /\ ends[k] <= z
  <2> TAKE k \in lo..hi
  <2>1. k \in lo..(hi + 1) /\ k # hi + 1 /\ (k = hi \/ k < hi) /\ hi \in lo..hi
    BY <1>5
  <2>2. more[k] = ends[k] /\ ends[k] \in Nat
    BY <1>5, <1>10, <2>1
  <2>3. k = hi \/ ends[k] < ends[hi]
    BY <1>5, <2>1
  <2> QED
    BY <1>6, <1>7, <2>1, <2>2, <2>3
<1>13. Cuts(more, its, lo, hi + 1, new)
  <2>1. lo \in 1..(hi + 1) /\ lo \in lo..hi
    BY <1>5
  <2>2. more[lo] = 0
    BY <1>5, <1>12, <2>1
  <2>3. ASSUME NEW j \in lo..(hi + 1), NEW k \in lo..(hi + 1), j < k PROVE more[j] < more[k]
    <3>1. j \in lo..hi
      BY <1>5, <2>3
    <3>2. CASE k = hi + 1
      BY <1>7, <1>8, <1>11, <1>12, <3>1, <3>2
    <3>3. CASE k # hi + 1
      <4>1. k \in lo..hi
        BY <1>5, <3>3
      <4> QED
        BY <1>5, <1>12, <2>3, <3>1, <4>1
    <3> QED
      BY <3>2, <3>3
  <2>4. ASSUME NEW k \in (lo + 1)..(hi + 1) PROVE Leads(its, more[k - 1], more[k], new[k - 1], new[k])
    <3>1. CASE k = hi + 1
      <4>1. k - 1 = hi /\ hi \in lo..hi
        BY <1>5, <3>1
      <4>2. more[k - 1] = z /\ more[k] = z + m
        BY <1>6, <1>11, <1>12, <3>1, <4>1
      <4> QED
        BY <1>9, <3>1, <4>1, <4>2
    <3>2. CASE k # hi + 1
      <4>1. k \in (lo + 1)..hi /\ k \in lo..hi /\ k - 1 \in lo..hi /\ k - 1 \in 1..(hi - 1) /\ k - 1 < k
        BY <1>5, <3>2
      <4>2. PICK a \in Nat, d \in Nat : a = ends[k - 1] /\ d = ends[k]
        BY <1>12, <4>1
      <4>3. more[k - 1] = a /\ more[k] = d
        BY <1>12, <4>1, <4>2
      <4>4. PICK x, y, q : x = tr[k - 1] /\ y = tr[k] /\ q = new[k]
        OBVIOUS
      <4>5. Leads(its, a, d, x, y) /\ new[k - 1] = x
        BY <1>5, <4>1, <4>2, <4>4
      <4>6. q.text = y.text
        <5>1. CASE k = hi
          BY <4>4, <5>1
        <5>2. CASE k # hi
          <6>1. k \in 1..(hi - 1)
            BY <1>5, <4>1, <5>2
          <6> QED
            BY <4>4, <6>1
        <5> QED
          BY <5>1, <5>2
      <4>8. Leads(its, a, d, x, q)
        BY <4>5, <4>6, LeadsHeld
      <4> QED
        BY <4>3, <4>4, <4>5, <4>8
    <3> QED
      BY <3>1, <3>2
  <2> QED
    BY <1>11, <2>1, <2>2, <2>3, <2>4 DEF Cuts
<1>14. hi + 1 \in lo..(hi + 1) /\ more[hi + 1] = Len(its)
  BY <1>5, <1>7, <1>11
<1>15. PICK n : n = Len(new)
  OBVIOUS
<1>16. n = hi + 1
  BY <1>15
<1>17. Cuts(more, its, lo, n, new) /\ n \in lo..n /\ more[n] = Len(its)
  BY <1>13, <1>14, <1>16
<1>18. Grouped(its, Len(its), n, new)
  BY <1>15, <1>17 DEF Grouped
<1> QED
  BY <1>1, <1>2, <1>16, <1>18

----------------------------------------------------------------------------
(* The edit control: what an edit records.                                 *)

Item(e, kind, p, chars) ==
    [kind |-> kind, place |-> p, chars |-> chars, anchor |-> e.anchor, active |-> e.active]

\* An item of that kind, carrying the selection of h.
Made(x, h, kind, p, chars) ==
    /\ x \in ItemsOnly /\ Over(x, h)
    /\ x.kind = kind /\ x.place = p /\ x.chars = chars

LEMMA FittingIs ==
    ASSUME MaxLen \in Nat, NEW e \in EditType, NEW from \in Nat, NEW to \in Nat, NEW insert \in Texts
    PROVE  Text!Fitting(e, from, to, insert) \in Texts
<1>1. PICK S, n, l : S = Text!Characters /\ n = MaxLen - (Len(e.text) - (to - from)) /\ l = Len(insert)
  OBVIOUS
<1>2. insert \in Seq(S) /\ l \in Nat /\ Len(e.text) \in Nat
  BY <1>1 DEF EditType, Texts
<1>3. n \in Int
  BY <1>1, <1>2
<1>4. PICK m : m = IF n < l THEN n ELSE l
  OBVIOUS
<1>5. m \in Int /\ m <= l
  BY <1>2, <1>3, <1>4
<1>6. \A i \in 1..m : insert[i] \in S
  BY <1>1, <1>2, <1>5
<1>7. SubSeq(insert, 1, m) \in Seq(S)
  BY <1>5, <1>6, SubSeqProperties
<1>8. Text!Fitting(e, from, to, insert) = SubSeq(insert, 1, m)
  BY <1>1, <1>4 DEF Text!Fitting, Text!Take
<1> QED
  BY <1>1, <1>7, <1>8 DEF Texts

LEMMA ItemMade ==
    ASSUME NEW e \in EditType, NEW kind \in {"insert", "clear"}, NEW p \in Text!PlaceType, NEW chars \in Texts
    PROVE  Made(Item(e, kind, p, chars), Text!Held(e), kind, p, chars)
<1>1. PICK x : x = Item(e, kind, p, chars)
  OBVIOUS
<1>2. PICK a, c, h : a = e.anchor /\ c = e.active /\ h = Text!Held(e)
  OBVIOUS
<1>3. a \in Text!PlaceType /\ c \in Text!PlaceType
  BY <1>2 DEF EditType
<1>4. x = [kind |-> kind, place |-> p, chars |-> chars, anchor |-> a, active |-> c]
  BY <1>1, <1>2 DEF Item
<1>5. x.kind = kind /\ x.place = p /\ x.chars = chars /\ x.anchor = a /\ x.active = c
  BY <1>4
<1>6. x \in [kind : {"insert", "clear"}, place : Text!PlaceType, chars : Seq(Text!Characters),
             anchor : Text!PlaceType, active : Text!PlaceType]
  BY <1>3, <1>4 DEF Texts
<1>7. x # Text!Boundary
  <2>1. Text!Boundary.kind = "boundary"
    BY DEF Text!Boundary
  <2> QED
    BY <1>5, <2>1
<1>8. x \in Text!ItemType /\ x \in ItemsOnly
  BY <1>6, <1>7 DEF Text!ItemType, ItemsOnly
<1>9. h.anchor = a /\ h.active = c
  BY <1>2 DEF Text!Held
<1>10. Over(x, h)
  BY <1>5, <1>9 DEF Over
<1> QED
  BY <1>1, <1>2, <1>5, <1>8, <1>10 DEF Made

\* A replacement within the text, up to where it is laid out.
Within(e, from, to) ==
    /\ e \in EditType /\ from \in Nat /\ to \in Nat
    /\ from <= to /\ to <= Len(e.text) /\ from <= Width(e.text)

\* Where a replacement begins is the same place before and after it.
LEMMA BeginsSame ==
    ASSUME MaxLen \in Nat, NEW e, NEW from, NEW to, Within(e, from, to), NEW insert \in Texts
    PROVE  LET new == Spliced(e.text, from, to, insert) IN
           /\ new \in Texts /\ from \in 0..Width(new)
           /\ Text!PlaceOf(Text!Layout(new), from) = Text!PlaceOf(Text!Layout(e.text), from)
<1>1. PICK s, new : s = e.text /\ new = Spliced(s, from, to, insert)
  OBVIOUS
<1>2. s \in Texts /\ from \in Nat /\ to \in Nat /\ from <= to /\ to <= Len(s) /\ from <= Width(s)
  BY <1>1 DEF Within, EditType
<1>3. Width(s) \in Nat /\ Width(s) <= MaxLen /\ Width(s) <= Len(s)
  BY <1>2, WidthIs
<1>4. new \in Texts /\ (\A k \in 1..from : new[k] = s[k]) /\ from <= Len(new)
  BY <1>1, <1>2, <1>3, SplicedIs
<1>5. from <= Width(new) /\ Width(new) \in Nat
  <2>1. from <= MaxLen /\ Len(new) \in Nat
    BY <1>2, <1>3, <1>4, WidthIs
  <2> QED
    BY <1>2, <1>4, <2>1 DEF Width
<1>6. Alike(new, s, from)
  BY <1>2, <1>4, <1>5 DEF Alike
<1>7. Text!PlaceOf(Text!Layout(new), from) = Text!PlaceOf(Text!Layout(s), from)
  BY <1>2, <1>4, <1>6, SamePlace
<1> QED
  BY <1>1, <1>2, <1>4, <1>5, <1>7

\* A text, and the item that says what was put in between or taken out.
LEMMA PutsIn ==
    ASSUME MaxLen \in Nat, NEW e, NEW from, NEW to, Within(e, from, to), NEW chars \in Texts,
           NEW x, x.place = Text!PlaceOf(Text!Layout(e.text), from), x.chars = chars
    PROVE  Puts(x, Spliced(e.text, from, to, <<>>), Spliced(e.text, from, to, chars))
<1>1. PICK s, mid, new : s = e.text /\ mid = Spliced(s, from, to, <<>>) /\ new = Spliced(s, from, to, chars)
  OBVIOUS
<1>2. s \in Texts /\ from \in Nat /\ to \in Nat /\ from <= to /\ to <= Len(s)
  BY <1>1 DEF Within, EditType
<1>3. <<>> \in Texts
  BY DEF Texts
<1>4. mid \in Texts /\ from \in 0..Width(mid) /\ Text!PlaceOf(Text!Layout(mid), from) = Text!PlaceOf(Text!Layout(s), from)
  BY <1>1, <1>3, BeginsSame
<1>5. Spliced(mid, from, from, chars) = new
  BY <1>1, <1>2, SpliceOut
<1>6. Puts(x, mid, new)
  BY <1>1, <1>4, <1>5 DEF Puts
<1> QED
  BY <1>1, <1>6

LEMMA PutsBack ==
    ASSUME MaxLen \in Nat, NEW e, NEW from, NEW to, Within(e, from, to),
           NEW x, x.place = Text!PlaceOf(Text!Layout(e.text), from), x.chars = SubSeq(e.text, from + 1, to)
    PROVE  Puts(x, Spliced(e.text, from, to, <<>>), e.text)
<1>1. PICK s, mid, chars : s = e.text /\ mid = Spliced(s, from, to, <<>>) /\ chars = SubSeq(s, from + 1, to)
  OBVIOUS
<1>2. s \in Texts /\ from \in Nat /\ to \in Nat /\ from <= to /\ to <= Len(s)
  BY <1>1 DEF Within, EditType
<1>3. <<>> \in Texts
  BY DEF Texts
<1>4. mid \in Texts /\ from \in 0..Width(mid) /\ Text!PlaceOf(Text!Layout(mid), from) = Text!PlaceOf(Text!Layout(s), from)
  BY <1>1, <1>3, BeginsSame
<1>5. Spliced(mid, from, from, chars) = s
  BY <1>1, <1>2, SpliceOut
<1>6. Puts(x, mid, s)
  BY <1>1, <1>4, <1>5 DEF Puts
<1> QED
  BY <1>1, <1>6

\* An edit was recorded: the stack ends with the group it made.
Shut(e, hi, tr, h) ==
    /\ e \in EditType /\ e.pos = Len(e.items) /\ e.pos <= MaxItems
    /\ \E tail : Open(e, hi, tr, tail) /\ Leads(tail, 0, Len(tail), h, Text!Held(e))

\* t is e with one item pushed.
Pushed(t, e, hi, tr, tail) ==
    Open(t, hi, tr, tail) /\ t.pos = Len(t.items) /\ t.text = e.text

LEMMA PushIs ==
    ASSUME StackLimits, NEW hi \in Nat, NEW tr, NEW tail, NEW e, Open(e, hi, tr, tail), Len(tail) <= 3,
           NEW x \in Text!ItemType
    PROVE  Pushed(Text!Push(e, x), e, hi, tr, Append(tail, x))
  BY PushKeeps DEF Pushed

\* One item is recorded.
LEMMA PushOne ==
    ASSUME StackLimits, NEW hi \in Nat, NEW tr, NEW t, Open(t, hi, tr, <<>>), NEW h,
           NEW x \in ItemsOnly, Over(x, h), Turns(x, h.text, t.text)
    PROVE  Shut(Text!Push(t, x), hi, tr, h)
<1>1. PICK none, one, r : none = <<>> /\ one = Append(none, x) /\ r = Text!Push(t, x)
  OBVIOUS
<1>2. x \in Text!ItemType
  BY DEF ItemsOnly
<1>3. Len(none) <= 3 /\ Open(t, hi, tr, none)
  BY <1>1
<1>4. /\ Open(r, hi, tr, one) /\ r.pos = Len(r.items) /\ r.text = t.text
  <2>1. Pushed(r, t, hi, tr, one)
    BY <1>1, <1>2, <1>3, PushIs
  <2> QED
    BY <2>1 DEF Pushed
<1>5. Len(one) = 1 /\ one[1] = x
  BY <1>1
<1>6. PICK g : g = Text!Held(r)
  OBVIOUS
<1>7. g.text = t.text
  BY <1>4, <1>6 DEF Text!Held
<1>8. LeadsByOne(one, 0, 1, h, g)
  BY <1>5, <1>7 DEF LeadsByOne
<1>9. Leads(one, 0, Len(one), h, g)
  BY <1>5, <1>8 DEF Leads
<1>10. r \in EditType /\ r.pos <= MaxItems
  BY <1>4 DEF Open
<1> QED
  BY <1>1, <1>4, <1>6, <1>9, <1>10 DEF Shut

LEMMA Appended ==
    ASSUME NEW S, NEW s \in Seq(S), NEW x \in S, NEW n \in Nat, n = Len(s)
    PROVE  /\ Append(s, x) \in Seq(S) /\ Len(Append(s, x)) = n + 1 /\ Append(s, x)[n + 1] = x
           /\ \A j \in 1..n : Append(s, x)[j] = s[j]
  OBVIOUS

\* t is e after a replacement.
Altered(t, e, from, to, insert) ==
    /\ t \in EditType /\ t.items = e.items /\ t.pos = e.pos
    /\ to <= Len(e.text) => t.text = Spliced(e.text, from, to, insert)
    /\ insert # <<>> \/ from # to => t.caret = Text!PlaceOf(Text!Layout(t.text), from + Len(insert))

LEMMA AlteredIs ==
    ASSUME MaxLen \in Nat, NEW e \in EditType, NEW from \in Nat, NEW to \in Nat,
           from <= Len(e.text), from <= to, NEW insert \in Texts
    PROVE  Altered(Text!Replaced(e, from, to, insert), e, from, to, insert)
  BY ReplacedIs DEF Altered

\* A replacement is recorded.
LEMMA PushFour ==
    ASSUME StackLimits, NEW hi \in Nat, NEW tr, NEW t, Open(t, hi, tr, <<>>), NEW h,
           NEW x \in ItemsOnly, Over(x, h), x.kind = "clear",
           NEW y \in ItemsOnly, Over(y, h), y.kind = "insert",
           NEW mid \in Texts, Puts(x, mid, h.text), Puts(y, mid, t.text)
    PROVE  Shut(Text!Push(Text!Push(Text!Push(Text!Push(t, Text!Boundary), x), y), Text!Boundary), hi, tr, h)
<1>1. PICK b, o0, o1, o2, o3, o4 :
        /\ b = Text!Boundary /\ o0 = <<>> /\ o1 = Append(o0, b) /\ o2 = Append(o1, x) /\ o3 = Append(o2, y)
        /\ o4 = Append(o3, b)
  OBVIOUS
<1>2. PICK r1, r2, r3, r4 :
        r1 = Text!Push(t, b) /\ r2 = Text!Push(r1, x) /\ r3 = Text!Push(r2, y) /\ r4 = Text!Push(r3, b)
  OBVIOUS
<1>3. PICK S : S = Text!ItemType
  OBVIOUS
<1>4. x \in S /\ y \in S /\ b \in S
  BY <1>1, <1>3 DEF ItemsOnly, Text!ItemType
<1>5. o0 \in Seq(S) /\ Len(o0) = 0
  BY <1>1
<1>6. o1 \in Seq(S) /\ Len(o1) = 1 /\ o1[1] = b
  BY <1>1, <1>4, <1>5, Appended
<1>7. o2 \in Seq(S) /\ Len(o2) = 2 /\ o2[2] = x /\ o2[1] = b
  <2>1. o2 \in Seq(S) /\ Len(o2) = 1 + 1 /\ o2[1 + 1] = x /\ \A j \in 1..1 : o2[j] = o1[j]
    BY <1>1, <1>4, <1>6, Appended
  <2> QED
    BY <1>6, <2>1
<1>8. o3 \in Seq(S) /\ Len(o3) = 3 /\ o3[3] = y /\ o3[2] = x /\ o3[1] = b
  <2>1. o3 \in Seq(S) /\ Len(o3) = 2 + 1 /\ o3[2 + 1] = y /\ \A j \in 1..2 : o3[j] = o2[j]
    BY <1>1, <1>4, <1>7, Appended
  <2> QED
    BY <1>7, <2>1
<1>9. o4 \in Seq(S) /\ Len(o4) = 4 /\ o4[4] = b /\ o4[3] = y /\ o4[2] = x /\ o4[1] = b
  <2>1. o4 \in Seq(S) /\ Len(o4) = 3 + 1 /\ o4[3 + 1] = b /\ \A j \in 1..3 : o4[j] = o3[j]
    BY <1>1, <1>4, <1>8, Appended
  <2> QED
    BY <1>8, <2>1
<1>10. Open(t, hi, tr, o0)
  BY <1>1
<1>11. Open(r1, hi, tr, o1) /\ r1.text = t.text
  <2>1. Len(o0) <= 3
    BY <1>5
  <2>2. x \in Text!ItemType /\ y \in Text!ItemType /\ b \in Text!ItemType
    BY <1>3, <1>4
  <2>3. Pushed(r1, t, hi, tr, o1)
    BY <1>1, <1>2, <1>10, <2>1, <2>2, PushIs
  <2> QED
    BY <2>3 DEF Pushed
<1>12. Open(r2, hi, tr, o2) /\ r2.text = t.text
  <2>1. Len(o1) <= 3
    BY <1>6
  <2>2. x \in Text!ItemType /\ y \in Text!ItemType /\ b \in Text!ItemType
    BY <1>3, <1>4
  <2>3. Pushed(r2, r1, hi, tr, o2)
    BY <1>1, <1>2, <1>11, <2>1, <2>2, PushIs
  <2> QED
    BY <1>11, <2>3 DEF Pushed
<1>13. Open(r3, hi, tr, o3) /\ r3.text = t.text
  <2>1. Len(o2) <= 3
    BY <1>7
  <2>2. x \in Text!ItemType /\ y \in Text!ItemType /\ b \in Text!ItemType
    BY <1>3, <1>4
  <2>3. Pushed(r3, r2, hi, tr, o3)
    BY <1>1, <1>2, <1>12, <2>1, <2>2, PushIs
  <2> QED
    BY <1>12, <2>3 DEF Pushed
<1>14. Open(r4, hi, tr, o4) /\ r4.text = t.text /\ r4.pos = Len(r4.items)
  <2>1. Len(o3) <= 3
    BY <1>8
  <2>2. x \in Text!ItemType /\ y \in Text!ItemType /\ b \in Text!ItemType
    BY <1>3, <1>4
  <2>3. Pushed(r4, r3, hi, tr, o4)
    BY <1>1, <1>2, <1>13, <2>1, <2>2, PushIs
  <2> QED
    BY <1>13, <2>3 DEF Pushed
<1>15. PICK g : g = Text!Held(r4)
  OBVIOUS
<1>16. g.text = t.text
  BY <1>14, <1>15 DEF Text!Held
<1>17. LeadsByFour(o4, 0, 4, h, g)
  BY <1>1, <1>9, <1>16 DEF LeadsByFour
<1>18. Leads(o4, 0, Len(o4), h, g)
  BY <1>9, <1>17 DEF Leads
<1>19. r4 \in EditType /\ r4.pos <= MaxItems
  BY <1>14 DEF Open
<1>20. Shut(r4, hi, tr, h)
  BY <1>14, <1>15, <1>18, <1>19 DEF Shut
<1> QED
  BY <1>1, <1>2, <1>20

\* A replacement changes nothing, or the stack ends with the group it made.
LEMMA RecordedIs ==
    ASSUME StackLimits, NEW hi \in Nat, NEW tr, NEW e, NEW from, NEW to, Within(e, from, to), NEW insert \in Texts,
           Open(e, hi, tr, <<>>)
    PROVE  LET r == Text!Recorded(e, from, to, insert) IN r = e \/ Shut(r, hi, tr, Text!Held(e))
<1>1. PICK s, h, removed, inserted, old, t :
        /\ s = e.text /\ h = Text!Held(e)
        /\ removed = SubSeq(e.text, from + 1, to)
        /\ inserted = Text!Fitting(e, from, to, insert)
        /\ old = Text!PlaceOf(Text!Layout(e.text), from)
        /\ t = Text!Replaced(e, from, to, inserted)
  OBVIOUS
<1>2. /\ MaxLen \in Nat /\ e \in EditType /\ s \in Texts /\ from \in Nat /\ to \in Nat /\ from <= to
      /\ to <= Len(s) /\ Len(s) \in Nat /\ from <= Len(s)
  <2>1. MaxLen \in Nat /\ e \in EditType /\ s \in Texts /\ from \in Nat /\ to \in Nat /\ from <= to /\ to <= Len(s)
    BY <1>1 DEF Within, EditType, StackLimits
  <2>2. Len(s) \in Nat
    BY <2>1 DEF Texts
  <2> QED
    BY <2>1, <2>2
<1>3. removed \in Texts /\ Len(removed) = to - from /\ inserted \in Texts
  <2>1. removed \in Texts /\ Len(removed) = to - from
    BY <1>1, <1>2, SpliceOut
  <2>2. inserted \in Texts
    BY <1>1, <1>2, FittingIs
  <2> QED
    BY <2>1, <2>2
<1>4. old \in Text!PlaceType
  BY <1>1, <1>2, PlacesOfText
<1>5. /\ t \in EditType /\ t.items = e.items /\ t.pos = e.pos
      /\ t.text = Spliced(s, from, to, inserted)
      /\ inserted # <<>> \/ from # to => t.caret = Text!PlaceOf(Text!Layout(t.text), from + Len(inserted))
  <2>1. e \in EditType /\ from <= Len(e.text) /\ to <= Len(e.text)
    BY <1>1, <1>2
  <2>2. Altered(t, e, from, to, inserted)
    BY <1>1, <1>2, <1>3, <2>1, AlteredIs
  <2> QED
    BY <1>1, <2>1, <2>2 DEF Altered
<1>6. Open(t, hi, tr, <<>>)
  BY <1>5 DEF Open
<1>7. h.text = s
  BY <1>1 DEF Text!Held
<1>8. PICK mid : mid = Spliced(s, from, to, <<>>)
  OBVIOUS
<1>9. mid \in Texts
  <2>1. <<>> \in Texts
    BY DEF Texts
  <2> QED
    BY <1>2, <1>8, <2>1, SplicedIs
<1>10. PICK r : r = Text!Recorded(e, from, to, insert)
  OBVIOUS
<1>11. r = IF inserted = <<>> /\ removed = <<>> THEN e
           ELSE IF removed = <<>> THEN Text!Push(t, Item(e, "insert", old, inserted))
           ELSE IF inserted = <<>> THEN Text!Push(t, Item(e, "clear", Text!Earlier(old, t.caret), removed))
           ELSE Text!Push(Text!Push(Text!Push(Text!Push(t, Text!Boundary), Item(e, "clear", old, removed)),
                                    Item(e, "insert", old, inserted)), Text!Boundary)
  BY <1>1, <1>10, Zenon DEF Text!Recorded, Item
<1>12. PICK x, y : x = Item(e, "clear", old, removed) /\ y = Item(e, "insert", old, inserted)
  OBVIOUS
<1>13. /\ x \in ItemsOnly /\ Over(x, h) /\ x.kind = "clear" /\ x.place = old /\ x.chars = removed
       /\ y \in ItemsOnly /\ Over(y, h) /\ y.kind = "insert" /\ y.place = old /\ y.chars = inserted
  <2>1. x \in ItemsOnly /\ Over(x, h) /\ x.kind = "clear" /\ x.place = old /\ x.chars = removed
    <3>1. Made(x, h, "clear", old, removed)
      BY <1>1, <1>2, <1>3, <1>4, <1>12, ItemMade
    <3> QED
      BY <3>1 DEF Made
  <2>2. y \in ItemsOnly /\ Over(y, h) /\ y.kind = "insert" /\ y.place = old /\ y.chars = inserted
    <3>1. Made(y, h, "insert", old, inserted)
      BY <1>1, <1>2, <1>3, <1>4, <1>12, ItemMade
    <3> QED
      BY <3>1 DEF Made
  <2> QED
    BY <2>1, <2>2
<1>14. Puts(x, mid, s) /\ Puts(y, mid, t.text)
  <2>1. Puts(x, mid, s)
    BY <1>1, <1>2, <1>8, <1>13, PutsBack
  <2>2. Puts(y, mid, Spliced(s, from, to, inserted))
    BY <1>1, <1>2, <1>3, <1>8, <1>13, PutsIn
  <2> QED
    BY <1>5, <2>1, <2>2
<1>15. CASE inserted = <<>> /\ removed = <<>>
  <2>1. r = e
    BY <1>11, <1>15, Zenon
  <2> QED
    BY <1>10, <2>1
<1>16. CASE inserted # <<>> /\ removed = <<>>
  <2>1. r = Text!Push(t, y)
    BY <1>11, <1>12, <1>16, Zenon
  <2>2. mid = s
    <3>1. to = from
      <4>1. Len(removed) = 0
        BY <1>16
      <4> QED
        BY <1>2, <1>3, <4>1
    <3>2. Spliced(mid, from, from, removed) = s
      BY <1>1, <1>2, <1>8, SpliceOut
    <3>3. Spliced(mid, from, from, <<>>) = mid
      BY <1>2, <1>8, SpliceOut
    <3> QED
      BY <1>16, <3>2, <3>3
  <2>3. Turns(y, h.text, t.text)
    BY <1>7, <1>13, <1>14, <2>2 DEF Turns
  <2>4. Shut(Text!Push(t, y), hi, tr, h)
    BY <1>6, <1>13, <2>3, PushOne
  <2> QED
    BY <1>1, <1>10, <2>1, <2>4
<1>17. CASE inserted = <<>> /\ removed # <<>>
  <2>1. r = Text!Push(t, Item(e, "clear", Text!Earlier(old, t.caret), removed))
    BY <1>11, <1>17, Zenon
  <2>2. t.text = mid
    BY <1>5, <1>8, <1>17
  <2>3. t.caret = old
    <3>1. from # to
      <4>1. Len(removed) # 0
        BY <1>3, <1>17, EmptySeq DEF Texts
      <4> QED
        BY <1>2, <1>3, <4>1
    <3>2. Len(inserted) = 0 /\ from + Len(inserted) = from
      BY <1>2, <1>17
    <3>3. t.caret = Text!PlaceOf(Text!Layout(mid), from)
      BY <1>5, <2>2, <3>1, <3>2
    <3>4. <<>> \in Texts
      BY DEF Texts
    <3>5. Text!PlaceOf(Text!Layout(mid), from) = Text!PlaceOf(Text!Layout(s), from)
      BY <1>1, <1>2, <1>8, <3>4, BeginsSame
    <3> QED
      BY <1>1, <3>3, <3>5
  <2>4. Text!Earlier(old, t.caret) = old
    BY <2>3 DEF Text!Earlier
  <2>5. r = Text!Push(t, x)
    BY <1>12, <2>1, <2>4, Zenon
  <2>6. Turns(x, h.text, t.text)
    BY <1>7, <1>13, <1>14, <2>2 DEF Turns
  <2>7. Shut(Text!Push(t, x), hi, tr, h)
    BY <1>6, <1>13, <2>6, PushOne
  <2> QED
    BY <1>1, <1>10, <2>5, <2>7
<1>18. CASE inserted # <<>> /\ removed # <<>>
  <2>1. r = Text!Push(Text!Push(Text!Push(Text!Push(t, Text!Boundary), x), y), Text!Boundary)
    BY <1>11, <1>12, <1>18, Zenon
  <2>2. Puts(x, mid, h.text)
    BY <1>7, <1>14
  <2>3. Shut(r, hi, tr, h)
    BY <1>6, <1>9, <1>13, <1>14, <2>1, <2>2, PushFour
  <2> QED
    BY <1>1, <1>10, <2>3
<1> QED
  BY <1>15, <1>16, <1>17, <1>18

----------------------------------------------------------------------------
(* The edit control: what its edits, undos and redos keep.                 *)

\* The control holds what the history says, and its stack is groups that lead
\* through the history, with the cursor where the history is.
Steady(e, tr, on) ==
    /\ e \in EditType /\ Len(e.items) <= MaxItems
    /\ tr \in Seq(HeldType) /\ on \in 1..Len(tr)
    /\ tr[on].text = e.text
    /\ Grouped(e.items, e.pos, on, tr)

LEMMA HeldIs ==
    ASSUME NEW e \in EditType
    PROVE  /\ Text!Held(e) \in HeldType
           /\ Text!Held(e).text = e.text /\ Text!Held(e).anchor = e.anchor /\ Text!Held(e).active = e.active
           /\ \A h \in HeldType : h.text = e.text /\ h.anchor = e.anchor /\ h.active = e.active => h = Text!Held(e)
<1>1. PICK s, a, c : s = e.text /\ a = e.anchor /\ c = e.active
  OBVIOUS
<1>2. s \in Texts /\ a \in Text!PlaceType /\ c \in Text!PlaceType
  BY <1>1 DEF EditType
<1>3. Text!Held(e) = [text |-> s, anchor |-> a, active |-> c]
  BY <1>1 DEF Text!Held
<1>4. ASSUME NEW h \in HeldType, h.text = s, h.anchor = a, h.active = c PROVE h = [text |-> s, anchor |-> a, active |-> c]
  BY <1>4 DEF HeldType
<1> QED
  BY <1>1, <1>2, <1>3, <1>4 DEF HeldType

LEMMA SteadyMoved ==
    ASSUME NEW e, NEW tr, NEW on, Steady(e, tr, on),
           NEW t \in EditType, t.text = e.text, t.items = e.items, t.pos = e.pos
    PROVE  Steady(t, tr, on)
  BY DEF Steady

LEMMA SteadyIs ==
    ASSUME NEW e, NEW tr, NEW on, Steady(e, tr, on)
    PROVE  /\ e \in EditType /\ e.items \in Seq(Text!ItemType) /\ e.pos \in 0..Len(e.items)
           /\ Len(e.items) \in Nat /\ Len(e.items) <= MaxItems
           /\ tr \in Seq(HeldType) /\ Len(tr) \in Nat /\ on \in 1..Len(tr) /\ on \in Nat
           /\ e.text \in Texts /\ tr[on].text = e.text
<1>1. /\ e \in EditType /\ Len(e.items) <= MaxItems /\ tr \in Seq(HeldType) /\ on \in 1..Len(tr)
      /\ tr[on].text = e.text /\ Grouped(e.items, e.pos, on, tr)
  BY DEF Steady
<1>2. e.items \in Seq(Text!ItemType) /\ e.text \in Texts
  BY <1>1 DEF EditType
<1>3. Len(e.items) \in Nat /\ Len(tr) \in Nat /\ on \in Nat
  BY <1>1, <1>2
<1>4. e.pos \in 0..Len(e.items)
  BY <1>1, <1>2, <1>3, OpenStacked
<1> QED
  BY <1>1, <1>2, <1>3, <1>4

\* The history after an edit.
Continues(new, S, tr, on, h, g) ==
    /\ new \in Seq(S) /\ Len(new) = on + 1 /\ new[on] = h /\ new[on + 1] = g
    /\ \A j \in 1..(on - 1) : new[j] = tr[j]

LEMMA TrailAfter ==
    ASSUME NEW S, NEW tr \in Seq(S), NEW on \in 1..Len(tr), NEW h \in S, NEW g \in S
    PROVE  Continues(SubSeq(tr, 1, on - 1) \o <<h, g>>, S, tr, on, h, g)
<1>1. PICK a, two, new : a = SubSeq(tr, 1, on - 1) /\ two = <<h, g>> /\ new = a \o two
  OBVIOUS
<1>2. a \in Seq(S) /\ Len(a) = on - 1 /\ \A j \in 1..(on - 1) : a[j] = tr[j]
  BY <1>1
<1>3. two \in Seq(S) /\ Len(two) = 2 /\ two[1] = h /\ two[2] = g
  BY <1>1
<1>4. new \in Seq(S) /\ Len(new) = Len(a) + Len(two)
      /\ \A i \in 1..(Len(a) + Len(two)) : new[i] = IF i <= Len(a) THEN a[i] ELSE two[i - Len(a)]
  BY <1>1, <1>2, <1>3, ConcatProperties
<1>5. PICK n \in Nat : n = on - 1
  OBVIOUS
<1>6. /\ Len(new) = n + 2
      /\ \A i \in 1..(n + 2) : new[i] = IF i <= n THEN a[i] ELSE two[i - n]
  <2>1. Len(a) = n /\ Len(two) = 2
    BY <1>2, <1>3, <1>5
  <2> QED
    BY <1>4, <2>1
<1>7. new[n + 1] = h /\ new[n + 2] = g /\ \A j \in 1..n : new[j] = a[j]
  <2>1. /\ n + 1 \in 1..(n + 2) /\ n + 2 \in 1..(n + 2) /\ ~(n + 1 <= n) /\ ~(n + 2 <= n)
        /\ (n + 1) - n = 1 /\ (n + 2) - n = 2
    BY <1>5
  <2>2. new[n + 1] = two[1] /\ new[n + 2] = two[2]
    BY <1>6, <2>1
  <2>3. \A j \in 1..n : j \in 1..(n + 2) /\ j <= n
    BY <1>5
  <2> QED
    BY <1>3, <1>6, <2>2, <2>3
<1>8. on = n + 1 /\ on + 1 = n + 2
  BY <1>5
<1> QED
  BY <1>1, <1>2, <1>4, <1>5, <1>6, <1>7, <1>8 DEF Continues

\* An edit adds a group, at the cost of what stood above the cursor and, when
\* the stack is full, of the oldest.
LEMMA SteadyEdited ==
    ASSUME StackLimits, NEW e, NEW tr, NEW on, Steady(e, tr, on),
           NEW from, NEW to, Within(e, from, to), NEW insert \in Texts,
           NEW r, r = Text!Recorded(e, from, to, insert), r # e
    PROVE  Steady(r, SubSeq(tr, 1, on - 1) \o <<Text!Held(e), Text!Held(r)>>, on + 1)
<1>1. /\ e \in EditType /\ e.items \in Seq(Text!ItemType) /\ e.pos \in 0..Len(e.items)
      /\ Len(e.items) \in Nat /\ Len(e.items) <= MaxItems
      /\ tr \in Seq(HeldType) /\ Len(tr) \in Nat /\ on \in 1..Len(tr) /\ on \in Nat
      /\ e.text \in Texts /\ tr[on].text = e.text
  BY SteadyIs
<1>2. Open(e, on, tr, <<>>)
  <2>1. Stacked(SubSeq(e.items, 1, e.pos), on, tr, <<>>)
    BY <1>1, OpenStacked DEF Steady
  <2>2. e.pos <= Len(e.items) /\ e.pos <= MaxItems
    BY <1>1 DEF StackLimits
  <2> QED
    BY <1>1, <2>1, <2>2 DEF Open
<1>3. Shut(r, on, tr, Text!Held(e))
  BY <1>1, <1>2, RecordedIs
<1>4. PICK h, g : h = Text!Held(e) /\ g = Text!Held(r)
  OBVIOUS
<1>5. r \in EditType /\ r.pos = Len(r.items) /\ r.pos <= MaxItems
  BY <1>3 DEF Shut
<1>6. PICK tail : Open(r, on, tr, tail) /\ Leads(tail, 0, Len(tail), h, g)
  BY <1>3, <1>4 DEF Shut
<1>7. h \in HeldType /\ g \in HeldType /\ h.text = tr[on].text /\ g.text = r.text
  BY <1>1, <1>4, <1>5, HeldIs
<1>8. PICK new : new = SubSeq(tr, 1, on - 1) \o <<h, g>>
  OBVIOUS
<1>9. new \in Seq(HeldType) /\ Len(new) = on + 1 /\ new[on] = h /\ new[on + 1] = g /\ \A j \in 1..(on - 1) : new[j] = tr[j]
  <2>1. Continues(new, HeldType, tr, on, h, g)
    BY <1>1, <1>7, <1>8, TrailAfter
  <2> QED
    BY <2>1 DEF Continues
<1>10. Grouped(r.items, r.pos, on + 1, new)
  BY <1>1, <1>5, <1>6, <1>7, <1>9, CloseStacked
<1>11. on + 1 \in 1..Len(new) /\ Len(r.items) <= MaxItems /\ new[on + 1].text = r.text
  BY <1>1, <1>5, <1>7, <1>9
<1>12. Steady(r, new, on + 1)
  BY <1>5, <1>9, <1>10, <1>11 DEF Steady
<1> QED
  BY <1>4, <1>8, <1>12

\* What an undo gives back.
Retraced(t, e, a, h) ==
    /\ t \in EditType /\ t.items = e.items /\ t.pos = a
    /\ t.text = h.text /\ t.anchor = h.anchor /\ t.active = h.active

LEMMA UndoneIs ==
    ASSUME MaxLen \in Nat, NEW e, NEW a, NEW h, NEW g, AtGroup(e, a, e.pos, h, g), e.text = g.text
    PROVE  Retraced(Text!Undone(e), e, a, h)
<1>1. CASE LeadsByOne(e.items, a, e.pos, h, g)
  BY <1>1, UndoneOne DEF Retraced
<1>2. CASE LeadsByFour(e.items, a, e.pos, h, g)
  BY <1>2, UndoneFour DEF Retraced
<1> QED
  BY <1>1, <1>2 DEF AtGroup, Leads

\* What a redo gives back.
Restored(t, e, b, g) == t \in EditType /\ t.items = e.items /\ t.pos = b /\ t.text = g.text

LEMMA RestoredIs ==
    ASSUME MaxLen \in Nat, NEW e, NEW b, NEW h, NEW g, AtGroup(e, e.pos, b, h, g), e.text = h.text
    PROVE  Restored(Text!Redone(e), e, b, g)
  BY RedoneIs DEF Restored

\* An undo goes back to what the group was made over.
LEMMA SteadyUndone ==
    ASSUME StackLimits, NEW e, NEW tr, NEW on, Steady(e, tr, on), e.pos > 0
    PROVE  Steady(Text!Undone(e), tr, on - 1) /\ tr[on - 1] = Text!Held(Text!Undone(e))
<1>1. /\ e \in EditType /\ e.items \in Seq(Text!ItemType) /\ e.pos \in 0..Len(e.items)
      /\ Len(e.items) \in Nat /\ Len(e.items) <= MaxItems
      /\ tr \in Seq(HeldType) /\ Len(tr) \in Nat /\ on \in 1..Len(tr) /\ on \in Nat
      /\ e.text \in Texts /\ tr[on].text = e.text
  BY SteadyIs
<1>2. PICK its, n : its = e.items /\ n = Len(tr)
  OBVIOUS
<1>3. Grouped(its, e.pos, on, tr)
  BY <1>2 DEF Steady
<1>4. PICK lo, ends :
        /\ Cuts(ends, its, lo, n, tr)
        /\ on \in lo..n /\ ends[on] = e.pos /\ ends[n] = Len(its)
  BY <1>2, <1>3 DEF Grouped
<1>5. /\ n \in Nat /\ lo \in Nat /\ lo >= 1 /\ lo <= n /\ on \in lo..n /\ ends \in [lo..n -> Nat] /\ ends[lo] = 0
      /\ \A j, k \in lo..n : j < k => ends[j] < ends[k]
      /\ \A k \in (lo + 1)..n : Leads(its, ends[k - 1], ends[k], tr[k - 1], tr[k])
  BY <1>1, <1>2, <1>4 DEF Cuts
<1>6. lo < on
  <2>1. lo # on
    BY <1>4, <1>5
  <2> QED
    BY <1>5, <2>1
<1>7. on \in (lo + 1)..n /\ on - 1 \in lo..n /\ on - 1 \in 1..n /\ on - 1 \in Nat
  BY <1>5, <1>6
<1>8. PICK a, h, g : a = ends[on - 1] /\ h = tr[on - 1] /\ g = tr[on]
  OBVIOUS
<1>9. a \in Nat /\ h \in HeldType /\ g \in HeldType /\ Leads(its, a, e.pos, h, g)
  <2>1. a \in Nat
    BY <1>5, <1>7, <1>8
  <2>2. h \in HeldType /\ g \in HeldType
    BY <1>1, <1>2, <1>7, <1>8
  <2>3. Leads(its, ends[on - 1], ends[on], tr[on - 1], tr[on])
    BY <1>5, <1>7
  <2> QED
    BY <1>4, <1>8, <2>1, <2>2, <2>3
<1>10. AtGroup(e, a, e.pos, h, g)
  BY <1>1, <1>2, <1>9 DEF AtGroup
<1>11. PICK t : t = Text!Undone(e)
  OBVIOUS
<1>12. Retraced(t, e, a, h)
  BY <1>1, <1>8, <1>10, <1>11, UndoneIs DEF StackLimits
<1>13. /\ t \in EditType /\ t.items = its /\ t.pos = a
       /\ t.text = h.text /\ t.anchor = h.anchor /\ t.active = h.active
  BY <1>2, <1>12 DEF Retraced
<1>14. Grouped(its, a, on - 1, tr)
  BY <1>2, <1>4, <1>7, <1>8 DEF Grouped
<1>15. h = Text!Held(t)
  BY <1>9, <1>13, HeldIs
<1>16. Steady(t, tr, on - 1)
  BY <1>1, <1>2, <1>7, <1>8, <1>13, <1>14 DEF Steady
<1> QED
  BY <1>8, <1>11, <1>15, <1>16

\* A redo goes on to what the group left.
LEMMA SteadyRedone ==
    ASSUME StackLimits, NEW e, NEW tr, NEW on, Steady(e, tr, on), e.pos < Len(e.items)
    PROVE  Steady(Text!Redone(e), tr, on + 1)
<1>1. /\ e \in EditType /\ e.items \in Seq(Text!ItemType) /\ e.pos \in 0..Len(e.items)
      /\ Len(e.items) \in Nat /\ Len(e.items) <= MaxItems
      /\ tr \in Seq(HeldType) /\ Len(tr) \in Nat /\ on \in 1..Len(tr) /\ on \in Nat
      /\ e.text \in Texts /\ tr[on].text = e.text
  BY SteadyIs
<1>2. PICK its, n : its = e.items /\ n = Len(tr)
  OBVIOUS
<1>3. Grouped(its, e.pos, on, tr)
  BY <1>2 DEF Steady
<1>4. PICK lo, ends :
        /\ Cuts(ends, its, lo, n, tr)
        /\ on \in lo..n /\ ends[on] = e.pos /\ ends[n] = Len(its)
  BY <1>2, <1>3 DEF Grouped
<1>5. /\ n \in Nat /\ lo \in Nat /\ lo >= 1 /\ lo <= n /\ on \in lo..n /\ ends \in [lo..n -> Nat] /\ ends[lo] = 0
      /\ \A j, k \in lo..n : j < k => ends[j] < ends[k]
      /\ \A k \in (lo + 1)..n : Leads(its, ends[k - 1], ends[k], tr[k - 1], tr[k])
  BY <1>1, <1>2, <1>4 DEF Cuts
<1>6. on < n
  <2>1. on # n
    BY <1>2, <1>4
  <2> QED
    BY <1>5, <2>1
<1>7. on + 1 \in (lo + 1)..n /\ on + 1 \in lo..n /\ on + 1 \in 1..n /\ (on + 1) - 1 = on /\ n \in lo..n
  BY <1>5, <1>6
<1>8. PICK b, h, g : b = ends[on + 1] /\ h = tr[on] /\ g = tr[on + 1]
  OBVIOUS
<1>9. b \in Nat /\ b <= Len(its) /\ h \in HeldType /\ g \in HeldType /\ Leads(its, e.pos, b, h, g)
  <2>1. b \in Nat
    BY <1>5, <1>7, <1>8
  <2>2. h \in HeldType /\ g \in HeldType
    BY <1>1, <1>2, <1>7, <1>8
  <2>3. Leads(its, ends[on], ends[on + 1], tr[on], tr[on + 1])
    BY <1>5, <1>7
  <2>4. b <= Len(its)
    <3>1. on + 1 = n \/ on + 1 < n
      BY <1>5, <1>6
    <3>2. on + 1 = n \/ ends[on + 1] < ends[n]
      BY <1>5, <1>7, <3>1
    <3> QED
      BY <1>1, <1>2, <1>4, <1>8, <2>1, <3>2
  <2> QED
    BY <1>4, <1>8, <2>1, <2>2, <2>3, <2>4
<1>10. AtGroup(e, e.pos, b, h, g)
  BY <1>1, <1>2, <1>9 DEF AtGroup
<1>11. PICK t : t = Text!Redone(e)
  OBVIOUS
<1>12. Restored(t, e, b, g)
  BY <1>1, <1>8, <1>10, <1>11, RestoredIs DEF StackLimits
<1>13. t \in EditType /\ t.items = its /\ t.pos = b /\ t.text = g.text
  BY <1>2, <1>12 DEF Restored
<1>14. Grouped(its, b, on + 1, tr)
  BY <1>2, <1>4, <1>7, <1>8 DEF Grouped
<1>15. Steady(t, tr, on + 1)
  BY <1>1, <1>2, <1>7, <1>8, <1>13, <1>14 DEF Steady
<1> QED
  BY <1>11, <1>15

\* A control with no history.
LEMMA SteadyFresh ==
    ASSUME StackLimits, NEW e \in EditType, e.items = <<>>, e.pos = 0
    PROVE  Steady(e, <<Text!Held(e)>>, 1)
<1>1. PICK h, tr, its : h = Text!Held(e) /\ tr = <<h>> /\ its = e.items
  OBVIOUS
<1>2. h \in HeldType /\ h.text = e.text
  BY <1>1, HeldIs
<1>3. tr \in Seq(HeldType) /\ Len(tr) = 1 /\ tr[1] = h
  BY <1>1, <1>2
<1>4. Len(its) = 0
  BY <1>1
<1>5. PICK ends : ends = [k \in 1..1 |-> 0]
  OBVIOUS
<1>6. ends \in [1..1 -> Nat] /\ ends[1] = 0
  BY <1>5
<1>7. Cuts(ends, its, 1, 1, tr)
  BY <1>6 DEF Cuts
<1>8. Cuts(ends, its, 1, Len(tr), tr) /\ 1 \in 1..Len(tr) /\ ends[1] = e.pos /\ ends[Len(tr)] = Len(its)
  BY <1>3, <1>4, <1>6, <1>7
<1>9. Grouped(its, e.pos, 1, tr)
  BY <1>8 DEF Grouped
<1>10. Len(its) <= MaxItems
  BY <1>4 DEF StackLimits
<1>11. Steady(e, tr, 1)
  BY <1>1, <1>2, <1>3, <1>8, <1>9, <1>10 DEF Steady
<1> QED
  BY <1>1, <1>11

----------------------------------------------------------------------------
(* The edit control: where its edits are made, and the type of its state.  *)

\* An index in the text, however the text is laid out.
LEMMA IndexFound ==
    ASSUME MaxLen \in Nat, NEW T \in Texts, NEW p \in Places
    PROVE  Text!IndexOf(Text!Layout(T), p) \in 0..Width(T)
<1>1. PICK r : TextRun(r, T)
  BY TextRuns
<1>2. PICK n : n = Width(T)
  OBVIOUS
<1>3. n \in Nat /\ r[n] \in Lengths /\ ReachesTo(r[n], n) /\ Text!Layout(T) = r[n]
  <2>1. n \in Nat /\ n \in 0..n
    BY <1>2, WidthIs
  <2> QED
    BY <1>1, <1>2, <2>1 DEF TextRun
<1> QED
  BY <1>2, <1>3, IndexWithin

\* What is replaced is within the text, and begins where it is laid out.
LEMMA SelectionWithin ==
    ASSUME MaxLen \in Nat, NEW e \in EditType
    PROVE  /\ Within(e, Text!From(e), Text!To(e))
           /\ Text!Caret(e) \in 0..Width(e.text) /\ Width(e.text) \in Nat /\ Width(e.text) <= Len(e.text)
           /\ Len(e.text) \in Nat
<1>1. PICK s, lens, a, c, k : s = e.text /\ lens = Text!Layout(s) /\ a = e.anchor /\ c = e.active /\ k = Text!Caret(e)
  OBVIOUS
<1>2. s \in Texts /\ a \in Text!PlaceType /\ c \in Text!PlaceType /\ e.caret \in Text!PlaceType
  BY <1>1 DEF EditType
<1>3. Width(s) \in Nat /\ Width(s) <= Len(s) /\ Len(s) \in Nat
  BY <1>2, WidthIs
<1>4. k \in 0..Width(s)
  <2>1. k = Text!IndexOf(lens, e.caret)
    BY <1>1 DEF Text!Caret
  <2> QED
    BY <1>1, <1>2, <2>1, PlacesOfText
<1>5. PICK p, q : p = Text!Earlier(a, c) /\ q = Other(a, c)
  OBVIOUS
<1>6. p \in Text!PlaceType /\ q \in Text!PlaceType /\ q = IF p = a THEN c ELSE a
  BY <1>2, <1>5 DEF Text!Earlier, Other
<1>7. PICK i, j : i = Text!IndexOf(lens, p) /\ j = Text!IndexOf(lens, q)
  OBVIOUS
<1>8. i \in 0..Width(s) /\ j \in 0..Width(s) /\ i <= j
  <2>1. i \in 0..Width(s) /\ j \in 0..Width(s)
    BY <1>1, <1>2, <1>6, <1>7, PlacesOfText
  <2>2. i <= j
    BY <1>1, <1>2, <1>5, <1>7, PlacesOfText
  <2> QED
    BY <2>1, <2>2
<1>9. Text!From(e) = IF Text!HasSelection(e) THEN i ELSE k
  BY <1>1, <1>5, <1>7, Zenon DEF Text!From
<1>10. Text!To(e) = IF Text!HasSelection(e) THEN j ELSE k
  <2>1. Text!To(e) = IF ~Text!HasSelection(e) THEN k ELSE Text!IndexOf(lens, IF p = a THEN c ELSE a)
    BY <1>1, <1>5, Zenon DEF Text!To
  <2> QED
    BY <1>6, <1>7, <2>1
<1>11. PICK from, to : from = Text!From(e) /\ to = Text!To(e)
  OBVIOUS
<1>12. from \in 0..Width(s) /\ to \in 0..Width(s) /\ from <= to
  BY <1>3, <1>4, <1>8, <1>9, <1>10, <1>11
<1>13. Within(e, from, to)
  BY <1>1, <1>3, <1>12 DEF Within
<1> QED
  BY <1>1, <1>3, <1>4, <1>11, <1>13

\* t is e with the caret or the selection elsewhere.
Elsewhere(t, e) == t \in EditType /\ t.text = e.text /\ t.items = e.items /\ t.pos = e.pos

LEMMA Placed ==
    ASSUME NEW e \in EditType, NEW p \in Text!PlaceType, NEW q \in Text!PlaceType, NEW r \in Text!PlaceType
    PROVE  /\ Elsewhere([e EXCEPT !.caret = p], e)
           /\ Elsewhere([e EXCEPT !.anchor = p], e)
           /\ Elsewhere([e EXCEPT !.caret = p, !.active = q], e)
           /\ Elsewhere([e EXCEPT !.anchor = p, !.active = q], e)
           /\ Elsewhere([e EXCEPT !.caret = p, !.anchor = q, !.active = r], e)
<1>1. PICK P, I, X : P = Text!PlaceType /\ I = Seq(Text!ItemType) /\ X = Texts
  OBVIOUS
<1>2. EditType = [text : X, items : I, pos : Nat, caret : P, anchor : P, active : P]
  BY <1>1, Zenon DEF EditType
<1>3. p \in P /\ q \in P /\ r \in P
  BY <1>1
<1>4. Elsewhere([e EXCEPT !.caret = p], e)
  BY <1>2, <1>3 DEF Elsewhere
<1>5. Elsewhere([e EXCEPT !.anchor = p], e)
  BY <1>2, <1>3 DEF Elsewhere
<1>6. Elsewhere([e EXCEPT !.caret = p, !.active = q], e)
  BY <1>2, <1>3 DEF Elsewhere
<1>7. Elsewhere([e EXCEPT !.anchor = p, !.active = q], e)
  BY <1>2, <1>3 DEF Elsewhere
<1>8. Elsewhere([e EXCEPT !.caret = p, !.anchor = q, !.active = r], e)
  BY <1>2, <1>3 DEF Elsewhere
<1> QED
  BY <1>4, <1>5, <1>6, <1>7, <1>8

LEMMA AtElsewhere ==
    ASSUME MaxLen \in Nat, NEW e \in EditType, NEW i \in Nat
    PROVE  Elsewhere(Text!At(e, i), e)
<1>1. PICK p : p = Text!PlaceOf(Text!Layout(e.text), i)
  OBVIOUS
<1>2. p \in Text!PlaceType
  BY <1>1, PlacesOfText DEF EditType
<1>3. Text!At(e, i) = [e EXCEPT !.caret = p, !.anchor = p, !.active = p]
  BY <1>1, Zenon DEF Text!At
<1>4. Elsewhere([e EXCEPT !.caret = p, !.anchor = p, !.active = p], e)
  BY <1>2, Placed, Zenon
<1> QED
  BY <1>3, <1>4, Zenon

LEMMA IndicesAre ==
    ASSUME MaxLen \in Nat, edit \in EditType
    PROVE  \A i \in Text!Indices : i \in Nat
<1>1. PICK s, p : s = edit.text /\ p = Text!Place(Len(edit.text) + 2, 0)
  OBVIOUS
<1>2. s \in Texts /\ Len(s) \in Nat
  BY <1>1 DEF EditType, Texts
<1>3. p \in Places
  BY <1>1, <1>2 DEF Text!Place, Places
<1>4. PICK t : t = [edit EXCEPT !.caret = p]
  OBVIOUS
<1>5. t.text = s /\ t.caret = p
  BY <1>1, <1>4 DEF EditType
<1>6. PICK k : k = Text!Caret(t)
  OBVIOUS
<1>7. k \in 0..Width(s) /\ Width(s) \in Nat
  <2>1. k = Text!IndexOf(Text!Layout(s), p)
    BY <1>5, <1>6 DEF Text!Caret
  <2> QED
    BY <1>2, <1>3, <2>1, IndexFound, WidthIs
<1>8. Text!Indices = 0..k
  BY <1>1, <1>4, <1>6 DEF Text!Indices
<1> QED
  BY <1>7, <1>8

\* No group is open at an index.
EvenBelow(its, n) ==
    LET S == {i \in 1..n : its[i] = Text!Boundary} IN IsFiniteSet(S) /\ Cardinality(S) % 2 = 0

LEMMA EvenAfterOne ==
    ASSUME NEW its, NEW n \in Nat, EvenBelow(its, n), its[n + 1] # Text!Boundary
    PROVE  EvenBelow(its, n + 1)
<1>1. {i \in 1..(n + 1) : its[i] = Text!Boundary} = {i \in 1..n : its[i] = Text!Boundary}
  OBVIOUS
<1> QED
  BY <1>1, Zenon DEF EvenBelow

LEMMA EvenAfterFour ==
    ASSUME NEW its, NEW n \in Nat, EvenBelow(its, n),
           its[n + 1] = Text!Boundary, its[n + 2] # Text!Boundary, its[n + 3] # Text!Boundary,
           its[n + 4] = Text!Boundary
    PROVE  EvenBelow(its, n + 4)
<1>1. PICK S, T, U :
        /\ S = {i \in 1..n : its[i] = Text!Boundary} /\ T = S \union {n + 1}
        /\ U = {i \in 1..(n + 4) : its[i] = Text!Boundary}
  OBVIOUS
<1>2. IsFiniteSet(S) /\ Cardinality(S) % 2 = 0
  BY <1>1, Zenon DEF EvenBelow
<1>3. U = T \union {n + 4} /\ n + 1 \notin S /\ n + 4 \notin T
  BY <1>1
<1>4. IsFiniteSet(T) /\ Cardinality(T) = Cardinality(S) + 1
  BY <1>1, <1>2, <1>3, FS_AddElement
<1>5. IsFiniteSet(U) /\ Cardinality(U) = Cardinality(T) + 1
  BY <1>3, <1>4, FS_AddElement
<1>6. Cardinality(U) % 2 = 0
  <2>1. PICK m \in Nat : m = Cardinality(S)
    BY <1>2, FS_CardinalityType
  <2>2. Cardinality(U) = m + 2 /\ m % 2 = 0
    BY <1>2, <1>4, <1>5, <2>1
  <2>3. (m + 2) % 2 = m % 2
    OBVIOUS
  <2> QED
    BY <2>2, <2>3
<1> QED
  BY <1>1, <1>5, <1>6, Zenon DEF EvenBelow

LEMMA EvenAfter ==
    ASSUME NEW its, NEW a \in Nat, NEW b \in Nat, NEW h, NEW g, Leads(its, a, b, h, g), EvenBelow(its, a)
    PROVE  EvenBelow(its, b)
<1>1. CASE LeadsByOne(its, a, b, h, g)
  <2>1. b = a + 1 /\ its[a + 1] # Text!Boundary
    BY <1>1, ItemIs DEF LeadsByOne
  <2> QED
    BY <2>1, EvenAfterOne
<1>2. CASE LeadsByFour(its, a, b, h, g)
  <2>1. /\ b = a + 4 /\ its[a + 1] = Text!Boundary /\ its[a + 4] = Text!Boundary
        /\ its[a + 2] # Text!Boundary /\ its[a + 3] # Text!Boundary
    BY <1>2, ItemIs DEF LeadsByFour
  <2> QED
    BY <2>1, EvenAfterFour
<1> QED
  BY <1>1, <1>2 DEF Leads

LEMMA SteadyEven ==
    ASSUME NEW e, NEW tr, NEW on, Steady(e, tr, on)
    PROVE  EvenBelow(e.items, e.pos)
<1>1. /\ e \in EditType /\ e.items \in Seq(Text!ItemType) /\ e.pos \in 0..Len(e.items)
      /\ Len(e.items) \in Nat /\ Len(e.items) <= MaxItems
      /\ tr \in Seq(HeldType) /\ Len(tr) \in Nat /\ on \in 1..Len(tr) /\ on \in Nat
      /\ e.text \in Texts /\ tr[on].text = e.text
  BY SteadyIs
<1>2. PICK its, n : its = e.items /\ n = Len(tr)
  OBVIOUS
<1>3. PICK lo, ends :
        /\ Cuts(ends, its, lo, n, tr)
        /\ on \in lo..n /\ ends[on] = e.pos /\ ends[n] = Len(its)
  BY <1>2 DEF Steady, Grouped
<1>4. /\ n \in Nat /\ lo \in Nat /\ lo <= n /\ on \in lo..n /\ ends \in [lo..n -> Nat] /\ ends[lo] = 0
      /\ \A k \in (lo + 1)..n : Leads(its, ends[k - 1], ends[k], tr[k - 1], tr[k])
  BY <1>1, <1>2, <1>3 DEF Cuts
<1>5. PICK N : N = n - lo
  OBVIOUS
<1>6. N \in Nat
  BY <1>4, <1>5
<1> DEFINE Fine == {j \in 0..N : EvenBelow(its, ends[lo + j])}
<1>7. 0 \in Fine
  <2>1. {i \in 1..0 : its[i] = Text!Boundary} = {}
    OBVIOUS
  <2>2. IsFiniteSet({}) /\ Cardinality({}) = 0
    BY FS_EmptySet
  <2>3. Cardinality({}) % 2 = 0
    BY <2>2
  <2>4. EvenBelow(its, 0)
    BY <2>1, <2>2, <2>3, Zenon DEF EvenBelow
  <2>5. lo + 0 = lo /\ 0 \in 0..N
    BY <1>4, <1>6
  <2> QED
    BY <1>4, <2>4, <2>5
<1>8. ASSUME NEW k \in 1..N, k - 1 \in Fine PROVE k \in Fine
  <2>1. lo + k \in (lo + 1)..n /\ (lo + k) - 1 = lo + (k - 1) /\ lo + k \in lo..n /\ lo + (k - 1) \in lo..n /\ k \in 0..N
    BY <1>4, <1>5, <1>6
  <2>2. PICK a \in Nat, b \in Nat : a = ends[lo + (k - 1)] /\ b = ends[lo + k]
    BY <1>4, <2>1
  <2>3. PICK h, g : h = tr[(lo + k) - 1] /\ g = tr[lo + k]
    OBVIOUS
  <2>4. Leads(its, a, b, h, g)
    BY <1>4, <2>1, <2>2, <2>3
  <2>5. EvenBelow(its, a)
    BY <1>8, <2>2
  <2>6. EvenBelow(its, b)
    BY <2>4, <2>5, EvenAfter
  <2> QED
    BY <2>1, <2>2, <2>6
<1>9. 0..N \subseteq Fine
  <2> HIDE DEF Fine
  <2> QED
    BY <1>6, <1>7, <1>8, CountInduction
<1>10. on - lo \in 0..N /\ lo + (on - lo) = on
  BY <1>4, <1>5
<1>11. EvenBelow(its, ends[lo + (on - lo)])
  BY <1>9, <1>10
<1> QED
  BY <1>2, <1>3, <1>10, <1>11

----------------------------------------------------------------------------
(* The edit control: the invariant.                                        *)

TextLimits ==
    /\ MaxLen \in Nat /\ MaxItems \in Nat /\ MaxItems >= 4 /\ MaxEdits \in Nat
    /\ FileTexts \subseteq Texts /\ Pastes \subseteq Texts

TextInv == Steady(edit, trail, now) /\ edits \in 0..MaxEdits

\* An edit happened: what it recorded, where, and in which history.
Edit(from, to, insert) ==
    /\ Within(edit, from, to) /\ insert \in Texts
    /\ Text!Edited(Text!Recorded(edit, from, to, insert))

\* Only the caret or the selection moved.
Motion == edit' \in EditType /\ Elsewhere(edit', edit) /\ UNCHANGED <<trail, now, edits>>

LEMMA MovedElsewhere ==
    ASSUME NEW t, Elsewhere(t, edit), Text!Moved(t)
    PROVE  Motion
  BY DEF Text!Moved, Motion, Elsewhere

\* Every action but an undo, a redo and leaving is an edit or a motion.
LEMMA MotionsAre ==
    ASSUME TextLimits, edit \in EditType,
           Text!SetCaret \/ Text!ShiftMove \/ Text!DragTo \/ Text!SetSelection \/ Text!SelectNone
    PROVE  Motion
<1>1. MaxLen \in Nat
  BY DEF TextLimits
<1>2. PICK L : L = Text!Layout(edit.text)
  OBVIOUS
<1>3. \A i \in Nat : Text!PlaceOf(L, i) \in Text!PlaceType
  BY <1>1, <1>2, PlacesOfText DEF EditType
<1>4. \A i \in Text!Indices : i \in Nat
  BY <1>1, IndicesAre
<1>5. CASE Text!SetCaret
  <2>1. PICK i \in Text!Indices : Text!Moved(Text!At(edit, i))
    BY <1>5 DEF Text!SetCaret
  <2>2. i \in Nat
    BY <1>4, <2>1
  <2> QED
    BY <1>1, <2>1, <2>2, AtElsewhere, MovedElsewhere
<1>6. CASE Text!ShiftMove
  <2>1. PICK i \in Text!Indices : Text!Moved([edit EXCEPT !.caret = Text!PlaceOf(L, i)])
    BY <1>2, <1>6 DEF Text!ShiftMove
  <2>2. PICK p : p = Text!PlaceOf(L, i)
    OBVIOUS
  <2>3. p \in Text!PlaceType
    BY <1>3, <1>4, <2>1, <2>2
  <2>4. PICK t : t = [edit EXCEPT !.caret = p]
    OBVIOUS
  <2>5. Elsewhere(t, edit)
    BY <2>3, <2>4, Placed
  <2>6. Text!Moved(t)
    BY <2>1, <2>2, <2>4
  <2> QED
    BY <2>5, <2>6, MovedElsewhere
<1>7. CASE Text!DragTo
  <2>1. PICK i \in Text!Indices : Text!Moved([edit EXCEPT !.caret = Text!PlaceOf(L, i), !.active = Text!PlaceOf(L, i)])
    BY <1>2, <1>7 DEF Text!DragTo
  <2>2. PICK p : p = Text!PlaceOf(L, i)
    OBVIOUS
  <2>3. p \in Text!PlaceType
    BY <1>3, <1>4, <2>1, <2>2
  <2>4. PICK t : t = [edit EXCEPT !.caret = p, !.active = p]
    OBVIOUS
  <2>5. Elsewhere(t, edit)
    BY <2>3, <2>4, Placed
  <2>6. Text!Moved(t)
    BY <2>1, <2>2, <2>4
  <2> QED
    BY <2>5, <2>6, MovedElsewhere
<1>8. CASE Text!SetSelection
  <2>1. PICK i \in Text!Indices, j \in Text!Indices :
          Text!Moved([Text!At(edit, j) EXCEPT !.anchor = Text!PlaceOf(L, i)])
    BY <1>2, <1>8 DEF Text!SetSelection
  <2>2. PICK p, u, t : p = Text!PlaceOf(L, i) /\ u = Text!At(edit, j) /\ t = [u EXCEPT !.anchor = p]
    OBVIOUS
  <2>3. p \in Text!PlaceType /\ j \in Nat
    BY <1>3, <1>4, <2>1, <2>2
  <2>4. Elsewhere(u, edit)
    BY <1>1, <2>2, <2>3, AtElsewhere
  <2>5. Elsewhere(t, u)
    <3>1. u \in EditType
      BY <2>4 DEF Elsewhere
    <3> QED
      BY <2>2, <2>3, <3>1, Placed
  <2>6. Elsewhere(t, edit)
    BY <2>4, <2>5 DEF Elsewhere
  <2>7. Text!Moved(t)
    BY <2>1, <2>2
  <2> QED
    BY <2>6, <2>7, MovedElsewhere
<1>9. CASE Text!SelectNone
  <2>1. PICK p, t : p = edit.caret /\ t = [edit EXCEPT !.anchor = p, !.active = p]
    OBVIOUS
  <2>2. p \in Text!PlaceType
    BY <2>1 DEF EditType
  <2>3. Elsewhere(t, edit)
    BY <2>1, <2>2, Placed
  <2>4. Text!Moved(t)
    BY <1>9, <2>1 DEF Text!SelectNone
  <2> QED
    BY <2>3, <2>4, MovedElsewhere
<1> QED
  BY <1>5, <1>6, <1>7, <1>8, <1>9

LEMMA EditsAre ==
    ASSUME TextLimits, edit \in EditType,
           Text!InsertChar \/ Text!Backspace \/ Text!Delete \/ Text!ReplaceSelection
    PROVE  \E from, to, insert : Edit(from, to, insert)
<1>1. MaxLen \in Nat /\ Pastes \subseteq Texts
  BY DEF TextLimits
<1>2. /\ Within(edit, Text!From(edit), Text!To(edit))
      /\ Text!Caret(edit) \in 0..Width(edit.text) /\ Width(edit.text) \in Nat /\ Width(edit.text) <= Len(edit.text)
      /\ Len(edit.text) \in Nat
  BY <1>1, SelectionWithin
<1>3. <<>> \in Texts /\ \A c \in Letters \union {Break} : <<c>> \in Texts
  BY DEF Texts, Text!Characters
<1>4. CASE Text!InsertChar
  <2>1. PICK c \in Letters \union {Break} : Text!Edited(Text!Recorded(edit, Text!From(edit), Text!To(edit), <<c>>))
    BY <1>4 DEF Text!InsertChar
  <2>2. Edit(Text!From(edit), Text!To(edit), <<c>>)
    BY <1>2, <1>3, <2>1 DEF Edit
  <2> QED
    BY <2>2
<1>5. ASSUME Text!Edited(Text!Recorded(edit, Text!From(edit), Text!To(edit), <<>>))
      PROVE  \E from, to, insert : Edit(from, to, insert)
  <2>1. Edit(Text!From(edit), Text!To(edit), <<>>)
    BY <1>2, <1>3, <1>5 DEF Edit
  <2> QED
    BY <2>1
<1>6. CASE Text!Backspace /\ ~Text!HasSelection(edit)
  <2>1. PICK k : k = Text!Caret(edit)
    OBVIOUS
  <2>2. k > 0 /\ Text!Edited(Text!Recorded(edit, k - 1, k, <<>>))
    BY <1>6, <2>1 DEF Text!Backspace
  <2>3. k - 1 \in Nat /\ k \in Nat /\ k - 1 <= k /\ k <= Len(edit.text) /\ k - 1 <= Width(edit.text)
    BY <1>2, <2>1, <2>2
  <2>4. Edit(k - 1, k, <<>>)
    BY <1>3, <2>2, <2>3 DEF Edit, Within
  <2> QED
    BY <2>4
<1>7. CASE Text!Delete /\ ~Text!HasSelection(edit)
  <2>1. PICK k : k = Text!Caret(edit)
    OBVIOUS
  <2>2. k < Len(edit.text) /\ Text!Edited(Text!Recorded(edit, k, k + 1, <<>>))
    BY <1>7, <2>1 DEF Text!Delete
  <2>3. k \in Nat /\ k + 1 \in Nat /\ k <= k + 1 /\ k + 1 <= Len(edit.text) /\ k <= Width(edit.text)
    BY <1>2, <2>1, <2>2
  <2>4. Edit(k, k + 1, <<>>)
    BY <1>3, <2>2, <2>3 DEF Edit, Within
  <2> QED
    BY <2>4
<1>8. CASE (Text!Backspace \/ Text!Delete) /\ Text!HasSelection(edit)
  BY <1>5, <1>8 DEF Text!Backspace, Text!Delete
<1>9. CASE Text!ReplaceSelection
  <2>1. PICK insert \in Pastes \union {<<>>} :
          Text!Edited(Text!Recorded(edit, Text!From(edit), Text!To(edit), insert))
    BY <1>9 DEF Text!ReplaceSelection
  <2>2. insert \in Texts
    BY <1>1, <1>3, <2>1
  <2>3. Edit(Text!From(edit), Text!To(edit), insert)
    BY <1>2, <2>1, <2>2 DEF Edit
  <2> QED
    BY <2>3
<1> QED
  BY <1>4, <1>6, <1>7, <1>8, <1>9

\* What a step keeps, and what an undo and a redo give back.
Traced ==
    /\ TextInv'
    /\ trail' = trail =>
          /\ now' < now => trail[now'] = Text!Held(edit')
          /\ now' > now => trail[now'].text = edit'.text

LEMMA TextKept ==
    ASSUME TextLimits, TextInv, Text!Next
    PROVE  Traced
<1>1. /\ Steady(edit, trail, now) /\ edits \in 0..MaxEdits /\ StackLimits
      /\ edit \in EditType /\ trail \in Seq(HeldType) /\ now \in 1..Len(trail) /\ now \in Nat
      /\ edit.pos \in 0..Len(edit.items) /\ Len(edit.items) \in Nat
  <2>1. Steady(edit, trail, now) /\ edits \in 0..MaxEdits /\ StackLimits
    BY DEF TextInv, TextLimits, StackLimits
  <2> QED
    BY <2>1, SteadyIs
<1>2. CASE Text!SetCaret \/ Text!ShiftMove \/ Text!DragTo \/ Text!SetSelection \/ Text!SelectNone
  <2>1. Motion
    BY <1>1, <1>2, MotionsAre
  <2>2. edit' \in EditType /\ Elsewhere(edit', edit) /\ trail' = trail /\ now' = now /\ edits' = edits
    BY <2>1 DEF Motion
  <2>3. Steady(edit', trail, now)
    BY <1>1, <2>2, SteadyMoved DEF Elsewhere
  <2> QED
    BY <1>1, <2>2, <2>3 DEF Traced, TextInv
<1>3. CASE Text!InsertChar \/ Text!Backspace \/ Text!Delete \/ Text!ReplaceSelection
  <2>1. PICK from, to, insert : Edit(from, to, insert)
    BY <1>1, <1>3, EditsAre
  <2>2. PICK r : r = Text!Recorded(edit, from, to, insert)
    OBVIOUS
  <2>3. /\ Within(edit, from, to) /\ insert \in Texts
        /\ edits < MaxEdits /\ r # edit /\ edit' = r
        /\ trail' = SubSeq(trail, 1, now - 1) \o <<Text!Held(edit), Text!Held(r)>>
        /\ now' = now + 1 /\ edits' = edits + 1
    BY <2>1, <2>2 DEF Edit, Text!Edited
  <2>4. Steady(edit', trail', now')
    BY <1>1, <2>2, <2>3, SteadyEdited
  <2>5. edits' \in 0..MaxEdits
    BY <1>1, <2>3 DEF TextLimits
  <2>6. trail'[now'].text = edit'.text
    BY <2>4 DEF Steady
  <2> QED
    BY <1>1, <2>3, <2>4, <2>5, <2>6 DEF Traced, TextInv
<1>4. CASE Text!Undo
  <2>1. edit.pos > 0 /\ edit' = Text!Undone(edit) /\ now' = now - 1 /\ trail' = trail /\ edits' = edits
    BY <1>4 DEF Text!Undo
  <2>2. Steady(edit', trail', now') /\ trail[now'] = Text!Held(edit')
    BY <1>1, <2>1, SteadyUndone
  <2> QED
    BY <1>1, <2>1, <2>2 DEF Traced, TextInv
<1>5. CASE Text!Redo
  <2>1. edit.pos < Len(edit.items) /\ edit' = Text!Redone(edit) /\ now' = now + 1 /\ trail' = trail /\ edits' = edits
    BY <1>5 DEF Text!Redo
  <2>2. Steady(edit', trail', now')
    BY <1>1, <2>1, SteadyRedone
  <2>3. trail'[now'].text = edit'.text
    BY <2>2 DEF Steady
  <2> QED
    BY <1>1, <2>1, <2>2, <2>3 DEF Traced, TextInv
<1>6. CASE Text!Leave
  <2>1. PICK t : t = [edit EXCEPT !.items = <<>>, !.pos = 0]
    OBVIOUS
  <2>2. edit' = t /\ trail' = <<Text!Held(edit)>> /\ now' = 1 /\ edits' = edits
    BY <1>6, <2>1 DEF Text!Leave
  <2>3. /\ t \in EditType /\ t.items = <<>> /\ t.pos = 0
        /\ t.text = edit.text /\ t.anchor = edit.anchor /\ t.active = edit.active
    <3>1. PICK I, none : I = Seq(Text!ItemType) /\ none = <<>>
      OBVIOUS
    <3>2. none \in I /\ 0 \in Nat /\ t = [edit EXCEPT !.items = none, !.pos = 0]
      BY <2>1, <3>1
    <3>3. EditType = [text : Texts, items : I, pos : Nat, caret : Text!PlaceType, anchor : Text!PlaceType,
                      active : Text!PlaceType]
      BY <3>1, Zenon DEF EditType
    <3>4. /\ t \in EditType /\ t.items = none /\ t.pos = 0
          /\ t.text = edit.text /\ t.anchor = edit.anchor /\ t.active = edit.active
      BY <1>1, <3>2, <3>3
    <3> QED
      BY <3>1, <3>4
  <2>4. Text!Held(edit) = Text!Held(t)
    BY <2>3 DEF Text!Held
  <2>5. Steady(edit', trail', now')
    BY <1>1, <2>2, <2>3, <2>4, SteadyFresh
  <2>6. trail' = trail => now = 1
    <3>1. PICK one : one = <<Text!Held(edit)>>
      OBVIOUS
    <3>2. Len(one) = 1 /\ trail' = one
      BY <2>2, <3>1
    <3>3. ASSUME trail = one PROVE now = 1
      <4>1. PICK n : n = Len(trail)
        OBVIOUS
      <4>2. n = 1
        BY <3>2, <3>3, <4>1, Zenon
      <4>3. now \in 1..n
        BY <1>1, <4>1, Zenon
      <4> QED
        BY <4>2, <4>3
    <3> QED
      BY <3>2, <3>3
  <2> QED
    BY <1>1, <2>2, <2>5, <2>6 DEF Traced, TextInv
<1> QED
  BY <1>2, <1>3, <1>4, <1>5, <1>6 DEF Text!Next

LEMMA TextBegins ==
    ASSUME TextLimits, Text!Init
    PROVE  TextInv
<1>1. PICK s \in FileTexts :
        edit = Text!At([text |-> s, items |-> <<>>, pos |-> 0, caret |-> 0, anchor |-> 0, active |-> 0], 0)
  BY DEF Text!Init
<1>2. trail = <<Text!Held(edit)>> /\ now = 1 /\ edits = 0
  BY DEF Text!Init
<1>3. s \in Texts /\ MaxLen \in Nat /\ MaxEdits \in Nat /\ StackLimits
  BY <1>1 DEF TextLimits, StackLimits
<1>4. PICK p, none : p = Text!PlaceOf(Text!Layout(s), 0) /\ none = <<>>
  OBVIOUS
<1>5. p \in Text!PlaceType /\ none \in Seq(Text!ItemType)
  BY <1>3, <1>4, PlacesOfText
<1>6. PICK u : u = [text |-> s, items |-> none, pos |-> 0, caret |-> 0, anchor |-> 0, active |-> 0]
  OBVIOUS
<1>7. u.text = s /\ edit = Text!At(u, 0)
  BY <1>1, <1>4, <1>6
<1>8. edit = [u EXCEPT !.caret = p, !.anchor = p, !.active = p]
  BY <1>4, <1>7, Zenon DEF Text!At
<1>9. edit = [text |-> s, items |-> none, pos |-> 0, caret |-> p, anchor |-> p, active |-> p]
  BY <1>6, <1>8
<1>10. edit \in EditType /\ edit.items = none /\ edit.pos = 0
  BY <1>3, <1>5, <1>9 DEF EditType
<1>11. Steady(edit, trail, now)
  BY <1>2, <1>3, <1>4, <1>10, SteadyFresh
<1> QED
  BY <1>2, <1>3, <1>11 DEF TextInv

LEMMA TextTyped ==
    ASSUME TextInv
    PROVE  Text!TypeOK
<1>1. /\ Steady(edit, trail, now) /\ edits \in 0..MaxEdits
      /\ edit \in EditType /\ edit.pos \in 0..Len(edit.items) /\ Len(edit.items) <= MaxItems
      /\ now \in 1..Len(trail) /\ trail \in Seq(HeldType)
  BY SteadyIs DEF TextInv
<1>2. /\ edit.text \in Seq(Text!Characters) /\ edit.items \in Seq(Text!ItemType)
      /\ {edit.caret, edit.anchor, edit.active} \subseteq Text!PlaceType
  BY <1>1 DEF EditType, Texts
<1>3. Text!Cardinality({i \in 1..edit.pos : edit.items[i] = Text!Boundary}) % 2 = 0
  <2>1. Cardinality({i \in 1..edit.pos : edit.items[i] = Text!Boundary}) % 2 = 0
    BY <1>1, SteadyEven, Zenon DEF EvenBelow
  <2>2. \A S : Text!Cardinality(S) = Cardinality(S)
    BY DEF Text!Cardinality, Cardinality
  <2> QED
    BY <2>1, <2>2, Zenon
<1>4. now \in DOMAIN trail
  BY <1>1
<1> QED
  BY <1>1, <1>2, <1>3, <1>4 DEF Text!TypeOK

\* Every step keeps the invariant, one that leaves the control alone too.
LEMMA TextStep ==
    ASSUME TextLimits, TextInv, [Text!Next]_(Text!vars)
    PROVE  TextInv'
<1>1. CASE Text!Next
  BY <1>1, TextKept DEF Traced
<1>2. CASE UNCHANGED Text!vars
  BY <1>2 DEF Text!vars, TextInv
<1> QED
  BY <1>1, <1>2

\* An undo and a redo go through the history.
LEMMA TextRetraces ==
    ASSUME TextLimits, TextInv, [Text!Next]_(Text!vars)
    PROVE  [trail' = trail =>
              /\ now' < now => trail[now'] = Text!Held(edit')
              /\ now' > now => trail[now'].text = edit'.text]_(Text!vars)
<1>1. CASE Text!Next
  BY <1>1, TextKept DEF Traced
<1>2. CASE UNCHANGED Text!vars
  BY <1>2
<1> QED
  BY <1>1, <1>2

\* The control keeps its shape: replace_range(), the undo stack and its cursor.
THEOREM TextTypeCorrect ==
    ASSUME TextLimits
    PROVE  Text!Spec => []Text!TypeOK
<1>1. Text!Init => TextInv
  BY TextBegins
<1>2. TextInv /\ [Text!Next]_(Text!vars) => TextInv'
  BY TextStep
<1>3. TextInv => Text!TypeOK
  BY TextTyped
<1> QED
  BY <1>1, <1>2, <1>3, PTL DEF Text!Spec

\* An undo gives back the text and the selection an edit was made over, a redo
\* the text it left.
THEOREM UndoCorrect ==
    ASSUME TextLimits
    PROVE  Text!Spec => Text!UndoRetraces
<1>1. Text!Init => TextInv
  BY TextBegins
<1>2. TextInv /\ [Text!Next]_(Text!vars) => TextInv'
  BY TextStep
<1>3. TextInv /\ [Text!Next]_(Text!vars) =>
        [trail' = trail =>
              /\ now' < now => trail[now'] = Text!Held(edit')
              /\ now' > now => trail[now'].text = edit'.text]_(Text!vars)
  BY TextRetraces
<1> QED
  BY <1>1, <1>2, <1>3, PTL DEF Text!Spec, Text!UndoRetraces

----------------------------------------------------------------------------
(* Each part beside the others.                                            *)

\* Only a step of a part is not a stutter of its own.
LEMMA StepOfOne ==
    ASSUME [MCNext]_allVars
    PROVE  /\ [View!Next]_(View!vars)
           /\ [Font!Next]_(Font!vars)
           /\ [Decoded!Next]_(Decoded!vars)
           /\ [Rendered!Next]_(Rendered!vars)
           /\ [Timers!Next]_(Timers!vars)
           /\ [Next]_vars
           /\ [Text!Next]_(Text!vars)
<1>1. CASE UNCHANGED allVars
  BY <1>1 DEF allVars, viewVars, fontVars, decodedVars, renderedVars, timerVars, textVars,
              View!vars, Font!vars, Decoded!vars, Rendered!vars, Timers!vars, Text!vars
<1>2. CASE MCNext
  <2>1. /\ View!Next \/ UNCHANGED viewVars
        /\ Font!Next \/ UNCHANGED fontVars
        /\ Decoded!Next \/ UNCHANGED decodedVars
        /\ Rendered!Next \/ UNCHANGED renderedVars
        /\ Timers!Next \/ UNCHANGED timerVars
        /\ Next \/ UNCHANGED vars
        /\ Text!Next \/ UNCHANGED textVars
    BY <1>2, Zenon DEF MCNext, Viewing, Filling
  <2> QED
    BY <2>1 DEF viewVars, fontVars, decodedVars, renderedVars, timerVars, textVars,
                View!vars, Font!vars, Decoded!vars, Rendered!vars, Timers!vars, Text!vars
<1> QED
  BY <1>1, <1>2

\* The picture on the screen is the page's and the terminal keeps no other
\* (draw, prune, transmit_ahead), beside all that goes on in the other parts.
THEOREM ScreenBeside ==
    ASSUME ViewLimits
    PROVE  MCSpec => []ScreenShowsPage
<1>1. MCInit => View!Init
  BY DEF MCInit
<1>2. [MCNext]_allVars => [View!Next]_(View!vars)
  BY StepOfOne
<1>3. View!ScreenShowsPage => ScreenShowsPage
  BY DEF ScreenShowsPage
<1> QED
  BY <1>1, <1>2, <1>3, ScreenCorrect, PTL DEF MCSpec

\* Threads that load a font at once are all answered the one instance
\* (get_or_load), beside all that goes on in the other parts.
THEOREM OneInstanceBeside ==
    ASSUME MaxFonts \in Nat
    PROVE  MCSpec => []OneInstance
<1>1. MCInit => Font!Init
  BY DEF MCInit
<1>2. [MCNext]_allVars => [Font!Next]_(Font!vars)
  BY StepOfOne
<1>3. Font!OneInstance => OneInstance
  BY DEF OneInstance
<1> QED
  BY <1>1, <1>2, <1>3, OneInstanceCorrect, PTL DEF MCSpec, Font!Spec

\* No image is drawn from fewer samples than it was asked for (get,
\* satisfies), beside all that goes on in the other parts.
THEOREM NeverCoarserBeside ==
    ASSUME DecodedLimits
    PROVE  MCSpec => []NeverCoarser
<1>1. MCInit => Decoded!Init
  BY DEF MCInit
<1>2. [MCNext]_allVars => [Decoded!Next]_(Decoded!vars)
  BY StepOfOne
<1>3. Decoded!NeverCoarser => NeverCoarser
  BY DEF NeverCoarser
<1> QED
  BY <1>1, <1>2, <1>3, ImagesCorrect, PTL DEF MCSpec, Decoded!Spec

\* Both image caches count their bytes exactly and keep to their budgets
\* (insert, evict, get_or_render), beside all that goes on in the other parts.
THEOREM BudgetsBeside ==
    ASSUME DecodedLimits, RenderedLimits
    PROVE  MCSpec => []BudgetsKept
<1>1. MCInit => Decoded!Init /\ Rendered!Init
  BY DEF MCInit
<1>2. [MCNext]_allVars => [Decoded!Next]_(Decoded!vars) /\ [Rendered!Next]_(Rendered!vars)
  BY StepOfOne
<1>3. Decoded!BudgetKept /\ Rendered!BudgetHeld => BudgetsKept
  BY DEF BudgetsKept
<1> QED
  BY <1>1, <1>2, <1>3, ImagesCorrect, RenderedCorrect, PTL DEF MCSpec, Decoded!Spec, Rendered!Spec

\* A call to the clock runs what was due when it was made, once (advance_time),
\* beside all that goes on in the other parts.
THEOREM FiresBeside ==
    ASSUME TimerLimits
    PROVE  MCSpec => []FiresOnceWhenDue
<1>1. MCInit => Timers!Init
  BY DEF MCInit
<1>2. [MCNext]_allVars => [Timers!Next]_(Timers!vars)
  BY StepOfOne
<1>3. Timers!FiresOnceWhenDue => FiresOnceWhenDue
  BY DEF FiresOnceWhenDue
<1> QED
  BY <1>1, <1>2, <1>3, FiresCorrect, PTL DEF MCSpec, Timers!Spec

\* A text field that was left is settled (commit.rs, route.rs), beside all that
\* goes on in the other parts.
THEOREM LeftFieldBeside ==
    ASSUME OnePageForms, NoneAssumption
    PROVE  MCSpec => []LeftFieldIsSettled
<1>1. MCInit => Init
  BY DEF MCInit
<1>2. [MCNext]_allVars => [Next]_vars
  BY StepOfOne
<1> QED
  BY <1>1, <1>2, LeftFieldCorrect, PTL DEF MCSpec, Spec

\* An undo and a redo of a text field go through what it held (undo, redo),
\* beside all that goes on in the other parts.
THEOREM UndoBeside ==
    ASSUME TextLimits
    PROVE  MCSpec => UndoRetraces
<1>1. MCInit => Text!Init
  BY DEF MCInit
<1>2. [MCNext]_allVars => [Text!Next]_(Text!vars)
  BY StepOfOne
<1>3. Text!Spec => Text!UndoRetraces
  BY UndoCorrect
<1> QED
  BY <1>1, <1>2, <1>3, PTL DEF MCSpec, Text!Spec, UndoRetraces
=============================================================================
