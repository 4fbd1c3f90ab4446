-------------------------- MODULE SingleListProofs --------------------------
(***************************************************************************)
(* Theorems about SingleList for any users, ids and bounds.                *)
(***************************************************************************)
EXTENDS SingleList, QueueLemmas

-----------------------------------------------------------------------------
(***************************************************************************)
(* Lemmas on finite data.                                                  *)
(***************************************************************************)

\* Every ordering of a set of ids is a sequence that lists them once.
LEMMA OrderIsSequence ==
  ASSUME NEW S \in SUBSET Ids, NEW s \in SetToSeqs(S)
  PROVE  /\ s \in Seq(S)
         /\ DOMAIN s = 1..Len(s)
         /\ \A j, k \in DOMAIN s : s[j] = s[k] => j = k
BY FS_Subset, IdsFinite, OrderLists

\* ... and it lists all of them.
LEMMA OrderListsAll ==
  ASSUME NEW S \in SUBSET Ids, NEW s \in SetToSeqs(S), NEW i \in S
  PROVE  \E k \in DOMAIN s : s[k] = i
BY FS_Subset, IdsFinite, OrderLists

\* Rows of different items.
Once(s) == \A j, k \in DOMAIN s : s[j].id = s[k].id => j = k

-----------------------------------------------------------------------------
(***************************************************************************)
(* Lemmas on the database and the SDK.                                     *)
(***************************************************************************)

\* Pending writes turn a slot into a slot.
LEMMA OverlayType ==
  ASSUME NEW n \in Slot, NEW q \in Seq(Requests), NEW i \in Ids
  PROVE  Overlay(n, q, i) \in Slot
<1> DEFINE P == PendingOn(q, i)
<1>1. P \in SUBSET (1..Len(q)) /\ Len(q) \in Nat
  BY DEF PendingOn
<1>2. CASE P = {}
  BY <1>2 DEF Overlay
<1>3. CASE P # {}
  <2>1. Max(P) \in P
    BY <1>1, <1>3, MaxExists
  <2>2. q[Max(P)] \in Writes
    BY <2>1, <1>1 DEF PendingOn, Requests, Writes, WriteOps
  <2>3. /\ q[Max(P)].checked \in BOOLEAN
        /\ q[Max(P)].by \in Checkers
    BY <2>2 DEF Writes
  <2>4. Named(n) \in BOOLEAN
    BY DEF Named, Slot, Node
  <2> HIDE DEF P
  <2> QED BY <1>3, <2>3, <2>4 DEF Overlay, Slot, Node, P
<1> QED BY <1>2, <1>3

Quiet(c) == table[c] = "off" /\ live[c] = {} /\ known[c] = {}

\* The callbacks of listeners
Callbacks == {e \in Events : e.type # "loaded"}

\* Callbacks of listeners are callbacks, and none is the answer to the read.
LEMMA CallbacksAreEvents ==
  ASSUME NEW s \in Seq(Callbacks)
  PROVE  s \in Seq(Events) /\ \A k \in DOMAIN s : s[k].type # "loaded"
BY DEF Callbacks

\* What the SDK raises are callbacks of listeners, never the answer to a read, and
\* nothing at all as long as the app listens to nothing.
LEMMA RaisedType ==
  ASSUME TypeOK, NEW c \in Users, NEW i \in Ids, NEW n \in Slot, NEW q \in Seq(Requests)
  PROVE  /\ Raised(c, i, n, q) \in Seq(Callbacks)
         /\ KnownAfter(c, i, n, q) \in SUBSET Ids
         /\ Quiet(c) => Raised(c, i, n, q) = <<>> /\ KnownAfter(c, i, n, q) = {}
<1> DEFINE old == Seen(c, i, server[i], up[c])
           new == Seen(c, i, n, q)
<1>1. old \in Slot /\ new \in Slot
  <2>1. server[i] \in Slot /\ up[c] \in Seq(Requests)
    BY DEF TypeOK
  <2>2. Overlay(server[i], up[c], i) \in Slot /\ Overlay(n, q, i) \in Slot
    BY <2>1, OverlayType
  <2> QED BY <2>2 DEF Seen, Slot
<1>2. regs[c][i] \in Nat /\ known[c] \in SUBSET Ids
  BY DEF TypeOK
<1>3. Quiet(c) => old = Absent /\ new = Absent
  BY DEF Quiet, Seen
<1> HIDE DEF old, new
<1>4. ASSUME old # Absent, new # Absent
      PROVE  FieldChanges(c, i, old, new) \in Seq(Callbacks)
  <2> DEFINE e1 == [type |-> "checked", id |-> i, value |-> new.checked, regs |-> regs[c][i]]
             e2 == [type |-> "checked_by_id", id |-> i, value |-> new.by, regs |-> regs[c][i]]
             f1 == IF old.checked # new.checked THEN <<e1>> ELSE <<>>
             f2 == IF old.by # new.by THEN <<e2>> ELSE <<>>
  <2>1. new \in Node
    BY <1>1, <1>4 DEF Slot
  <2>2. e1 \in Callbacks /\ e2 \in Callbacks
    BY <2>1, <1>2 DEF Callbacks, Events, Node
  <2>3. FieldChanges(c, i, old, new) = f1 \o f2
    BY DEF FieldChanges
  <2> HIDE DEF e1, e2
  <2>4. f1 \in Seq(Callbacks) /\ f2 \in Seq(Callbacks)
    BY <2>2
  <2> HIDE DEF f1, f2
  <2> QED BY <2>3, <2>4, ConcatProperties
<1>5. Raised(c, i, n, q) \in Seq(Callbacks)
  <2>1. new # Absent => Added(i, new) \in Callbacks
    BY <1>1 DEF Slot, Added, Events, Callbacks
  <2>2. Removed(i) \in Callbacks
    BY DEF Removed, Events, Callbacks
  <2> QED BY <2>1, <2>2, <1>4 DEF Raised, old, new
<1>6. KnownAfter(c, i, n, q) \in SUBSET Ids
  BY <1>2 DEF KnownAfter
<1>7. Quiet(c) => Raised(c, i, n, q) = <<>> /\ KnownAfter(c, i, n, q) = {}
  <2> SUFFICES ASSUME Quiet(c)
               PROVE  Raised(c, i, n, q) = <<>> /\ KnownAfter(c, i, n, q) = {}
    OBVIOUS
  <2>1. old = Absent /\ new = Absent /\ known[c] = {}
    BY <1>3 DEF Quiet
  <2> QED BY <2>1 DEF Raised, KnownAfter, old, new
<1> QED BY <1>5, <1>6, <1>7

\* A write turns a slot into a slot.
LEMMA ApplyType ==
  ASSUME NEW w \in Writes, NEW n \in Slot
  PROVE  Apply(w, n) \in Slot
<1>1. (w.op = "add" \/ Named(n)) \in BOOLEAN
  BY DEF Named, Slot, Node
<1>2. w.checked \in BOOLEAN /\ w.by \in Checkers
  BY DEF Writes
<1> QED BY <1>1, <1>2 DEF Apply, Slot, Node

\* The oldest request of a queue, and what remains.
LEMMA OldestRequest ==
  ASSUME TypeOK, NEW c \in Users, up[c] # <<>>
  PROVE  /\ Head(up[c]) \in Requests
         /\ Tail(up[c]) \in Seq(Requests)
         /\ Head(up[c]).op \in WriteOps => Head(up[c]) \in Writes
         /\ Head(up[c]).op = "watch" => Head(up[c]).id \in Ids
<1>1. up[c] \in Seq(Requests)
  BY DEF TypeOK
<1>2. Head(up[c]) \in Requests /\ Tail(up[c]) \in Seq(Requests)
  BY <1>1, HeadTailProperties
<1> QED BY <1>2 DEF Requests, Writes, WriteOps

\* The oldest callback of a queue, and what remains.
LEMMA OldestEvent ==
  ASSUME TypeOK, NEW c \in Users, events[c] # <<>>
  PROVE  /\ Head(events[c]) \in Events
         /\ Tail(events[c]) \in Seq(Events)
<1>1. events[c] \in Seq(Events)
  BY DEF TypeOK
<1> QED BY <1>1, HeadTailProperties

\* Announcing a set of items that are there, in any order.
LEMMA AnnounceType ==
  ASSUME TypeOK, NEW c \in Users, NEW S \in SUBSET Ids,
         \A i \in S : Overlay(server[i], up[c], i) # Absent,
         NEW order \in SetToSeqs(S)
  PROVE  [k \in DOMAIN order |-> Added(order[k], Overlay(server[order[k]], up[c], order[k]))]
            \in Seq(Callbacks)
<1>1. order \in Seq(S) /\ DOMAIN order = 1..Len(order) /\ Len(order) \in Nat
  BY OrderIsSequence
<1>2. ASSUME NEW k \in DOMAIN order
      PROVE  Added(order[k], Overlay(server[order[k]], up[c], order[k])) \in Callbacks
  <2>1. order[k] \in S
    BY <1>1
  <2>2. server[order[k]] \in Slot /\ up[c] \in Seq(Requests)
    BY <2>1 DEF TypeOK
  <2>3. Overlay(server[order[k]], up[c], order[k]) \in Slot
    BY <2>1, <2>2, OverlayType
  <2> QED BY <2>1, <2>3 DEF Slot, Added, Events, Callbacks
<1> QED BY <1>1, <1>2

-----------------------------------------------------------------------------
(***************************************************************************)
(* Type correctness.                                                       *)
(***************************************************************************)

\* The initial states have the types.
LEMMA InitType == Init => TypeOK
<1> SUFFICES ASSUME Init PROVE TypeOK
  OBVIOUS
<1>1. server \in [Ids -> Slot] /\ used \subseteq Ids
  BY DEF Init, Complete, Slot
<1>2. <<>> \in Seq(Requests) /\ <<>> \in Seq(Events) /\ <<>> \in Seq(Rows)
  OBVIOUS
<1> QED BY <1>1, <1>2 DEF Init, TypeOK

\* A write of the app, and what it raises at home.
LEMMA SendType ==
  ASSUME TypeOK, NEW c \in Users, NEW w \in Writes, Send(c, w)
  PROVE  /\ up' \in [Users -> Seq(Requests)]
         /\ events' \in [Users -> Seq(Events)]
         /\ known' \in [Users -> SUBSET Ids]
         /\ writes' \in Nat
<1> DEFINE q == Append(up[c], w)
<1>1. w \in Requests /\ w.id \in Ids
  BY DEF Requests, Writes
<1>2. q \in Seq(Requests) /\ server[w.id] \in Slot
  BY <1>1 DEF TypeOK
<1>3. /\ Raised(c, w.id, server[w.id], q) \in Seq(Events)
      /\ KnownAfter(c, w.id, server[w.id], q) \in SUBSET Ids
  BY <1>1, <1>2, RaisedType, CallbacksAreEvents
<1>4. events[c] \o Raised(c, w.id, server[w.id], q) \in Seq(Events)
  BY <1>3, ConcatProperties DEF TypeOK
<1> HIDE DEF q
<1> QED BY <1>2, <1>3, <1>4 DEF Send, TypeOK, q

\* The end of a process leaves every variable in its type.
LEMMA ResetType ==
  ASSUME TypeOK, NEW c \in Users, NEW s \in {"closed", "crashed"}, Reset(c, s)
  PROVE  /\ up' \in [Users -> Seq(Requests)] /\ events' \in [Users -> Seq(Events)]
         /\ table' \in [Users -> {"off", "asked", "on"}]
         /\ live' \in [Users -> SUBSET Ids] /\ known' \in [Users -> SUBSET Ids]
         /\ regs' \in [Users -> [Ids -> Nat]] /\ data' \in [Users -> Seq(Rows)]
         /\ screen' \in [Users -> {"closed", "loading", "enabled", "left", "crashed"}]
         /\ popup' \in [Users -> {NoPopup} \cup [row : Nat \ {0}, id : Ids]]
         /\ lost' \in [Users -> SUBSET Ids] /\ gone' \in [Users -> SUBSET Ids]
BY DEF Reset, TypeOK

\* Starting the table listener leaves the queues in their types.
LEMMA ActivateType ==
  ASSUME TypeOK, NEW c \in Users, events[c] # <<>>, ActivateObservers(c)
  PROVE  /\ up' \in [Users -> Seq(Requests)]
         /\ events' \in [Users -> Seq(Events)]
         /\ table' \in [Users -> {"off", "asked", "on"}]
         /\ known' \in [Users -> SUBSET Ids]
<1> DEFINE Held == {i \in live[c] : Overlay(server[i], up[c], i) # Absent}
<1>1. Held \in SUBSET Ids
  BY DEF TypeOK
<1>2. PICK order \in SetToSeqs(Held) :
         events' = [events EXCEPT ![c] = Tail(@) \o
            [k \in DOMAIN order |-> Added(order[k], Overlay(server[order[k]], up[c], order[k]))]]
  BY DEF ActivateObservers
<1> DEFINE told == [k \in DOMAIN order |->
                       Added(order[k], Overlay(server[order[k]], up[c], order[k]))]
<1>3. told \in Seq(Events)
  BY <1>1, AnnounceType, CallbacksAreEvents
<1>4. Tail(events[c]) \o told \in Seq(Events)
  BY <1>3, OldestEvent, ConcatProperties
<1>5. events' \in [Users -> Seq(Events)]
  <2> HIDE DEF told
  <2> QED BY <1>2, <1>4 DEF TypeOK, told
<1>6. Append(up[c], Table) \in Seq(Requests)
  BY DEF TypeOK, Table, Requests
<1>7. /\ up' = [up EXCEPT ![c] = Append(@, Table)]
      /\ table' = [table EXCEPT ![c] = "asked"]
      /\ known' = [known EXCEPT ![c] = Held]
  BY DEF ActivateObservers
<1> HIDE DEF Held
<1> QED BY <1>1, <1>5, <1>6, <1>7 DEF TypeOK

\* Removing the first row of an item leaves the rows of the others, each once if each
\* was there once; then no row of the item is left.
LEMMA RemoveRow ==
  ASSUME NEW s \in Seq(Rows), NEW i \in Ids
  PROVE  /\ RemoveFirstMatch(s, LAMBDA r : r.id = i) \in Seq(Rows)
         /\ \A k \in DOMAIN RemoveFirstMatch(s, LAMBDA r : r.id = i) :
               \E j \in DOMAIN s : RemoveFirstMatch(s, LAMBDA r : r.id = i)[k] = s[j]
         /\ \A j \in DOMAIN s : s[j].id # i =>
               \E k \in DOMAIN RemoveFirstMatch(s, LAMBDA r : r.id = i) :
                  RemoveFirstMatch(s, LAMBDA r : r.id = i)[k] = s[j]
         /\ Once(s) => /\ Once(RemoveFirstMatch(s, LAMBDA r : r.id = i))
                       /\ \A k \in DOMAIN RemoveFirstMatch(s, LAMBDA r : r.id = i) :
                             RemoveFirstMatch(s, LAMBDA r : r.id = i)[k].id # i
<1> DEFINE t == RemoveFirstMatch(s, LAMBDA r : r.id = i)
           I == {k \in 1..Len(s) : s[k].id = i}
<1>1. CASE I = {}
  <2>1. t = s
    BY <1>1 DEF RemoveFirstMatch
  <2>2. \A k \in DOMAIN s : s[k].id # i
    BY <1>1
  <2> HIDE DEF t, I
  <2> QED BY <2>1, <2>2 DEF t
<1>2. CASE I # {}
  <2>1. I \in SUBSET Nat
    OBVIOUS
  <2>2. Min(I) \in I
    BY <2>1, <1>2, LeastExists DEF Min
  <2> DEFINE m == Min(I)
  <2>3. m \in 1..Len(s) /\ s[m].id = i
    BY <2>2
  <2>4. t = SubSeq(s, 1, m - 1) \o SubSeq(s, m + 1, Len(s))
    BY <1>2 DEF RemoveFirstMatch, SelectInSeq, RemoveAt
  <2> HIDE DEF m, t
  <2>5. /\ t \in Seq(Rows)
        /\ Len(t) = Len(s) - 1
        /\ \A k \in 1..Len(t) : t[k] = IF k < m THEN s[k] ELSE s[k + 1]
    <3> DEFINE a == SubSeq(s, 1, m - 1)
               b == SubSeq(s, m + 1, Len(s))
    <3>1. Len(s) \in Nat /\ m \in Nat /\ 1 <= m /\ m <= Len(s)
      BY <2>3
    <3>2. /\ a \in Seq(Rows) /\ Len(a) = m - 1
          /\ \A k \in 1..(m - 1) : a[k] = s[k]
      BY <3>1, SubSeqProperties
    <3>3. /\ b \in Seq(Rows) /\ Len(b) = Len(s) - m
          /\ \A k \in 1..(Len(s) - m) : b[k] = s[m + k]
      BY <3>1, SubSeqProperties
    <3>c. t = a \o b
      BY <2>4
    <3> HIDE DEF a, b
    <3>4. t \in Seq(Rows) /\ Len(t) = Len(s) - 1
      BY <3>c, <3>1, <3>2, <3>3
    <3>5. ASSUME NEW k \in 1..Len(t)
          PROVE  t[k] = IF k < m THEN s[k] ELSE s[k + 1]
      <4>1. t[k] = IF k <= Len(a) THEN a[k] ELSE b[k - Len(a)]
        BY <3>c, <3>1, <3>2, <3>3, <3>4, ConcatProperties
      <4>2. CASE k < m
        BY <4>1, <4>2, <3>1, <3>2
      <4>3. CASE ~(k < m)
        <5>1. k - (m - 1) \in 1..(Len(s) - m) /\ m + (k - (m - 1)) = k + 1
          BY <4>3, <3>1, <3>4
        <5> QED BY <4>1, <4>3, <5>1, <3>1, <3>2, <3>3
      <4> QED BY <4>2, <4>3
    <3> QED BY <3>4, <3>5
  <2>6. ASSUME Once(s) PROVE Once(t)
    <3> DEFINE src(k) == IF k < m THEN k ELSE k + 1
    <3>1. DOMAIN s = 1..Len(s) /\ DOMAIN t = 1..Len(t) /\ Len(s) \in Nat
      BY <2>5
    <3>2. ASSUME NEW k \in 1..Len(t)
          PROVE  src(k) \in 1..Len(s) /\ t[k] = s[src(k)]
      BY <2>3, <2>5, <3>1
    <3>3. ASSUME NEW j \in 1..Len(t), NEW k \in 1..Len(t), src(j) = src(k)
          PROVE  j = k
      BY <2>3, <3>1, <3>3
    <3> HIDE DEF src
    <3>4. ASSUME NEW j \in 1..Len(t), NEW k \in 1..Len(t), t[j].id = t[k].id
          PROVE  j = k
      <4>1. src(j) \in DOMAIN s /\ src(k) \in DOMAIN s /\ s[src(j)].id = s[src(k)].id
        BY <3>1, <3>2, <3>4
      <4>2. src(j) = src(k)
        BY <4>1, <2>6 DEF Once
      <4> QED BY <4>2, <3>3
    <3> QED BY <3>1, <3>4 DEF Once
  <2>7. ASSUME NEW k \in DOMAIN t PROVE \E j \in DOMAIN s : t[k] = s[j]
    <3>1. /\ k \in 1..Len(t) /\ Len(s) \in Nat /\ DOMAIN s = 1..Len(s)
          /\ t[k] = IF k < m THEN s[k] ELSE s[k + 1]
      BY <2>5
    <3>2. (IF k < m THEN k ELSE k + 1) \in DOMAIN s
      BY <2>3, <2>5, <3>1
    <3> QED BY <3>1, <3>2
  <2>8. ASSUME NEW j \in DOMAIN s, s[j].id # i PROVE \E k \in DOMAIN t : t[k] = s[j]
    <3>1. /\ j \in 1..Len(s) /\ Len(s) \in Nat /\ DOMAIN t = 1..Len(t)
          /\ \A k \in 1..Len(t) : t[k] = IF k < m THEN s[k] ELSE s[k + 1]
      BY <2>5
    <3>2. j # m
      BY <2>3, <2>8
    <3>3. CASE j < m
      <4>1. j \in DOMAIN t /\ t[j] = s[j]
        BY <3>1, <3>3, <2>3, <2>5
      <4> QED BY <4>1
    <3>4. CASE j > m
      <4>1. j - 1 \in DOMAIN t /\ ~(j - 1 < m) /\ (j - 1) + 1 = j
        BY <3>1, <3>4, <2>3, <2>5
      <4>2. t[j - 1] = s[j]
        BY <3>1, <4>1
      <4> QED BY <4>1, <4>2
    <3> QED BY <3>1, <3>2, <3>3, <3>4, <2>3
  <2>9. ASSUME Once(s), NEW k \in DOMAIN t PROVE t[k].id # i
    <3>1. /\ k \in 1..Len(t) /\ Len(s) \in Nat /\ DOMAIN s = 1..Len(s)
          /\ t[k] = IF k < m THEN s[k] ELSE s[k + 1]
      BY <2>5
    <3>2. PICK j \in DOMAIN s : t[k] = s[j] /\ j # m
      <4>1. CASE k < m
        BY <3>1, <4>1, <2>3
      <4>2. CASE ~(k < m)
        <5>1. k + 1 \in DOMAIN s /\ k + 1 # m
          BY <3>1, <4>2, <2>3, <2>5
        <5> QED BY <3>1, <4>2, <5>1
      <4> QED BY <4>1, <4>2
    <3> QED BY <2>3, <2>9, <3>1, <3>2 DEF Once
  <2> QED BY <2>5, <2>6, <2>7, <2>8, <2>9 DEF t
<1> QED BY <1>1, <1>2

\* The write of ReverseChecked.
LEMMA ReverseType ==
  ASSUME TypeOK, NEW c \in Users, NEW k \in DOMAIN data[c]
  PROVE  ReverseCheckedOf(c, data[c][k]) \in Writes
<1>1. data[c] \in Seq(Rows)
  BY DEF TypeOK
<1>2. data[c][k] \in Rows
  BY <1>1
<1>3. data[c][k].id \in Ids /\ data[c][k].checked \in BOOLEAN
  BY <1>2 DEF Rows
<1> QED BY <1>3 DEF ReverseCheckedOf, CheckOf, Writes, WriteOps, Checkers

\* What LoadItems adds to the rows and to the queues: a row per item, requests to watch
\* and to name them, and perhaps the names; neither a read nor a write.
LEMMA LoadItemsShape ==
  ASSUME TypeOK, NEW c \in Users, LoadItems(c)
  PROVE  \E rows \in Seq(Rows), more \in Seq(Requests), told \in Seq(Events) :
            /\ data' = [data EXCEPT ![c] = data[c] \o rows]
            /\ up' = [up EXCEPT ![c] = up[c] \o more]
            /\ events' = [events EXCEPT ![c] = Tail(events[c]) \o told]
            /\ Once(rows)
            /\ \A k \in DOMAIN rows : Head(events[c]).snap[rows[k].id] # Absent
            /\ \A k \in DOMAIN more : more[k].op \in {"watch", "names"}
            /\ \A k \in DOMAIN told : told[k].type = "named"
            /\ HowMany(more, {Names}) + HowMany(told, {[type |-> "named"]}) = 1
<1> DEFINE snap == Head(events[c]).snap
           S == {i \in Ids : snap[i] # Absent}
<1>1. events[c] # <<>> /\ snap \in [Ids -> Slot]
  <2>1. events[c] # <<>> /\ Head(events[c]).type = "loaded"
    BY DEF LoadItems, Next1
  <2> QED BY <2>1, OldestEvent DEF Events
<1>2. S \in SUBSET Ids /\ S # {}
  BY DEF LoadItems
<1>3. PICK order \in SetToSeqs(S), cached \in BOOLEAN :
        LET W == [k \in DOMAIN order |-> Watch(order[k])]
        IN  /\ data' = [data EXCEPT ![c] = @ \o
                  [k \in DOMAIN order |->
                     Row(order[k], snap[order[k]], regs[c][order[k]] + 1)]]
            /\ up' = [up EXCEPT ![c] = @ \o
                  (IF cached THEN W ELSE <<W[1], Names>> \o Tail(W))]
            /\ events' = [events EXCEPT ![c] = Tail(@) \o
                  (IF cached THEN <<[type |-> "named"]>> ELSE <<>>)]
  BY DEF LoadItems
<1> DEFINE W == [k \in DOMAIN order |-> Watch(order[k])]
           rows == [k \in DOMAIN order |->
                      Row(order[k], snap[order[k]], regs[c][order[k]] + 1)]
           more == IF cached THEN W ELSE <<W[1], Names>> \o Tail(W)
           told == IF cached THEN <<[type |-> "named"]>> ELSE <<>>
           Asks(r) == \A k \in DOMAIN r : r[k].op \in {"watch", "names"}
<1>4. /\ order \in Seq(S) /\ DOMAIN order = 1..Len(order) /\ Len(order) \in Nat
      /\ \A j, k \in DOMAIN order : order[j] = order[k] => j = k
  BY <1>2, OrderIsSequence
<1>5. order # <<>>
  <2>1. PICK i \in S : TRUE
    BY <1>2
  <2>2. \E k \in DOMAIN order : order[k] = i
    BY <2>1, <1>2, OrderListsAll
  <2> QED BY <2>2
<1>6. rows \in Seq(Rows) /\ Once(rows) /\ \A k \in DOMAIN rows : snap[rows[k].id] # Absent
  <2>1. ASSUME NEW k \in DOMAIN order
        PROVE  Row(order[k], snap[order[k]], regs[c][order[k]] + 1) \in Rows
    <3>1. order[k] \in S
      BY <1>4
    <3>2. snap[order[k]] \in Node
      BY <3>1, <1>1 DEF Slot
    <3>3. regs[c][order[k]] \in Nat
      BY <3>1 DEF TypeOK
    <3> QED BY <3>1, <3>2, <3>3 DEF Row, Rows, Node
  <2>2. Once(rows)
    BY <1>4 DEF Once, Row
  <2>3. ASSUME NEW k \in DOMAIN rows PROVE snap[rows[k].id] # Absent
    <3>1. order[k] \in S /\ rows[k].id = order[k]
      BY <1>4 DEF Row
    <3> QED BY <3>1
  <2>4. rows \in Seq(Rows)
    BY <2>1, <1>4
  <2> HIDE DEF rows
  <2> QED BY <2>2, <2>3, <2>4
<1>7. W \in Seq(Requests) /\ W # <<>> /\ \A k \in DOMAIN W : W[k].op = "watch"
  <2>1. ASSUME NEW k \in DOMAIN order
        PROVE  Watch(order[k]) \in Requests /\ Watch(order[k]).op = "watch"
    <3>1. order[k] \in Ids
      BY <1>4
    <3> QED BY <3>1 DEF Watch, Requests
  <2>2. W \in Seq(Requests) /\ Len(W) = Len(order)
    BY <2>1, <1>4
  <2> QED BY <2>1, <2>2, <1>4, <1>5
<1>8. more \in Seq(Requests) /\ Asks(more)
  <2> DEFINE two == <<W[1], Names>>
             rest == Tail(W)
  <2> HIDE DEF W
  <2>1. Names \in Requests /\ Names.op = "names"
    BY DEF Names, Requests
  <2>2. /\ W[1] \in Requests /\ W[1].op = "watch"
        /\ rest \in Seq(Requests) /\ \A k \in DOMAIN rest : rest[k].op = "watch"
    BY <1>7
  <2>3. two \in Seq(Requests) /\ Len(two) = 2
        /\ \A k \in DOMAIN two : two[k].op \in {"watch", "names"}
    BY <2>1, <2>2
  <2> HIDE DEF two, rest
  <2>4. two \o rest \in Seq(Requests)
    BY <2>2, <2>3, ConcatProperties
  <2>5. ASSUME NEW k \in DOMAIN (two \o rest)
        PROVE  (two \o rest)[k].op \in {"watch", "names"}
    <3>1. \/ \E j \in DOMAIN two : (two \o rest)[k] = two[j]
          \/ \E j \in DOMAIN rest : (two \o rest)[k] = rest[j]
      BY <2>2, <2>3, ElementOfEither
    <3> QED BY <3>1, <2>2, <2>3
  <2> QED BY <1>7, <2>4, <2>5 DEF two, rest
<1>9. told \in Seq(Events) /\ \A k \in DOMAIN told : told[k].type = "named"
  <2> DEFINE e == [type |-> "named"]
  <2>1. e \in Events /\ e.type = "named"
    BY DEF Events
  <2> HIDE DEF e
  <2> QED BY <2>1 DEF e
<1>10. /\ data' = [data EXCEPT ![c] = data[c] \o rows]
       /\ up' = [up EXCEPT ![c] = up[c] \o more]
       /\ events' = [events EXCEPT ![c] = Tail(events[c]) \o told]
  BY <1>3
<1>11. HowMany(more, {Names}) + HowMany(told, {[type |-> "named"]}) = 1
  <2> DEFINE e == [type |-> "named"]
  <2>1. Names \in Requests /\ Names.op = "names" /\ e \in Events
    BY DEF Names, Requests, Events
  <2>2. HowMany(<<>>, {e}) = 0 /\ HowMany(<<e>>, {e}) = 1
    BY <2>1, HowManyOne
  <2> HIDE DEF W, e
  <2>3. HowMany(W, {Names}) = 0 /\ HowMany(Tail(W), {Names}) = 0
    <3>1. /\ Tail(W) \in Seq(Requests)
          /\ \A k \in DOMAIN Tail(W) : Tail(W)[k].op = "watch"
      BY <1>7
    <3> QED BY <1>7, <2>1, <3>1, HowManyType
  <2>4. HowMany(<<W[1], Names>> \o Tail(W), {Names}) = 1
    <3> DEFINE first == W[1]
               two == <<first, Names>>
               rest == Tail(W)
    <3>1. first \in Requests /\ first.op = "watch" /\ Tail(W) \in Seq(Requests)
      BY <1>7
    <3> HIDE DEF first
    <3>2. HowMany(two, {Names}) = 1 /\ two \in Seq(Requests)
      BY <2>1, <3>1, HowManyTwo
    <3>3. rest \in Seq(Requests) /\ HowMany(rest, {Names}) = 0
      BY <2>3, <3>1
    <3> HIDE DEF two, rest
    <3>4. HowMany(two \o rest, {Names}) = HowMany(two, {Names}) + HowMany(rest, {Names})
      BY <3>2, <3>3, HowManyJoined
    <3>5. HowMany(two \o rest, {Names}) = 1
      BY <3>2, <3>3, <3>4
    <3> QED BY <3>5 DEF two, rest, first
  <2> QED BY <2>2, <2>3, <2>4 DEF e
<1> HIDE DEF rows, more, told
<1> QED BY <1>6, <1>8, <1>9, <1>10, <1>11

\* The callback of LoadData with items leaves every variable in its type.
LEMMA LoadItemsType ==
  ASSUME TypeOK, NEW c \in Users, LoadItems(c)
  PROVE  /\ data' \in [Users -> Seq(Rows)]
         /\ up' \in [Users -> Seq(Requests)]
         /\ events' \in [Users -> Seq(Events)]
         /\ regs' \in [Users -> [Ids -> Nat]]
<1>1. PICK rows \in Seq(Rows), more \in Seq(Requests), told \in Seq(Events) :
         /\ data' = [data EXCEPT ![c] = data[c] \o rows]
         /\ up' = [up EXCEPT ![c] = up[c] \o more]
         /\ events' = [events EXCEPT ![c] = Tail(events[c]) \o told]
         /\ Once(rows)
         /\ \A k \in DOMAIN rows : Head(events[c]).snap[rows[k].id] # Absent
         /\ \A k \in DOMAIN more : more[k].op \in {"watch", "names"}
         /\ \A k \in DOMAIN told : told[k].type = "named"
         /\ HowMany(more, {Names}) + HowMany(told, {[type |-> "named"]}) = 1
  BY LoadItemsShape
<1>2. events[c] # <<>>
  BY DEF LoadItems, Next1
<1>3. /\ data[c] \o rows \in Seq(Rows)
      /\ up[c] \o more \in Seq(Requests)
      /\ Tail(events[c]) \o told \in Seq(Events)
  BY <1>2, OldestEvent, ConcatProperties DEF TypeOK
<1>4. regs' \in [Users -> [Ids -> Nat]]
  <2> DEFINE S == {i \in Ids : Head(events[c]).snap[i] # Absent}
  <2>1. regs' = [regs EXCEPT ![c] = [i \in Ids |-> IF i \in S THEN @[i] + 1 ELSE @[i]]]
    BY DEF LoadItems
  <2> HIDE DEF S
  <2> QED BY <2>1 DEF TypeOK
<1> QED BY <1>1, <1>3, <1>4 DEF TypeOK

\* The app's announcements end in rows: one more, one less, or one that is updated.
LEMMA ChildAddedType ==
  ASSUME TypeOK, NEW c \in Users, ItemsChildAdded(c)
  PROVE  /\ data' \in [Users -> Seq(Rows)]
         /\ regs' \in [Users -> [Ids -> Nat]]
         /\ lost' \in [Users -> SUBSET Ids]
<1> DEFINE ev == Head(events[c])
           i  == ev.id
<1>1. i \in Ids /\ ev.node \in Node
  <2>1. events[c] # <<>> /\ ev.type = "added"
    BY DEF ItemsChildAdded, Next1
  <2> QED BY <2>1, OldestEvent DEF Events
<1>2. CASE i \in RowIds(c)
  BY <1>2 DEF ItemsChildAdded, TypeOK
<1>3. CASE i \notin RowIds(c)
  <2>1. /\ regs' = [regs EXCEPT ![c][i] = @ + 1]
        /\ data' = [data EXCEPT ![c] = Append(@, Row(i, ev.node, regs[c][i] + 1))]
        /\ \/ lost' = [lost EXCEPT ![c] = @ \ {i}]
           \/ lost' = [lost EXCEPT ![c] = @ \cup {i}]
    BY <1>3 DEF ItemsChildAdded
  <2>2. Row(i, ev.node, regs[c][i] + 1) \in Rows
    BY <1>1 DEF Row, Rows, Node, TypeOK
  <2> HIDE DEF ev, i
  <2>3. lost' \in [Users -> SUBSET Ids]
    <3>1. \A L \in SUBSET Ids : [lost EXCEPT ![c] = L] \in [Users -> SUBSET Ids]
      BY DEF TypeOK
    <3>2. lost[c] \ {i} \in SUBSET Ids /\ lost[c] \cup {i} \in SUBSET Ids
      BY <1>1 DEF TypeOK
    <3> QED BY <2>1, <3>1, <3>2
  <2>4. data' \in [Users -> Seq(Rows)]
    BY <2>1, <2>2 DEF TypeOK
  <2>5. regs' \in [Users -> [Ids -> Nat]]
    BY <2>1, <1>1 DEF TypeOK
  <2> QED BY <2>3, <2>4, <2>5
<1> QED BY <1>2, <1>3

\* A field that changes leaves the rows and the items they are of.
LEMMA UpdatedType ==
  ASSUME TypeOK, NEW c \in Users, ItemUpdated(c)
  PROVE  /\ data' \in [Users -> Seq(Rows)]
         /\ DOMAIN data'[c] = DOMAIN data[c]
         /\ \A k \in DOMAIN data[c] : data'[c][k].id = data[c][k].id
<1> DEFINE ev == Head(events[c])
           New(r) == IF r.id # ev.id \/ r.reg > ev.regs THEN r
                     ELSE IF ev.type = "checked" THEN [r EXCEPT !.checked = ev.value]
                     ELSE [r EXCEPT !.by = ev.value]
<1>1. /\ ev.type = "checked" => ev.value \in BOOLEAN
      /\ ev.type # "checked" => ev.value \in Checkers
  <2>1. events[c] # <<>> /\ ev.type \in {"checked", "checked_by_id"}
    BY DEF ItemUpdated, Next1
  <2> QED BY <2>1, OldestEvent DEF Events
<1>2. ASSUME NEW r \in Rows PROVE New(r) \in Rows /\ New(r).id = r.id
  BY <1>1 DEF Rows
<1>3. data' = [data EXCEPT ![c] = [k \in DOMAIN @ |-> New(@[k])]]
  BY DEF ItemUpdated
<1>4. data[c] \in Seq(Rows) /\ DOMAIN data[c] = 1..Len(data[c]) /\ Len(data[c]) \in Nat
  BY DEF TypeOK
<1>5. ASSUME NEW k \in DOMAIN data[c] PROVE data[c][k] \in Rows
  BY <1>4
<1> HIDE DEF New
<1>6. [k \in DOMAIN data[c] |-> New(data[c][k])] \in Seq(Rows)
  BY <1>2, <1>4, <1>5
<1> QED BY <1>2, <1>3, <1>5, <1>6 DEF TypeOK

\* The rows of an app are of items.
LEMMA RowIdsType == ASSUME TypeOK, NEW c \in Users PROVE RowIds(c) \in SUBSET Ids
<1>1. data[c] \in Seq(Rows)
  BY DEF TypeOK
<1>2. ASSUME NEW k \in DOMAIN data[c] PROVE data[c][k].id \in Ids
  <2>1. data[c][k] \in Rows
    BY <1>1
  <2> QED BY <2>1 DEF Rows
<1> QED BY <1>2 DEF RowIds

\* The delegate call leaves the screen in its type.
LEMMA DataLoadedType ==
  ASSUME TypeOK, NEW c \in Users, DataLoaded(c)
  PROVE  screen' \in [Users -> {"closed", "loading", "enabled", "left", "crashed"}]
BY DEF DataLoaded, TypeOK

\* Every step keeps every variable in its type.
LEMMA StepType == TypeOK /\ [Next]_vars => TypeOK'
<1> SUFFICES ASSUME TypeOK, [Next]_vars PROVE TypeOK'
  OBVIOUS
<1>u. CASE UNCHANGED vars
  BY <1>u DEF TypeOK, vars, sdk, app, history, bounds
<1>n. CASE Next
  <2> PICK c \in Users : ServerStep(c) \/ Reject(c) \/ MainStep(c) \/ UserStep(c)
    BY <1>n DEF Next
  <2>1. CASE AnswerRead(c)
    <3>1. up[c] # <<>>
      BY <2>1 DEF AnswerRead, Oldest
    <3>2. [type |-> "loaded", snap |-> server] \in Events
      BY DEF TypeOK, Events
    <3>3. Append(events[c], [type |-> "loaded", snap |-> server]) \in Seq(Events)
      BY <3>2 DEF TypeOK
    <3>4. Tail(up[c]) \in Seq(Requests)
      BY <3>1, OldestRequest
    <3> QED BY <2>1, <3>3, <3>4 DEF AnswerRead, Answered, TypeOK, app, history, bounds
  <2>2. CASE AnswerNames(c)
    <3>1. up[c] # <<>>
      BY <2>2 DEF AnswerNames, Oldest
    <3>2. Append(events[c], [type |-> "named"]) \in Seq(Events)
      BY DEF TypeOK, Events
    <3>3. Tail(up[c]) \in Seq(Requests)
      BY <3>1, OldestRequest
    <3> QED BY <2>2, <3>2, <3>3 DEF AnswerNames, Answered, TypeOK, app, history, bounds
  <2>3. CASE AnswerWatch(c)
    <3> DEFINE i == Head(up[c]).id
               n == Overlay(server[i], up[c], i)
               tell == table[c] = "asked" /\ n # Absent
    <3>1. up[c] # <<>> /\ i \in Ids /\ Tail(up[c]) \in Seq(Requests)
      BY <2>3, OldestRequest DEF AnswerWatch, Oldest
    <3>2. n \in Slot
      BY <3>1, OverlayType DEF TypeOK
    <3>3. tell => Added(i, n) \in Events
      BY <3>1, <3>2 DEF Slot, Added, Events
    <3>4. /\ live' = [live EXCEPT ![c] = @ \cup {i}]
          /\ known' = [known EXCEPT ![c] = IF tell THEN @ \cup {i} ELSE @]
          /\ events' = [events EXCEPT ![c] = IF tell THEN Append(@, Added(i, n)) ELSE @]
          /\ lost' = [lost EXCEPT ![c] = IF Differs(c, i, n) THEN @ \cup {i} ELSE @]
          /\ up' = [up EXCEPT ![c] = Tail(@)]
          /\ UNCHANGED <<server, used, table, regs, app, gone, bounds>>
      BY <2>3 DEF AnswerWatch, Answered
    <3> HIDE DEF i, n, tell
    <3>5. events' \in [Users -> Seq(Events)]
      BY <3>3, <3>4 DEF TypeOK
    <3>6. lost' \in [Users -> SUBSET Ids]
      BY <3>1, <3>4 DEF TypeOK
    <3>7. known' \in [Users -> SUBSET Ids] /\ live' \in [Users -> SUBSET Ids]
      BY <3>1, <3>4 DEF TypeOK
    <3> QED BY <3>1, <3>4, <3>5, <3>6, <3>7 DEF TypeOK, app, bounds
  <2>4. CASE AnswerTable(c)
    <3> DEFINE Held == {i \in Ids : Overlay(server[i], up[c], i) # Absent}
    <3>1. PICK order \in SetToSeqs(Held \ known[c]) :
             events' = [events EXCEPT ![c] = @ \o [k \in DOMAIN order |->
                Added(order[k], Overlay(server[order[k]], up[c], order[k]))]]
      BY <2>4 DEF AnswerTable
    <3> DEFINE told == [k \in DOMAIN order |->
                           Added(order[k], Overlay(server[order[k]], up[c], order[k]))]
    <3>2. told \in Seq(Events)
      BY AnnounceType, CallbacksAreEvents
    <3>3. events[c] \o told \in Seq(Events)
      <4> HIDE DEF told
      <4> QED BY <3>2, ConcatProperties DEF TypeOK
    <3>4. events' \in [Users -> Seq(Events)]
      <4> HIDE DEF told
      <4> QED BY <3>1, <3>3 DEF TypeOK, told
    <3>5. up[c] # <<>> /\ Tail(up[c]) \in Seq(Requests)
      BY <2>4, OldestRequest DEF AnswerTable, Oldest
    <3>6. /\ known' = [known EXCEPT ![c] = Held]
          /\ gone' = [gone EXCEPT ![c] = RowIds(c) \ Held]
          /\ table' = [table EXCEPT ![c] = "on"]
          /\ up' = [up EXCEPT ![c] = Tail(@)]
          /\ UNCHANGED <<server, used, live, regs, app, lost, bounds>>
      BY <2>4 DEF AnswerTable, Answered
    <3>7. RowIds(c) \in SUBSET Ids /\ Held \in SUBSET Ids
      BY RowIdsType
    <3> HIDE DEF Held
    <3> QED BY <3>4, <3>5, <3>6, <3>7 DEF TypeOK, app, bounds
  <2>5. CASE Commit(c)
    <3> DEFINE w == Head(up[c])
               n == Apply(w, server[w.id])
    <3>1. up[c] # <<>> /\ w \in Writes /\ w.id \in Ids /\ Tail(up[c]) \in Seq(Requests)
      BY <2>5, OldestRequest DEF Commit, Writes
    <3>2. n \in Slot
      BY <3>1, ApplyType DEF TypeOK
    <3>3. /\ server' = [server EXCEPT ![w.id] = n]
          /\ events' = [d \in Users |-> events[d] \o Raised(d, w.id, n, up'[d])]
          /\ known' = [d \in Users |-> KnownAfter(d, w.id, n, up'[d])]
          /\ up' = [up EXCEPT ![c] = Tail(@)]
          /\ UNCHANGED <<used, table, live, regs, app, history, bounds>>
      BY <2>5 DEF Commit, Answered
    <3> HIDE DEF w, n
    <3>4. up' \in [Users -> Seq(Requests)]
      BY <3>1, <3>3 DEF TypeOK
    <3>5. ASSUME NEW d \in Users
          PROVE  /\ events[d] \o Raised(d, w.id, n, up'[d]) \in Seq(Events)
                 /\ KnownAfter(d, w.id, n, up'[d]) \in SUBSET Ids
      <4>1. up'[d] \in Seq(Requests)
        BY <3>4
      <4>2. /\ Raised(d, w.id, n, up'[d]) \in Seq(Events)
            /\ KnownAfter(d, w.id, n, up'[d]) \in SUBSET Ids
        BY <3>1, <3>2, <4>1, RaisedType, CallbacksAreEvents
      <4> QED BY <4>2, ConcatProperties DEF TypeOK
    <3> QED BY <3>1, <3>2, <3>3, <3>4, <3>5 DEF TypeOK, app, history, bounds
  <2>6. CASE Reject(c)
    <3> DEFINE i == Head(up[c]).id
    <3>1. up[c] # <<>> /\ i \in Ids /\ Tail(up[c]) \in Seq(Requests)
      BY <2>6, OldestRequest DEF Reject, Writes
    <3>2. /\ events' = [events EXCEPT ![c] = @ \o Raised(c, i, server[i], up'[c])]
          /\ known' = [known EXCEPT ![c] = KnownAfter(c, i, server[i], up'[c])]
          /\ up' = [up EXCEPT ![c] = Tail(@)]
          /\ rejects' = rejects + 1
          /\ UNCHANGED <<server, used, table, live, regs, app, history, writes, opens, exits>>
      BY <2>6 DEF Reject, Answered
    <3> HIDE DEF i
    <3>3. up' \in [Users -> Seq(Requests)] /\ up'[c] \in Seq(Requests)
      BY <3>1, <3>2 DEF TypeOK
    <3>4. /\ Raised(c, i, server[i], up'[c]) \in Seq(Events)
          /\ KnownAfter(c, i, server[i], up'[c]) \in SUBSET Ids
      BY <3>1, <3>3, RaisedType, CallbacksAreEvents DEF TypeOK
    <3>5. events[c] \o Raised(c, i, server[i], up'[c]) \in Seq(Events)
      BY <3>4, ConcatProperties DEF TypeOK
    <3> QED BY <3>2, <3>3, <3>4, <3>5 DEF TypeOK, app, history
  <2>7. CASE LoadNothing(c)
    <3>1. events[c] # <<>>
      BY <2>7 DEF LoadNothing, Next1
    <3>2. CASE HasDelegate(c)
      <4>1. DataLoaded(c) /\ ActivateObservers(c)
        BY <2>7, <3>2 DEF LoadNothing
      <4>2. UNCHANGED <<server, used, live, regs, data, popup, history, bounds>>
        BY <2>7 DEF LoadNothing
      <4> QED BY <3>1, <4>1, <4>2, ActivateType, DataLoadedType DEF TypeOK, history, bounds
    <3>3. CASE ~HasDelegate(c)
      <4>1. /\ events' = [events EXCEPT ![c] = Tail(@)]
            /\ UNCHANGED <<up, table, known, screen>>
            /\ UNCHANGED <<server, used, live, regs, data, popup, history, bounds>>
        BY <2>7, <3>3 DEF LoadNothing
      <4> QED BY <3>1, <4>1, OldestEvent DEF TypeOK, history, bounds
    <3> QED BY <3>2, <3>3
  <2>8. CASE LoadItems(c)
    <3>1. UNCHANGED <<server, used, table, live, known, screen, popup, history, bounds>>
      BY <2>8 DEF LoadItems
    <3> QED BY <2>8, <3>1, LoadItemsType DEF TypeOK, history, bounds
  <2>9. CASE LastItemNamed(c)
    <3>1. events[c] # <<>>
      BY <2>9 DEF LastItemNamed, Next1
    <3>2. CASE HasDelegate(c)
      <4>1. DataLoaded(c) /\ ActivateObservers(c)
        BY <2>9, <3>2 DEF LastItemNamed
      <4>2. UNCHANGED <<server, used, live, regs, data, popup, history, bounds>>
        BY <2>9 DEF LastItemNamed
      <4> QED BY <3>1, <4>1, <4>2, ActivateType, DataLoadedType DEF TypeOK, history, bounds
    <3>3. CASE ~HasDelegate(c)
      <4>1. /\ events' = [events EXCEPT ![c] = Tail(@)]
            /\ UNCHANGED <<up, table, known, screen>>
            /\ UNCHANGED <<server, used, live, regs, data, popup, history, bounds>>
        BY <2>9, <3>3 DEF LastItemNamed
      <4> QED BY <3>1, <4>1, OldestEvent DEF TypeOK, history, bounds
    <3> QED BY <3>2, <3>3
  <2>10. CASE ItemsChildAdded(c)
    <3>1. /\ events[c] # <<>>
          /\ events' = [events EXCEPT ![c] = Tail(@)]
          /\ UNCHANGED <<server, used, up, table, live, known, screen, popup, gone, bounds>>
      BY <2>10 DEF ItemsChildAdded, Next1
    <3> QED BY <2>10, <3>1, ChildAddedType, OldestEvent DEF TypeOK, bounds
  <2>11. CASE ItemsChildRemoved(c)
    <3> DEFINE i == Head(events[c]).id
    <3>1. /\ events[c] # <<>> /\ i \in Ids
      BY <2>11, OldestEvent DEF ItemsChildRemoved, Next1, Events
    <3>2. RemoveFirstMatch(data[c], LAMBDA r : r.id = i) \in Seq(Rows)
      <4>1. data[c] \in Seq(Rows)
        BY DEF TypeOK
      <4> HIDE DEF i
      <4> QED BY <3>1, <4>1, RemoveRow
    <3>3. /\ data' = [data EXCEPT ![c] = RemoveFirstMatch(data[c], LAMBDA r : r.id = i)]
          /\ events' = [events EXCEPT ![c] = Tail(@)]
          /\ UNCHANGED <<server, used, up, table, live, known, regs, screen, popup,
                         history, bounds>>
      BY <2>11 DEF ItemsChildRemoved
    <3> QED BY <3>1, <3>2, <3>3, OldestEvent DEF TypeOK, history, bounds
  <2>12. CASE ItemUpdated(c)
    <3>1. /\ events[c] # <<>>
          /\ events' = [events EXCEPT ![c] = Tail(@)]
          /\ UNCHANGED <<server, used, up, table, live, known, regs, screen, popup,
                         history, bounds>>
      BY <2>12 DEF ItemUpdated, Next1
    <3> QED BY <2>12, <3>1, UpdatedType, OldestEvent DEF TypeOK, history, bounds
  <2>13. CASE OpenList(c)
    <3>1. <<Read>> \in Seq(Requests)
      BY DEF Read, Requests
    <3> QED BY <2>13, <3>1 DEF OpenList, TypeOK, history
  <2>14. CASE LeaveScreen(c)
    BY <2>14 DEF LeaveScreen, Exit, TypeOK, sdk, history
  <2>15. CASE Quit(c)
    BY <2>15, ResetType DEF Quit, Exit, TypeOK
  <2>16. CASE LoadPartialItem(c) \/ PartialChildAdded(c) \/ PopupYesNoRow(c)
    <3>1. Reset(c, "crashed") /\ UNCHANGED <<server, used, bounds>>
      BY <2>16 DEF LoadPartialItem, PartialChildAdded, PopupYesNoRow, Crash
    <3> QED BY <3>1, ResetType DEF TypeOK, bounds
  <2>17. CASE AddNewItem(c)
    <3>1. PICK i \in Ids \ used : used' = used \cup {i} /\ Send(c, AddOf(i))
      BY <2>17 DEF AddNewItem
    <3>2. AddOf(i) \in Writes
      BY DEF AddOf, Writes, WriteOps, Checkers
    <3>3. UNCHANGED <<server, table, live, regs, app, history, rejects, opens, exits>>
      BY <2>17 DEF AddNewItem
    <3> QED BY <3>1, <3>2, <3>3, SendType DEF TypeOK, app, history
  <2>18. CASE RemoveItem(c)
    <3>1. PICK k \in DOMAIN data[c] : Send(c, DelOf(data[c][k].id))
      BY <2>18 DEF RemoveItem
    <3>2. data[c][k] \in Rows
      BY DEF TypeOK
    <3>3. DelOf(data[c][k].id) \in Writes
      BY <3>2 DEF Rows, DelOf, Writes, WriteOps, Checkers
    <3>4. UNCHANGED <<server, used, table, live, regs, app, history, rejects, opens, exits>>
      BY <2>18 DEF RemoveItem
    <3> QED BY <3>1, <3>3, <3>4, SendType DEF TypeOK, app, history
  <2>19. CASE SelectUnchecked(c)
    <3>1. PICK k \in DOMAIN data[c] : Send(c, ReverseCheckedOf(c, data[c][k]))
      BY <2>19 DEF SelectUnchecked, ReverseChecked
    <3>2. UNCHANGED <<server, used, table, live, regs, app, history, rejects, opens, exits>>
      BY <2>19 DEF SelectUnchecked
    <3> QED BY <3>1, <3>2, ReverseType, SendType DEF TypeOK, app, history
  <2>20. CASE SelectChecked(c)
    <3>1. PICK k \in DOMAIN data[c] :
             popup' = [popup EXCEPT ![c] = [row |-> k, id |-> data[c][k].id]]
      BY <2>20 DEF SelectChecked
    <3>2. data[c][k] \in Rows /\ k \in Nat \ {0}
      BY DEF TypeOK
    <3>3. [row |-> k, id |-> data[c][k].id] \in [row : Nat \ {0}, id : Ids]
      BY <3>2 DEF Rows
    <3> QED BY <2>20, <3>1, <3>3 DEF SelectChecked, TypeOK, sdk, history, bounds
  <2>21. CASE PopupNo(c)
    BY <2>21 DEF PopupNo, TypeOK, sdk, history, bounds
  <2>22. CASE PopupYes(c)
    <3>1. /\ popup[c].row \in DOMAIN data[c]
          /\ Send(c, ReverseCheckedOf(c, data[c][popup[c].row]))
      BY <2>22 DEF PopupYes, ReverseChecked
    <3>2. /\ popup' = [popup EXCEPT ![c] = NoPopup]
          /\ UNCHANGED <<server, used, table, live, regs, data, screen, history, rejects,
                         opens, exits>>
      BY <2>22 DEF PopupYes
    <3> QED BY <3>1, <3>2, ReverseType, SendType DEF TypeOK, history
  <2> QED BY <2>1, <2>2, <2>3, <2>4, <2>5, <2>6, <2>7, <2>8, <2>9, <2>10, <2>11, <2>12,
             <2>13, <2>14, <2>15, <2>16, <2>17, <2>18, <2>19, <2>20, <2>21, <2>22
          DEF ServerStep, MainStep, UserStep
<1> QED BY <1>u, <1>n

\* Type correctness of the screen, the manager, the SDK queues and the server table.
THEOREM TypeCorrect == Spec => []TypeOK
<1>1. Init => TypeOK
  BY InitType
<1>2. TypeOK /\ [Next]_vars => TypeOK'
  BY StepType
<1> QED BY <1>1, <1>2, PTL DEF Spec
-----------------------------------------------------------------------------
(***************************************************************************)
(* The read of LoadData comes before any row and any listener, and no item *)
(* has two rows.  The two are proved together: LoadData appends without    *)
(* looking, which is sound only because nothing came before it.            *)
(***************************************************************************)
NoRead(q)   == \A k \in DOMAIN q : q[k].op # "read"
NoLoaded(e) == \A k \in DOMAIN e : e[k].type # "loaded"

\* An app awaits its items if the read or its answer is in a queue.
LEMMA AwaitsBy == ASSUME NEW c \in Users
                  PROVE  AwaitsItems(c) <=> ~(NoRead(up[c]) /\ NoLoaded(events[c]))
BY DEF AwaitsItems, NoRead, NoLoaded

\* Queues without the read and its answer stay so when others join them.
LEMMA NoReadQueue ==
  ASSUME NEW q \in Seq(Requests), NoRead(q)
  PROVE  /\ q # <<>> => NoRead(Tail(q)) /\ Head(q).op # "read"
         /\ \A w \in Requests : w.op # "read" => NoRead(Append(q, w))
         /\ \A r \in Seq(Requests) : NoRead(r) => NoRead(q \o r)
<1>1. q # <<>> => NoRead(Tail(q)) /\ Head(q).op # "read"
  BY DEF NoRead
<1>2. ASSUME NEW w \in Requests, w.op # "read" PROVE NoRead(Append(q, w))
  BY <1>2 DEF NoRead
<1>3. ASSUME NEW r \in Seq(Requests), NoRead(r) PROVE NoRead(q \o r)
  BY <1>3, ElementOfEither DEF NoRead
<1> QED BY <1>1, <1>2, <1>3

\* Callbacks without the answer to the read stay so when others join them.
LEMMA NoLoadedQueue ==
  ASSUME NEW e \in Seq(Events), NoLoaded(e)
  PROVE  /\ e # <<>> => NoLoaded(Tail(e)) /\ Head(e).type # "loaded"
         /\ \A s \in Seq(Callbacks) : NoLoaded(e \o s)
<1>1. e # <<>> => NoLoaded(Tail(e)) /\ Head(e).type # "loaded"
  BY DEF NoLoaded
<1>2. ASSUME NEW s \in Seq(Callbacks) PROVE NoLoaded(e \o s)
  <2>1. s \in Seq(Events) /\ NoLoaded(s)
    BY CallbacksAreEvents DEF NoLoaded
  <2> QED BY <2>1, ElementOfEither DEF NoLoaded
<1> QED BY <1>1, <1>2

\* A queue of one element is that element.
LEMMA Alone ==
  ASSUME NEW A, NEW q \in Seq(A), Len(q) = 1, NEW k \in DOMAIN q
  PROVE  q # <<>> /\ Tail(q) = <<>> /\ Head(q) = q[k]
<1>1. k = 1 /\ q # <<>>
  OBVIOUS
<1>2. Tail(q) \in Seq(A) /\ Len(Tail(q)) = 0
  BY <1>1, HeadTailProperties
<1>3. Tail(q) = <<>>
  BY <1>2, EmptySeq
<1>4. Head(q) = q[k]
  BY <1>1
<1> QED BY <1>1, <1>3, <1>4

\* An app that awaits its items does nothing else.
LEMMA Waiting ==
  ASSUME TypeOK, NEW c \in Users, LoadsFirst(c), AwaitsItems(c)
  PROVE  /\ screen[c] \in {"loading", "left"}
         /\ Fresh(c)
         /\ \/ up[c] # <<>> /\ Head(up[c]).op = "read" /\ Tail(up[c]) = <<>>
               /\ events[c] = <<>>
            \/ up[c] = <<>> /\ events[c] # <<>> /\ Head(events[c]).type = "loaded"
               /\ Tail(events[c]) = <<>>
<1>1. /\ Fresh(c) /\ screen[c] \in {"loading", "left"}
      /\ \/ Len(up[c]) = 1 /\ events[c] = <<>>
         \/ up[c] = <<>> /\ Len(events[c]) = 1
  BY DEF LoadsFirst
<1>2. up[c] \in Seq(Requests) /\ events[c] \in Seq(Events)
  BY DEF TypeOK
<1>3. CASE Len(up[c]) = 1 /\ events[c] = <<>>
  <2>1. PICK k \in DOMAIN up[c] : up[c][k].op = "read"
    BY <1>3 DEF AwaitsItems
  <2>2. up[c] # <<>> /\ Tail(up[c]) = <<>> /\ Head(up[c]) = up[c][k]
    BY <1>2, <1>3, Alone
  <2> QED BY <1>1, <1>3, <2>1, <2>2
<1>4. CASE up[c] = <<>> /\ Len(events[c]) = 1
  <2>1. PICK k \in DOMAIN events[c] : events[c][k].type = "loaded"
    BY <1>4 DEF AwaitsItems
  <2>2. events[c] # <<>> /\ Tail(events[c]) = <<>> /\ Head(events[c]) = events[c][k]
    BY <1>2, <1>4, Alone
  <2> QED BY <1>1, <1>4, <2>1, <2>2
<1> QED BY <1>1, <1>3, <1>4

\* What LoadsFirst looks at is as before.
Untouched(d) == /\ up'[d] = up[d] /\ events'[d] = events[d] /\ table'[d] = table[d]
                /\ live'[d] = live[d] /\ known'[d] = known[d] /\ data'[d] = data[d]
                /\ screen'[d] = screen[d]

\* What is left alone keeps what the invariant says of it.
LEMMA UntouchedKeeps ==
  ASSUME NEW d \in Users, LoadsFirst(d), Once(data[d]), Untouched(d)
  PROVE  LoadsFirst(d)' /\ Once(data'[d])
BY DEF Untouched, LoadsFirst, AwaitsItems, Fresh

\* A step of one app other than Commit leaves the others alone.
LEMMA OthersUntouched ==
  ASSUME TypeOK, NEW c \in Users, NEW d \in Users \ {c},
         ServerStep(c) \/ Reject(c) \/ MainStep(c) \/ UserStep(c), ~Commit(c)
  PROVE  Untouched(d)
<1> USE DEF TypeOK, sdk, app, Untouched
<1>1. CASE AnswerRead(c) \/ AnswerNames(c)
  BY <1>1 DEF AnswerRead, AnswerNames, Answered
<1>2. CASE AnswerWatch(c)
  BY <1>2 DEF AnswerWatch, Answered
<1>3. CASE AnswerTable(c)
  BY <1>3 DEF AnswerTable, Answered
<1>4. CASE Reject(c)
  BY <1>4 DEF Reject, Answered
<1>5. CASE LoadNothing(c) \/ LastItemNamed(c)
  <2>1. /\ UNCHANGED <<live, data>>
        /\ \/ DataLoaded(c) /\ ActivateObservers(c)
           \/ events' = [events EXCEPT ![c] = Tail(@)] /\ UNCHANGED <<up, table, known, screen>>
    BY <1>5 DEF LoadNothing, LastItemNamed
  <2>2. CASE DataLoaded(c) /\ ActivateObservers(c)
    BY <2>1, <2>2 DEF DataLoaded, ActivateObservers
  <2> QED BY <2>1, <2>2
<1>6. CASE LoadItems(c)
  BY <1>6 DEF LoadItems
<1>7. CASE LoadPartialItem(c) \/ PartialChildAdded(c) \/ PopupYesNoRow(c) \/ Quit(c)
  BY <1>7 DEF LoadPartialItem, PartialChildAdded, PopupYesNoRow, Quit, Crash, Reset
<1>8. CASE ItemsChildAdded(c)
  BY <1>8 DEF ItemsChildAdded
<1>9. CASE ItemsChildRemoved(c)
  BY <1>9 DEF ItemsChildRemoved
<1>10. CASE ItemUpdated(c)
  BY <1>10 DEF ItemUpdated
<1>11. CASE OpenList(c) \/ LeaveScreen(c)
  BY <1>11 DEF OpenList, LeaveScreen
<1>12. CASE AddNewItem(c)
  BY <1>12 DEF AddNewItem, Send
<1>13. CASE RemoveItem(c)
  BY <1>13 DEF RemoveItem, Send
<1>14. CASE SelectUnchecked(c) \/ PopupYes(c)
  BY <1>14 DEF SelectUnchecked, PopupYes, ReverseChecked, Send
<1>15. CASE SelectChecked(c) \/ PopupNo(c)
  BY <1>15 DEF SelectChecked, PopupNo
<1> QED BY <1>1, <1>2, <1>3, <1>4, <1>5, <1>6, <1>7, <1>8, <1>9, <1>10, <1>11, <1>12,
           <1>13, <1>14, <1>15 DEF ServerStep, MainStep, UserStep

\* A write that an app commits raises nothing at an app that listens to nothing.
LEMMA CommitStep ==
  ASSUME TypeOK, TypeOK', LoadingComesFirst, NoDuplicateRows,
         NEW c \in Users, Commit(c), NEW d \in Users
  PROVE  LoadsFirst(d)' /\ Once(data'[d])
<1> DEFINE w == Head(up[c])
           n == Apply(w, server[w.id])
<1>1. up[c] # <<>> /\ w \in Writes /\ w.op \in WriteOps /\ w.id \in Ids
  BY OldestRequest DEF Commit, Writes
<1>2. n \in Slot
  BY <1>1, ApplyType DEF TypeOK
<1>3. up'[d] \in Seq(Requests) /\ up[d] \in Seq(Requests) /\ events[d] \in Seq(Events)
  BY DEF TypeOK
<1> DEFINE s == Raised(d, w.id, n, up'[d])
           K == KnownAfter(d, w.id, n, up'[d])
<1>4. s \in Seq(Callbacks) /\ (Quiet(d) => s = <<>> /\ K = {})
  BY <1>1, <1>2, <1>3, RaisedType
<1>5. /\ events'[d] = events[d] \o s
      /\ known'[d] = K
      /\ up'[d] = IF d = c THEN Tail(up[d]) ELSE up[d]
      /\ UNCHANGED <<table, live, data, screen>>
  <2>1. events' = [e \in Users |-> events[e] \o Raised(e, w.id, n, up'[e])]
    BY DEF Commit
  <2>2. known' = [e \in Users |-> KnownAfter(e, w.id, n, up'[e])]
    BY DEF Commit
  <2>3. up' = [up EXCEPT ![c] = Tail(@)] /\ UNCHANGED <<table, live, data, screen>>
    BY DEF Commit, Answered, app
  <2> HIDE DEF w, n
  <2> QED BY <2>1, <2>2, <2>3 DEF TypeOK
<1> HIDE DEF w, n, s, K
<1>6. LoadsFirst(d) /\ Once(data[d])
  BY DEF LoadingComesFirst, NoDuplicateRows, Once
<1>7. Once(data'[d])
  BY <1>5, <1>6
<1>8. CASE Quiet(d) /\ d # c
  <2>1. events'[d] = events[d]
    BY <1>3, <1>4, <1>5, <1>8
  <2>2. Untouched(d)
    BY <1>4, <1>5, <1>8, <2>1 DEF Untouched, Quiet
  <2> QED BY <1>6, <2>2, UntouchedKeeps
<1>9. CASE d = c
  <2>1. ~AwaitsItems(c)
    <3> SUFFICES ASSUME AwaitsItems(c) PROVE FALSE
      OBVIOUS
    <3>1. Head(up[c]).op = "read"
      BY <1>1, <1>6, <1>9, Waiting
    <3> QED BY <3>1, <1>1 DEF WriteOps, w
  <2>2. NoRead(up'[c]) /\ NoLoaded(events'[c])
    BY <1>1, <1>3, <1>4, <1>5, <1>9, <2>1, AwaitsBy, NoReadQueue, NoLoadedQueue
  <2>3. ~AwaitsItems(c)'
    BY <2>2 DEF AwaitsItems, NoRead, NoLoaded
  <2>4. screen'[c] \notin {"closed", "crashed"}
    BY <1>1, <1>5, <1>6, <1>9 DEF LoadsFirst
  <2> QED BY <1>7, <1>9, <2>3, <2>4 DEF LoadsFirst
<1>10. CASE d # c /\ ~Quiet(d)
  <2>1. ~AwaitsItems(d) /\ screen[d] \notin {"closed", "crashed"}
    BY <1>6, <1>10 DEF LoadsFirst, Fresh, Quiet
  <2>2. NoRead(up'[d]) /\ NoLoaded(events'[d])
    BY <1>3, <1>4, <1>5, <1>10, <2>1, AwaitsBy, NoLoadedQueue
  <2>3. ~AwaitsItems(d)'
    BY <2>2 DEF AwaitsItems, NoRead, NoLoaded
  <2> QED BY <1>5, <1>7, <2>1, <2>3 DEF LoadsFirst
<1> QED BY <1>8, <1>9, <1>10

\* An app whose queues hold neither the read nor its answer, before and after.
Onward(c) == /\ NoRead(up'[c]) /\ NoLoaded(events'[c])
             /\ screen'[c] \notin {"closed", "crashed"}

\* Such an app satisfies the invariant afterwards.
LEMMA OnwardKeeps ==
  ASSUME NEW c \in Users, Onward(c)
  PROVE  LoadsFirst(c)'
BY DEF Onward, LoadsFirst, AwaitsItems, NoRead, NoLoaded

\* What a send adds to the queues of an app that is past its loading.
LEMMA SendOnward ==
  ASSUME TypeOK, NEW c \in Users, LoadsFirst(c), NEW w \in Writes, Send(c, w),
         screen[c] = "enabled" \/ data[c] # <<>>, screen' = screen
  PROVE  Onward(c)
<1> DEFINE q == Append(up[c], w)
           s == Raised(c, w.id, server[w.id], q)
<1>1. w \in Requests /\ w.id \in Ids /\ w.op # "read"
  BY DEF Requests, Writes, WriteOps
<1>2. q \in Seq(Requests) /\ server[w.id] \in Slot
  BY <1>1 DEF TypeOK
<1>3. s \in Seq(Callbacks)
  BY <1>1, <1>2, RaisedType
<1>4. up'[c] = Append(up[c], w) /\ events'[c] = events[c] \o s
  BY DEF Send, TypeOK
<1>5. ~AwaitsItems(c) /\ screen[c] \notin {"closed", "crashed"}
  BY DEF LoadsFirst, Fresh
<1>6. NoRead(up[c]) /\ NoLoaded(events[c])
  BY <1>5, AwaitsBy
<1>7. up[c] \in Seq(Requests) /\ events[c] \in Seq(Events)
  BY DEF TypeOK
<1> HIDE DEF q, s
<1>8. NoRead(up'[c]) /\ NoLoaded(events'[c])
  BY <1>1, <1>3, <1>4, <1>6, <1>7, NoReadQueue, NoLoadedQueue
<1> QED BY <1>5, <1>8 DEF Onward

\* The listeners of ActivateObservers start after the loading: what they announce is
\* not the answer to a read.
LEMMA ActivateOnward ==
  ASSUME TypeOK, NEW c \in Users, events[c] # <<>>, ActivateObservers(c),
         NoRead(up[c]), NoLoaded(Tail(events[c])), screen'[c] \notin {"closed", "crashed"}
  PROVE  Onward(c)
<1> DEFINE Held == {i \in live[c] : Overlay(server[i], up[c], i) # Absent}
<1>1. Held \in SUBSET Ids
  BY DEF TypeOK
<1>2. PICK order \in SetToSeqs(Held) :
         events' = [events EXCEPT ![c] = Tail(@) \o
            [k \in DOMAIN order |-> Added(order[k], Overlay(server[order[k]], up[c], order[k]))]]
  BY DEF ActivateObservers
<1> DEFINE told == [k \in DOMAIN order |->
                       Added(order[k], Overlay(server[order[k]], up[c], order[k]))]
<1>3. told \in Seq(Callbacks)
  BY <1>1, AnnounceType
<1> HIDE DEF told
<1>4. events'[c] = Tail(events[c]) \o told
  BY <1>2 DEF TypeOK, told
<1>5. NoLoaded(events'[c])
  BY <1>3, <1>4, OldestEvent, NoLoadedQueue
<1>6. up'[c] = Append(up[c], Table) /\ Table \in Requests /\ Table.op # "read"
  BY DEF ActivateObservers, TypeOK, Table, Requests
<1>7. NoRead(up'[c])
  <2>1. up[c] \in Seq(Requests)
    BY DEF TypeOK
  <2> QED BY <1>6, <2>1, NoReadQueue
<1> QED BY <1>5, <1>7 DEF Onward

\* The rows LoadData makes, from one snapshot and in front of everything else.
LEMMA LoadItemsStep ==
  ASSUME TypeOK, NEW c \in Users, LoadsFirst(c), LoadItems(c)
  PROVE  Onward(c) /\ Once(data'[c])
<1>1. events[c] # <<>> /\ Head(events[c]).type = "loaded" /\ events[c] \in Seq(Events)
  BY DEF LoadItems, Next1, TypeOK
<1>2. AwaitsItems(c)
  BY <1>1 DEF AwaitsItems
<1>3. /\ up[c] = <<>> /\ Tail(events[c]) = <<>> /\ data[c] = <<>>
      /\ screen[c] \notin {"closed", "crashed"}
  BY <1>1, <1>2, Waiting DEF Fresh
<1>4. PICK rows \in Seq(Rows), more \in Seq(Requests), told \in Seq(Events) :
         /\ data' = [data EXCEPT ![c] = data[c] \o rows]
         /\ up' = [up EXCEPT ![c] = up[c] \o more]
         /\ events' = [events EXCEPT ![c] = Tail(events[c]) \o told]
         /\ Once(rows)
         /\ \A k \in DOMAIN rows : Head(events[c]).snap[rows[k].id] # Absent
         /\ \A k \in DOMAIN more : more[k].op \in {"watch", "names"}
         /\ \A k \in DOMAIN told : told[k].type = "named"
         /\ HowMany(more, {Names}) + HowMany(told, {[type |-> "named"]}) = 1
  BY LoadItemsShape
<1>5. data'[c] = rows /\ up'[c] = more /\ events'[c] = told /\ screen' = screen
  <2>1. /\ data'[c] = data[c] \o rows
        /\ up'[c] = up[c] \o more
        /\ events'[c] = Tail(events[c]) \o told
    BY <1>4 DEF TypeOK
  <2>2. screen' = screen
    BY DEF LoadItems
  <2> QED BY <1>3, <2>1, <2>2, ConcatEmptySeq
<1>6. NoRead(more) /\ NoLoaded(told)
  BY <1>4 DEF NoRead, NoLoaded
<1> QED BY <1>3, <1>4, <1>5, <1>6 DEF Onward

\* The step of an app other than Commit, for the app itself.
LEMMA OwnStep ==
  ASSUME TypeOK, TypeOK', LoadingComesFirst, NoDuplicateRows, NEW c \in Users,
         ServerStep(c) \/ Reject(c) \/ MainStep(c) \/ UserStep(c), ~Commit(c)
  PROVE  LoadsFirst(c)' /\ Once(data'[c])
<1>1. LoadsFirst(c) /\ Once(data[c])
  BY DEF LoadingComesFirst, NoDuplicateRows, Once
<1>2. up[c] \in Seq(Requests) /\ events[c] \in Seq(Events) /\ data[c] \in Seq(Rows)
  BY DEF TypeOK
<1>3. ASSUME up[c] # <<>>, Head(up[c]).op # "read"
      PROVE  /\ NoRead(up[c]) /\ NoRead(Tail(up[c])) /\ NoLoaded(events[c])
             /\ screen[c] \notin {"closed", "crashed"}
  <2>1. ~AwaitsItems(c)
    BY <1>1, <1>3, Waiting
  <2> QED BY <1>1, <1>2, <1>3, <2>1, AwaitsBy, NoReadQueue DEF LoadsFirst
<1>4. ASSUME events[c] # <<>>, Head(events[c]).type # "loaded"
      PROVE  /\ NoRead(up[c]) /\ NoLoaded(events[c]) /\ NoLoaded(Tail(events[c]))
             /\ screen[c] \notin {"closed", "crashed"}
  <2>1. ~AwaitsItems(c)
    BY <1>1, <1>4, Waiting
  <2> QED BY <1>1, <1>2, <1>4, <2>1, AwaitsBy, NoLoadedQueue DEF LoadsFirst
<1>5. CASE AnswerRead(c)
  <2>1. /\ up[c] # <<>> /\ Head(up[c]).op = "read"
        /\ up'[c] = Tail(up[c])
        /\ events'[c] = Append(events[c], [type |-> "loaded", snap |-> server])
        /\ UNCHANGED <<table, live, known, data, screen>>
    BY <1>5 DEF AnswerRead, Oldest, Answered, TypeOK, app
  <2>2. up[c][1] = Head(up[c]) /\ 1 \in DOMAIN up[c]
    BY <1>2, <2>1
  <2>3. AwaitsItems(c)
    BY <2>1, <2>2 DEF AwaitsItems
  <2>4. /\ up'[c] = <<>> /\ events[c] = <<>> /\ Fresh(c)
        /\ screen[c] \in {"loading", "left"}
    BY <1>1, <2>1, <2>3, Waiting
  <2>5. Len(events'[c]) = 1
    BY <2>1, <2>4
  <2> QED BY <1>1, <2>1, <2>4, <2>5 DEF LoadsFirst, Fresh
<1>6. CASE AnswerNames(c)
  <2> DEFINE e == [type |-> "named"]
  <2>1. /\ up[c] # <<>> /\ Head(up[c]).op # "read"
        /\ up'[c] = Tail(up[c]) /\ events'[c] = events[c] \o <<e>>
        /\ UNCHANGED <<data, screen>>
    BY <1>2, <1>6 DEF AnswerNames, Oldest, Answered, TypeOK, app
  <2>2. <<e>> \in Seq(Callbacks)
    BY DEF Callbacks, Events
  <2> HIDE DEF e
  <2>3. NoLoaded(events'[c])
    BY <1>2, <1>3, <2>1, <2>2, NoLoadedQueue
  <2> QED BY <1>1, <1>3, <2>1, <2>3, OnwardKeeps DEF Onward
<1>7. CASE AnswerWatch(c)
  <2> DEFINE i == Head(up[c]).id
             n == Overlay(server[i], up[c], i)
             tell == table[c] = "asked" /\ n # Absent
             a == Added(i, n)
             s == IF tell THEN <<a>> ELSE <<>>
  <2>1. /\ up[c] # <<>> /\ Head(up[c]).op = "watch"
        /\ up'[c] = Tail(up[c])
        /\ events'[c] = IF tell THEN Append(events[c], a) ELSE events[c]
        /\ UNCHANGED <<data, screen>>
    BY <1>7 DEF AnswerWatch, Oldest, Answered, TypeOK, app
  <2>2. i \in Ids
    BY <2>1, OldestRequest
  <2>3. n \in Slot
    BY <1>2, <2>2, OverlayType DEF TypeOK
  <2>4. tell => a \in Callbacks
    BY <2>2, <2>3 DEF Slot, Added, Events, Callbacks
  <2> HIDE DEF i, n, tell, a
  <2>5. s \in Seq(Callbacks) /\ events'[c] = events[c] \o s
    <3>1. CASE tell
      BY <1>2, <2>1, <2>4, <3>1, AppendIsConcat DEF Callbacks
    <3>2. CASE ~tell
      BY <1>2, <2>1, <3>2
    <3> QED BY <3>1, <3>2
  <2> HIDE DEF s
  <2>6. NoLoaded(events'[c])
    BY <1>2, <1>3, <2>1, <2>5, NoLoadedQueue
  <2> QED BY <1>1, <1>3, <2>1, <2>6, OnwardKeeps DEF Onward
<1>8. CASE AnswerTable(c)
  <2> DEFINE Held == {i \in Ids : Overlay(server[i], up[c], i) # Absent}
  <2>1. PICK order \in SetToSeqs(Held \ known[c]) :
           events' = [events EXCEPT ![c] = @ \o [k \in DOMAIN order |->
              Added(order[k], Overlay(server[order[k]], up[c], order[k]))]]
    BY <1>8 DEF AnswerTable
  <2> DEFINE told == [k \in DOMAIN order |->
                         Added(order[k], Overlay(server[order[k]], up[c], order[k]))]
  <2>2. told \in Seq(Callbacks)
    BY AnnounceType
  <2>3. events'[c] = events[c] \o told
    <3> HIDE DEF told
    <3> QED BY <2>1 DEF TypeOK, told
  <2>4. /\ up[c] # <<>> /\ Head(up[c]).op # "read"
        /\ up'[c] = Tail(up[c]) /\ UNCHANGED <<data, screen>>
    BY <1>8 DEF AnswerTable, Oldest, Answered, TypeOK, app
  <2> HIDE DEF told
  <2>5. NoLoaded(events'[c])
    BY <1>2, <1>3, <2>2, <2>3, <2>4, NoLoadedQueue
  <2> QED BY <1>1, <1>3, <2>4, <2>5, OnwardKeeps DEF Onward
<1>9. CASE Reject(c)
  <2> DEFINE i == Head(up[c]).id
             s == Raised(c, i, server[i], up'[c])
  <2>1. /\ up[c] # <<>> /\ Head(up[c]).op # "read" /\ Head(up[c]).op \in WriteOps
        /\ up'[c] = Tail(up[c]) /\ events'[c] = events[c] \o s
        /\ UNCHANGED <<data, screen>>
    BY <1>9 DEF Reject, Answered, TypeOK, app, WriteOps
  <2>2. i \in Ids /\ up'[c] \in Seq(Requests)
    BY <2>1, OldestRequest DEF Writes
  <2>3. s \in Seq(Callbacks)
    BY <2>2, RaisedType DEF TypeOK
  <2> HIDE DEF s
  <2>4. NoLoaded(events'[c])
    BY <1>2, <1>3, <2>1, <2>3, NoLoadedQueue
  <2> QED BY <1>1, <1>3, <2>1, <2>4, OnwardKeeps DEF Onward
<1>10. CASE LoadNothing(c)
  <2>1. /\ events[c] # <<>> /\ Head(events[c]).type = "loaded"
        /\ data' = data
    BY <1>10 DEF LoadNothing, Next1
  <2>2. events[c][1] = Head(events[c]) /\ 1 \in DOMAIN events[c]
    BY <1>2, <2>1
  <2>3. AwaitsItems(c)
    BY <2>1, <2>2 DEF AwaitsItems
  <2>4. /\ up[c] = <<>> /\ Tail(events[c]) = <<>>
        /\ screen[c] \in {"loading", "left"}
    BY <1>1, <2>1, <2>3, Waiting
  <2>5. NoRead(up[c]) /\ NoLoaded(Tail(events[c]))
    BY <2>4 DEF NoRead, NoLoaded
  <2>6. CASE HasDelegate(c)
    <3>1. DataLoaded(c) /\ ActivateObservers(c)
      BY <1>10, <2>6 DEF LoadNothing
    <3>2. screen'[c] \notin {"closed", "crashed"}
      BY <3>1, <2>4 DEF DataLoaded, TypeOK
    <3> QED BY <1>1, <2>1, <2>5, <3>1, <3>2, ActivateOnward, OnwardKeeps
  <2>7. CASE ~HasDelegate(c)
    <3>1. events'[c] = Tail(events[c]) /\ UNCHANGED <<up, screen>>
      BY <1>10, <2>7 DEF LoadNothing, TypeOK
    <3> QED BY <1>1, <2>1, <2>4, <2>5, <3>1, OnwardKeeps DEF Onward
  <2> QED BY <2>6, <2>7
<1>11. CASE LoadItems(c)
  BY <1>1, <1>11, LoadItemsStep, OnwardKeeps
<1>12. CASE LastItemNamed(c)
  <2>1. /\ events[c] # <<>> /\ Head(events[c]).type # "loaded"
        /\ data' = data
    BY <1>12 DEF LastItemNamed, Next1
  <2>2. CASE HasDelegate(c)
    <3>1. DataLoaded(c) /\ ActivateObservers(c)
      BY <1>12, <2>2 DEF LastItemNamed
    <3>2. screen'[c] \notin {"closed", "crashed"}
      BY <1>4, <2>1, <3>1 DEF DataLoaded, TypeOK
    <3> QED BY <1>1, <1>4, <2>1, <3>1, <3>2, ActivateOnward, OnwardKeeps
  <2>3. CASE ~HasDelegate(c)
    <3>1. events'[c] = Tail(events[c]) /\ UNCHANGED <<up, screen>>
      BY <1>12, <2>3 DEF LastItemNamed, TypeOK
    <3> QED BY <1>1, <1>4, <2>1, <3>1, OnwardKeeps DEF Onward
  <2> QED BY <2>2, <2>3
<1>13. CASE ItemsChildAdded(c)
  <2> DEFINE ev == Head(events[c])
             r == Row(ev.id, ev.node, regs[c][ev.id] + 1)
  <2>1. /\ events[c] # <<>> /\ ev.type # "loaded"
        /\ events'[c] = Tail(events[c]) /\ UNCHANGED <<up, screen>>
    BY <1>13 DEF ItemsChildAdded, Next1, TypeOK
  <2>2. \/ data' = data
        \/ ev.id \notin RowIds(c) /\ data'[c] = Append(data[c], r)
    BY <1>13 DEF ItemsChildAdded, TypeOK
  <2>3. r.id = ev.id
    BY DEF Row
  <2> HIDE DEF ev, r
  <2>6. Once(data'[c])
    <3>1. CASE data' = data
      BY <1>1, <3>1
    <3>2. CASE ev.id \notin RowIds(c) /\ data'[c] = Append(data[c], r)
      <4> DEFINE L == Len(data[c])
      <4>1. /\ L \in Nat /\ DOMAIN data[c] = 1..L /\ DOMAIN data'[c] = 1..(L + 1)
            /\ \A k \in 1..L : data'[c][k] = data[c][k]
            /\ data'[c][L + 1] = r
        BY <1>2, <3>2
      <4>2. \A k \in 1..L : data[c][k].id # r.id
        BY <2>3, <3>2, <4>1 DEF RowIds
      <4> HIDE DEF L
      <4>3. \A k \in 1..(L + 1) : k = L + 1 \/ k \in 1..L
        BY <4>1
      <4> QED BY <1>1, <4>1, <4>2, <4>3 DEF Once
    <3> QED BY <2>2, <3>1, <3>2
  <2> QED BY <1>4, <2>1, <2>6, OnwardKeeps DEF Onward, ev
<1>14. CASE ItemsChildRemoved(c)
  <2> DEFINE i == Head(events[c]).id
  <2>1. /\ events[c] # <<>> /\ Head(events[c]).type # "loaded"
        /\ events'[c] = Tail(events[c]) /\ UNCHANGED <<up, screen>>
        /\ data'[c] = RemoveFirstMatch(data[c], LAMBDA r : r.id = i)
    BY <1>14 DEF ItemsChildRemoved, Next1, TypeOK
  <2>2. i \in Ids
    BY <1>14, OldestEvent DEF ItemsChildRemoved, Next1, Events
  <2> HIDE DEF i
  <2>3. Once(RemoveFirstMatch(data[c], LAMBDA r : r.id = i))
    BY <1>1, <1>2, <2>2, RemoveRow
  <2> QED BY <1>4, <2>1, <2>3, OnwardKeeps DEF Onward
<1>15. CASE ItemUpdated(c)
  <2>1. /\ events[c] # <<>> /\ Head(events[c]).type # "loaded"
        /\ events'[c] = Tail(events[c]) /\ UNCHANGED <<up, screen>>
    BY <1>15 DEF ItemUpdated, Next1, TypeOK
  <2>2. Once(data'[c])
    BY <1>1, <1>15, UpdatedType DEF Once
  <2> QED BY <1>4, <2>1, <2>2, OnwardKeeps DEF Onward
<1>16. CASE OpenList(c)
  <2>1. /\ screen[c] \in {"closed", "crashed"} /\ screen'[c] = "loading"
        /\ up'[c] = <<Read>>
        /\ UNCHANGED <<events, table, live, known, data>>
    BY <1>16 DEF OpenList, TypeOK
  <2>2. Fresh(c) /\ events[c] = <<>>
    BY <1>1, <2>1 DEF LoadsFirst
  <2>3. Len(up'[c]) = 1
    BY <2>1
  <2> QED BY <1>1, <2>1, <2>2, <2>3 DEF LoadsFirst, Fresh
<1>17. CASE LeaveScreen(c)
  <2>1. /\ screen[c] \in {"loading", "enabled"} /\ screen'[c] = "left"
        /\ UNCHANGED <<up, events, table, live, known, data>>
    BY <1>17 DEF LeaveScreen, HasDelegate, TypeOK, sdk
  <2> QED BY <1>1, <2>1 DEF LoadsFirst, AwaitsItems, Fresh
<1>18. CASE LoadPartialItem(c) \/ PartialChildAdded(c) \/ PopupYesNoRow(c) \/ Quit(c)
  <2>1. Reset(c, "crashed") \/ Reset(c, "closed")
    BY <1>18 DEF LoadPartialItem, PartialChildAdded, PopupYesNoRow, Quit, Crash
  <2>2. /\ up'[c] = <<>> /\ events'[c] = <<>> /\ table'[c] = "off" /\ live'[c] = {}
        /\ known'[c] = {} /\ data'[c] = <<>>
    BY <2>1 DEF Reset, TypeOK
  <2> QED BY <2>2 DEF LoadsFirst, AwaitsItems, Fresh, Once
<1>19. CASE AddNewItem(c)
  <2>1. PICK i \in Ids : Send(c, AddOf(i))
    BY <1>19 DEF AddNewItem
  <2>2. AddOf(i) \in Writes
    BY DEF AddOf, Writes, WriteOps, Checkers
  <2>3. screen[c] = "enabled" /\ UNCHANGED <<data, screen>>
    BY <1>19 DEF AddNewItem, Idle, app
  <2> QED BY <1>1, <2>1, <2>2, <2>3, SendOnward, OnwardKeeps
<1>20. CASE RemoveItem(c)
  <2>1. PICK k \in DOMAIN data[c] : Send(c, DelOf(data[c][k].id))
    BY <1>20 DEF RemoveItem
  <2>2. data[c][k] \in Rows
    BY <1>2
  <2>3. DelOf(data[c][k].id) \in Writes
    BY <2>2 DEF Rows, DelOf, Writes, WriteOps, Checkers
  <2>4. screen[c] = "enabled" /\ UNCHANGED <<data, screen>>
    BY <1>20 DEF RemoveItem, Idle, app
  <2> QED BY <1>1, <2>1, <2>3, <2>4, SendOnward, OnwardKeeps
<1>21. CASE SelectUnchecked(c) \/ PopupYes(c)
  <2>1. PICK k \in DOMAIN data[c] : Send(c, ReverseCheckedOf(c, data[c][k]))
    BY <1>21 DEF SelectUnchecked, PopupYes, ReverseChecked
  <2>2. ReverseCheckedOf(c, data[c][k]) \in Writes
    BY ReverseType
  <2>3. data[c] # <<>> /\ UNCHANGED <<data, screen>>
    BY <1>2, <1>21 DEF SelectUnchecked, PopupYes, app
  <2> QED BY <1>1, <2>1, <2>2, <2>3, SendOnward, OnwardKeeps
<1>22. CASE SelectChecked(c) \/ PopupNo(c)
  <2>1. Untouched(c)
    BY <1>22 DEF SelectChecked, PopupNo, Untouched, sdk
  <2> QED BY <1>1, <2>1, UntouchedKeeps
<1> QED BY <1>5, <1>6, <1>7, <1>8, <1>9, <1>10, <1>11, <1>12, <1>13, <1>14, <1>15, <1>16,
           <1>17, <1>18, <1>19, <1>20, <1>21, <1>22 DEF ServerStep, MainStep, UserStep

\* Every step keeps that loading comes first and that no item has two rows.
LEMMA LoadingStep ==
  TypeOK /\ TypeOK' /\ LoadingComesFirst /\ NoDuplicateRows /\ [Next]_vars
     => LoadingComesFirst' /\ NoDuplicateRows'
<1> SUFFICES ASSUME TypeOK, TypeOK', LoadingComesFirst, NoDuplicateRows, [Next]_vars,
                    NEW d \in Users
             PROVE  LoadsFirst(d)' /\ Once(data'[d])
  BY DEF LoadingComesFirst, NoDuplicateRows, Once
<1>1. LoadsFirst(d) /\ Once(data[d])
  BY DEF LoadingComesFirst, NoDuplicateRows, Once
<1>u. CASE UNCHANGED vars
  <2>1. Untouched(d)
    BY <1>u DEF vars, sdk, app, Untouched
  <2> QED BY <1>1, <2>1, UntouchedKeeps
<1>n. CASE Next
  <2> PICK c \in Users : ServerStep(c) \/ Reject(c) \/ MainStep(c) \/ UserStep(c)
    BY <1>n DEF Next
  <2>1. CASE Commit(c)
    BY <2>1, CommitStep
  <2>2. CASE ~Commit(c) /\ d = c
    BY <2>2, OwnStep
  <2>3. CASE ~Commit(c) /\ d # c
    BY <1>1, <2>3, OthersUntouched, UntouchedKeeps
  <2> QED BY <2>1, <2>2, <2>3
<1> QED BY <1>u, <1>n

\* It is so in the beginning.
LEMMA InitLoading == Init => LoadingComesFirst /\ NoDuplicateRows
BY DEF Init, LoadingComesFirst, LoadsFirst, AwaitsItems, Fresh, NoDuplicateRows

\* Until the read of LoadData is answered there is no row and no listener, however the
\* apps are opened, left, killed and restarted.
THEOREM LoadingFirst == Spec => []LoadingComesFirst
<1>1. Init => LoadingComesFirst /\ NoDuplicateRows
  BY InitLoading
<1>2. /\ TypeOK /\ TypeOK' /\ LoadingComesFirst /\ NoDuplicateRows /\ [Next]_vars
      => LoadingComesFirst' /\ NoDuplicateRows'
  BY LoadingStep
<1> QED BY <1>1, <1>2, TypeCorrect, PTL DEF Spec

\* No item has two rows on any screen: the rows of LoadData, the cached and the late
\* announcements of the listeners never double one another.
THEOREM RowsAreUnique == Spec => []NoDuplicateRows
<1>1. Init => LoadingComesFirst /\ NoDuplicateRows
  BY InitLoading
<1>2. /\ TypeOK /\ TypeOK' /\ LoadingComesFirst /\ NoDuplicateRows /\ [Next]_vars
      => LoadingComesFirst' /\ NoDuplicateRows'
  BY LoadingStep
<1> QED BY <1>1, <1>2, TypeCorrect, PTL DEF Spec
-----------------------------------------------------------------------------
(***************************************************************************)
(* checked and checked_by_id agree.  Both fields travel in one write, so   *)
(* the invariant needs only that every write under way has them agree.     *)
(***************************************************************************)
CoherentQueue(q) == \A k \in DOMAIN q : q[k].op \in WriteOps => Coherent(q[k])
FieldsAgree == CheckedHasChecker /\ \A c \in Users : CoherentQueue(up[c])

\* Queues of writes that agree stay so when others join them.
LEMMA CoherentQueues ==
  ASSUME NEW q \in Seq(Requests), CoherentQueue(q)
  PROVE  /\ q # <<>> => CoherentQueue(Tail(q))
         /\ \A w \in Requests : (w.op \in WriteOps => Coherent(w)) => CoherentQueue(Append(q, w))
         /\ \A r \in Seq(Requests) : CoherentQueue(r) => CoherentQueue(q \o r)
<1>1. q # <<>> => CoherentQueue(Tail(q))
  BY DEF CoherentQueue
<1>2. ASSUME NEW w \in Requests, w.op \in WriteOps => Coherent(w)
      PROVE  CoherentQueue(Append(q, w))
  BY <1>2 DEF CoherentQueue
<1>3. ASSUME NEW r \in Seq(Requests), CoherentQueue(r) PROVE CoherentQueue(q \o r)
  BY <1>3, ElementOfEither DEF CoherentQueue
<1> QED BY <1>1, <1>2, <1>3

\* A request that is no write agrees trivially.
LEMMA NoWriteCoherent ==
  ASSUME NEW r \in Seq(Requests), \A k \in DOMAIN r : r[k].op \notin WriteOps
  PROVE  CoherentQueue(r)
BY DEF CoherentQueue

\* The writes of the app agree.
LEMMA OwnWritesCoherent ==
  ASSUME NEW c \in Users
  PROVE  /\ \A i \in Ids : Coherent(AddOf(i)) /\ Coherent(DelOf(i))
         /\ \A r \in Rows : Coherent(ReverseCheckedOf(c, r))
<1>1. c # NONE
  BY NoneIsNoUser
<1>2. \A i \in Ids : Coherent(AddOf(i)) /\ Coherent(DelOf(i))
  BY DEF AddOf, DelOf, Coherent
<1>3. ASSUME NEW r \in Rows PROVE Coherent(ReverseCheckedOf(c, r))
  <2>1. r.checked \in BOOLEAN
    BY DEF Rows
  <2> QED BY <1>1, <2>1 DEF ReverseCheckedOf, CheckOf, Coherent
<1> QED BY <1>2, <1>3

\* A send appends one write, and the server's data stays as it is.
LEMMA SendCoherent ==
  ASSUME TypeOK, FieldsAgree, NEW c \in Users, NEW w \in Writes, Coherent(w),
         Send(c, w), server' = server
  PROVE  FieldsAgree'
<1>1. up' = [up EXCEPT ![c] = Append(up[c], w)]
  BY DEF Send
<1>2. w \in Requests /\ up[c] \in Seq(Requests)
  BY DEF Requests, TypeOK
<1>3. CoherentQueue(Append(up[c], w))
  BY <1>2, CoherentQueues DEF FieldsAgree
<1>4. \A d \in Users : CoherentQueue(up'[d])
  BY <1>1, <1>3 DEF FieldsAgree, TypeOK
<1> QED BY <1>4 DEF FieldsAgree, CheckedHasChecker

\* A queue that changes to one that agrees, for one app.
LEMMA QueueCoherent ==
  ASSUME TypeOK, FieldsAgree, NEW c \in Users, NEW q,
         up' = [up EXCEPT ![c] = q], CoherentQueue(q), server' = server
  PROVE  FieldsAgree'
<1>1. \A d \in Users : CoherentQueue(up'[d])
  BY DEF FieldsAgree, TypeOK
<1> QED BY <1>1 DEF FieldsAgree, CheckedHasChecker

\* A commit of a write that agrees leaves items that agree.
LEMMA CommitCoherent ==
  ASSUME TypeOK, FieldsAgree, NEW c \in Users, Commit(c)
  PROVE  FieldsAgree'
<1> DEFINE w == Head(up[c])
<1>1. up[c] # <<>> /\ w \in Writes /\ w.op \in WriteOps /\ up[c] \in Seq(Requests)
  BY OldestRequest DEF Commit, TypeOK
<1>2. w.id \in Ids
  BY <1>1 DEF Writes
<1>3. Coherent(w)
  <2>1. w = up[c][1] /\ 1 \in DOMAIN up[c]
    BY <1>1
  <2> QED BY <1>1, <2>1 DEF FieldsAgree, CoherentQueue
<1>4. /\ server' = [server EXCEPT ![w.id] = Apply(w, server[w.id])]
      /\ up' = [up EXCEPT ![c] = Tail(up[c])]
  BY DEF Commit, Answered
<1> HIDE DEF w
<1>5. Apply(w, server[w.id]) # Absent => Coherent(Apply(w, server[w.id]))
  BY <1>3 DEF Apply, Coherent
<1>6. \A i \in Ids : server'[i] # Absent => Coherent(server'[i])
  BY <1>2, <1>4, <1>5 DEF FieldsAgree, CheckedHasChecker, TypeOK
<1>7. CoherentQueue(Tail(up[c]))
  BY <1>1, CoherentQueues DEF FieldsAgree
<1>8. \A d \in Users : CoherentQueue(up'[d])
  BY <1>4, <1>7 DEF FieldsAgree, TypeOK
<1> QED BY <1>6, <1>8 DEF FieldsAgree, CheckedHasChecker

\* Every step keeps the two fields in agreement, on the server and under way.
LEMMA CoherentStep == TypeOK /\ FieldsAgree /\ [Next]_vars => FieldsAgree'
<1> SUFFICES ASSUME TypeOK, FieldsAgree, [Next]_vars PROVE FieldsAgree'
  OBVIOUS
<1>s. ASSUME server' = server, up' = up PROVE FieldsAgree'
  BY <1>s DEF FieldsAgree, CheckedHasChecker
<1>u. CASE UNCHANGED vars
  BY <1>u, <1>s DEF vars, sdk
<1>n. CASE Next
  <2> PICK c \in Users : ServerStep(c) \/ Reject(c) \/ MainStep(c) \/ UserStep(c)
    BY <1>n DEF Next
  <2>q. up[c] \in Seq(Requests) /\ CoherentQueue(up[c])
    BY DEF TypeOK, FieldsAgree
  <2>1. CASE AnswerRead(c) \/ AnswerNames(c) \/ AnswerWatch(c) \/ AnswerTable(c) \/ Reject(c)
    <3>1. up[c] # <<>> /\ up' = [up EXCEPT ![c] = Tail(up[c])] /\ server' = server
      BY <2>1 DEF AnswerRead, AnswerNames, AnswerWatch, AnswerTable, Reject, Oldest, Answered
    <3>2. CoherentQueue(Tail(up[c]))
      BY <2>q, <3>1, CoherentQueues
    <3> QED BY <3>1, <3>2, QueueCoherent
  <2>2. CASE Commit(c)
    BY <2>2, CommitCoherent
  <2>3. CASE LoadNothing(c) \/ LastItemNamed(c)
    <3>1. /\ server' = server
          /\ up' = up \/ up' = [up EXCEPT ![c] = Append(up[c], Table)]
      BY <2>3 DEF LoadNothing, LastItemNamed, ActivateObservers
    <3>2. Table \in Requests /\ Table.op \notin WriteOps
      BY DEF Table, Requests, WriteOps
    <3>3. CoherentQueue(Append(up[c], Table))
      BY <2>q, <3>2, CoherentQueues
    <3> QED BY <1>s, <3>1, <3>3, QueueCoherent
  <2>4. CASE LoadItems(c)
    <3>1. PICK r \in Seq(Requests) :
             /\ \A k \in DOMAIN r : r[k].op \in {"watch", "names"}
             /\ up' = [up EXCEPT ![c] = up[c] \o r]
      BY <2>4, LoadItemsShape
    <3>2. CoherentQueue(r)
      BY <3>1, NoWriteCoherent DEF WriteOps
    <3>4. CoherentQueue(up[c] \o r)
      BY <2>q, <3>2, CoherentQueues
    <3>3. server' = server
      BY <2>4 DEF LoadItems
    <3> QED BY <3>1, <3>4, <3>3, QueueCoherent
  <2>5. CASE ItemsChildAdded(c) \/ ItemsChildRemoved(c) \/ ItemUpdated(c)
    BY <2>5, <1>s DEF ItemsChildAdded, ItemsChildRemoved, ItemUpdated
  <2>6. CASE LoadPartialItem(c) \/ PartialChildAdded(c) \/ PopupYesNoRow(c) \/ Quit(c)
    <3>1. up' = [up EXCEPT ![c] = <<>>] /\ server' = server
      BY <2>6 DEF LoadPartialItem, PartialChildAdded, PopupYesNoRow, Quit, Crash, Reset
    <3>2. CoherentQueue(<<>>)
      BY DEF CoherentQueue
    <3> QED BY <3>1, <3>2, QueueCoherent
  <2>7. CASE OpenList(c)
    <3>1. up' = [up EXCEPT ![c] = <<Read>>] /\ server' = server
      BY <2>7 DEF OpenList
    <3>2. <<Read>> \in Seq(Requests) /\ \A k \in DOMAIN <<Read>> : <<Read>>[k].op \notin WriteOps
      BY DEF Read, Requests, WriteOps
    <3> QED BY <3>1, <3>2, NoWriteCoherent, QueueCoherent
  <2>8. CASE LeaveScreen(c) \/ SelectChecked(c) \/ PopupNo(c)
    BY <2>8, <1>s DEF LeaveScreen, SelectChecked, PopupNo, sdk
  <2>9. CASE AddNewItem(c)
    <3>1. PICK i \in Ids : Send(c, AddOf(i))
      BY <2>9 DEF AddNewItem
    <3>2. AddOf(i) \in Writes /\ server' = server
      BY <2>9 DEF AddNewItem, AddOf, Writes, WriteOps, Checkers
    <3> QED BY <3>1, <3>2, OwnWritesCoherent, SendCoherent
  <2>10. CASE RemoveItem(c)
    <3>1. PICK k \in DOMAIN data[c] : Send(c, DelOf(data[c][k].id))
      BY <2>10 DEF RemoveItem
    <3>2. data[c][k] \in Rows
      BY DEF TypeOK
    <3>3. data[c][k].id \in Ids
      BY <3>2 DEF Rows
    <3>4. DelOf(data[c][k].id) \in Writes /\ server' = server
      BY <2>10, <3>3 DEF RemoveItem, DelOf, Writes, WriteOps, Checkers
    <3> QED BY <3>1, <3>3, <3>4, OwnWritesCoherent, SendCoherent
  <2>11. CASE SelectUnchecked(c) \/ PopupYes(c)
    <3>1. PICK k \in DOMAIN data[c] : Send(c, ReverseCheckedOf(c, data[c][k]))
      BY <2>11 DEF SelectUnchecked, PopupYes, ReverseChecked
    <3>2. data[c][k] \in Rows
      BY DEF TypeOK
    <3>3. server' = server
      BY <2>11 DEF SelectUnchecked, PopupYes
    <3> QED BY <3>1, <3>2, <3>3, ReverseType, OwnWritesCoherent, SendCoherent
  <2> QED BY <2>1, <2>2, <2>3, <2>4, <2>5, <2>6, <2>7, <2>8, <2>9, <2>10, <2>11
          DEF ServerStep, MainStep, UserStep
<1> QED BY <1>u, <1>n

\* At all times every write under way has its two fields agree.
LEMMA FieldsAgreeHolds == Spec => []FieldsAgree
<1>1. Init => FieldsAgree
  <2> SUFFICES ASSUME Init PROVE FieldsAgree
    OBVIOUS
  <2>1. \A c \in Users : CoherentQueue(up[c])
    BY DEF Init, CoherentQueue
  <2>2. CheckedHasChecker
    BY DEF Init, Complete, CheckedHasChecker
  <2> QED BY <2>1, <2>2 DEF FieldsAgree
<1>2. TypeOK /\ FieldsAgree /\ [Next]_vars => FieldsAgree'
  BY CoherentStep
<1> QED BY <1>1, <1>2, TypeCorrect, PTL DEF Spec

\* On the server an item is checked exactly if checked_by_id names somebody, however
\* many clients toggle, whatever is refused and whoever is killed.
THEOREM CheckedNamesChecker == Spec => []CheckedHasChecker
<1>1. FieldsAgree => CheckedHasChecker
  BY DEF FieldsAgree
<1> QED BY <1>1, FieldsAgreeHolds, PTL
=============================================================================
