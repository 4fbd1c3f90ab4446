-------------------------- MODULE UserListsProofs ---------------------------
(***************************************************************************)
(* Theorems about UserLists for any users, apps, lists and bounds.         *)
(***************************************************************************)
EXTENDS UserLists, QueueLemmas

-----------------------------------------------------------------------------
(***************************************************************************)
(* Lemmas on the database and the SDK.                                     *)
(***************************************************************************)

\* A write turns a tree into a tree.
LEMMA ApplyType ==
  ASSUME NEW w \in Writes, NEW s \in Tree
  PROVE  Apply(w, s) \in Tree
<1>1. /\ w.op \in WriteOps /\ w.id \in Lists /\ w.users \in SUBSET Users
      /\ s.keys \in [Users -> SUBSET Lists] /\ s.lists \in [Lists -> Slot]
      /\ s.tables \in SUBSET Lists
  BY DEF Writes, Tree
<1>2. w.users \in Slot /\ Absent \in Slot
  BY <1>1 DEF Slot
<1>3. Apply(w, s).keys \in [Users -> SUBSET Lists]
  BY <1>1 DEF Apply
<1>4. Apply(w, s).lists \in [Lists -> Slot]
  BY <1>1, <1>2 DEF Apply, WriteOps
<1>5. Apply(w, s).tables \in SUBSET Lists
  BY <1>1 DEF Apply, WriteOps
<1> QED BY <1>3, <1>4, <1>5 DEF Apply, Tree

\* What a client sees of the node of a list.
LEMMA ListOfType ==
  ASSUME NEW s \in Tree, NEW q \in Seq(Requests), NEW l \in Lists
  PROVE  ListOf(s, q, l) \in Slot
<1> DEFINE P == OnList(q, l)
<1>1. P \in SUBSET (1..Len(q)) /\ Len(q) \in Nat
  BY DEF OnList
<1>2. CASE P = {}
  BY <1>2 DEF ListOf, Tree
<1>3. CASE P # {}
  <2>1. Max(P) \in P
    BY <1>1, <1>3, MaxExists
  <2>2. q[Max(P)] \in Writes
    <3>1. q[Max(P)] \in Requests /\ q[Max(P)].op \in {"add", "remove"}
      BY <2>1, <1>1 DEF OnList
    <3> DEFINE r == q[Max(P)]
    <3> HIDE DEF r
    <3>2. r \in Writes
      BY <3>1 DEF r, Requests, Writes, WriteOps, NodeOps
    <3> QED BY <3>2 DEF r
  <2>3. q[Max(P)].users \in Slot /\ Absent \in Slot
    BY <2>2 DEF Writes, Slot
  <2> HIDE DEF P
  <2> QED BY <1>3, <2>3 DEF ListOf, P
<1> QED BY <1>2, <1>3

\* The callbacks of the key listener.
KeyEvents == [type : {"added", "removed"}, id : Lists]

\* What a write raises are callbacks of the key listener.
LEMMA RaisedType ==
  ASSUME NEW a, NEW s, NEW q, NEW l \in Lists
  PROVE  Raised(a, s, q, l) \in Seq(KeyEvents)
<1>1. KeyEvent("added", l) \in KeyEvents /\ KeyEvent("removed", l) \in KeyEvents
  BY DEF KeyEvent, KeyEvents
<1> QED BY <1>1 DEF Raised

\* The oldest request of a queue, and what remains.
LEMMA OldestRequest ==
  ASSUME TypeOK, NEW a \in Apps, up[a] # <<>>
  PROVE  /\ Head(up[a]) \in Requests
         /\ Head(up[a]) \in {up[a][k] : k \in DOMAIN up[a]}
         /\ Tail(up[a]) \in Seq({up[a][k] : k \in DOMAIN up[a]})
         /\ Head(up[a]).op \in WriteOps => Head(up[a]) \in Writes
         /\ Head(up[a]).op \in NodeOps => Head(up[a]).id \in Lists
<1>1. up[a] \in Seq(Requests)
  BY DEF TypeOK
<1>2. up[a] \in Seq({up[a][k] : k \in DOMAIN up[a]})
  BY <1>1
<1>3. /\ Head(up[a]) \in Requests
      /\ Head(up[a]) \in {up[a][k] : k \in DOMAIN up[a]}
      /\ Tail(up[a]) \in Seq({up[a][k] : k \in DOMAIN up[a]})
  BY <1>1, <1>2, HeadTailProperties
<1>4. /\ Head(up[a]).op \in WriteOps => Head(up[a]) \in Writes
      /\ Head(up[a]).op \in NodeOps => Head(up[a]).id \in Lists
  BY <1>3 DEF Requests, Writes, WriteOps, NodeOps
<1> QED BY <1>3, <1>4

\* The oldest callback of a queue, and what remains.
LEMMA OldestEvent ==
  ASSUME TypeOK, NEW a \in Apps, events[a] # <<>>
  PROVE  /\ Head(events[a]) \in Events
         /\ Head(events[a]) \in {events[a][k] : k \in DOMAIN events[a]}
         /\ Tail(events[a]) \in Seq({events[a][k] : k \in DOMAIN events[a]})
         /\ Head(events[a]).type \in NodeOps =>
               Head(events[a]).id \in Lists /\ Head(events[a]).node \in Slot
         /\ Head(events[a]).type \in {"added", "removed"} => Head(events[a]).id \in Lists
         /\ Head(events[a]).type = "keys" => Head(events[a]).ids \in SUBSET Lists
<1>1. events[a] \in Seq(Events)
  BY DEF TypeOK
<1>2. events[a] \in Seq({events[a][k] : k \in DOMAIN events[a]})
  BY <1>1
<1>3. /\ Head(events[a]) \in Events
      /\ Head(events[a]) \in {events[a][k] : k \in DOMAIN events[a]}
      /\ Tail(events[a]) \in Seq({events[a][k] : k \in DOMAIN events[a]})
  BY <1>1, <1>2, HeadTailProperties
<1> QED BY <1>3 DEF Events, NodeOps

-----------------------------------------------------------------------------
(***************************************************************************)
(* What may join the queues of an app in one step.                         *)
(***************************************************************************)
Entries(q) == {q[k] : k \in DOMAIN q}

Fresh(b) == {r \in Requests :
    \/ r.op \in {"keys", "listen", "list", "loaded", "watch"}
    \/ r.op = "users" /\ Removal
    \/ \E l \in Lists : /\ r = AddOf(l, owner[b])
                        /\ author[l] = Absent /\ author'[l] = owner[b]
    \/ \E l \in heard : r = JoinOf(l, owner[b])
    \/ r.op = "remove" /\ \E e \in Entries(events[b]) : e.type = "users"}

Told(b) == {e \in Events :
    e.type = "users" => Removal \/ \E r \in Entries(up[b]) : r.op = "users"}

UpStep(b)     == up'[b] \in Seq(Entries(up[b]) \cup Fresh(b))
EventsStep(b) == events'[b] \in Seq(Entries(events[b]) \cup Told(b))

QueuesStep ==
    /\ up' = [b \in Apps |-> up'[b]] /\ events' = [b \in Apps |-> events'[b]]
    /\ \A b \in Apps : UpStep(b) /\ EventsStep(b)

\* The queues as they are fit what they may become.
LEMMA QueuesNow ==
  ASSUME TypeOK, NEW b \in Apps
  PROVE  /\ up[b] \in Seq(Entries(up[b]) \cup Fresh(b))
         /\ events[b] \in Seq(Entries(events[b]) \cup Told(b))
         /\ up[b] # <<>> => Tail(up[b]) \in Seq(Entries(up[b]) \cup Fresh(b))
         /\ events[b] # <<>> => Tail(events[b]) \in Seq(Entries(events[b]) \cup Told(b))
         /\ <<>> \in Seq(Entries(up[b]) \cup Fresh(b))
         /\ <<>> \in Seq(Entries(events[b]) \cup Told(b))
<1>1. up[b] \in Seq(Requests) /\ events[b] \in Seq(Events)
  BY DEF TypeOK
<1>2. /\ up[b] \in Seq(Entries(up[b]) \cup Fresh(b))
      /\ events[b] \in Seq(Entries(events[b]) \cup Told(b))
  BY <1>1 DEF Entries
<1>3. /\ up[b] # <<>> => Tail(up[b]) \in Seq(Entries(up[b]) \cup Fresh(b))
      /\ events[b] # <<>> => Tail(events[b]) \in Seq(Entries(events[b]) \cup Told(b))
  BY <1>2, HeadTailProperties
<1> QED BY <1>2, <1>3

\* A step that changes the queues of one app only.
LEMMA OneApp ==
  ASSUME TypeOK, NEW a \in Apps,
         NEW q \in Seq(Entries(up[a]) \cup Fresh(a)),
         NEW e \in Seq(Entries(events[a]) \cup Told(a)),
         up' = [up EXCEPT ![a] = q], events' = [events EXCEPT ![a] = e]
  PROVE  QueuesStep
<1>1. up \in [Apps -> Seq(Requests)] /\ events \in [Apps -> Seq(Events)]
  BY DEF TypeOK
<1>2. up' = [b \in Apps |-> up'[b]] /\ events' = [b \in Apps |-> events'[b]]
  BY <1>1
<1>3. ASSUME NEW b \in Apps PROVE UpStep(b) /\ EventsStep(b)
  <2>1. CASE b = a
    <3>1. up'[b] = q /\ events'[b] = e
      BY <1>1, <2>1
    <3> QED BY <2>1, <3>1 DEF UpStep, EventsStep
  <2>2. CASE b # a
    <3>1. up'[b] = up[b] /\ events'[b] = events[b]
      BY <1>1, <2>2
    <3> QED BY <3>1, QueuesNow DEF UpStep, EventsStep
  <2> QED BY <2>1, <2>2
<1> QED BY <1>2, <1>3 DEF QueuesStep

\* Callbacks of the key listener and of LoadData's first read may always come.
LEMMA KeyEventsTold ==
  ASSUME TypeOK, NEW b \in Apps, NEW s \in Seq(KeyEvents)
  PROVE  /\ s \in Seq(Entries(events[b]) \cup Told(b))
         /\ events[b] \o s \in Seq(Entries(events[b]) \cup Told(b))
         /\ events[b] # <<>> => Tail(events[b]) \o s \in Seq(Entries(events[b]) \cup Told(b))
<1>1. KeyEvents \subseteq Told(b)
  BY DEF KeyEvents, Told, Events
<1>2. s \in Seq(Entries(events[b]) \cup Told(b))
  BY <1>1
<1> DEFINE E == Entries(events[b]) \cup Told(b)
<1>3. /\ events[b] \in Seq(E)
      /\ events[b] # <<>> => Tail(events[b]) \in Seq(E)
  BY QueuesNow
<1> HIDE DEF E
<1> QED BY <1>2, <1>3, ConcatProperties DEF E

\* Requests that are no writes, but for the read of RemoveList, may always join.
LEMMA PlainFresh ==
  ASSUME NEW b \in Apps
  PROVE  /\ Keys \in Fresh(b) /\ Listen \in Fresh(b)
         /\ \A l \in Lists : /\ Node("list", l) \in Fresh(b)
                             /\ Node("loaded", l) \in Fresh(b)
                             /\ Node("watch", l) \in Fresh(b)
                             /\ Removal => Node("users", l) \in Fresh(b)
BY DEF Fresh, Requests, Keys, Listen, Node, NodeOps

\* Fresh requests may be appended.
LEMMA AppendFresh ==
  ASSUME TypeOK, NEW b \in Apps, NEW r \in Fresh(b)
  PROVE  /\ Append(up[b], r) \in Seq(Entries(up[b]) \cup Fresh(b))
         /\ \A q \in Seq(Entries(up[b]) \cup Fresh(b)) :
               Append(q, r) \in Seq(Entries(up[b]) \cup Fresh(b))
<1> DEFINE R == Entries(up[b]) \cup Fresh(b)
<1>1. up[b] \in Seq(R) /\ r \in R
  BY QueuesNow
<1> HIDE DEF R
<1>2. Append(up[b], r) \in Seq(R) /\ \A q \in Seq(R) : Append(q, r) \in Seq(R)
  BY <1>1
<1> QED BY <1>2 DEF R

\* An answer about the node of a list, to a request that was made.
LEMMA AnswerTold ==
  ASSUME NEW b \in Apps, NEW o \in NodeOps, NEW l \in Lists, NEW n \in Slot,
         o = "users" => Removal \/ \E r \in Entries(up[b]) : r.op = "users"
  PROVE  NodeEvent(o, l, n) \in Told(b)
BY DEF Told, NodeEvent, Events, NodeOps

\* The write of a user.
LEMMA SendQueues ==
  ASSUME TypeOK, NEW a \in Apps, NEW w \in Writes, w \in Fresh(a), Send(a, w)
  PROVE  QueuesStep
<1> DEFINE q == Append(up[a], w)
           e == events[a] \o Raised(a, server, q, w.id)
<1>1. w.id \in Lists
  BY DEF Writes
<1>2. q \in Seq(Entries(up[a]) \cup Fresh(a))
  BY AppendFresh
<1>3. e \in Seq(Entries(events[a]) \cup Told(a))
  BY <1>1, RaisedType, KeyEventsTold
<1>4. up' = [up EXCEPT ![a] = q] /\ events' = [events EXCEPT ![a] = e]
  BY DEF Send
<1> HIDE DEF q, e
<1> QED BY <1>2, <1>3, <1>4, OneApp

\* A read of a node, answered at once or sent.
LEMMA ReadNodeQueues ==
  ASSUME TypeOK, NEW a \in Apps, NEW o \in {"list", "users"}, NEW l \in Lists,
         NEW ev \in Seq(Entries(events[a]) \cup Told(a)),
         o = "users" => Removal, ReadNode(a, o, l, ev)
  PROVE  QueuesStep
<1>1. server \in Tree /\ up[a] \in Seq(Requests)
  BY DEF TypeOK
<1>2. ListOf(server, up[a], l) \in Slot
  BY <1>1, ListOfType
<1>3. NodeEvent(o, l, ListOf(server, up[a], l)) \in Told(a)
  BY <1>2, AnswerTold DEF NodeOps
<1>4. Node(o, l) \in Fresh(a)
  BY PlainFresh
<1>5. up[a] \in Seq(Entries(up[a]) \cup Fresh(a))
  BY QueuesNow
<1>6. CASE AtHand(a, l, up[a], ev)
  <2>1. up' = [up EXCEPT ![a] = up[a]]
    BY <1>6 DEF ReadNode, TypeOK
  <2>2. events' = [events EXCEPT ![a] = Append(ev, NodeEvent(o, l, ListOf(server, up[a], l)))]
    BY <1>6 DEF ReadNode
  <2>3. Append(ev, NodeEvent(o, l, ListOf(server, up[a], l)))
           \in Seq(Entries(events[a]) \cup Told(a))
    BY <1>3
  <2> QED BY <1>5, <2>1, <2>2, <2>3, OneApp
<1>7. CASE ~AtHand(a, l, up[a], ev)
  <2>1. /\ up' = [up EXCEPT ![a] = Append(up[a], Node(o, l))]
        /\ events' = [events EXCEPT ![a] = ev]
    BY <1>7 DEF ReadNode
  <2>2. Append(up[a], Node(o, l)) \in Seq(Entries(up[a]) \cup Fresh(a))
    BY <1>4, <1>5
  <2> QED BY <2>1, <2>2, OneApp
<1> QED BY <1>6, <1>7

\* The end of the process empties both.
LEMMA ResetQueues ==
  ASSUME TypeOK, NEW a \in Apps, NEW how, Reset(a, how)
  PROVE  QueuesStep
BY QueuesNow, OneApp DEF Reset

\* The observer of a row, asked for if need be.
LEMMA WatchedQueue ==
  ASSUME TypeOK, NEW a \in Apps, NEW l \in Lists
  PROVE  Watched(a, l) \in Seq(Entries(up[a]) \cup Fresh(a))
<1>1. Node("watch", l) \in Fresh(a)
  BY PlainFresh
<1>2. Append(up[a], Node("watch", l)) \in Seq(Entries(up[a]) \cup Fresh(a))
  BY <1>1, AppendFresh
<1>3. up[a] \in Seq(Entries(up[a]) \cup Fresh(a))
  BY QueuesNow
<1> QED BY <1>2, <1>3 DEF Watched

\* LoadData's answer: an observer for its row, and the listener after the last.
LEMMA ListLoadedQueues ==
  ASSUME TypeOK, NEW a \in Apps, ListLoaded(a)
  PROVE  QueuesStep
<1> DEFINE l == Head(events[a]).id
<1>1. events[a] # <<>> /\ Head(events[a]).type \in NodeOps
  BY DEF ListLoaded, Next1, NodeOps
<1>2. l \in Lists
  BY <1>1, OldestEvent
<1>3. Watched(a, l) \in Seq(Entries(up[a]) \cup Fresh(a))
  BY <1>2, WatchedQueue
<1>4. Append(Watched(a, l), Listen) \in Seq(Entries(up[a]) \cup Fresh(a))
  BY <1>3, PlainFresh
<1>5. events' = [events EXCEPT ![a] = Tail(events[a])]
  BY DEF ListLoaded, Handled
<1>6. \/ up' = [up EXCEPT ![a] = Watched(a, l)]
      \/ up' = [up EXCEPT ![a] = Append(Watched(a, l), Listen)]
  BY DEF ListLoaded, Loaded
<1>7. Tail(events[a]) \in Seq(Entries(events[a]) \cup Told(a))
  BY <1>1, QueuesNow
<1> HIDE DEF l
<1> QED BY <1>3, <1>4, <1>5, <1>6, <1>7, OneApp

\* LoadData's reads: those answered at once, and those that are sent.
LEMMA LoadListsQueues ==
  ASSUME TypeOK, NEW a \in Apps, LoadLists(a)
  PROVE  QueuesStep
<1> DEFINE S  == Head(events[a]).ids
           At == {l \in S : AtHand(a, l, up[a], Tail(events[a]))}
<1>1. events[a] # <<>> /\ Head(events[a]).type = "keys"
  BY DEF LoadLists, Next1
<1>2. S \in SUBSET Lists
  BY <1>1, OldestEvent
<1>3. PICK now \in SetToSeqs(At), later \in SetToSeqs(S \ At) :
         /\ events' = [events EXCEPT ![a] = Tail(events[a]) \o
              [k \in DOMAIN now |-> NodeEvent("loaded", now[k], ListOf(server, up[a], now[k]))]]
         /\ up' = [up EXCEPT ![a] = up[a] \o
              [k \in DOMAIN later |-> Node("loaded", later[k])]]
  BY DEF LoadLists
<1>4. IsFiniteSet(At) /\ IsFiniteSet(S \ At) /\ At \subseteq Lists /\ S \ At \subseteq Lists
  BY <1>2, ListsFinite, FS_Subset
<1> HIDE DEF S, At
<1>5. /\ now \in Seq(Lists) /\ DOMAIN now = 1..Len(now)
      /\ later \in Seq(Lists) /\ DOMAIN later = 1..Len(later)
  <2>1. now \in Seq(At) /\ DOMAIN now = 1..Len(now)
    BY <1>3, <1>4, OrderLists
  <2>2. later \in Seq(S \ At) /\ DOMAIN later = 1..Len(later)
    BY <1>3, <1>4, OrderLists
  <2> QED BY <1>4, <2>1, <2>2
<1>6. ASSUME NEW k \in DOMAIN now
      PROVE  NodeEvent("loaded", now[k], ListOf(server, up[a], now[k])) \in Told(a)
  <2>1. now[k] \in Lists /\ server \in Tree /\ up[a] \in Seq(Requests)
    BY <1>5 DEF TypeOK
  <2> QED BY <2>1, ListOfType, AnswerTold DEF NodeOps
<1>7. [k \in DOMAIN now |-> NodeEvent("loaded", now[k], ListOf(server, up[a], now[k]))]
         \in Seq(Entries(events[a]) \cup Told(a))
  BY <1>5, <1>6
<1>8. ASSUME NEW k \in DOMAIN later PROVE Node("loaded", later[k]) \in Fresh(a)
  BY <1>5, PlainFresh
<1>9. [k \in DOMAIN later |-> Node("loaded", later[k])] \in Seq(Entries(up[a]) \cup Fresh(a))
  BY <1>5, <1>8
<1> DEFINE e == Tail(events[a]) \o
              [k \in DOMAIN now |-> NodeEvent("loaded", now[k], ListOf(server, up[a], now[k]))]
           q == up[a] \o [k \in DOMAIN later |-> Node("loaded", later[k])]
<1>10. e \in Seq(Entries(events[a]) \cup Told(a))
  BY <1>1, <1>7, QueuesNow, ConcatProperties
<1>11. q \in Seq(Entries(up[a]) \cup Fresh(a))
  BY <1>9, QueuesNow, ConcatProperties
<1>12. up' = [up EXCEPT ![a] = q] /\ events' = [events EXCEPT ![a] = e]
  BY <1>3
<1> HIDE DEF e, q
<1> QED BY <1>10, <1>11, <1>12, OneApp

\* The answer to a node: its reads are told, the others wait on.
LEMMA AnswerNodeQueues ==
  ASSUME TypeOK, NEW a \in Apps, AnswerNode(a)
  PROVE  QueuesStep
<1> DEFINE l     == Head(up[a]).id
           mine  == {k \in DOMAIN up[a] : About(up[a][k], l)}
           reads == Picked(up[a], {k \in mine : up[a][k].op # "watch"})
           q     == Picked(up[a], DOMAIN up[a] \ mine)
           e     == [k \in DOMAIN reads |-> NodeEvent(reads[k].op, l, ListOf(server, q, l))]
<1>1. /\ up' = [up EXCEPT ![a] = q]
      /\ events' = [events EXCEPT ![a] = events[a] \o e]
  BY DEF AnswerNode
<1>2. l \in Lists
  BY OldestRequest DEF AnswerNode
<1>3. server \in Tree /\ up[a] \in Seq(Requests)
  BY DEF TypeOK
<1>4. up[a] \in Seq(Entries(up[a]) \cup Fresh(a))
  BY QueuesNow
<1>5. q \in Seq(Entries(up[a]) \cup Fresh(a)) /\ q \in Seq(Requests)
  BY <1>3, <1>4, PickedQueue
<1>6. reads \in Seq({up[a][k] : k \in {j \in mine : up[a][j].op # "watch"}})
  BY <1>3, PickedQueue
<1>7. ListOf(server, q, l) \in Slot
  <2> HIDE DEF q, l
  <2> QED BY <1>2, <1>3, <1>5, ListOfType
<1>8. ASSUME NEW k \in DOMAIN reads
      PROVE  NodeEvent(reads[k].op, l, ListOf(server, q, l)) \in Told(a)
  <2>1. reads[k] \in {up[a][j] : j \in {i \in mine : up[a][i].op # "watch"}}
    <3> HIDE DEF reads
    <3> QED BY <1>6
  <2>2. reads[k] \in Entries(up[a]) /\ reads[k].op \in NodeOps
    BY <2>1 DEF About, Entries
  <2> HIDE DEF reads, q, l
  <2> QED BY <1>2, <1>7, <2>2, AnswerTold
<1> HIDE DEF q, reads, l, mine
<1>9. e \in Seq(Entries(events[a]) \cup Told(a))
  BY <1>6, <1>8
<1>10. events[a] \o e \in Seq(Entries(events[a]) \cup Told(a))
  BY <1>9, QueuesNow, ConcatProperties
<1> HIDE DEF e
<1> QED BY <1>1, <1>5, <1>10, OneApp

\* The server's other answers.
LEMMA AnswerQueues ==
  ASSUME TypeOK, NEW a \in Apps, AnswerKeys(a) \/ AnswerListen(a) \/ AnswerNode(a)
  PROVE  QueuesStep
<1>1. up[a] # <<>> /\ Tail(up[a]) \in Seq(Entries(up[a]) \cup Fresh(a))
  BY QueuesNow DEF AnswerKeys, AnswerListen, AnswerNode, Oldest
<1>2. CASE AnswerKeys(a)
  <2> DEFINE ev == [type |-> "keys", ids |-> KeysOf(server, up'[a], owner[a])]
  <2>1. ev \in Told(a)
    BY DEF Told, Events, KeysOf
  <2>2. Append(events[a], ev) \in Seq(Entries(events[a]) \cup Told(a))
    <3> DEFINE E == Entries(events[a]) \cup Told(a)
    <3>1. ev \in E /\ events[a] \in Seq(E)
      BY <2>1, QueuesNow
    <3> HIDE DEF E, ev
    <3>2. Append(events[a], ev) \in Seq(E)
      BY <3>1
    <3> QED BY <3>2 DEF E
  <2>3. /\ up' = [up EXCEPT ![a] = Tail(up[a])]
        /\ events' = [events EXCEPT ![a] = Append(events[a], ev)]
    BY <1>2 DEF AnswerKeys, Answered
  <2> HIDE DEF ev
  <2> QED BY <1>1, <2>2, <2>3, OneApp
<1>3. CASE AnswerListen(a)
  <2> DEFINE K == KeysOf(server, up'[a], owner[a])
  <2>1. PICK order \in SetToSeqs(K) :
           events' = [events EXCEPT ![a] = events[a] \o
              [k \in DOMAIN order |-> KeyEvent("added", order[k])]]
    BY <1>3 DEF AnswerListen
  <2>2. K \in SUBSET Lists /\ IsFiniteSet(K)
    BY ListsFinite, FS_Subset DEF KeysOf
  <2> HIDE DEF K
  <2>3. order \in Seq(K) /\ DOMAIN order = 1..Len(order)
    BY <2>1, <2>2, OrderLists
  <2>4. [k \in DOMAIN order |-> KeyEvent("added", order[k])] \in Seq(KeyEvents)
    BY <2>2, <2>3 DEF KeyEvent, KeyEvents
  <2>5. events[a] \o [k \in DOMAIN order |-> KeyEvent("added", order[k])]
           \in Seq(Entries(events[a]) \cup Told(a))
    BY <2>4, KeyEventsTold
  <2>6. up' = [up EXCEPT ![a] = Tail(up[a])]
    BY <1>3 DEF AnswerListen, Answered
  <2> QED BY <1>1, <2>1, <2>5, <2>6, OneApp
<1>4. CASE AnswerNode(a)
  BY <1>4, AnswerNodeQueues
<1> QED BY <1>2, <1>3, <1>4

\* A write that the server takes is told to every app that listens.
LEMMA CommitQueues ==
  ASSUME TypeOK, NEW a \in Apps, Commit(a)
  PROVE  QueuesStep
<1> DEFINE w == Head(up[a])
<1>1. w \in Writes /\ w.id \in Lists /\ up[a] # <<>>
  BY OldestRequest DEF Commit, Writes
<1>2. /\ up' = [up EXCEPT ![a] = Tail(up[a])]
      /\ events' = [b \in Apps |-> events[b] \o Raised(b, Apply(w, server), up'[b], w.id)]
  BY DEF Commit, Answered
<1>3. up' = [b \in Apps |-> up'[b]] /\ events' = [b \in Apps |-> events'[b]]
  BY <1>2 DEF TypeOK
<1>4. ASSUME NEW b \in Apps PROVE UpStep(b)
  <2>1. up'[b] = IF b = a THEN Tail(up[a]) ELSE up[b]
    BY <1>2 DEF TypeOK
  <2> QED BY <1>1, <2>1, QueuesNow DEF UpStep
<1> HIDE DEF w
<1>5. ASSUME NEW b \in Apps PROVE EventsStep(b)
  <2>1. Raised(b, Apply(w, server), up'[b], w.id) \in Seq(KeyEvents)
    BY <1>1, RaisedType
  <2>2. events'[b] = events[b] \o Raised(b, Apply(w, server), up'[b], w.id)
    BY <1>2
  <2> QED BY <2>1, <2>2, KeyEventsTold DEF EventsStep
<1> QED BY <1>3, <1>4, <1>5 DEF QueuesStep

\* A write that the server refuses is taken back by the app that sent it.
LEMMA RejectQueues ==
  ASSUME TypeOK, NEW a \in Apps, Reject(a)
  PROVE  QueuesStep
<1> DEFINE w == Head(up[a])
           e == events[a] \o Raised(a, server, up'[a], w.id)
<1>1. w.id \in Lists /\ up[a] # <<>>
  BY OldestRequest DEF Reject, Writes
<1>2. /\ up' = [up EXCEPT ![a] = Tail(up[a])]
      /\ events' = [events EXCEPT ![a] = e]
  BY DEF Reject, Answered
<1>3. e \in Seq(Entries(events[a]) \cup Told(a))
  <2> HIDE DEF w
  <2> QED BY <1>1, RaisedType, KeyEventsTold
<1> HIDE DEF e
<1> QED BY <1>1, <1>2, <1>3, QueuesNow, OneApp

\* The callbacks on the main queue.
LEMMA MainQueues ==
  ASSUME TypeOK, NEW a \in Apps, MainStep(a)
  PROVE  QueuesStep
<1>1. events[a] # <<>>
  BY DEF MainStep, LoadNoLists, LoadLists, ListLoaded, ListsKeysChildAdded, ListRead,
         ListsKeysChildRemoved, RemoveListUsersRead, NoSuchList, Next1
<1>2. Tail(events[a]) \in Seq(Entries(events[a]) \cup Told(a))
  BY <1>1, QueuesNow
<1>3. up[a] \in Seq(Entries(up[a]) \cup Fresh(a)) /\ up = [up EXCEPT ![a] = up[a]]
  BY QueuesNow DEF TypeOK
<1>4. CASE LoadNoLists(a)
  <2>1. Append(up[a], Listen) \in Seq(Entries(up[a]) \cup Fresh(a))
    BY PlainFresh, AppendFresh
  <2>2. /\ up' = [up EXCEPT ![a] = Append(up[a], Listen)]
        /\ events' = [events EXCEPT ![a] = Tail(events[a])]
    BY <1>4 DEF LoadNoLists, Loaded, Handled
  <2> QED BY <1>2, <2>1, <2>2, OneApp
<1>5. CASE LoadLists(a)
  BY <1>5, LoadListsQueues
<1>6. CASE ListLoaded(a)
  BY <1>6, ListLoadedQueues
<1>7. CASE ListsKeysChildAdded(a)
  <2> DEFINE l == Head(events[a]).id
  <2>1. l \in Lists
    BY <1>1, <1>7, OldestEvent DEF ListsKeysChildAdded, Next1
  <2>2. \/ Handled(a) /\ UNCHANGED up
        \/ ReadNode(a, "list", l, Tail(events[a]))
    BY <1>7 DEF ListsKeysChildAdded
  <2> HIDE DEF l
  <2>3. CASE Handled(a) /\ UNCHANGED up
    <3>1. /\ up' = [up EXCEPT ![a] = up[a]]
          /\ events' = [events EXCEPT ![a] = Tail(events[a])]
      BY <1>3, <2>3 DEF Handled
    <3> QED BY <1>2, <1>3, <3>1, OneApp
  <2>4. CASE ReadNode(a, "list", l, Tail(events[a]))
    BY <1>2, <2>1, <2>4, ReadNodeQueues
  <2> QED BY <2>2, <2>3, <2>4
<1>8. CASE ListRead(a)
  <2>1. Head(events[a]).id \in Lists
    BY <1>1, <1>8, OldestEvent DEF ListRead, Next1, NodeOps
  <2>2. /\ up' = [up EXCEPT ![a] = Watched(a, Head(events[a]).id)]
        /\ events' = [events EXCEPT ![a] = Tail(events[a])]
    BY <1>8 DEF ListRead, Handled
  <2> QED BY <1>2, <2>1, <2>2, WatchedQueue, OneApp
<1>9. CASE ListsKeysChildRemoved(a)
  <2>1. /\ up' = [up EXCEPT ![a] = up[a]]
        /\ events' = [events EXCEPT ![a] = Tail(events[a])]
    BY <1>3, <1>9 DEF ListsKeysChildRemoved, Handled
  <2> QED BY <1>2, <1>3, <2>1, OneApp
<1>10. CASE RemoveListUsersRead(a)
  <2> DEFINE ev == Head(events[a])
             w == RemoveOf(ev.id, ev.node)
             q == Append(up[a], w)
             e == Tail(events[a]) \o Raised(a, server, q, ev.id)
  <2>1. ev.type = "users" /\ ev.id \in Lists /\ ev.node \in SUBSET Users
    BY <1>1, <1>10, OldestEvent DEF RemoveListUsersRead, Next1, NodeOps, Slot
  <2>2. w \in Requests /\ w.op = "remove"
    BY <2>1 DEF Requests, Writes, WriteOps, RemoveOf
  <2>3. ev \in Entries(events[a])
    BY <1>1, OldestEvent DEF Entries
  <2>4. w \in Fresh(a)
    <3> HIDE DEF ev, w
    <3> QED BY <2>1, <2>2, <2>3 DEF Fresh
  <2>5. q \in Seq(Entries(up[a]) \cup Fresh(a))
    BY <2>4, AppendFresh
  <2>6. e \in Seq(Entries(events[a]) \cup Told(a))
    BY <1>1, <2>1, RaisedType, KeyEventsTold
  <2>7. up' = [up EXCEPT ![a] = q] /\ events' = [events EXCEPT ![a] = e]
    BY <1>10 DEF RemoveListUsersRead
  <2> HIDE DEF q, e
  <2> QED BY <2>5, <2>6, <2>7, OneApp
<1>11. CASE NoSuchList(a)
  BY <1>11, ResetQueues DEF NoSuchList
<1> QED BY <1>4, <1>5, <1>6, <1>7, <1>8, <1>9, <1>10, <1>11 DEF MainStep

\* What the user does.
LEMMA UserQueues ==
  ASSUME TypeOK, NEW a \in Apps, UserStep(a)
  PROVE  QueuesStep
<1>1. owner[a] \in Users /\ heard \in SUBSET Lists
  BY DEF TypeOK
<1>2. CASE OpenLists(a)
  <2>1. <<Keys>> \in Seq(Entries(up[a]) \cup Fresh(a))
    BY PlainFresh
  <2>2. up' = [up EXCEPT ![a] = <<Keys>>] /\ events' = [events EXCEPT ![a] = events[a]]
    BY <1>2 DEF OpenLists, TypeOK
  <2> QED BY <2>1, <2>2, QueuesNow, OneApp
<1>3. CASE Quit(a)
  BY <1>3, ResetQueues DEF Quit
<1>4. CASE AddNewList(a)
  <2>1. PICK l \in Lists : /\ author[l] = Absent
                           /\ author' = [author EXCEPT ![l] = owner[a]]
                           /\ Send(a, AddOf(l, owner[a]))
    BY <1>4 DEF AddNewList
  <2>2. author'[l] = owner[a]
    BY <2>1 DEF TypeOK
  <2>3. AddOf(l, owner[a]) \in Writes
    BY <1>1 DEF AddOf, Writes, WriteOps
  <2>4. AddOf(l, owner[a]) \in Fresh(a)
    BY <2>1, <2>2, <2>3 DEF Fresh, Requests
  <2> QED BY <2>1, <2>3, <2>4, SendQueues
<1>5. CASE AcceptInvitation(a)
  <2>1. PICK l \in heard : Send(a, JoinOf(l, owner[a]))
    BY <1>5 DEF AcceptInvitation
  <2>2. JoinOf(l, owner[a]) \in Writes
    BY <1>1 DEF JoinOf, Writes, WriteOps
  <2>3. JoinOf(l, owner[a]) \in Fresh(a)
    BY <2>2 DEF Fresh, Requests
  <2> QED BY <2>1, <2>2, <2>3, SendQueues
<1>6. CASE RemoveList(a)
  <2>1. PICK k \in DOMAIN data[a] : ReadNode(a, "users", data[a][k], events[a])
    BY <1>6 DEF RemoveList
  <2>2. data[a][k] \in Lists
    BY <2>1 DEF TypeOK
  <2>3. Removal
    BY <1>6 DEF RemoveList
  <2> QED BY <2>1, <2>2, <2>3, QueuesNow, ReadNodeQueues
<1>7. CASE SelectNoList(a)
  BY <1>7, ResetQueues DEF SelectNoList
<1> QED BY <1>2, <1>3, <1>4, <1>5, <1>6, <1>7 DEF UserStep

\* Every step.
LEMMA StepQueues == TypeOK /\ [Next]_vars => QueuesStep
<1> SUFFICES ASSUME TypeOK, [Next]_vars PROVE QueuesStep
  OBVIOUS
<1>1. ASSUME UNCHANGED <<up, events>> PROVE QueuesStep
  BY <1>1, QueuesNow DEF QueuesStep, UpStep, EventsStep, TypeOK
<1>2. CASE UNCHANGED vars
  BY <1>1, <1>2 DEF vars, sdk
<1>3. ASSUME NEW a \in Apps, ServerStep(a) PROVE QueuesStep
  BY <1>3, AnswerQueues, CommitQueues DEF ServerStep
<1>4. ASSUME NEW a \in Apps, TimeoutGuardFired(a) PROVE QueuesStep
  BY <1>1, <1>4 DEF TimeoutGuardFired, sdk
<1> QED BY <1>2, <1>3, <1>4, RejectQueues, MainQueues, UserQueues DEF Next
-----------------------------------------------------------------------------
(***************************************************************************)
(* Type correctness.                                                       *)
(***************************************************************************)

\* The queues stay queues of requests and of callbacks.
LEMMA QueuesType ==
  ASSUME TypeOK, QueuesStep
  PROVE  up' \in [Apps -> Seq(Requests)] /\ events' \in [Apps -> Seq(Events)]
<1>1. ASSUME NEW b \in Apps
      PROVE  up'[b] \in Seq(Requests) /\ events'[b] \in Seq(Events)
  <2>1. up[b] \in Seq(Requests) /\ events[b] \in Seq(Events)
    BY DEF TypeOK
  <2>2. Entries(up[b]) \cup Fresh(b) \subseteq Requests
    BY <2>1 DEF Entries, Fresh
  <2>3. Entries(events[b]) \cup Told(b) \subseteq Events
    BY <2>1 DEF Entries, Told
  <2>4. /\ up'[b] \in Seq(Entries(up[b]) \cup Fresh(b))
        /\ events'[b] \in Seq(Entries(events[b]) \cup Told(b))
    BY DEF QueuesStep, UpStep, EventsStep
  <2> QED BY <2>2, <2>3, <2>4
<1> QED BY <1>1 DEF QueuesStep

\* What there is besides the queues.
RestOK ==
    /\ server \in Tree
    /\ owner \in [Apps -> Users]
    /\ author \in [Lists -> Users \cup {Absent}]
    /\ listener \in [Apps -> {"off", "asked", "on"}]
    /\ live \in [Apps -> SUBSET Lists]
    /\ data \in [Apps -> Seq(Lists)]
    /\ left \in [Apps -> Int]
    /\ screen \in [Apps -> Closed \cup {"loading", "enabled"}]
    /\ gone \in [Apps -> SUBSET Lists]
    /\ heard \subseteq Lists /\ refused \subseteq Lists
    /\ writes \in Nat /\ rejects \in Nat /\ opens \in [Apps -> Nat] /\ exits \in Nat

\* The initial states have the types.
LEMMA InitType == Init => TypeOK
<1> SUFFICES ASSUME Init PROVE TypeOK
  OBVIOUS
<1>1. server \in Tree
  <2>1. ASSUME NEW l \in Lists
        PROVE  (IF author[l] = Absent THEN Absent ELSE {author[l]}) \in Slot
    BY DEF Init, Slot
  <2>2. server.keys \in [Users -> SUBSET Lists] /\ server.tables \in SUBSET Lists
    BY DEF Init
  <2>3. server.lists \in [Lists -> Slot]
    BY <2>1 DEF Init
  <2>4. server = [keys |-> server.keys, lists |-> server.lists, tables |-> server.tables]
    BY DEF Init
  <2> QED BY <2>2, <2>3, <2>4 DEF Tree
<1>2. /\ up \in [Apps -> Seq(Requests)] /\ events \in [Apps -> Seq(Events)]
      /\ data \in [Apps -> Seq(Lists)]
  BY DEF Init
<1>3. /\ heard \subseteq Lists /\ refused \subseteq Lists
      /\ owner \in [Apps -> Users] /\ author \in [Lists -> Users \cup {Absent}]
      /\ listener \in [Apps -> {"off", "asked", "on"}]
      /\ live \in [Apps -> SUBSET Lists] /\ gone \in [Apps -> SUBSET Lists]
      /\ left \in [Apps -> Int] /\ screen \in [Apps -> Closed \cup {"loading", "enabled"}]
      /\ writes \in Nat /\ rejects \in Nat /\ opens \in [Apps -> Nat] /\ exits \in Nat
  BY DEF Init, Closed
<1> QED BY <1>1, <1>2, <1>3 DEF TypeOK

\* The end of the process leaves the rest in its types.
LEMMA ResetType ==
  ASSUME TypeOK, NEW a \in Apps, NEW how \in Closed, Reset(a, how),
         UNCHANGED <<server, owner, author, heard, refused, writes, rejects, opens>>,
         exits' \in Nat
  PROVE  RestOK'
BY DEF Reset, TypeOK, RestOK, Closed

\* The server's steps.
LEMMA ServerType ==
  ASSUME TypeOK, NEW a \in Apps, ServerStep(a) \/ Reject(a)
  PROVE  RestOK'
<1>1. CASE AnswerKeys(a)
  BY <1>1 DEF AnswerKeys, app, told, bounds, TypeOK, RestOK
<1>2. CASE AnswerListen(a)
  <2>1. PICK K : gone' = [gone EXCEPT ![a] = RowIds(a) \ K]
    BY <1>2 DEF AnswerListen
  <2>2. RowIds(a) \in SUBSET Lists
    BY DEF RowIds, TypeOK
  <2>3. gone' \in [Apps -> SUBSET Lists]
    BY <2>1, <2>2 DEF TypeOK
  <2> QED BY <1>2, <2>3 DEF AnswerListen, app, told, bounds, TypeOK, RestOK
<1>3. CASE AnswerNode(a)
  <2>1. Head(up[a]).id \in Lists
    BY <1>3, OldestRequest DEF AnswerNode
  <2>2. live' \in [Apps -> SUBSET Lists]
    BY <1>3, <2>1 DEF AnswerNode, TypeOK
  <2> QED BY <1>3, <2>2 DEF AnswerNode, app, told, bounds, TypeOK, RestOK
<1>4. CASE Commit(a)
  <2> DEFINE w == Head(up[a])
  <2>1. w \in Writes /\ w.id \in Lists
    BY <1>4, OldestRequest DEF Commit, Writes
  <2>2. /\ server' = Apply(w, server)
        /\ heard' = IF w.op = "add" THEN heard \cup {w.id} ELSE heard
    BY <1>4 DEF Commit
  <2> HIDE DEF w
  <2>3. server' \in Tree /\ heard' \subseteq Lists
    BY <2>1, <2>2, ApplyType DEF TypeOK
  <2> QED BY <1>4, <2>3 DEF Commit, app, bounds, TypeOK, RestOK
<1>5. CASE Reject(a)
  <2> DEFINE w == Head(up[a])
  <2>1. w.id \in Lists
    BY <1>5, OldestRequest DEF Reject, Writes
  <2>2. /\ heard' = IF w.op = "add" THEN heard \cup {w.id} ELSE heard
        /\ refused' = IF w.op # "add" THEN refused \cup {w.id} ELSE refused
        /\ rejects' = rejects + 1
    BY <1>5 DEF Reject
  <2> HIDE DEF w
  <2>3. heard' \subseteq Lists /\ refused' \subseteq Lists /\ rejects' \in Nat
    BY <2>1, <2>2 DEF TypeOK
  <2> QED BY <1>5, <2>3 DEF Reject, app, TypeOK, RestOK
<1> QED BY <1>1, <1>2, <1>3, <1>4, <1>5 DEF ServerStep

\* The main queue and the guard.
LEMMA MainType ==
  ASSUME TypeOK, NEW a \in Apps, MainStep(a) \/ TimeoutGuardFired(a)
  PROVE  RestOK'
<1>1. CASE LoadNoLists(a)
  BY <1>1 DEF LoadNoLists, Loaded, told, bounds, TypeOK, RestOK
<1>2. CASE LoadLists(a)
  <2>1. Head(events[a]).ids \in SUBSET Lists
    BY <1>2, OldestEvent DEF LoadLists, Next1
  <2>2. Cardinality(Head(events[a]).ids) \in Int
    BY <2>1, ListsFinite, FS_Subset, FS_CardinalityType
  <2>3. left' \in [Apps -> Int]
    BY <1>2, <2>2 DEF LoadLists, TypeOK
  <2> QED BY <1>2, <2>3 DEF LoadLists, told, bounds, TypeOK, RestOK
<1>3. CASE ListLoaded(a)
  <2>1. Head(events[a]).id \in Lists
    BY <1>3, OldestEvent DEF ListLoaded, Next1, NodeOps
  <2>2. data' \in [Apps -> Seq(Lists)] /\ left' \in [Apps -> Int]
    BY <1>3, <2>1 DEF ListLoaded, NewRow, TypeOK
  <2>3. /\ listener' \in [Apps -> {"off", "asked", "on"}]
        /\ screen' \in [Apps -> Closed \cup {"loading", "enabled"}]
    BY <1>3 DEF ListLoaded, Loaded, TypeOK
  <2> QED BY <1>3, <2>2, <2>3 DEF ListLoaded, told, bounds, TypeOK, RestOK
<1>4. CASE ListsKeysChildAdded(a)
  BY <1>4 DEF ListsKeysChildAdded, app, told, bounds, TypeOK, RestOK
<1>5. CASE ListRead(a)
  <2>1. Head(events[a]).id \in Lists
    BY <1>5, OldestEvent DEF ListRead, Next1, NodeOps
  <2>2. data' \in [Apps -> Seq(Lists)]
    BY <1>5, <2>1 DEF ListRead, NewRow, TypeOK
  <2> QED BY <1>5, <2>2 DEF ListRead, told, bounds, TypeOK, RestOK
<1>6. CASE ListsKeysChildRemoved(a)
  <2>1. data[a] \in Seq(Lists)
    BY DEF TypeOK
  <2>2. RemoveFirst(data[a], Head(events[a]).id) \in Seq(Lists)
    BY <2>1, RemoveFirstQueue
  <2>3. data' \in [Apps -> Seq(Lists)]
    BY <1>6, <2>2 DEF ListsKeysChildRemoved, TypeOK
  <2> QED BY <1>6, <2>3 DEF ListsKeysChildRemoved, told, bounds, TypeOK, RestOK
<1>7. CASE RemoveListUsersRead(a)
  BY <1>7 DEF RemoveListUsersRead, app, told, bounds, TypeOK, RestOK
<1>8. CASE NoSuchList(a)
  <2>1. exits' \in Nat /\ "badcast" \in Closed
    BY <1>8 DEF NoSuchList, bounds, TypeOK, Closed
  <2> QED BY <1>8, <2>1, ResetType DEF NoSuchList, told, bounds
<1>9. CASE TimeoutGuardFired(a)
  BY <1>9 DEF TimeoutGuardFired, sdk, told, bounds, TypeOK, RestOK
<1> QED BY <1>1, <1>2, <1>3, <1>4, <1>5, <1>6, <1>7, <1>8, <1>9 DEF MainStep

\* The user.
LEMMA UserType ==
  ASSUME TypeOK, NEW a \in Apps, UserStep(a)
  PROVE  RestOK'
<1>1. CASE OpenLists(a)
  BY <1>1 DEF OpenLists, told, TypeOK, RestOK
<1>2. CASE Quit(a)
  <2>1. exits' \in Nat /\ "closed" \in Closed
    BY <1>2 DEF Quit, Exit, TypeOK, Closed
  <2> QED BY <1>2, <2>1, ResetType DEF Quit, told
<1>3. CASE AddNewList(a)
  <2>1. author' \in [Lists -> Users \cup {Absent}] /\ writes' \in Nat
    BY <1>3 DEF AddNewList, Send, OneMoreWrite, TypeOK
  <2> QED BY <1>3, <2>1 DEF AddNewList, app, told, TypeOK, RestOK
<1>4. CASE AcceptInvitation(a)
  <2>1. writes' \in Nat
    BY <1>4 DEF AcceptInvitation, Send, OneMoreWrite, TypeOK
  <2> QED BY <1>4, <2>1 DEF AcceptInvitation, app, told, TypeOK, RestOK
<1>5. CASE RemoveList(a)
  <2>1. writes' \in Nat
    BY <1>5 DEF RemoveList, OneMoreWrite, TypeOK
  <2> QED BY <1>5, <2>1 DEF RemoveList, app, told, TypeOK, RestOK
<1>6. CASE SelectNoList(a)
  <2>1. exits' \in Nat /\ "nolist" \in Closed
    BY <1>6 DEF SelectNoList, bounds, TypeOK, Closed
  <2> QED BY <1>6, <2>1, ResetType DEF SelectNoList, told, bounds
<1> QED BY <1>1, <1>2, <1>3, <1>4, <1>5, <1>6 DEF UserStep

\* Every step keeps the types.
LEMMA StepType == TypeOK /\ [Next]_vars => TypeOK'
<1> SUFFICES ASSUME TypeOK, [Next]_vars PROVE TypeOK'
  OBVIOUS
<1>1. up' \in [Apps -> Seq(Requests)] /\ events' \in [Apps -> Seq(Events)]
  BY StepQueues, QueuesType
<1>2. RestOK'
  <2>1. CASE UNCHANGED vars
    BY <2>1 DEF vars, sdk, app, told, bounds, TypeOK, RestOK
  <2> QED BY <2>1, ServerType, MainType, UserType DEF Next
<1> QED BY <1>1, <1>2 DEF TypeOK, RestOK

\* Every variable keeps its kind of value, for any users, apps, lists and bounds.
THEOREM TypeCorrect == Spec => []TypeOK
<1>1. Init => TypeOK
  BY InitType
<1>2. TypeOK /\ [Next]_vars => TypeOK'
  BY StepType
<1> QED BY <1>1, <1>2, PTL DEF Spec
-----------------------------------------------------------------------------
(***************************************************************************)
(* The tree of the server changes with a write that it takes, and with     *)
(* nothing else.                                                           *)
(***************************************************************************)
LEMMA ServerChanges ==
  ASSUME [Next]_vars
  PROVE  server' = server \/ \E a \in Apps : Commit(a)
<1>1. CASE UNCHANGED vars
  BY <1>1 DEF vars
<1>2. ASSUME NEW a \in Apps, ServerStep(a) \/ Reject(a)
      PROVE  server' = server \/ Commit(a)
  BY <1>2 DEF ServerStep, AnswerKeys, AnswerListen, AnswerNode, Reject
<1>3. ASSUME NEW a \in Apps, MainStep(a) \/ TimeoutGuardFired(a)
      PROVE  server' = server
  BY <1>3 DEF MainStep, LoadNoLists, LoadLists, ListLoaded, ListsKeysChildAdded, ListRead,
     ListsKeysChildRemoved, RemoveListUsersRead, NoSuchList, TimeoutGuardFired
<1>4. ASSUME NEW a \in Apps, UserStep(a)
      PROVE  server' = server
  BY <1>4 DEF UserStep, OpenLists, Quit, AddNewList, AcceptInvitation, RemoveList, SelectNoList
<1> QED BY <1>1, <1>2, <1>3, <1>4 DEF Next

\* Whatever one write does, it does to the three places that must agree.
LEMMA ApplyConnects ==
  ASSUME TypeOK, ListsAreConnected, NEW w \in Writes, server' = Apply(w, server)
  PROVE  ListsAreConnected'
<1>1. /\ w.op \in WriteOps /\ w.id \in Lists /\ w.users \in SUBSET Users
      /\ w.users # Absent
      /\ server.keys \in [Users -> SUBSET Lists] /\ server.lists \in [Lists -> Slot]
      /\ server.tables \in SUBSET Lists
  BY AbsentIsNothing DEF Writes, TypeOK, Tree
<1>2. ASSUME NEW l \in Lists, server'.lists[l] # Absent, NEW u \in server'.lists[l]
      PROVE  l \in server'.keys[u]
  <2>1. server.lists[l] # Absent /\ u \in server.lists[l] => u \in Users /\ l \in server.keys[u]
    BY <1>1 DEF ListsAreConnected, Slot
  <2>2. CASE w.op = "add"
    <3>1. /\ server'.lists = [server.lists EXCEPT ![w.id] = w.users]
          /\ \A v \in Users : server'.keys[v] = IF v \in w.users THEN server.keys[v] \cup {w.id}
                                                ELSE server.keys[v]
      BY <2>2 DEF Apply
    <3> QED BY <1>1, <1>2, <2>1, <3>1
  <2>3. CASE w.op = "join"
    <3>1. /\ server'.lists = server.lists
          /\ \A v \in Users : server'.keys[v] = IF v \in w.users THEN server.keys[v] \cup {w.id}
                                                ELSE server.keys[v]
      BY <2>3 DEF Apply
    <3> QED BY <1>1, <1>2, <2>1, <3>1
  <2>4. CASE w.op = "remove"
    <3>1. /\ server'.lists = [server.lists EXCEPT ![w.id] = Absent]
          /\ \A v \in Users : server'.keys[v] = IF v \in w.users THEN server.keys[v] \ {w.id}
                                                ELSE server.keys[v]
      BY <2>4 DEF Apply
    <3>2. l # w.id /\ server'.lists[l] = server.lists[l]
      BY <1>1, <1>2, <3>1
    <3> QED BY <1>1, <1>2, <2>1, <3>1, <3>2
  <2> QED BY <1>1, <2>2, <2>3, <2>4 DEF WriteOps
<1>3. server'.tables = {l \in Lists : server'.lists[l] # Absent}
  <2>1. server.tables = {l \in Lists : server.lists[l] # Absent}
    BY DEF ListsAreConnected
  <2>2. CASE w.op = "add"
    <3>1. /\ server'.lists = [server.lists EXCEPT ![w.id] = w.users]
          /\ server'.tables = server.tables \cup {w.id}
      BY <2>2 DEF Apply
    <3> QED BY <1>1, <2>1, <3>1
  <2>3. CASE w.op = "join"
    <3>1. server'.lists = server.lists /\ server'.tables = server.tables
      BY <2>3 DEF Apply
    <3> QED BY <2>1, <3>1
  <2>4. CASE w.op = "remove"
    <3>1. /\ server'.lists = [server.lists EXCEPT ![w.id] = Absent]
          /\ server'.tables = server.tables \ {w.id}
      BY <2>4 DEF Apply
    <3> QED BY <1>1, <2>1, <3>1
  <2> QED BY <1>1, <2>2, <2>3, <2>4 DEF WriteOps
<1> QED BY <1>2, <1>3 DEF ListsAreConnected

\* The users of a list, its items table and its users' keys agree on the server in
\* every state, whatever is removed, refused, lost or done by several devices at a time.
THEOREM ListsStayConnected == Spec => []ListsAreConnected
<1>1. Init => ListsAreConnected
  <2> SUFFICES ASSUME Init PROVE ListsAreConnected
    OBVIOUS
  <2>1. \A l \in Lists : author[l] # Absent =>
           author[l] \in Users /\ {author[l]} \in SUBSET Users /\ {author[l]} # Absent
    BY AbsentIsNothing DEF Init
  <2> QED BY <2>1 DEF Init, ListsAreConnected
<1>2. TypeOK /\ ListsAreConnected /\ [Next]_vars => ListsAreConnected'
  <2> SUFFICES ASSUME TypeOK, ListsAreConnected, [Next]_vars PROVE ListsAreConnected'
    OBVIOUS
  <2>1. CASE server' = server
    BY <2>1 DEF ListsAreConnected
  <2>2. ASSUME NEW a \in Apps, Commit(a) PROVE ListsAreConnected'
    <3>1. Head(up[a]) \in Writes /\ server' = Apply(Head(up[a]), server)
      BY <2>2, OldestRequest DEF Commit
    <3> QED BY <3>1, ApplyConnects
  <2> QED BY <2>1, <2>2, ServerChanges
<1> QED BY <1>1, <1>2, TypeCorrect, PTL DEF Spec
-----------------------------------------------------------------------------
(***************************************************************************)
(* A list is added by the one user who generated its id, and its add is    *)
(* sent once: this is what keeps removed lists away.                       *)
(***************************************************************************)
AddsAreOwn == \A a \in Apps : \A r \in Entries(up[a]) :
    r.op = "add" => author[r.id] # Absent /\ r = AddOf(r.id, author[r.id])

\* An id keeps its author.
LEMMA AuthorKept ==
  ASSUME TypeOK, [Next]_vars
  PROVE  \A l \in Lists : author[l] # Absent => author'[l] = author[l]
<1>1. CASE UNCHANGED vars
  BY <1>1 DEF vars
<1>2. ASSUME NEW a \in Apps, ServerStep(a) \/ Reject(a) \/ MainStep(a) \/ TimeoutGuardFired(a)
      PROVE  author' = author
  BY <1>2 DEF ServerStep, AnswerKeys, AnswerListen, AnswerNode, Commit, Reject, MainStep,
     LoadNoLists, LoadLists, ListLoaded, ListsKeysChildAdded, ListRead, ListsKeysChildRemoved,
     RemoveListUsersRead, NoSuchList, TimeoutGuardFired
<1>3. ASSUME NEW a \in Apps, UserStep(a)
      PROVE  \A l \in Lists : author[l] # Absent => author'[l] = author[l]
  <2>1. CASE AddNewList(a)
    BY <2>1 DEF AddNewList, TypeOK
  <2> QED BY <1>3, <2>1 DEF UserStep, OpenLists, Quit, AcceptInvitation, RemoveList, SelectNoList
<1> QED BY <1>1, <1>2, <1>3 DEF Next

\* The entries of a queue after a step.
LEMMA EntriesStep ==
  ASSUME TypeOK, [Next]_vars, NEW b \in Apps
  PROVE  /\ Entries(up'[b]) \subseteq Entries(up[b]) \cup Fresh(b)
         /\ Entries(events'[b]) \subseteq Entries(events[b]) \cup Told(b)
<1>1. ASSUME NEW A, NEW q \in Seq(A) PROVE Entries(q) \subseteq A
  BY DEF Entries
<1>2. UpStep(b) /\ EventsStep(b)
  BY StepQueues DEF QueuesStep
<1> QED BY <1>1, <1>2 DEF UpStep, EventsStep

\* A step keeps every pending add the author's own.
LEMMA AddsStep == TypeOK /\ AddsAreOwn /\ [Next]_vars => AddsAreOwn'
<1> SUFFICES ASSUME TypeOK, AddsAreOwn, [Next]_vars,
                    NEW a \in Apps, NEW r \in Entries(up'[a]), r.op = "add"
             PROVE  author'[r.id] # Absent /\ r = AddOf(r.id, author'[r.id])
  BY DEF AddsAreOwn, Entries
<1>1. owner[a] \in Users /\ owner[a] # Absent
  BY AbsentIsNothing DEF TypeOK
<1>2. CASE r \in Entries(up[a])
  <2>1. author[r.id] # Absent /\ r = AddOf(r.id, author[r.id])
    BY <1>2 DEF AddsAreOwn
  <2>2. r \in Writes
    <3>1. r \in Requests
      BY <1>2 DEF Entries, TypeOK
    <3> QED BY <3>1 DEF Requests, Writes, WriteOps, NodeOps
  <2>3. r.id \in Lists
    BY <2>2 DEF Writes
  <2> QED BY <2>1, <2>3, AuthorKept
<1>3. CASE r \in Fresh(a)
  <2>1. PICK l \in Lists : r = AddOf(l, owner[a]) /\ author'[l] = owner[a]
    BY <1>3 DEF Fresh, JoinOf
  <2>2. r.id = l
    BY <2>1 DEF AddOf
  <2> QED BY <1>1, <2>1, <2>2
<1> QED BY <1>2, <1>3, EntriesStep

\* No id that was removed, refused or lost is a list again, for any users, devices
\* and bounds: the only write that makes a list is its add, and that was sent once.
THEOREM RemovedForGood == Spec => ListRemovedForGood
<1>1. Init => AddsAreOwn
  BY DEF Init, AddsAreOwn, Entries
<1>2. Spec => []AddsAreOwn
  BY <1>1, AddsStep, TypeCorrect, PTL DEF Spec
<1> DEFINE Stays == \A l \in Lists :
          /\ author[l] # Absent /\ server.lists[l] = Absent
          /\ \A a \in Apps : \A k \in DOMAIN up[a] : up[a][k] # AddOf(l, author[l])
          => server'.lists[l] = Absent
<1>3. TypeOK /\ AddsAreOwn /\ [Next]_vars => Stays
  <2> SUFFICES ASSUME TypeOK, AddsAreOwn, [Next]_vars, NEW l \in Lists,
                      author[l] # Absent, server.lists[l] = Absent,
                      \A a \in Apps : \A k \in DOMAIN up[a] : up[a][k] # AddOf(l, author[l])
               PROVE  server'.lists[l] = Absent
    OBVIOUS
  <2>1. CASE server' = server
    BY <2>1
  <2>2. ASSUME NEW a \in Apps, Commit(a) PROVE server'.lists[l] = Absent
    <3> DEFINE w == Head(up[a])
    <3>1. w \in Writes /\ w \in Entries(up[a]) /\ server' = Apply(w, server)
      BY <2>2, OldestRequest DEF Commit, Entries
    <3>2. ~(w.op = "add" /\ w.id = l)
      <4> HIDE DEF w
      <4> QED BY <3>1 DEF AddsAreOwn, Entries
    <3>3. server.lists \in [Lists -> Slot] /\ w.op \in WriteOps /\ w.id \in Lists
      BY <3>1 DEF TypeOK, Tree, Writes
    <3> HIDE DEF w
    <3>4. CASE w.op = "add"
      <4>1. server'.lists = [server.lists EXCEPT ![w.id] = w.users]
        BY <3>1, <3>4 DEF Apply
      <4> QED BY <3>2, <3>3, <3>4, <4>1
    <3>5. CASE w.op = "join"
      BY <3>1, <3>5 DEF Apply
    <3>6. CASE w.op = "remove"
      <4>1. server'.lists = [server.lists EXCEPT ![w.id] = Absent]
        BY <3>1, <3>6 DEF Apply
      <4> QED BY <3>3, <4>1
    <3> QED BY <3>3, <3>4, <3>5, <3>6 DEF WriteOps
  <2> QED BY <2>1, <2>2, ServerChanges
<1>4. TypeOK /\ AddsAreOwn /\ [Next]_vars => [Stays]_vars
  BY <1>3
<1> QED BY <1>2, <1>4, TypeCorrect, PTL DEF Spec, ListRemovedForGood
-----------------------------------------------------------------------------
(***************************************************************************)
(* As long as nothing removes a list and no write is refused, what an app  *)
(* sends is the add of a new list or a join of one the server has.         *)
(***************************************************************************)
OnlyNew == \A a \in Apps :
    /\ \A r \in Entries(up[a]) :
          /\ r.op \notin {"users", "remove"}
          /\ r.op = "join" => r.id \in heard
          /\ r.op \in {"add", "join"} => \E u \in Users : r.users = {u}
    /\ \A e \in Entries(events[a]) : e.type # "users"

\* A list that was taken is there, and somebody has its key.
HeardIsThere == \A l \in heard :
    server.lists[l] # Absent /\ \E u \in Users : l \in server.keys[u]

\* The lists that the server has taken only become more.
LEMMA HeardGrows ==
  ASSUME [Next]_vars
  PROVE  heard \subseteq heard'
<1>1. CASE UNCHANGED vars
  BY <1>1 DEF vars, told
<1>2. ASSUME NEW a \in Apps, ServerStep(a) \/ Reject(a)
      PROVE  heard \subseteq heard'
  BY <1>2 DEF ServerStep, AnswerKeys, AnswerListen, AnswerNode, Commit, Reject, told
<1>3. ASSUME NEW a \in Apps, MainStep(a) \/ TimeoutGuardFired(a)
      PROVE  heard' = heard
  BY <1>3 DEF MainStep, LoadNoLists, LoadLists, ListLoaded, ListsKeysChildAdded, ListRead,
     ListsKeysChildRemoved, RemoveListUsersRead, NoSuchList, TimeoutGuardFired, told
<1>4. ASSUME NEW a \in Apps, UserStep(a)
      PROVE  heard' = heard
  BY <1>4 DEF UserStep, OpenLists, Quit, AddNewList, AcceptInvitation, RemoveList,
     SelectNoList, told
<1> QED BY <1>1, <1>2, <1>3, <1>4 DEF Next

\* A step sends nothing else.
LEMMA OnlyNewStep ==
  ASSUME ~Removal, TypeOK, OnlyNew, [Next]_vars
  PROVE  OnlyNew'
<1> SUFFICES ASSUME NEW a \in Apps
    PROVE  /\ \A r \in Entries(up'[a]) :
                 /\ r.op \notin {"users", "remove"}
                 /\ r.op = "join" => r.id \in heard'
                 /\ r.op \in {"add", "join"} => \E u \in Users : r.users = {u}
           /\ \A e \in Entries(events'[a]) : e.type # "users"
  BY DEF OnlyNew, Entries
<1>1. owner[a] \in Users /\ heard \subseteq heard'
  BY HeardGrows DEF TypeOK
<1>2. ASSUME NEW r \in Fresh(a)
      PROVE  /\ r.op \notin {"users", "remove"}
             /\ r.op = "join" => r.id \in heard'
             /\ r.op \in {"add", "join"} => \E u \in Users : r.users = {u}
  <2>1. \A e \in Entries(events[a]) : e.type # "users"
    BY DEF OnlyNew
  <2>2. \/ r.op \in {"keys", "listen", "list", "loaded", "watch"}
        \/ \E l \in Lists : r = AddOf(l, owner[a])
        \/ \E l \in heard : r = JoinOf(l, owner[a])
    BY <2>1 DEF Fresh
  <2>3. ASSUME NEW l \in Lists, r = AddOf(l, owner[a])
        PROVE  r.op = "add" /\ r.users = {owner[a]}
    BY <2>3 DEF AddOf
  <2>4. ASSUME NEW l \in heard, r = JoinOf(l, owner[a])
        PROVE  r.op = "join" /\ r.users = {owner[a]} /\ r.id \in heard
    BY <2>4 DEF JoinOf
  <2> QED BY <1>1, <2>2, <2>3, <2>4
<1>3. ASSUME NEW e \in Told(a) PROVE e.type # "users"
  BY <1>3 DEF Told, OnlyNew
<1> QED BY <1>1, <1>2, <1>3, EntriesStep DEF OnlyNew

\* What the server takes is a new member of a list: of a new one, or of one it has.
LEMMA CommitMember ==
  ASSUME TypeOK, OnlyNew, NEW a \in Apps, Commit(a)
  PROVE  \E u \in Users, l \in Lists :
            /\ \A v \in Users, m \in Lists :
                  m \in server'.keys[v] <=> m \in server.keys[v] \/ (v = u /\ m = l)
            /\ \/ l \in heard /\ server'.lists = server.lists /\ heard' = heard
               \/ /\ server'.lists = [server.lists EXCEPT ![l] = {u}]
                  /\ heard' = heard \cup {l}
<1> DEFINE w == Head(up[a])
<1>1. w \in Writes /\ w \in Entries(up[a]) /\ server' = Apply(w, server)
  BY OldestRequest DEF Commit, Entries
<1>2. heard' = IF w.op = "add" THEN heard \cup {w.id} ELSE heard
  BY DEF Commit
<1> HIDE DEF w
<1>3. /\ w.op \in {"add", "join"} /\ w.id \in Lists
      /\ w.op = "join" => w.id \in heard
  BY <1>1 DEF OnlyNew, Writes, WriteOps
<1>4. PICK u \in Users : w.users = {u}
  BY <1>1, <1>3 DEF OnlyNew
<1>5. server.keys \in [Users -> SUBSET Lists]
  BY DEF TypeOK, Tree
<1>6. \A v \in Users, m \in Lists :
         m \in server'.keys[v] <=> m \in server.keys[v] \/ (v = u /\ m = w.id)
  BY <1>1, <1>3, <1>4, <1>5 DEF Apply
<1>7. /\ w.op = "add" => server'.lists = [server.lists EXCEPT ![w.id] = {u}]
      /\ w.op = "join" => server'.lists = server.lists
  BY <1>1, <1>4 DEF Apply
<1> QED BY <1>2, <1>3, <1>6, <1>7

\* heard changes with a write of the server, taken or refused.
LEMMA HeardChanges ==
  ASSUME [Next]_vars, server' = server, \A a \in Apps : ~Commit(a) /\ ~Reject(a)
  PROVE  heard' = heard
<1>1. CASE UNCHANGED vars
  BY <1>1 DEF vars, told
<1>2. ASSUME NEW a \in Apps, AnswerKeys(a) \/ AnswerListen(a) \/ AnswerNode(a)
      PROVE  heard' = heard
  BY <1>2 DEF AnswerKeys, AnswerListen, AnswerNode, told
<1>3. ASSUME NEW a \in Apps, MainStep(a) \/ TimeoutGuardFired(a)
      PROVE  heard' = heard
  BY <1>3 DEF MainStep, LoadNoLists, LoadLists, ListLoaded, ListsKeysChildAdded, ListRead,
     ListsKeysChildRemoved, RemoveListUsersRead, NoSuchList, TimeoutGuardFired, told
<1>4. ASSUME NEW a \in Apps, UserStep(a)
      PROVE  heard' = heard
  BY <1>4 DEF UserStep, OpenLists, Quit, AddNewList, AcceptInvitation, RemoveList,
     SelectNoList, told
<1> QED BY <1>1, <1>2, <1>3, <1>4 DEF Next, ServerStep

\* Keys name lists, step by step.
LEMMA KeysStep ==
  ASSUME MaxRejects = 0, TypeOK, OnlyNew, HeardIsThere, KeysNameLists, [Next]_vars
  PROVE  HeardIsThere' /\ KeysNameLists'
<1>1. server.keys \in [Users -> SUBSET Lists] /\ server.lists \in [Lists -> Slot]
  BY DEF TypeOK, Tree
<1>2. ASSUME NEW a \in Apps, Commit(a) PROVE HeardIsThere' /\ KeysNameLists'
  <2>1. PICK u \in Users, l \in Lists :
          /\ \A v \in Users, m \in Lists :
                m \in server'.keys[v] <=> m \in server.keys[v] \/ (v = u /\ m = l)
          /\ \/ l \in heard /\ server'.lists = server.lists /\ heard' = heard
             \/ /\ server'.lists = [server.lists EXCEPT ![l] = {u}]
                /\ heard' = heard \cup {l}
    BY <1>2, CommitMember
  <2>2. {u} # Absent /\ heard \subseteq Lists
    BY AbsentIsNothing DEF TypeOK
  <2>3. \A m \in Lists : server.lists[m] # Absent => server'.lists[m] # Absent
    BY <1>1, <2>1, <2>2
  <2>4. server'.lists[l] # Absent
    BY <1>1, <2>1, <2>2 DEF HeardIsThere
  <2>5. HeardIsThere'
    BY <2>1, <2>2, <2>3, <2>4 DEF HeardIsThere
  <2>6. server'.keys \in [Users -> SUBSET Lists]
    BY <1>2, OldestRequest, ApplyType DEF Commit, TypeOK, Tree
  <2>7. KeysNameLists'
    BY <1>1, <2>1, <2>3, <2>4, <2>6 DEF KeysNameLists
  <2> QED BY <2>5, <2>7
<1>3. ASSUME NEW a \in Apps PROVE ~Reject(a)
  BY DEF Reject, TypeOK
<1>4. CASE server' = server /\ \A a \in Apps : ~Commit(a)
  <2>1. heard' = heard
    BY <1>3, <1>4, HeardChanges
  <2> QED BY <1>4, <2>1 DEF HeardIsThere, KeysNameLists
<1> QED BY <1>2, <1>4, ServerChanges

\* The three together.
Kept == OnlyNew /\ HeardIsThere /\ KeysNameLists

\* ... and so they hold in every state.
LEMMA KeptHolds ==
  ASSUME ~Removal, MaxRejects = 0
  PROVE  Spec => []Kept
<1>1. Init => Kept
  <2> SUFFICES ASSUME Init PROVE Kept
    OBVIOUS
  <2>1. OnlyNew
    BY DEF Init, OnlyNew, Entries
  <2>2. \A l \in Lists : author[l] # Absent => author[l] \in Users /\ {author[l]} # Absent
    BY AbsentIsNothing DEF Init
  <2>3. HeardIsThere /\ KeysNameLists
    BY <2>2, AbsentIsNothing DEF Init, HeardIsThere, KeysNameLists
  <2> QED BY <2>1, <2>3 DEF Kept
<1>2. TypeOK /\ Kept /\ [Next]_vars => Kept'
  BY OnlyNewStep, KeysStep DEF Kept
<1> QED BY <1>1, <1>2, TypeCorrect, PTL DEF Spec

\* Without removals and refusals every key of a user names a list, however many
\* devices add and join lists, and whatever is lost.
THEOREM KeysAlwaysName ==
  ASSUME ~Removal, MaxRejects = 0
  PROVE  Spec => []KeysNameLists
<1>1. Kept => KeysNameLists
  BY DEF Kept
<1> QED BY <1>1, KeptHolds, PTL

\* Under the same assumptions the keys implement ListsRegister: each write the server
\* takes creates a list with its maker or lets a user join one that has members, and
\* every other step changes nothing.
THEOREM RegisterImplemented ==
  ASSUME ~Removal, MaxRejects = 0
  PROVE  Spec => SharesOneRegister
<1> DEFINE members == [l \in Lists |-> {u \in Users : l \in server.keys[u]}]
<1>1. Init => Register!RegisterInit
  BY DEF Init, Register!RegisterInit
<1>2. TypeOK /\ Kept /\ [Next]_vars => [Register!RegisterNext]_members
  <2> SUFFICES ASSUME TypeOK, Kept, [Next]_vars
               PROVE  members' = members \/ Register!RegisterNext
    OBVIOUS
  <2>1. CASE server' = server
    BY <2>1
  <2>2. ASSUME NEW a \in Apps, Commit(a) PROVE Register!RegisterNext
    <3>1. PICK u \in Users, l \in Lists :
            /\ \A v \in Users, m \in Lists :
                  m \in server'.keys[v] <=> m \in server.keys[v] \/ (v = u /\ m = l)
            /\ \/ l \in heard /\ server'.lists = server.lists /\ heard' = heard
               \/ /\ server'.lists = [server.lists EXCEPT ![l] = {u}]
                  /\ heard' = heard \cup {l}
      BY <2>2, CommitMember DEF Kept
    <3>2. members' = [members EXCEPT ![l] = @ \cup {u}]
      <4>1. ASSUME NEW m \in Lists
            PROVE  {v \in Users : m \in server'.keys[v]} =
                      IF m = l THEN {v \in Users : m \in server.keys[v]} \cup {u}
                               ELSE {v \in Users : m \in server.keys[v]}
        BY <3>1
      <4>2. members' = [m \in Lists |-> {v \in Users : m \in server'.keys[v]}]
        OBVIOUS
      <4> QED BY <4>1, <4>2
    <3>3. CASE members[l] = {}
      <4>1. members' = [members EXCEPT ![l] = {u}]
        BY <3>2, <3>3
      <4> QED BY <3>3, <4>1 DEF Register!RegisterNext, Register!CreateList
    <3>4. CASE members[l] # {}
      BY <3>2, <3>4 DEF Register!RegisterNext, Register!JoinList
    <3> QED BY <3>3, <3>4
  <2> QED BY <2>1, <2>2, ServerChanges
<1> QED BY <1>1, <1>2, KeptHolds, TypeCorrect, PTL
        DEF Spec, SharesOneRegister, Register!RegisterSpec

-----------------------------------------------------------------------------
(***************************************************************************)
(* Tallies.  A request of X becomes a callback of Y when it is answered:   *)
(* the two are counted together, and each step adds to the tally or takes  *)
(* from it.                                                                *)
(***************************************************************************)
Tally(b, X, Y) == HowMany(up[b], X) + HowMany(events[b], Y)
One(x, X)      == IF x \in X THEN 1 ELSE 0

KeysEvent(S) == [type |-> "keys", ids |-> S]

Paired(X, Y) ==
    /\ \A o \in NodeOps \ {"watch"}, l \in Lists, n \in Slot :
          Node(o, l) \in X <=> NodeEvent(o, l, n) \in Y
    /\ \A S \in SUBSET Lists : Keys \in X <=> KeysEvent(S) \in Y
    /\ \A l \in Lists : Node("watch", l) \notin X
    /\ \A w \in Writes : w \notin X

\* A request and a callback, from their fields.
LEMMA RequestForms ==
  ASSUME NEW r \in Requests
  PROVE  /\ r.op \in NodeOps => r = Node(r.op, r.id) /\ r.id \in Lists
         /\ r.op = "keys" => r = Keys
         /\ r.op = "listen" => r = Listen
         /\ r.op \in WriteOps => r \in Writes
<1>1. CASE r \in [op : {"keys", "listen"}]
  BY <1>1 DEF NodeOps, WriteOps, Keys, Listen
<1>2. CASE r \in [op : NodeOps, id : Lists]
  BY <1>2 DEF NodeOps, WriteOps, Node
<1>3. CASE r \in Writes
  BY <1>3 DEF NodeOps, WriteOps, Writes
<1> QED BY <1>1, <1>2, <1>3 DEF Requests

\* An event is determined by its type and what it carries.
LEMMA EventForms ==
  ASSUME NEW e \in Events
  PROVE  /\ e.type \in NodeOps => /\ e = NodeEvent(e.type, e.id, e.node)
                                  /\ e.id \in Lists /\ e.node \in Slot
         /\ e.type \in {"added", "removed"} => e = KeyEvent(e.type, e.id) /\ e.id \in Lists
         /\ e.type = "keys" => e = KeysEvent(e.ids) /\ e.ids \in SUBSET Lists
<1>1. CASE e \in [type : {"keys"}, ids : SUBSET Lists]
  BY <1>1 DEF NodeOps, KeysEvent
<1>2. CASE e \in [type : {"added", "removed"}, id : Lists]
  BY <1>2 DEF NodeOps, KeyEvent
<1>3. CASE e \in [type : NodeOps, id : Lists, node : Slot]
  BY <1>3 DEF NodeOps, NodeEvent
<1> QED BY <1>1, <1>2, <1>3 DEF Events

\* Counting what joins and leaves a queue.
LEMMA Counting ==
  ASSUME NEW A, NEW q \in Seq(A), NEW X
  PROVE  /\ HowMany(q, X) \in Nat
         /\ q # <<>> => /\ Head(q) \in A /\ Tail(q) \in Seq(A)
                        /\ HowMany(q, X) = HowMany(Tail(q), X) + One(Head(q), X)
         /\ \A x \in A : /\ Append(q, x) \in Seq(A)
                         /\ HowMany(Append(q, x), X) = HowMany(q, X) + One(x, X)
<1>1. HowMany(q, X) \in Nat
  BY HowManyType
<1>2. q # <<>> => HowMany(q, X) = HowMany(Tail(q), X) + One(Head(q), X)
  BY HowManyTail DEF One
<1>3. ASSUME NEW x \in A PROVE HowMany(Append(q, x), X) = HowMany(q, X) + One(x, X)
  BY HowManyAppend DEF One
<1> QED BY <1>1, <1>2, <1>3

\* Counting in two queues joined.
LEMMA CountingMore ==
  ASSUME NEW A, NEW q \in Seq(A), NEW s \in Seq(A), NEW X
  PROVE  q \o s \in Seq(A) /\ HowMany(q \o s, X) = HowMany(q, X) + HowMany(s, X)
BY HowManyJoined

\* An empty queue holds nothing to count.
LEMMA Uncounted == ASSUME NEW X PROVE HowMany(<<>>, X) = 0
BY FS_EmptySet DEF HowMany, Places

\* The two queues of an app, and their tally.
LEMMA QueuesOf ==
  ASSUME TypeOK, NEW b \in Apps
  PROVE  /\ up[b] \in Seq(Requests) /\ events[b] \in Seq(Events)
         /\ \A X, Y : Tally(b, X, Y) \in Nat /\ HowMany(up[b], X) \in Nat
                                             /\ HowMany(events[b], Y) \in Nat
<1>1. up[b] \in Seq(Requests) /\ events[b] \in Seq(Events)
  BY DEF TypeOK
<1>2. ASSUME NEW X, NEW Y PROVE HowMany(up[b], X) \in Nat /\ HowMany(events[b], Y) \in Nat
  BY <1>1, HowManyType
<1> QED BY <1>1, <1>2 DEF Tally

\* What is told of the keys' listener when a write is sent, taken or refused.
LEMMA RaisedCount ==
  ASSUME TypeOK, NEW b \in Apps, NEW s, NEW q, NEW l \in Lists, NEW Y
  PROVE  /\ Raised(b, s, q, l) \in Seq(Events)
         /\ listener[b] # "on" => Raised(b, s, q, l) = <<>>
         /\ HowMany(Raised(b, s, q, l), Y) =
              IF listener[b] = "on" /\ l \in KeysOf(s, q, owner[b])
                                    /\ l \notin KeysOf(server, up[b], owner[b])
                THEN One(KeyEvent("added", l), Y)
              ELSE IF listener[b] = "on" /\ l \notin KeysOf(s, q, owner[b])
                                         /\ l \in KeysOf(server, up[b], owner[b])
                THEN One(KeyEvent("removed", l), Y)
              ELSE 0
<1> DEFINE a == KeyEvent("added", l)
           r == KeyEvent("removed", l)
           old == listener[b] = "on" /\ l \in KeysOf(server, up[b], owner[b])
           new == listener[b] = "on" /\ l \in KeysOf(s, q, owner[b])
<1>1. a \in Events /\ r \in Events
  BY DEF KeyEvent, Events
<1>2. Raised(b, s, q, l) = IF new /\ ~old THEN <<a>> ELSE IF old /\ ~new THEN <<r>> ELSE <<>>
  BY DEF Raised, KeysSeen
<1>3. /\ <<a>> \in Seq(Events) /\ HowMany(<<a>>, Y) = One(a, Y)
      /\ <<r>> \in Seq(Events) /\ HowMany(<<r>>, Y) = One(r, Y)
      /\ <<>> \in Seq(Events)
  <2> HIDE DEF a, r
  <2> QED BY <1>1, HowManyOne DEF One
<1>4. HowMany(<<>>, Y) = 0
  BY Uncounted
<1> HIDE DEF a, r
<1> QED BY <1>2, <1>3, <1>4 DEF a, r

-----------------------------------------------------------------------------
(***************************************************************************)
(* What each step does to a tally of its app.                              *)
(***************************************************************************)
LEMMA QueuesNext ==
  ASSUME TypeOK', NEW b \in Apps
  PROVE  /\ up'[b] \in Seq(Requests) /\ events'[b] \in Seq(Events)
         /\ \A X, Y : Tally(b, X, Y)' \in Nat
<1>1. up'[b] \in Seq(Requests) /\ events'[b] \in Seq(Events)
  BY DEF TypeOK
<1>2. ASSUME NEW X, NEW Y PROVE HowMany(up'[b], X) \in Nat /\ HowMany(events'[b], Y) \in Nat
  BY <1>1, HowManyType
<1> QED BY <1>1, <1>2 DEF Tally

\* Nothing joins a queue, or one entry.
LEMMA Joining ==
  ASSUME NEW A, NEW q \in Seq(A), NEW X
  PROVE  /\ <<>> \in Seq(A) /\ q = q \o <<>> /\ HowMany(<<>>, X) = 0
         /\ \A x \in A : /\ <<x>> \in Seq(A) /\ Append(q, x) = q \o <<x>>
                         /\ HowMany(<<x>>, X) = One(x, X)
<1>1. <<>> \in Seq(A) /\ q = q \o <<>>
  OBVIOUS
<1>2. HowMany(<<>>, X) = 0
  BY Uncounted
<1>3. ASSUME NEW x \in A
      PROVE  <<x>> \in Seq(A) /\ Append(q, x) = q \o <<x>> /\ HowMany(<<x>>, X) = One(x, X)
  BY HowManyOne, AppendIsConcat DEF One
<1> QED BY <1>1, <1>2, <1>3

\* Requests r and callbacks s join; the oldest callback may be handled before, or the
\* oldest request taken.
Joins(b, r, s) == /\ r \in Seq(Requests) /\ up'[b] = up[b] \o r
                  /\ s \in Seq(Events) /\ events'[b] = events[b] \o s

HandledJoins(b, r, s) == /\ r \in Seq(Requests) /\ up'[b] = up[b] \o r
                         /\ s \in Seq(Events) /\ events'[b] = Tail(events[b]) \o s
                         /\ events[b] # <<>>

\* The tally when requests and callbacks only join the queues, ...
LEMMA TallyJoined ==
  ASSUME TypeOK, NEW a \in Apps, NEW X, NEW Y, NEW s, NEW r, Joins(a, r, s)
  PROVE  Tally(a, X, Y)' = Tally(a, X, Y) + HowMany(r, X) + HowMany(s, Y)
<1>1. /\ up[a] \in Seq(Requests) /\ events[a] \in Seq(Events)
      /\ r \in Seq(Requests) /\ up'[a] = up[a] \o r
      /\ s \in Seq(Events) /\ events'[a] = events[a] \o s
  BY DEF TypeOK, Joins
<1>2. /\ HowMany(up[a], X) \in Nat /\ HowMany(events[a], Y) \in Nat
      /\ HowMany(r, X) \in Nat /\ HowMany(s, Y) \in Nat
  BY <1>1, HowManyType
<1>3. /\ HowMany(up'[a], X) = HowMany(up[a], X) + HowMany(r, X)
      /\ HowMany(events'[a], Y) = HowMany(events[a], Y) + HowMany(s, Y)
  BY <1>1, CountingMore
<1> QED BY <1>2, <1>3 DEF Tally

\* ... when the oldest callback is handled, ...
LEMMA TallyHandled ==
  ASSUME TypeOK, NEW a \in Apps, NEW X, NEW Y, NEW s, NEW r, HandledJoins(a, r, s)
  PROVE  Tally(a, X, Y)' + One(Head(events[a]), Y)
           = Tally(a, X, Y) + HowMany(r, X) + HowMany(s, Y)
<1> DEFINE t == Tail(events[a])
<1>1. /\ up[a] \in Seq(Requests) /\ events[a] \in Seq(Events) /\ events[a] # <<>>
      /\ r \in Seq(Requests) /\ up'[a] = up[a] \o r /\ s \in Seq(Events)
  BY DEF TypeOK, HandledJoins
<1>2. t \in Seq(Events) /\ HowMany(events[a], Y) = HowMany(t, Y) + One(Head(events[a]), Y)
  BY <1>1, Counting
<1>3. events'[a] = t \o s
  BY DEF HandledJoins
<1> HIDE DEF t
<1>4. /\ HowMany(up[a], X) \in Nat /\ HowMany(t, Y) \in Nat
      /\ HowMany(r, X) \in Nat /\ HowMany(s, Y) \in Nat
  BY <1>1, <1>2, HowManyType
<1>5. HowMany(up'[a], X) = HowMany(up[a], X) + HowMany(r, X)
  BY <1>1, CountingMore
<1>6. HowMany(events'[a], Y) = HowMany(t, Y) + HowMany(s, Y)
  <2>1. HowMany(t \o s, Y) = HowMany(t, Y) + HowMany(s, Y)
    BY <1>1, <1>2, CountingMore
  <2> QED BY <1>3, <2>1
<1>7. One(Head(events[a]), Y) \in Nat
  BY DEF One
<1> QED BY <1>2, <1>4, <1>5, <1>6, <1>7 DEF Tally

\* ... and when the server takes the oldest request.
LEMMA TallyTaken ==
  ASSUME TypeOK, NEW a \in Apps, NEW X, NEW Y, NEW s \in Seq(Events),
         up[a] # <<>>, up'[a] = Tail(up[a]), events'[a] = events[a] \o s
  PROVE  Tally(a, X, Y)' + One(Head(up[a]), X) = Tally(a, X, Y) + HowMany(s, Y)
<1> DEFINE t == Tail(up[a])
<1>1. up[a] \in Seq(Requests) /\ events[a] \in Seq(Events)
  BY DEF TypeOK
<1>2. t \in Seq(Requests) /\ HowMany(up[a], X) = HowMany(t, X) + One(Head(up[a]), X)
  BY <1>1, Counting
<1> HIDE DEF t
<1>3. /\ HowMany(t, X) \in Nat /\ HowMany(events[a], Y) \in Nat /\ HowMany(s, Y) \in Nat
  BY <1>1, <1>2, HowManyType
<1>4. HowMany(events'[a], Y) = HowMany(events[a], Y) + HowMany(s, Y)
  BY <1>1, CountingMore
<1>5. One(Head(up[a]), X) \in Nat /\ up'[a] = t
  BY DEF One, t
<1> QED BY <1>2, <1>3, <1>4, <1>5 DEF Tally

\* A request for the keys is answered with one callback.
LEMMA TallyAnswerKeys ==
  ASSUME TypeOK, TypeOK', NEW a \in Apps, AnswerKeys(a), NEW X, NEW Y, Paired(X, Y)
  PROVE  Tally(a, X, Y)' = Tally(a, X, Y)
<1> DEFINE K == KeysOf(server, up'[a], owner[a])
           e == KeysEvent(K)
<1>1. up[a] # <<>> /\ Head(up[a]).op = "keys" /\ up'[a] = Tail(up[a])
  BY DEF AnswerKeys, Oldest, Answered, TypeOK
<1>2. Head(up[a]) = Keys
  BY <1>1, OldestRequest, RequestForms
<1>3. K \in SUBSET Lists /\ e \in Events
  BY DEF KeysOf, KeysEvent, Events
<1>4. One(Head(up[a]), X) = One(e, Y)
  BY <1>2, <1>3 DEF Paired, One
<1>5. events'[a] = Append(events[a], e) /\ events[a] \in Seq(Events)
  BY DEF AnswerKeys, TypeOK, KeysEvent
<1> HIDE DEF e, K
<1>6. <<e>> \in Seq(Events) /\ HowMany(<<e>>, Y) = One(e, Y) /\ events'[a] = events[a] \o <<e>>
  BY <1>3, <1>5, Joining
<1> DEFINE s == <<e>>
<1> HIDE DEF s
<1>7. s \in Seq(Events) /\ events'[a] = events[a] \o s /\ HowMany(s, Y) = One(e, Y)
  BY <1>6 DEF s
<1>8. Tally(a, X, Y)' + One(Head(up[a]), X) = Tally(a, X, Y) + HowMany(s, Y)
  BY <1>1, <1>7, TallyTaken
<1>9. Tally(a, X, Y) \in Nat /\ Tally(a, X, Y)' \in Nat /\ One(e, Y) \in Nat
  BY QueuesOf, QueuesNext DEF One
<1> QED BY <1>4, <1>7, <1>8, <1>9

\* The listener goes live: every key there is is announced.
LEMMA TallyAnswerListen ==
  ASSUME TypeOK, TypeOK', NEW a \in Apps, AnswerListen(a), NEW X, NEW Y, NEW Z \in SUBSET Lists,
         \A l \in Lists : KeyEvent("added", l) \in Y <=> l \in Z
  PROVE  Tally(a, X, Y)' + One(Listen, X)
           = Tally(a, X, Y) + Cardinality(KeysOf(server, up'[a], owner[a]) \cap Z)
<1> DEFINE K == KeysOf(server, up'[a], owner[a])
<1>1. up[a] # <<>> /\ Head(up[a]).op = "listen" /\ up'[a] = Tail(up[a])
  BY DEF AnswerListen, Oldest, Answered, TypeOK
<1>2. Head(up[a]) = Listen
  BY <1>1, OldestRequest, RequestForms
<1>3. K \in SUBSET Lists /\ IsFiniteSet(K)
  BY ListsFinite, FS_Subset DEF KeysOf
<1>4. PICK order \in SetToSeqs(K) :
         events' = [events EXCEPT ![a] = @ \o [k \in DOMAIN order |-> KeyEvent("added", order[k])]]
  BY DEF AnswerListen
<1> DEFINE s == [k \in DOMAIN order |-> KeyEvent("added", order[k])]
<1> HIDE DEF K
<1>5. order \in Seq(K) /\ DOMAIN order = 1 .. Len(order)
  BY <1>3, OrderLists
<1>6. \A k \in DOMAIN order : order[k] \in K /\ order[k] \in Lists
  BY <1>3, <1>5
<1>7. s \in Seq(Events)
  <2>1. \A k \in DOMAIN order : KeyEvent("added", order[k]) \in Events
    BY <1>6 DEF KeyEvent, Events
  <2>2. Len(order) \in Nat
    BY <1>5
  <2> QED BY <1>5, <2>1, <2>2
<1>8. \A k \in DOMAIN order : s[k] \in Y <=> order[k] \in K \cap Z
  BY <1>6
<1>9. DOMAIN s = DOMAIN order /\ events'[a] = events[a] \o s
  BY <1>4 DEF TypeOK
<1> HIDE DEF s
<1>10. HowMany(s, Y) = Cardinality(K \cap Z)
  <2> DEFINE W == K \cap Z
  <2>1. W \in SUBSET K
    OBVIOUS
  <2> HIDE DEF W
  <2>2. \A k \in DOMAIN order : s[k] \in Y <=> order[k] \in W
    BY <1>8 DEF W
  <2>3. HowMany(s, Y) = Cardinality(W)
    BY <1>3, <1>9, <2>1, <2>2, HowManyListed
  <2> QED BY <2>3 DEF W
<1>11. s \in Seq(Events) /\ events'[a] = events[a] \o s
  BY <1>7, <1>9
<1>12. Tally(a, X, Y)' + One(Head(up[a]), X) = Tally(a, X, Y) + HowMany(s, Y)
  BY <1>1, <1>11, TallyTaken
<1> QED BY <1>2, <1>10, <1>12 DEF K

\* The node of a list arrives: every read that waits for it becomes a callback.
LEMMA TallyAnswerNode ==
  ASSUME TypeOK, TypeOK', NEW a \in Apps, AnswerNode(a), NEW X, NEW Y, Paired(X, Y)
  PROVE  Tally(a, X, Y)' = Tally(a, X, Y)
<1> DEFINE l     == Head(up[a]).id
           mine  == {k \in DOMAIN up[a] : About(up[a][k], l)}
           R     == {k \in mine : up[a][k].op # "watch"}
           rest  == DOMAIN up[a] \ mine
           reads == Picked(up[a], R)
           q     == Picked(up[a], rest)
           n     == ListOf(server, q, l)
           s     == [k \in DOMAIN reads |-> NodeEvent(reads[k].op, l, n)]
<1>1. up[a] # <<>> /\ Head(up[a]).op \in NodeOps /\ up[a] \in Seq(Requests)
      /\ events[a] \in Seq(Events)
  BY DEF AnswerNode, TypeOK
<1>2. l \in Lists
  BY <1>1, OldestRequest
<1>3. up'[a] = q /\ events'[a] = events[a] \o s
  BY DEF AnswerNode, TypeOK
<1>4. R \in SUBSET DOMAIN up[a] /\ rest \in SUBSET DOMAIN up[a] /\ R \cap rest = {}
  OBVIOUS
<1>5. \A k \in DOMAIN up[a] : up[a][k] \in Requests
  BY <1>1
<1>6. \A k \in DOMAIN up[a] : up[a][k] \in X => k \in R \cup rest
  <2> SUFFICES ASSUME NEW k \in DOMAIN up[a], up[a][k] \in X, k \in mine, up[a][k].op = "watch"
               PROVE  FALSE
    OBVIOUS
  <2>1. up[a][k] = Node("watch", up[a][k].id) /\ up[a][k].id \in Lists
    BY <1>5, RequestForms DEF NodeOps
  <2> QED BY <2>1 DEF Paired
<1>7. q \in Seq(Requests) /\ reads \in Seq({up[a][k] : k \in R})
  <2> HIDE DEF R, rest
  <2> QED BY <1>1, <1>4, PickedQueue
<1>8. n \in Slot
  <2> HIDE DEF q
  <2> QED BY <1>2, <1>7, ListOfType DEF TypeOK
<1>9. \A k \in DOMAIN reads : /\ reads[k].op \in NodeOps \ {"watch"}
                              /\ reads[k] = Node(reads[k].op, l)
  <2> SUFFICES ASSUME NEW k \in DOMAIN reads
               PROVE  reads[k].op \in NodeOps \ {"watch"} /\ reads[k] = Node(reads[k].op, l)
    OBVIOUS
  <2>1. reads[k] \in {up[a][j] : j \in R}
    <3> HIDE DEF reads
    <3> QED BY <1>7
  <2>2. reads[k] \in Requests /\ reads[k].op \in NodeOps \ {"watch"} /\ reads[k].id = l
    <3> HIDE DEF reads
    <3> QED BY <2>1, <1>5 DEF About
  <2> HIDE DEF reads, l
  <2> QED BY <2>2, RequestForms
<1> HIDE DEF l, n, q, reads, rest, R, mine
<1>10. \A k \in DOMAIN reads : reads[k] \in X <=> s[k] \in Y
  BY <1>2, <1>8, <1>9 DEF Paired
<1>11. s \in Seq(Events)
  <2>1. \A k \in DOMAIN reads : NodeEvent(reads[k].op, l, n) \in Events
    BY <1>2, <1>8, <1>9 DEF NodeEvent, Events
  <2>2. DOMAIN reads = 1 .. Len(reads) /\ Len(reads) \in Nat
    BY <1>7
  <2> QED BY <2>1, <2>2
<1>12. DOMAIN s = DOMAIN reads
  OBVIOUS
<1> HIDE DEF s
<1>13. HowMany(s, Y) = HowMany(reads, X)
  BY <1>10, <1>12, HowManyAlike
<1>14. HowMany(up[a], X) = HowMany(reads, X) + HowMany(q, X)
  BY <1>1, <1>4, <1>6, HowManySplit DEF reads, q
<1>15. HowMany(events'[a], Y) = HowMany(events[a], Y) + HowMany(s, Y)
  BY <1>1, <1>3, <1>11, CountingMore
<1>16. HowMany(q, X) \in Nat /\ HowMany(s, Y) \in Nat /\ HowMany(events[a], Y) \in Nat
  BY <1>1, <1>7, <1>11, HowManyType
<1> QED BY <1>3, <1>13, <1>14, <1>15, <1>16 DEF Tally

\* A write is taken or refused by the server, or sent.
LEMMA RaisedNext ==
  ASSUME TypeOK, NEW b \in Apps, NEW s, NEW q, NEW l \in Lists
  PROVE  Raised(b, s, q, l) \in Seq(Events)
BY RaisedCount

\* The tally over each action: what is taken is counted off, what is sent or told is added.
LEMMA TallyCommit ==
  ASSUME TypeOK, TypeOK', NEW a \in Apps, Commit(a), NEW b \in Apps, NEW X, NEW Y,
         \A w \in Writes : w \notin X
  PROVE  /\ Head(up[a]) \in Writes /\ Head(up[a]).id \in Lists
         /\ Tally(b, X, Y)' =
              Tally(b, X, Y) + HowMany(Raised(b, server', up'[b], Head(up[a]).id), Y)
<1> DEFINE w == Head(up[a])
           s == Raised(b, server', up'[b], w.id)
<1>1. up[a] # <<>> /\ w.op \in WriteOps /\ up' = [up EXCEPT ![a] = Tail(@)]
      /\ server' = Apply(w, server)
  BY DEF Commit, Answered
<1>2. w \in Writes /\ w.id \in Lists
  BY <1>1, OldestRequest DEF Writes
<1>3. events'[b] = events[b] \o s
  BY <1>1 DEF Commit
<1>4. s \in Seq(Events)
  BY <1>2, RaisedNext
<1>5. One(w, X) = 0
  BY <1>2 DEF One
<1>6. HowMany(s, Y) \in Nat /\ Tally(b, X, Y) \in Nat /\ Tally(b, X, Y)' \in Nat
  BY <1>4, HowManyType, QueuesOf, QueuesNext
<1> HIDE DEF s
<1>7. CASE b = a
  <2>1. up'[b] = Tail(up[b]) /\ up[b] # <<>> /\ w = Head(up[b])
    BY <1>1, <1>7 DEF TypeOK
  <2>2. Tally(b, X, Y)' + One(Head(up[b]), X) = Tally(b, X, Y) + HowMany(s, Y)
    BY <1>3, <1>4, <2>1, TallyTaken
  <2> QED BY <1>2, <1>5, <1>6, <2>1, <2>2 DEF s
<1>8. CASE b # a
  <2> DEFINE r == <<>>
  <2>1. r \in Seq(Requests) /\ up'[b] = up[b] \o r /\ HowMany(r, X) = 0
    <3>1. up'[b] = up[b] /\ up[b] \in Seq(Requests)
      BY <1>1, <1>8 DEF TypeOK
    <3> QED BY <3>1, Joining
  <2> HIDE DEF r
  <2>2. Joins(b, r, s)
    BY <1>3, <1>4, <2>1 DEF Joins
  <2>3. Tally(b, X, Y)' = Tally(b, X, Y) + HowMany(r, X) + HowMany(s, Y)
    BY <2>2, TallyJoined
  <2> QED BY <1>2, <1>6, <2>1, <2>3 DEF s
<1> QED BY <1>7, <1>8

LEMMA TallyReject ==
  ASSUME TypeOK, TypeOK', NEW a \in Apps, Reject(a), NEW X, NEW Y, \A w \in Writes : w \notin X
  PROVE  /\ Head(up[a]) \in Writes /\ Head(up[a]).id \in Lists
         /\ Tally(a, X, Y)' =
              Tally(a, X, Y) + HowMany(Raised(a, server, up'[a], Head(up[a]).id), Y)
<1> DEFINE w == Head(up[a])
           s == Raised(a, server, up'[a], w.id)
<1>1. up[a] # <<>> /\ w.op \in WriteOps /\ up'[a] = Tail(up[a])
  BY DEF Reject, Answered, TypeOK
<1>2. w \in Writes /\ w.id \in Lists
  BY <1>1, OldestRequest DEF Writes
<1>3. events'[a] = events[a] \o s
  BY <1>1 DEF Reject, TypeOK
<1>4. s \in Seq(Events)
  BY <1>2, RaisedNext
<1>5. One(w, X) = 0
  BY <1>2 DEF One
<1>6. HowMany(s, Y) \in Nat /\ Tally(a, X, Y) \in Nat /\ Tally(a, X, Y)' \in Nat
  BY <1>4, HowManyType, QueuesOf, QueuesNext
<1> HIDE DEF s
<1>7. Tally(a, X, Y)' + One(Head(up[a]), X) = Tally(a, X, Y) + HowMany(s, Y)
  BY <1>1, <1>3, <1>4, TallyTaken
<1> QED BY <1>2, <1>5, <1>6, <1>7 DEF s

LEMMA TallySend ==
  ASSUME TypeOK, TypeOK', NEW a \in Apps, NEW w \in Writes, Send(a, w), NEW X, NEW Y,
         w \notin X
  PROVE  Tally(a, X, Y)' = Tally(a, X, Y) + HowMany(Raised(a, server, up'[a], w.id), Y)
<1> DEFINE r == <<w>>
           s == Raised(a, server, up'[a], w.id)
<1>1. w \in Requests /\ w.id \in Lists /\ up[a] \in Seq(Requests)
  BY DEF Requests, Writes, TypeOK
<1>2. up'[a] = Append(up[a], w) /\ events'[a] = events[a] \o s
  BY DEF Send, TypeOK
<1>3. s \in Seq(Events)
  BY <1>1, RaisedNext
<1>4. r \in Seq(Requests) /\ up'[a] = up[a] \o r /\ HowMany(r, X) = One(w, X)
  BY <1>1, <1>2, Joining
<1>5. HowMany(s, Y) \in Nat /\ Tally(a, X, Y) \in Nat /\ One(w, X) = 0
  BY <1>3, HowManyType, QueuesOf DEF One
<1> HIDE DEF s, r
<1>6. Joins(a, r, s)
  BY <1>2, <1>3, <1>4 DEF Joins
<1>7. Tally(a, X, Y)' = Tally(a, X, Y) + HowMany(r, X) + HowMany(s, Y)
  BY <1>6, TallyJoined
<1> QED BY <1>4, <1>5, <1>7 DEF s

LEMMA TallyUsersRead ==
  ASSUME TypeOK, TypeOK', NEW a \in Apps, RemoveListUsersRead(a), NEW X, NEW Y,
         \A w \in Writes : w \notin X
  PROVE  /\ Head(events[a]).id \in Lists
         /\ Tally(a, X, Y)' + One(Head(events[a]), Y) =
              Tally(a, X, Y) + HowMany(Raised(a, server, up'[a], Head(events[a]).id), Y)
<1> DEFINE ev == Head(events[a])
           w == RemoveOf(ev.id, ev.node)
           r == <<w>>
           s == Raised(a, server, up'[a], ev.id)
<1>1. events[a] # <<>> /\ ev.type = "users" /\ ev.node # Absent
  BY DEF RemoveListUsersRead, Next1
<1>2. ev.id \in Lists /\ ev.node \in SUBSET Users
  BY <1>1, OldestEvent DEF NodeOps, Slot
<1>3. w \in Writes /\ w \in Requests
  BY <1>2 DEF RemoveOf, Writes, WriteOps, Requests
<1>4. up'[a] = Append(up[a], w) /\ events'[a] = Tail(events[a]) \o s /\ up[a] \in Seq(Requests)
  BY DEF RemoveListUsersRead, TypeOK
<1> HIDE DEF w, ev
<1>5. s \in Seq(Events)
  BY <1>2, RaisedNext
<1>6. r \in Seq(Requests) /\ up'[a] = up[a] \o r /\ HowMany(r, X) = One(w, X)
  BY <1>3, <1>4, Joining
<1>7. HowMany(s, Y) \in Nat /\ Tally(a, X, Y) \in Nat /\ One(w, X) = 0
  BY <1>3, <1>5, HowManyType, QueuesOf DEF One
<1> HIDE DEF s, r
<1>8. HandledJoins(a, r, s)
  BY <1>1, <1>4, <1>5, <1>6 DEF HandledJoins
<1>9. Tally(a, X, Y)' + One(Head(events[a]), Y)
        = Tally(a, X, Y) + HowMany(r, X) + HowMany(s, Y)
  BY <1>8, TallyHandled
<1> QED BY <1>2, <1>6, <1>7, <1>9 DEF s, ev

\* The oldest callback is handled, with at most one request or one callback more.
LEMMA TallyEndsWith ==
  ASSUME TypeOK, NEW a \in Apps, events[a] # <<>>, NEW X, NEW Y
  PROVE  /\ events'[a] = Tail(events[a]) /\ up'[a] = up[a] =>
              Tally(a, X, Y)' + One(Head(events[a]), Y) = Tally(a, X, Y)
         /\ \A r \in Requests : events'[a] = Tail(events[a]) /\ up'[a] = Append(up[a], r) =>
              Tally(a, X, Y)' + One(Head(events[a]), Y) = Tally(a, X, Y) + One(r, X)
         /\ \A e \in Events : events'[a] = Append(Tail(events[a]), e) /\ up'[a] = up[a] =>
              Tally(a, X, Y)' + One(Head(events[a]), Y) = Tally(a, X, Y) + One(e, Y)
<1> DEFINE t    == Tail(events[a])
           none == <<>>
<1>1. t \in Seq(Events) /\ up[a] \in Seq(Requests)
  BY DEF TypeOK
<1>2. /\ none \in Seq(Events) /\ t = t \o none
      /\ none \in Seq(Requests) /\ up[a] = up[a] \o none
      /\ HowMany(none, X) = 0 /\ HowMany(none, Y) = 0
  <2> HIDE DEF t
  <2> QED BY <1>1, Joining
<1>3. Tally(a, X, Y) \in Nat
  BY QueuesOf
<1> HIDE DEF t, none
<1>4. ASSUME events'[a] = t, up'[a] = up[a]
      PROVE  Tally(a, X, Y)' + One(Head(events[a]), Y) = Tally(a, X, Y)
  <2>1. HandledJoins(a, none, none)
    BY <1>2, <1>4 DEF HandledJoins, t
  <2>2. Tally(a, X, Y)' + One(Head(events[a]), Y)
          = Tally(a, X, Y) + HowMany(none, X) + HowMany(none, Y)
    BY <2>1, TallyHandled
  <2> QED BY <1>2, <1>3, <2>2
<1>5. ASSUME NEW r \in Requests, events'[a] = t, up'[a] = Append(up[a], r)
      PROVE  Tally(a, X, Y)' + One(Head(events[a]), Y) = Tally(a, X, Y) + One(r, X)
  <2> DEFINE one == <<r>>
  <2>1. one \in Seq(Requests) /\ up'[a] = up[a] \o one /\ HowMany(one, X) = One(r, X)
    BY <1>1, <1>5, Joining
  <2> HIDE DEF one
  <2>2. HandledJoins(a, one, none)
    BY <1>2, <1>5, <2>1 DEF HandledJoins, t
  <2>3. Tally(a, X, Y)' + One(Head(events[a]), Y)
          = Tally(a, X, Y) + HowMany(one, X) + HowMany(none, Y)
    BY <2>2, TallyHandled
  <2>4. One(r, X) \in Nat
    BY DEF One
  <2> QED BY <1>2, <1>3, <2>1, <2>3, <2>4
<1>6. ASSUME NEW e \in Events, events'[a] = Append(t, e), up'[a] = up[a]
      PROVE  Tally(a, X, Y)' + One(Head(events[a]), Y) = Tally(a, X, Y) + One(e, Y)
  <2> DEFINE one == <<e>>
  <2>1. one \in Seq(Events) /\ events'[a] = t \o one /\ HowMany(one, Y) = One(e, Y)
    BY <1>1, <1>6, Joining
  <2> HIDE DEF one
  <2>2. HandledJoins(a, none, one)
    BY <1>2, <1>6, <2>1 DEF HandledJoins, t
  <2>3. Tally(a, X, Y)' + One(Head(events[a]), Y)
          = Tally(a, X, Y) + HowMany(none, X) + HowMany(one, Y)
    BY <2>2, TallyHandled
  <2>4. One(e, Y) \in Nat
    BY DEF One
  <2> QED BY <1>2, <1>3, <2>1, <2>3, <2>4
<1> QED BY <1>4, <1>5, <1>6 DEF t

\* The keys of a user arrive: there is none, or each list is read.
LEMMA TallyLoadNoLists ==
  ASSUME TypeOK, NEW a \in Apps, LoadNoLists(a), NEW X, NEW Y
  PROVE  Tally(a, X, Y)' + One(Head(events[a]), Y) = Tally(a, X, Y) + One(Listen, X)
<1>1. /\ events[a] # <<>> /\ events'[a] = Tail(events[a])
      /\ up'[a] = Append(up[a], Listen) /\ Listen \in Requests
  BY DEF LoadNoLists, Next1, Handled, Loaded, TypeOK, Listen, Requests
<1> QED BY <1>1, TallyEndsWith

\* Entries for the elements of a set, one each, in some order.
EntryEach(s, order, A, Y, Z) ==
    /\ s = [k \in DOMAIN order |-> s[k]]
    /\ \A k \in DOMAIN order : order[k] \in Lists =>
          s[k] \in A /\ (s[k] \in Y <=> order[k] \in Z)

\* A sequence with one entry for each list of S counts as many as S has of them.
LEMMA Listed ==
  ASSUME NEW A, NEW S \in SUBSET Lists, NEW order \in SetToSeqs(S), NEW s, NEW Y,
         NEW Z \in SUBSET Lists, EntryEach(s, order, A, Y, Z)
  PROVE  HowMany(s, Y) = Cardinality(S \cap Z) /\ s \in Seq(A)
<1> DEFINE W == S \cap Z
<1>1. /\ s = [k \in DOMAIN order |-> s[k]] /\ DOMAIN s = DOMAIN order
      /\ \A k \in DOMAIN order : order[k] \in Lists =>
            s[k] \in A /\ (s[k] \in Y <=> order[k] \in Z)
  BY DEF EntryEach
<1>2. IsFiniteSet(S)
  BY ListsFinite, FS_Subset
<1>3. order \in Seq(S) /\ DOMAIN order = 1 .. Len(order)
  BY <1>2, OrderLists
<1>4. \A k \in DOMAIN order : order[k] \in S /\ order[k] \in Lists
  BY <1>3
<1>5. W \in SUBSET S /\ \A k \in DOMAIN order : s[k] \in Y <=> order[k] \in W
  BY <1>1, <1>4
<1> HIDE DEF W
<1>6. HowMany(s, Y) = Cardinality(W)
  BY <1>1, <1>2, <1>5, HowManyListed
<1>7. s \in Seq(A)
  <2>1. s = [k \in 1 .. Len(order) |-> s[k]] /\ Len(order) \in Nat
    BY <1>1, <1>3
  <2>2. \A k \in 1 .. Len(order) : s[k] \in A
    BY <1>1, <1>3, <1>4
  <2> QED BY <2>1, <2>2
<1> QED BY <1>6, <1>7 DEF W

\* Of the reads an answer of the keys makes, X holds those of Z.
Picks(X, Z) == \A l \in Lists : Node("loaded", l) \in X <=> l \in Z

LEMMA TallyLoadLists ==
  ASSUME TypeOK, NEW a \in Apps, LoadLists(a), NEW X, NEW Y, Paired(X, Y),
         NEW Z \in SUBSET Lists, Picks(X, Z)
  PROVE  /\ Head(events[a]).ids \in SUBSET Lists
         /\ Tally(a, X, Y)' + One(Head(events[a]), Y)
              = Tally(a, X, Y) + Cardinality(Head(events[a]).ids \cap Z)
<1> DEFINE S    == Head(events[a]).ids
           At   == {l \in S : AtHand(a, l, up[a], Tail(events[a]))}
           Away == S \ At
<1>1. events[a] # <<>> /\ S \in SUBSET Lists
  BY OldestEvent DEF LoadLists, Next1
<1>2. PICK now \in SetToSeqs(At), later \in SetToSeqs(Away) :
        /\ events' = [events EXCEPT ![a] = Tail(@) \o
             [k \in DOMAIN now |-> NodeEvent("loaded", now[k], ListOf(server, up[a], now[k]))]]
        /\ up' = [up EXCEPT ![a] = @ \o [k \in DOMAIN later |-> Node("loaded", later[k])]]
  BY DEF LoadLists
<1> DEFINE s == [k \in DOMAIN now |-> NodeEvent("loaded", now[k], ListOf(server, up[a], now[k]))]
           r == [k \in DOMAIN later |-> Node("loaded", later[k])]
<1>3. At \in SUBSET Lists /\ Away \in SUBSET Lists /\ At \cap Away = {} /\ At \cup Away = S
  BY <1>1
<1>4. events'[a] = Tail(events[a]) \o s /\ up'[a] = up[a] \o r
  BY <1>2 DEF TypeOK
<1>5. \A l \in Lists : ListOf(server, up[a], l) \in Slot
  BY ListOfType DEF TypeOK
<1>6. \A l \in Lists : LET e == NodeEvent("loaded", l, ListOf(server, up[a], l))
                       IN  e \in Events /\ (e \in Y <=> l \in Z)
  BY <1>5 DEF NodeEvent, Events, NodeOps, Paired, Picks
<1>7. \A l \in Lists : Node("loaded", l) \in Requests /\ (Node("loaded", l) \in X <=> l \in Z)
  BY DEF Node, Requests, NodeOps, Picks
<1>8. HowMany(s, Y) = Cardinality(At \cap Z) /\ s \in Seq(Events)
  <2>1. EntryEach(s, now, Events, Y, Z)
    BY <1>6 DEF EntryEach
  <2> HIDE DEF s, At, Away
  <2> QED BY <1>3, <2>1, Listed
<1>9. HowMany(r, X) = Cardinality(Away \cap Z) /\ r \in Seq(Requests)
  <2>1. EntryEach(r, later, Requests, X, Z)
    BY <1>7 DEF EntryEach
  <2> HIDE DEF r, At, Away
  <2> QED BY <1>3, <2>1, Listed
<1> HIDE DEF r, s, At, Away
<1>10. Cardinality(S \cap Z) = Cardinality(At \cap Z) + Cardinality(Away \cap Z)
       /\ Cardinality(At \cap Z) \in Nat /\ Cardinality(Away \cap Z) \in Nat
  <2> DEFINE P == At \cap Z
             Q == Away \cap Z
  <2>1. IsFiniteSet(P) /\ IsFiniteSet(Q)
    BY <1>3, ListsFinite, FS_Subset
  <2>2. P \cap Q = {} /\ P \cup Q = S \cap Z
    BY <1>3
  <2> HIDE DEF P, Q
  <2>3. /\ Cardinality(P \cup Q) = Cardinality(P) + Cardinality(Q) - Cardinality(P \cap Q)
        /\ Cardinality(P) \in Nat /\ Cardinality(Q) \in Nat /\ Cardinality({}) = 0
    BY <2>1, FS_Union, FS_CardinalityType, FS_EmptySet
  <2>4. Cardinality(P \cap Q) = 0 /\ Cardinality(P \cup Q) = Cardinality(S \cap Z)
    BY <2>2, <2>3, Zenon
  <2>5. Cardinality(S \cap Z) = Cardinality(P) + Cardinality(Q)
    BY <2>3, <2>4
  <2> QED BY <2>3, <2>5 DEF P, Q
<1>11. HandledJoins(a, r, s)
  BY <1>1, <1>4, <1>8, <1>9 DEF HandledJoins
<1>12. Tally(a, X, Y)' + One(Head(events[a]), Y)
         = Tally(a, X, Y) + HowMany(r, X) + HowMany(s, Y)
  BY <1>11, TallyHandled
<1>13. Tally(a, X, Y) \in Nat
  BY QueuesOf
<1> QED BY <1>1, <1>8, <1>9, <1>10, <1>12, <1>13

\* A row of LoadData, its observer, and after the last one the listener.
LEMMA TallyListLoaded ==
  ASSUME TypeOK, NEW a \in Apps, ListLoaded(a), NEW X, NEW Y, Paired(X, Y)
  PROVE  Tally(a, X, Y)' + One(Head(events[a]), Y)
           = Tally(a, X, Y) + (IF left[a] - 1 = 0 THEN One(Listen, X) ELSE 0)
<1> DEFINE l    == Head(events[a]).id
           seen == l \in live[a] \/ Contains(up[a], Node("watch", l))
           w    == Node("watch", l)
<1>1. /\ events[a] # <<>> /\ events'[a] = Tail(events[a]) /\ l \in Lists
      /\ up[a] \in Seq(Requests) /\ events[a] \in Seq(Events)
  BY OldestEvent DEF ListLoaded, Next1, Handled, TypeOK, NodeOps
<1>2. w \in Requests /\ Listen \in Requests /\ w \notin X
  BY <1>1 DEF Node, Listen, Requests, NodeOps, Paired
<1> DEFINE q == Watched(a, l)
<1>3. q = IF seen THEN up[a] ELSE Append(up[a], w)
  BY DEF Watched
<1>4. up'[a] = IF left[a] - 1 = 0 THEN Append(q, Listen) ELSE q
  BY DEF ListLoaded, Loaded, TypeOK
<1> HIDE DEF w, q, l
<1>5. q \in Seq(Requests) /\ HowMany(q, X) = HowMany(up[a], X)
  <2>1. CASE seen
    BY <1>1, <1>3, <2>1
  <2>2. CASE ~seen
    <3>1. q = Append(up[a], w)
      BY <1>3, <2>2
    <3>2. q \in Seq(Requests) /\ HowMany(q, X) = HowMany(up[a], X) + One(w, X)
          /\ HowMany(up[a], X) \in Nat
      BY <1>1, <1>2, <3>1, Counting
    <3> QED BY <1>2, <3>2 DEF One
  <2> QED BY <2>1, <2>2
<1>6. HowMany(Append(q, Listen), X) = HowMany(q, X) + One(Listen, X)
  BY <1>2, <1>5, Counting
<1>7. HowMany(events[a], Y) = HowMany(events'[a], Y) + One(Head(events[a]), Y)
  BY <1>1, Counting
<1>8. /\ HowMany(q, X) \in Nat /\ HowMany(events'[a], Y) \in Nat
      /\ One(Head(events[a]), Y) \in Nat /\ One(Listen, X) \in Nat
  <2>1. Tail(events[a]) \in Seq(Events)
    BY <1>1, Counting
  <2> QED BY <1>1, <1>5, <2>1, HowManyType DEF One
<1>9. CASE left[a] - 1 = 0
  <2>1. HowMany(up'[a], X) = HowMany(up[a], X) + One(Listen, X)
    BY <1>4, <1>5, <1>6, <1>9
  <2> QED BY <1>5, <1>7, <1>8, <1>9, <2>1 DEF Tally
<1>10. CASE left[a] - 1 # 0
  <2>1. HowMany(up'[a], X) = HowMany(up[a], X)
    BY <1>4, <1>5, <1>10
  <2> QED BY <1>5, <1>7, <1>8, <1>10, <2>1 DEF Tally
<1> QED BY <1>9, <1>10

\* The read of a node from a callback, at hand or on its way.
LEMMA TallyReadNode ==
  ASSUME TypeOK, NEW a \in Apps, events[a] # <<>>, NEW l \in Lists,
         ReadNode(a, "list", l, Tail(events[a])), NEW X, NEW Y, Paired(X, Y)
  PROVE  Tally(a, X, Y)' + One(Head(events[a]), Y) = Tally(a, X, Y) + One(Node("list", l), X)
<1> DEFINE n == ListOf(server, up[a], l)
           e == NodeEvent("list", l, n)
           r == Node("list", l)
<1>1. n \in Slot
  BY ListOfType DEF TypeOK
<1>2. e \in Events /\ r \in Requests /\ One(e, Y) = One(r, X)
  BY <1>1 DEF NodeEvent, Node, Events, Requests, NodeOps, Paired, One
<1>3. \/ events'[a] = Append(Tail(events[a]), e) /\ up'[a] = up[a]
      \/ events'[a] = Tail(events[a]) /\ up'[a] = Append(up[a], r)
  BY DEF ReadNode, TypeOK
<1> HIDE DEF e, r
<1>4. CASE events'[a] = Append(Tail(events[a]), e) /\ up'[a] = up[a]
  <2>1. Tally(a, X, Y)' + One(Head(events[a]), Y) = Tally(a, X, Y) + One(e, Y)
    BY <1>2, <1>4, TallyEndsWith
  <2> QED BY <1>2, <2>1 DEF r
<1>5. CASE events'[a] = Tail(events[a]) /\ up'[a] = Append(up[a], r)
  <2>1. Tally(a, X, Y)' + One(Head(events[a]), Y) = Tally(a, X, Y) + One(r, X)
    BY <1>2, <1>5, TallyEndsWith
  <2> QED BY <2>1 DEF r
<1> QED BY <1>3, <1>4, <1>5

LEMMA TallyChildAdded ==
  ASSUME TypeOK, NEW a \in Apps, ListsKeysChildAdded(a), NEW X, NEW Y, Paired(X, Y)
  PROVE  Tally(a, X, Y)' + One(Head(events[a]), Y) = Tally(a, X, Y) +
           (IF Head(events[a]).id \in RowIds(a) THEN 0
            ELSE One(Node("list", Head(events[a]).id), X))
<1> DEFINE l == Head(events[a]).id
<1>1. events[a] # <<>> /\ l \in Lists
  BY OldestEvent DEF ListsKeysChildAdded, Next1
<1>2. Tally(a, X, Y) \in Nat
  BY QueuesOf
<1>3. CASE l \in RowIds(a)
  <2>1. events'[a] = Tail(events[a]) /\ up'[a] = up[a]
    BY <1>3 DEF ListsKeysChildAdded, Handled, TypeOK
  <2>2. Tally(a, X, Y)' + One(Head(events[a]), Y) = Tally(a, X, Y)
    BY <1>1, <2>1, TallyEndsWith
  <2> QED BY <1>2, <1>3, <2>2
<1>4. CASE l \notin RowIds(a)
  <2>1. ReadNode(a, "list", l, Tail(events[a]))
    BY <1>4 DEF ListsKeysChildAdded
  <2> HIDE DEF l
  <2>2. Tally(a, X, Y)' + One(Head(events[a]), Y) = Tally(a, X, Y) + One(Node("list", l), X)
    BY <1>1, <2>1, TallyReadNode
  <2> QED BY <1>4, <2>2 DEF l
<1> QED BY <1>3, <1>4

\* The row of a key, and the end of one.
LEMMA TallyListRead ==
  ASSUME TypeOK, NEW a \in Apps, ListRead(a), NEW X, NEW Y, Paired(X, Y)
  PROVE  Tally(a, X, Y)' + One(Head(events[a]), Y) = Tally(a, X, Y)
<1> DEFINE l == Head(events[a]).id
           w == Node("watch", l)
<1>1. /\ events[a] # <<>> /\ events'[a] = Tail(events[a]) /\ l \in Lists
      /\ up'[a] = up[a] \/ up'[a] = Append(up[a], w)
  BY OldestEvent DEF ListRead, Next1, Handled, TypeOK, NodeOps, Watched
<1>2. w \in Requests /\ One(w, X) = 0 /\ Tally(a, X, Y) \in Nat
  BY <1>1, QueuesOf DEF Node, Requests, NodeOps, Paired, One
<1> HIDE DEF w, l
<1>3. CASE up'[a] = up[a]
  BY <1>1, <1>3, TallyEndsWith
<1>4. CASE up'[a] = Append(up[a], w)
  <2>1. Tally(a, X, Y)' + One(Head(events[a]), Y) = Tally(a, X, Y) + One(w, X)
    BY <1>1, <1>2, <1>4, TallyEndsWith
  <2> QED BY <1>2, <2>1
<1> QED BY <1>1, <1>3, <1>4

LEMMA TallyChildRemoved ==
  ASSUME TypeOK, NEW a \in Apps, ListsKeysChildRemoved(a), NEW X, NEW Y
  PROVE  Tally(a, X, Y)' + One(Head(events[a]), Y) = Tally(a, X, Y)
<1>1. events[a] # <<>> /\ events'[a] = Tail(events[a]) /\ up'[a] = up[a]
  BY DEF ListsKeysChildRemoved, Next1, Handled, TypeOK
<1> QED BY <1>1, TallyEndsWith

\* A list's users are read, for its removal.
LEMMA TallyRemoveList ==
  ASSUME TypeOK, NEW a \in Apps, RemoveList(a), NEW X, NEW Y, Paired(X, Y),
         \A l \in Lists : Node("users", l) \notin X
  PROVE  Tally(a, X, Y)' = Tally(a, X, Y)
<1>1. PICK k \in DOMAIN data[a] : ReadNode(a, "users", data[a][k], events[a])
  BY DEF RemoveList
<1> DEFINE l == data[a][k]
           n == ListOf(server, up[a], l)
           e == NodeEvent("users", l, n)
           r == Node("users", l)
<1>2. l \in Lists /\ up[a] \in Seq(Requests) /\ events[a] \in Seq(Events)
  BY DEF TypeOK
<1>3. n \in Slot
  BY <1>2, ListOfType DEF TypeOK
<1>4. e \in Events /\ r \in Requests /\ One(e, Y) = 0 /\ One(r, X) = 0
  BY <1>2, <1>3 DEF NodeEvent, Node, Events, Requests, NodeOps, Paired, One
<1>5. \/ events'[a] = Append(events[a], e) /\ up'[a] = up[a]
      \/ events'[a] = events[a] /\ up'[a] = Append(up[a], r)
  BY <1>1 DEF ReadNode, TypeOK
<1>6. HowMany(up[a], X) \in Nat /\ HowMany(events[a], Y) \in Nat
  BY <1>2, HowManyType
<1> HIDE DEF e, r
<1>7. /\ HowMany(Append(events[a], e), Y) = HowMany(events[a], Y) + One(e, Y)
      /\ HowMany(Append(up[a], r), X) = HowMany(up[a], X) + One(r, X)
  BY <1>2, <1>4, Counting
<1>8. CASE events'[a] = Append(events[a], e) /\ up'[a] = up[a]
  BY <1>4, <1>6, <1>7, <1>8 DEF Tally
<1>9. CASE events'[a] = events[a] /\ up'[a] = Append(up[a], r)
  BY <1>4, <1>6, <1>7, <1>9 DEF Tally
<1> QED BY <1>5, <1>8, <1>9

\* The process starts, and ends.
LEMMA TallyOpen ==
  ASSUME TypeOK, NEW a \in Apps, OpenLists(a), NEW X, NEW Y
  PROVE  Tally(a, X, Y)' = One(Keys, X) + HowMany(events[a], Y)
<1>1. up'[a] = <<Keys>> /\ events' = events /\ Keys \in Requests
  BY DEF OpenLists, TypeOK, Keys, Requests
<1>2. HowMany(<<Keys>>, X) = One(Keys, X)
  BY <1>1, HowManyOne DEF One
<1> QED BY <1>1, <1>2 DEF Tally

LEMMA TallyReset ==
  ASSUME TypeOK, NEW a \in Apps, NEW how, Reset(a, how), NEW X, NEW Y
  PROVE  Tally(a, X, Y)' = 0
<1>1. up'[a] = <<>> /\ events'[a] = <<>>
  BY DEF Reset, TypeOK
<1> QED BY <1>1, Uncounted DEF Tally

-----------------------------------------------------------------------------
(***************************************************************************)
(* The loading.  Until the listener is asked for, the one callback with    *)
(* the keys is out, or the nodes that listsCounter counts; nothing of the  *)
(* listener is out before it goes live.                                    *)
(***************************************************************************)
KeysTold     == [type : {"keys"}, ids : SUBSET Lists]
ReadsAsked(o) == [op : {o}, id : Lists]
ReadsTold(o)  == [type : {o}, id : Lists, node : Slot]

KeysOut(b)   == Tally(b, {Keys}, KeysTold)
NodesOut(b)  == Tally(b, ReadsAsked("loaded"), ReadsTold("loaded"))
RowsOut(b)   == Tally(b, ReadsAsked("list"), ReadsTold("list"))
ListenOut(b) == Tally(b, {Listen}, {})
TellsOut(b)  == Tally(b, {}, KeyEvents)

Loads(b) ==
    /\ screen[b] \in Closed => /\ up[b] = <<>> /\ events[b] = <<>>
                               /\ data[b] = <<>> /\ listener[b] = "off"
    /\ left[b] = NodesOut(b)
    /\ KeysOut(b) <= 1
    /\ KeysOut(b) = 1 => left[b] = 0 /\ data[b] = <<>>
    /\ listener[b] # "off" => KeysOut(b) = 0 /\ left[b] = 0
    /\ ListenOut(b) = IF listener[b] = "asked" THEN 1 ELSE 0
    /\ listener[b] # "on" => TellsOut(b) = 0 /\ RowsOut(b) = 0
    /\ screen[b] \notin Closed /\ listener[b] = "off" => KeysOut(b) = 1 \/ left[b] > 0

\* The pairs of a request and its answer that the counter's proof counts.
LEMMA Pairs ==
  /\ Paired({Keys}, KeysTold) /\ Paired({Listen}, {}) /\ Paired({}, KeyEvents)
  /\ \A o \in NodeOps \ {"watch"} : Paired(ReadsAsked(o), ReadsTold(o))
<1>1. Paired({Keys}, KeysTold)
  BY DEF Paired, Keys, KeysTold, KeysEvent, NodeOps, Node, NodeEvent, Writes, WriteOps
<1>2. Paired({Listen}, {})
  BY DEF Paired, Keys, Listen, Node, NodeOps, Writes, WriteOps
<1>3. Paired({}, KeyEvents)
  BY DEF Paired, KeyEvents, KeysEvent, NodeOps, NodeEvent
<1>4. ASSUME NEW o \in NodeOps \ {"watch"} PROVE Paired(ReadsAsked(o), ReadsTold(o))
  <2>1. o # "keys" /\ o # "watch" /\ o \notin WriteOps
    BY DEF NodeOps, WriteOps
  <2> QED BY <2>1 DEF Paired, ReadsAsked, ReadsTold, Keys, KeysEvent, Node, NodeEvent, Writes
<1> QED BY <1>1, <1>2, <1>3, <1>4

\* What counts where.
LEMMA OneEvent ==
  ASSUME NEW e \in Events
  PROVE  /\ One(e, KeysTold) = (IF e.type = "keys" THEN 1 ELSE 0)
         /\ One(e, KeyEvents) = (IF e.type \in {"added", "removed"} THEN 1 ELSE 0)
         /\ One(e, {}) = 0
         /\ \A o \in NodeOps : One(e, ReadsTold(o)) = (IF e.type = o THEN 1 ELSE 0)
<1>1. CASE e \in [type : {"keys"}, ids : SUBSET Lists]
  BY <1>1 DEF One, KeysTold, KeyEvents, ReadsTold, NodeOps
<1>2. CASE e \in [type : {"added", "removed"}, id : Lists]
  BY <1>2 DEF One, KeysTold, KeyEvents, ReadsTold, NodeOps
<1>3. CASE e \in [type : NodeOps, id : Lists, node : Slot]
  BY <1>3 DEF One, KeysTold, KeyEvents, ReadsTold, NodeOps
<1> QED BY <1>1, <1>2, <1>3 DEF Events

\* What one request or callback contributes to each of them.
LEMMA OneRequest ==
  /\ One(Keys, {Keys}) = 1 /\ One(Listen, {Keys}) = 0
  /\ One(Listen, {Listen}) = 1 /\ One(Keys, {Listen}) = 0
  /\ One(Listen, {}) = 0 /\ One(Keys, {}) = 0
  /\ \A o \in NodeOps : One(Listen, ReadsAsked(o)) = 0 /\ One(Keys, ReadsAsked(o)) = 0
  /\ \A o \in NodeOps, l \in Lists :
        /\ One(Node(o, l), {Keys}) = 0 /\ One(Node(o, l), {Listen}) = 0
        /\ One(Node(o, l), {}) = 0
        /\ \A p \in NodeOps : One(Node(o, l), ReadsAsked(p)) = IF o = p THEN 1 ELSE 0
  /\ \A w \in Writes : /\ w \notin {Keys} /\ w \notin {Listen} /\ w \notin {}
                       /\ \A o \in NodeOps : w \notin ReadsAsked(o)
<1>1. \A w \in Writes : w.op \in WriteOps
  BY DEF Writes
<1> QED BY <1>1 DEF One, Keys, Listen, Node, NodeOps, ReadsAsked, WriteOps

\* What the SDK tells of a write are no answers.
LEMMA RaisedTallies ==
  ASSUME TypeOK, NEW b \in Apps, NEW s, NEW q, NEW l \in Lists
  PROVE  /\ HowMany(Raised(b, s, q, l), KeysTold) = 0
         /\ HowMany(Raised(b, s, q, l), {}) = 0
         /\ \A o \in NodeOps : HowMany(Raised(b, s, q, l), ReadsTold(o)) = 0
         /\ HowMany(Raised(b, s, q, l), KeyEvents) \in Nat
         /\ listener[b] # "on" => HowMany(Raised(b, s, q, l), KeyEvents) = 0
<1> DEFINE x == Raised(b, s, q, l)
<1>1. ASSUME NEW Y, KeyEvent("added", l) \notin Y, KeyEvent("removed", l) \notin Y
      PROVE  HowMany(x, Y) = 0
  BY <1>1, RaisedCount DEF One
<1>2. /\ KeyEvent("added", l) \notin KeysTold /\ KeyEvent("removed", l) \notin KeysTold
      /\ \A o \in NodeOps : /\ KeyEvent("added", l) \notin ReadsTold(o)
                            /\ KeyEvent("removed", l) \notin ReadsTold(o)
  BY DEF KeyEvent, KeysTold, ReadsTold, NodeOps
<1>3. HowMany(x, KeyEvents) \in Nat
  BY RaisedCount, HowManyType
<1>4. listener[b] # "on" => HowMany(x, KeyEvents) = 0
  BY RaisedCount
<1> HIDE DEF x
<1>5. HowMany(x, KeysTold) = 0 /\ HowMany(x, {}) = 0
  BY <1>1, <1>2
<1>6. \A o \in NodeOps : HowMany(x, ReadsTold(o)) = 0
  BY <1>1, <1>2
<1> QED BY <1>3, <1>4, <1>5, <1>6 DEF x

\* The five numbers are natural, before and after a step.
LEMMA TalliesType ==
  ASSUME TypeOK, NEW b \in Apps
  PROVE  /\ KeysOut(b) \in Nat /\ NodesOut(b) \in Nat /\ RowsOut(b) \in Nat
         /\ ListenOut(b) \in Nat /\ TellsOut(b) \in Nat /\ left[b] \in Int
         /\ listener[b] \in {"off", "asked", "on"}
BY QueuesOf DEF KeysOut, NodesOut, RowsOut, ListenOut, TellsOut, TypeOK

LEMMA TalliesNext ==
  ASSUME TypeOK', NEW b \in Apps
  PROVE  /\ KeysOut(b)' \in Nat /\ NodesOut(b)' \in Nat /\ RowsOut(b)' \in Nat
         /\ ListenOut(b)' \in Nat /\ TellsOut(b)' \in Nat
BY QueuesNext DEF KeysOut, NodesOut, RowsOut, ListenOut, TellsOut

\* Nothing happens to b, or only to what is out of it.
AppKept(b) == /\ left'[b] = left[b] /\ listener'[b] = listener[b] /\ data'[b] = data[b]
              /\ screen'[b] = screen[b]

\* Loads goes on at an app that nothing happens to, ...
LEMMA LoadsKept ==
  ASSUME NEW b, Loads(b), up'[b] = up[b], events'[b] = events[b], AppKept(b)
  PROVE  Loads(b)'
<1>1. \A X, Y : Tally(b, X, Y)' = Tally(b, X, Y)
  BY DEF Tally
<1> QED BY <1>1 DEF Loads, AppKept, KeysOut, NodesOut, RowsOut, ListenOut, TellsOut

\* ... answers of its requests, and what is told of keys once the listener is live.
LEMMA LoadsGoesOn ==
  ASSUME TypeOK, TypeOK', NEW b \in Apps, Loads(b), AppKept(b),
         screen[b] \in Closed => up'[b] = up[b] /\ events'[b] = events[b],
         KeysOut(b)' = KeysOut(b), NodesOut(b)' = NodesOut(b), RowsOut(b)' = RowsOut(b),
         ListenOut(b)' = ListenOut(b), listener[b] # "on" => TellsOut(b)' = TellsOut(b)
  PROVE  Loads(b)'
BY DEF Loads, AppKept

\* The actions one by one: what is out goes from the requests to the callbacks, ...
LEMMA LoadsServer ==
  ASSUME TypeOK, TypeOK', NEW a \in Apps, AnswerKeys(a) \/ AnswerNode(a), Loads(a)
  PROVE  Loads(a)'
<1>1. ASSUME NEW X, NEW Y, Paired(X, Y) PROVE Tally(a, X, Y)' = Tally(a, X, Y)
  BY <1>1, TallyAnswerKeys, TallyAnswerNode
<1>2. Tally(a, {Keys}, KeysTold)' = Tally(a, {Keys}, KeysTold)
  BY <1>1, Pairs
<1>3. \A o \in {"loaded", "list"} :
        Tally(a, ReadsAsked(o), ReadsTold(o))' = Tally(a, ReadsAsked(o), ReadsTold(o))
  BY <1>1, Pairs DEF NodeOps
<1>4. Tally(a, {Listen}, {})' = Tally(a, {Listen}, {})
  BY <1>1, Pairs
<1>5. Tally(a, {}, KeyEvents)' = Tally(a, {}, KeyEvents)
  BY <1>1, Pairs
<1>6. up[a] # <<>> /\ AppKept(a)
  BY DEF AnswerKeys, AnswerNode, Oldest, AppKept, app
<1>7. screen[a] \notin Closed
  BY <1>6 DEF Loads
<1>8. /\ KeysOut(a)' = KeysOut(a) /\ NodesOut(a)' = NodesOut(a) /\ RowsOut(a)' = RowsOut(a)
      /\ ListenOut(a)' = ListenOut(a) /\ TellsOut(a)' = TellsOut(a)
  BY <1>2, <1>3, <1>4, <1>5 DEF KeysOut, NodesOut, RowsOut, ListenOut, TellsOut
<1> QED BY <1>6, <1>7, <1>8, LoadsGoesOn

LEMMA LoadsAnswerListen ==
  ASSUME TypeOK, TypeOK', NEW a \in Apps, AnswerListen(a), Loads(a)
  PROVE  Loads(a)'
<1> DEFINE K == KeysOf(server, up'[a], owner[a])
<1>1. /\ up[a] # <<>> /\ listener'[a] = "on" /\ left'[a] = left[a] /\ data'[a] = data[a]
      /\ screen'[a] = screen[a]
  BY DEF AnswerListen, Oldest, TypeOK, app
<1>2. screen[a] \notin Closed
  BY <1>1 DEF Loads
<1>3. ASSUME NEW X, NEW Y, \A l \in Lists : KeyEvent("added", l) \notin Y
      PROVE  Tally(a, X, Y)' + One(Listen, X) = Tally(a, X, Y)
  <2> DEFINE Z == {}
  <2>1. Z \in SUBSET Lists /\ \A l \in Lists : KeyEvent("added", l) \in Y <=> l \in Z
    BY <1>3
  <2> HIDE DEF Z
  <2>2. Tally(a, X, Y)' + One(Listen, X) = Tally(a, X, Y) + Cardinality(K \cap Z)
    BY <2>1, TallyAnswerListen
  <2>3. Cardinality(K \cap Z) = 0
    <3>1. K \cap Z = {}
      BY DEF Z
    <3> QED BY <3>1, FS_EmptySet, Zenon
  <2> QED BY <2>2, <2>3, QueuesOf
<1>4. /\ \A l \in Lists : KeyEvent("added", l) \notin KeysTold /\ KeyEvent("added", l) \notin {}
      /\ \A o \in NodeOps, l \in Lists : KeyEvent("added", l) \notin ReadsTold(o)
  BY DEF KeyEvent, KeysTold, ReadsTold, NodeOps
<1>5. Tally(a, {Keys}, KeysTold)' + One(Listen, {Keys}) = Tally(a, {Keys}, KeysTold)
  BY <1>3, <1>4
<1>6. Tally(a, {Listen}, {})' + One(Listen, {Listen}) = Tally(a, {Listen}, {})
  BY <1>3, <1>4
<1>7. \A o \in NodeOps : Tally(a, ReadsAsked(o), ReadsTold(o))' + One(Listen, ReadsAsked(o))
                           = Tally(a, ReadsAsked(o), ReadsTold(o))
  BY <1>3, <1>4
<1>8. Tally(a, ReadsAsked("loaded"), ReadsTold("loaded"))' + One(Listen, ReadsAsked("loaded"))
        = Tally(a, ReadsAsked("loaded"), ReadsTold("loaded"))
  BY <1>7 DEF NodeOps
<1>9. /\ One(Listen, {Keys}) = 0 /\ One(Listen, {Listen}) = 1
      /\ One(Listen, ReadsAsked("loaded")) = 0
  BY OneRequest DEF NodeOps
<1>10. /\ KeysOut(a) \in Nat /\ NodesOut(a) \in Nat /\ ListenOut(a) \in Nat
       /\ KeysOut(a)' \in Nat /\ NodesOut(a)' \in Nat /\ ListenOut(a)' \in Nat
       /\ left[a] \in Int /\ listener[a] \in {"off", "asked", "on"}
  BY TalliesType, TalliesNext
<1>11. KeysOut(a)' = KeysOut(a) /\ NodesOut(a)' = NodesOut(a) /\ ListenOut(a)' + 1 = ListenOut(a)
  BY <1>5, <1>6, <1>8, <1>9, <1>10 DEF KeysOut, NodesOut, ListenOut
<1>12. ListenOut(a) = 1 /\ listener[a] = "asked" /\ ListenOut(a)' = 0
  BY <1>10, <1>11 DEF Loads
<1> QED BY <1>1, <1>2, <1>11, <1>12 DEF Loads

\* A write: what is told of keys, if anything, is told of a live listener.
KeysToldOf(b, s, l) ==
    /\ \A o \in {"loaded", "list"} : Tally(b, ReadsAsked(o), ReadsTold(o))' =
          Tally(b, ReadsAsked(o), ReadsTold(o)) + HowMany(Raised(b, s, up'[b], l), ReadsTold(o))
    /\ KeysOut(b)' = KeysOut(b) + HowMany(Raised(b, s, up'[b], l), KeysTold)
    /\ ListenOut(b)' = ListenOut(b) + HowMany(Raised(b, s, up'[b], l), {})
    /\ TellsOut(b)' = TellsOut(b) + HowMany(Raised(b, s, up'[b], l), KeyEvents)

LEMMA LoadsTold ==
  ASSUME TypeOK, TypeOK', NEW b \in Apps, Loads(b), AppKept(b), NEW s, NEW l \in Lists,
         screen[b] \in Closed => up'[b] = up[b] /\ events'[b] = events[b],
         KeysToldOf(b, s, l)
  PROVE  Loads(b)'
<1> DEFINE x == Raised(b, s, up'[b], l)
<1>1. /\ HowMany(x, KeysTold) = 0 /\ HowMany(x, {}) = 0
      /\ HowMany(x, ReadsTold("loaded")) = 0 /\ HowMany(x, ReadsTold("list")) = 0
      /\ listener[b] # "on" => HowMany(x, KeyEvents) = 0
  BY RaisedTallies DEF NodeOps
<1> HIDE DEF x
<1>2. /\ KeysOut(b) \in Nat /\ NodesOut(b) \in Nat /\ RowsOut(b) \in Nat
      /\ ListenOut(b) \in Nat /\ TellsOut(b) \in Nat
  BY TalliesType
<1>3. /\ NodesOut(b)' = NodesOut(b) + HowMany(x, ReadsTold("loaded"))
      /\ RowsOut(b)' = RowsOut(b) + HowMany(x, ReadsTold("list"))
  BY DEF NodesOut, RowsOut, NodeOps, KeysToldOf, x
<1>4. /\ KeysOut(b)' = KeysOut(b) + HowMany(x, KeysTold)
      /\ ListenOut(b)' = ListenOut(b) + HowMany(x, {})
      /\ TellsOut(b)' = TellsOut(b) + HowMany(x, KeyEvents)
  BY DEF KeysToldOf, x
<1>5. /\ KeysOut(b)' = KeysOut(b) /\ NodesOut(b)' = NodesOut(b) /\ RowsOut(b)' = RowsOut(b)
      /\ ListenOut(b)' = ListenOut(b)
      /\ listener[b] # "on" => TellsOut(b)' = TellsOut(b)
  BY <1>1, <1>2, <1>3, <1>4
<1> QED BY <1>5, LoadsGoesOn

LEMMA LoadsCommit ==
  ASSUME TypeOK, TypeOK', NEW a \in Apps, Commit(a), NEW b \in Apps, Loads(a), Loads(b)
  PROVE  Loads(b)'
<1> DEFINE l == Head(up[a]).id
<1>1. AppKept(b) /\ up[a] # <<>>
  BY DEF Commit, AppKept, app
<1>2. l \in Lists
  BY <1>1, OldestRequest DEF Commit, Writes
<1>3. ASSUME NEW X, NEW Y, \A w \in Writes : w \notin X
      PROVE  Tally(b, X, Y)' = Tally(b, X, Y) + HowMany(Raised(b, server', up'[b], l), Y)
  BY <1>3, TallyCommit
<1>4. screen[b] \in Closed => up'[b] = up[b] /\ events'[b] = events[b]
  <2> SUFFICES ASSUME screen[b] \in Closed PROVE up'[b] = up[b] /\ events'[b] = events[b]
    OBVIOUS
  <2>1. up[b] = <<>> /\ events[b] = <<>> /\ listener[b] = "off"
    BY DEF Loads
  <2>2. b # a
    BY <1>1, <2>1
  <2>3. up'[b] = up[b] /\ events'[b] = events[b] \o Raised(b, server', up'[b], l)
    BY <2>2 DEF Commit, Answered, TypeOK
  <2>4. Raised(b, server', up'[b], l) = <<>>
    BY <1>2, <2>1, RaisedCount
  <2>5. events'[b] = <<>> \o <<>>
    BY <2>1, <2>3, <2>4
  <2> QED BY <2>1, <2>3, <2>5
<1> DEFINE x == Raised(b, server', up'[b], l)
<1>5. Tally(b, {Keys}, KeysTold)' = Tally(b, {Keys}, KeysTold) + HowMany(x, KeysTold)
  BY <1>3, OneRequest
<1>6. Tally(b, {Listen}, {})' = Tally(b, {Listen}, {}) + HowMany(x, {})
  BY <1>3, OneRequest
<1>7. Tally(b, {}, KeyEvents)' = Tally(b, {}, KeyEvents) + HowMany(x, KeyEvents)
  BY <1>3
<1>8. \A o \in NodeOps \ {"watch"} : Tally(b, ReadsAsked(o), ReadsTold(o))' =
            Tally(b, ReadsAsked(o), ReadsTold(o)) + HowMany(x, ReadsTold(o))
  BY <1>3, OneRequest
<1>9. /\ KeysOut(b)' = KeysOut(b) + HowMany(x, KeysTold)
      /\ ListenOut(b)' = ListenOut(b) + HowMany(x, {})
      /\ TellsOut(b)' = TellsOut(b) + HowMany(x, KeyEvents)
  BY <1>5, <1>6, <1>7 DEF KeysOut, ListenOut, TellsOut
<1> HIDE DEF l
<1>10. KeysToldOf(b, server', l)
  BY <1>8, <1>9 DEF KeysToldOf, NodeOps
<1> QED BY <1>1, <1>2, <1>4, <1>10, LoadsTold

LEMMA LoadsReject ==
  ASSUME TypeOK, TypeOK', NEW a \in Apps, Reject(a), Loads(a)
  PROVE  Loads(a)'
<1> DEFINE l == Head(up[a]).id
           x == Raised(a, server, up'[a], l)
<1>1. AppKept(a) /\ up[a] # <<>>
  BY DEF Reject, AppKept, app
<1>2. l \in Lists /\ screen[a] \notin Closed
  BY <1>1, OldestRequest DEF Reject, Writes, Loads
<1>3. ASSUME NEW X, NEW Y, \A w \in Writes : w \notin X
      PROVE  Tally(a, X, Y)' = Tally(a, X, Y) + HowMany(x, Y)
  BY <1>3, TallyReject
<1>4. Tally(a, {Keys}, KeysTold)' = Tally(a, {Keys}, KeysTold) + HowMany(x, KeysTold)
  BY <1>3, OneRequest
<1>5. Tally(a, {Listen}, {})' = Tally(a, {Listen}, {}) + HowMany(x, {})
  BY <1>3, OneRequest
<1>6. Tally(a, {}, KeyEvents)' = Tally(a, {}, KeyEvents) + HowMany(x, KeyEvents)
  BY <1>3
<1>7. \A o \in NodeOps \ {"watch"} : Tally(a, ReadsAsked(o), ReadsTold(o))' =
            Tally(a, ReadsAsked(o), ReadsTold(o)) + HowMany(x, ReadsTold(o))
  BY <1>3, OneRequest
<1>8. /\ KeysOut(a)' = KeysOut(a) + HowMany(x, KeysTold)
      /\ ListenOut(a)' = ListenOut(a) + HowMany(x, {})
      /\ TellsOut(a)' = TellsOut(a) + HowMany(x, KeyEvents)
  BY <1>4, <1>5, <1>6 DEF KeysOut, ListenOut, TellsOut
<1> HIDE DEF l
<1>9. KeysToldOf(a, server, l)
  BY <1>7, <1>8 DEF KeysToldOf, NodeOps
<1> QED BY <1>1, <1>2, <1>9, LoadsTold

\* A write is sent, from an enabled screen.
LEMMA LoadsSend ==
  ASSUME TypeOK, TypeOK', NEW a \in Apps, NEW w \in Writes, Send(a, w), AppKept(a), Loads(a),
         screen[a] = "enabled"
  PROVE  Loads(a)'
<1> DEFINE l == w.id
           x == Raised(a, server, up'[a], l)
<1>1. l \in Lists /\ screen[a] \notin Closed
  BY DEF Writes, Closed
<1>2. ASSUME NEW X, NEW Y, w \notin X
      PROVE  Tally(a, X, Y)' = Tally(a, X, Y) + HowMany(x, Y)
  BY <1>2, TallySend
<1>3. Tally(a, {Keys}, KeysTold)' = Tally(a, {Keys}, KeysTold) + HowMany(x, KeysTold)
  BY <1>2, OneRequest
<1>4. Tally(a, {Listen}, {})' = Tally(a, {Listen}, {}) + HowMany(x, {})
  BY <1>2, OneRequest
<1>5. Tally(a, {}, KeyEvents)' = Tally(a, {}, KeyEvents) + HowMany(x, KeyEvents)
  BY <1>2
<1>6. \A o \in NodeOps \ {"watch"} : Tally(a, ReadsAsked(o), ReadsTold(o))' =
            Tally(a, ReadsAsked(o), ReadsTold(o)) + HowMany(x, ReadsTold(o))
  BY <1>2, OneRequest
<1>7. /\ KeysOut(a)' = KeysOut(a) + HowMany(x, KeysTold)
      /\ ListenOut(a)' = ListenOut(a) + HowMany(x, {})
      /\ TellsOut(a)' = TellsOut(a) + HowMany(x, KeyEvents)
  BY <1>3, <1>4, <1>5 DEF KeysOut, ListenOut, TellsOut
<1> HIDE DEF l
<1>8. KeysToldOf(a, server, l)
  BY <1>6, <1>7 DEF KeysToldOf, NodeOps
<1> QED BY <1>1, <1>8, LoadsTold

LEMMA LoadsUsersRead ==
  ASSUME TypeOK, TypeOK', NEW a \in Apps, RemoveListUsersRead(a), Loads(a)
  PROVE  Loads(a)'
<1> DEFINE e == Head(events[a])
           l == e.id
           x == Raised(a, server, up'[a], l)
<1>1. AppKept(a) /\ events[a] # <<>> /\ e.type = "users" /\ e \in Events
  BY OldestEvent DEF RemoveListUsersRead, Next1, AppKept, app
<1>2. l \in Lists /\ screen[a] \notin Closed
  BY <1>1, OldestEvent DEF NodeOps, Loads
<1>3. ASSUME NEW X, NEW Y, \A w \in Writes : w \notin X, One(e, Y) = 0
      PROVE  Tally(a, X, Y)' = Tally(a, X, Y) + HowMany(x, Y)
  <2>1. Tally(a, X, Y)' + One(e, Y) = Tally(a, X, Y) + HowMany(x, Y)
    BY <1>3, TallyUsersRead
  <2> QED BY <1>3, <2>1, QueuesNext
<1>4. /\ One(e, KeysTold) = 0 /\ One(e, {}) = 0 /\ One(e, KeyEvents) = 0
      /\ \A o \in {"loaded", "list"} : One(e, ReadsTold(o)) = 0
  BY <1>1, OneEvent DEF NodeOps
<1>5. Tally(a, {Keys}, KeysTold)' = Tally(a, {Keys}, KeysTold) + HowMany(x, KeysTold)
  BY <1>3, <1>4, OneRequest
<1>6. Tally(a, {Listen}, {})' = Tally(a, {Listen}, {}) + HowMany(x, {})
  BY <1>3, <1>4, OneRequest
<1>7. Tally(a, {}, KeyEvents)' = Tally(a, {}, KeyEvents) + HowMany(x, KeyEvents)
  BY <1>3, <1>4
<1>8. \A o \in {"loaded", "list"} : Tally(a, ReadsAsked(o), ReadsTold(o))' =
            Tally(a, ReadsAsked(o), ReadsTold(o)) + HowMany(x, ReadsTold(o))
  BY <1>3, <1>4, OneRequest DEF NodeOps
<1>9. /\ KeysOut(a)' = KeysOut(a) + HowMany(x, KeysTold)
      /\ ListenOut(a)' = ListenOut(a) + HowMany(x, {})
      /\ TellsOut(a)' = TellsOut(a) + HowMany(x, KeyEvents)
  BY <1>5, <1>6, <1>7 DEF KeysOut, ListenOut, TellsOut
<1> HIDE DEF l
<1>10. KeysToldOf(a, server, l)
  BY <1>8, <1>9 DEF KeysToldOf, NodeOps
<1> QED BY <1>1, <1>2, <1>10, LoadsTold

\* The keys arrive: the listener is asked for, or the nodes are.
LEMMA LoadsNoLists ==
  ASSUME TypeOK, TypeOK', NEW a \in Apps, LoadNoLists(a), Loads(a)
  PROVE  Loads(a)'
<1> DEFINE e == Head(events[a])
<1>1. /\ events[a] # <<>> /\ e.type = "keys" /\ e \in Events
      /\ screen'[a] = "enabled" /\ listener'[a] = "asked"
      /\ data'[a] = data[a] /\ left'[a] = left[a]
  BY OldestEvent DEF LoadNoLists, Next1, Loaded, TypeOK
<1>2. \A X, Y : Tally(a, X, Y)' + One(e, Y) = Tally(a, X, Y) + One(Listen, X)
  BY TallyLoadNoLists
<1> HIDE DEF e
<1>3. /\ One(e, KeysTold) = 1 /\ One(e, {}) = 0 /\ One(e, KeyEvents) = 0
      /\ One(e, ReadsTold("loaded")) = 0 /\ One(e, ReadsTold("list")) = 0
  BY <1>1, OneEvent DEF NodeOps
<1>4. /\ One(Listen, {Keys}) = 0 /\ One(Listen, {}) = 0 /\ One(Listen, {Listen}) = 1
      /\ One(Listen, ReadsAsked("loaded")) = 0 /\ One(Listen, ReadsAsked("list")) = 0
  BY OneRequest DEF NodeOps
<1>5. /\ KeysOut(a)' + One(e, KeysTold) = KeysOut(a) + One(Listen, {Keys})
      /\ ListenOut(a)' + One(e, {}) = ListenOut(a) + One(Listen, {Listen})
      /\ TellsOut(a)' + One(e, KeyEvents) = TellsOut(a) + One(Listen, {})
  BY <1>2 DEF KeysOut, ListenOut, TellsOut
<1>6. /\ NodesOut(a)' + One(e, ReadsTold("loaded"))
           = NodesOut(a) + One(Listen, ReadsAsked("loaded"))
      /\ RowsOut(a)' + One(e, ReadsTold("list")) = RowsOut(a) + One(Listen, ReadsAsked("list"))
  BY <1>2 DEF NodesOut, RowsOut
<1>7. /\ KeysOut(a)' + 1 = KeysOut(a) /\ ListenOut(a)' = ListenOut(a) + 1
      /\ TellsOut(a)' = TellsOut(a) /\ NodesOut(a)' = NodesOut(a) /\ RowsOut(a)' = RowsOut(a)
  BY <1>3, <1>4, <1>5, <1>6, TalliesType, TalliesNext
<1>8. KeysOut(a) = 1 /\ KeysOut(a)' = 0
  BY <1>7, TalliesType, TalliesNext DEF Loads
<1>9. listener[a] = "off" /\ screen'[a] \notin Closed
  BY <1>1, <1>8 DEF Loads, Closed
<1> QED BY <1>1, <1>7, <1>8, <1>9 DEF Loads

\* ... from the keys to the reads, and from these to the counter.
LEMMA LoadsLists ==
  ASSUME TypeOK, TypeOK', NEW a \in Apps, LoadLists(a), Loads(a)
  PROVE  Loads(a)'
<1> DEFINE e == Head(events[a])
           S == e.ids
<1>1. /\ events[a] # <<>> /\ e.type = "keys" /\ e \in Events /\ S \in SUBSET Lists
      /\ screen'[a] = screen[a] /\ listener'[a] = listener[a]
      /\ data'[a] = data[a] /\ left'[a] = Cardinality(S)
  BY OldestEvent DEF LoadLists, Next1, TypeOK
<1>2. ASSUME NEW X, NEW Y, Paired(X, Y), \A l \in Lists : Node("loaded", l) \notin X
      PROVE  Tally(a, X, Y)' + One(e, Y) = Tally(a, X, Y)
  <2> DEFINE Z == {}
  <2>1. Z \in SUBSET Lists /\ Picks(X, Z)
    BY <1>2 DEF Picks
  <2> HIDE DEF Z
  <2>2. Tally(a, X, Y)' + One(e, Y) = Tally(a, X, Y) + Cardinality(S \cap Z)
    BY <1>2, <2>1, TallyLoadLists
  <2>3. Cardinality(S \cap Z) = 0
    <3>1. S \cap Z = {}
      BY DEF Z
    <3> QED BY <3>1, FS_EmptySet, Zenon
  <2> QED BY <2>2, <2>3, QueuesOf
<1>3. /\ One(e, KeysTold) = 1 /\ One(e, {}) = 0 /\ One(e, KeyEvents) = 0
      /\ One(e, ReadsTold("loaded")) = 0 /\ One(e, ReadsTold("list")) = 0
  BY <1>1, OneEvent DEF NodeOps
<1>4. NodesOut(a)' + One(e, ReadsTold("loaded")) = NodesOut(a) + Cardinality(S)
  <2> DEFINE X == ReadsAsked("loaded")
             Y == ReadsTold("loaded")
  <2>1. Paired(X, Y) /\ Picks(X, Lists)
    BY Pairs DEF NodeOps, Node, ReadsAsked, Picks
  <2> HIDE DEF X, Y
  <2>2. Tally(a, X, Y)' + One(e, Y) = Tally(a, X, Y) + Cardinality(S \cap Lists)
    BY <2>1, TallyLoadLists
  <2>3. Cardinality(S \cap Lists) = Cardinality(S)
    <3>1. S \cap Lists = S
      BY <1>1
    <3> QED BY <3>1, Zenon
  <2> QED BY <2>2, <2>3 DEF NodesOut, X, Y
<1>5. \A l \in Lists : Node("loaded", l) \notin {Keys} /\ Node("loaded", l) \notin {Listen}
                       /\ Node("loaded", l) \notin ReadsAsked("list")
  BY DEF Node, Keys, Listen, ReadsAsked
<1> HIDE DEF e
<1>6. Tally(a, {Keys}, KeysTold)' + One(e, KeysTold) = Tally(a, {Keys}, KeysTold)
  BY <1>2, <1>5, Pairs
<1>7. Tally(a, {Listen}, {})' + One(e, {}) = Tally(a, {Listen}, {})
  BY <1>2, <1>5, Pairs
<1>8. Tally(a, {}, KeyEvents)' + One(e, KeyEvents) = Tally(a, {}, KeyEvents)
  BY <1>2, Pairs
<1>9. Tally(a, ReadsAsked("list"), ReadsTold("list"))' + One(e, ReadsTold("list"))
        = Tally(a, ReadsAsked("list"), ReadsTold("list"))
  BY <1>2, <1>5, Pairs DEF NodeOps
<1>10. /\ KeysOut(a)' + 1 = KeysOut(a) /\ ListenOut(a)' = ListenOut(a)
       /\ TellsOut(a)' = TellsOut(a) /\ RowsOut(a)' = RowsOut(a)
  BY <1>3, <1>6, <1>7, <1>8, <1>9, TalliesType, TalliesNext
     DEF KeysOut, ListenOut, TellsOut, RowsOut
<1>11. KeysOut(a) = 1 /\ KeysOut(a)' = 0
  BY <1>10, TalliesType, TalliesNext DEF Loads
<1>12. listener[a] = "off" /\ screen[a] \notin Closed /\ NodesOut(a) = 0
  BY <1>1, <1>11 DEF Loads
<1>13. NodesOut(a)' = Cardinality(S)
  <2>1. IsFiniteSet(S)
    BY <1>1, ListsFinite, FS_Subset
  <2>2. Cardinality(S) \in Nat
    BY <2>1, FS_CardinalityType
  <2> QED BY <1>3, <1>4, <1>12, <2>2, TalliesNext
<1>14. left'[a] > 0
  <2>1. S # {}
    BY DEF LoadLists, e
  <2>2. IsFiniteSet(S)
    BY <1>1, ListsFinite, FS_Subset
  <2>3. Cardinality(S) \in Nat /\ Cardinality(S) # 0
    BY <2>1, <2>2, FS_CardinalityType, FS_EmptySet
  <2> QED BY <1>1, <2>3
<1> QED BY <1>1, <1>10, <1>11, <1>12, <1>13, <1>14 DEF Loads

LEMMA LoadsLoaded ==
  ASSUME TypeOK, TypeOK', NEW a \in Apps, ListLoaded(a), Loads(a)
  PROVE  Loads(a)'
<1> DEFINE e == Head(events[a])
           last == left[a] - 1 = 0
<1>1. /\ events[a] # <<>> /\ e.type = "loaded" /\ e \in Events
      /\ left'[a] = left[a] - 1
      /\ last => screen'[a] = "enabled" /\ listener'[a] = "asked"
      /\ ~last => screen'[a] = screen[a] /\ listener'[a] = listener[a]
  BY OldestEvent DEF ListLoaded, Next1, Loaded, TypeOK
<1>2. ASSUME NEW X, NEW Y, Paired(X, Y)
      PROVE  Tally(a, X, Y)' + One(e, Y) = Tally(a, X, Y) + (IF last THEN One(Listen, X) ELSE 0)
  BY <1>2, TallyListLoaded
<1>3. /\ One(e, KeysTold) = 0 /\ One(e, {}) = 0 /\ One(e, KeyEvents) = 0
      /\ One(e, ReadsTold("loaded")) = 1 /\ One(e, ReadsTold("list")) = 0
  BY <1>1, OneEvent DEF NodeOps
<1>4. /\ One(Listen, {Keys}) = 0 /\ One(Listen, {}) = 0 /\ One(Listen, {Listen}) = 1
      /\ One(Listen, ReadsAsked("loaded")) = 0 /\ One(Listen, ReadsAsked("list")) = 0
  BY OneRequest DEF NodeOps
<1> HIDE DEF e, last
<1>5. KeysOut(a)' + One(e, KeysTold) = KeysOut(a) + (IF last THEN One(Listen, {Keys}) ELSE 0)
  BY <1>2, Pairs DEF KeysOut
<1>6. ListenOut(a)' + One(e, {}) = ListenOut(a) + (IF last THEN One(Listen, {Listen}) ELSE 0)
  BY <1>2, Pairs DEF ListenOut
<1>7. TellsOut(a)' + One(e, KeyEvents) = TellsOut(a) + (IF last THEN One(Listen, {}) ELSE 0)
  BY <1>2, Pairs DEF TellsOut
<1>8. NodesOut(a)' + One(e, ReadsTold("loaded"))
        = NodesOut(a) + (IF last THEN One(Listen, ReadsAsked("loaded")) ELSE 0)
  BY <1>2, Pairs DEF NodesOut, NodeOps
<1>9. RowsOut(a)' + One(e, ReadsTold("list"))
        = RowsOut(a) + (IF last THEN One(Listen, ReadsAsked("list")) ELSE 0)
  BY <1>2, Pairs DEF RowsOut, NodeOps
<1>10. /\ KeysOut(a)' = KeysOut(a) /\ ListenOut(a)' = ListenOut(a) + (IF last THEN 1 ELSE 0)
       /\ TellsOut(a)' = TellsOut(a) /\ NodesOut(a)' + 1 = NodesOut(a)
       /\ RowsOut(a)' = RowsOut(a)
  BY <1>3, <1>4, <1>5, <1>6, <1>7, <1>8, <1>9, TalliesType, TalliesNext
<1>11. left[a] > 0
  BY <1>10, TalliesType, TalliesNext DEF Loads
<1>12. listener[a] = "off" /\ screen[a] \notin Closed /\ KeysOut(a) = 0
  BY <1>1, <1>11, TalliesType DEF Loads
<1>13. left'[a] = NodesOut(a)' /\ (last => left'[a] = 0)
  BY <1>1, <1>10, TalliesType, TalliesNext DEF Loads, last
<1>14. "enabled" \notin Closed
  BY DEF Closed
<1>15. CASE last
  <2>1. ListenOut(a)' = 1 /\ TellsOut(a)' = 0 /\ RowsOut(a)' = 0 /\ KeysOut(a)' = 0
    BY <1>10, <1>12, <1>15, TalliesType DEF Loads
  <2> QED BY <1>1, <1>13, <1>14, <1>15, <2>1 DEF Loads
<1>16. CASE ~last
  <2>1. ListenOut(a)' = 0 /\ TellsOut(a)' = 0 /\ RowsOut(a)' = 0 /\ KeysOut(a)' = 0
    BY <1>10, <1>12, <1>16, TalliesType DEF Loads
  <2>2. left'[a] > 0
    BY <1>1, <1>11, <1>16, TalliesType DEF last
  <2> QED BY <1>1, <1>12, <1>13, <1>16, <2>1, <2>2 DEF Loads
<1> QED BY <1>15, <1>16

\* A callback of a live listener, or the read that follows it.
LEMMA LoadsRows ==
  ASSUME TypeOK, TypeOK', NEW a \in Apps, Loads(a),
         ListsKeysChildAdded(a) \/ ListRead(a) \/ ListsKeysChildRemoved(a)
  PROVE  Loads(a)'
<1> DEFINE e == Head(events[a])
<1>1. /\ events[a] # <<>> /\ e \in Events
      /\ e.type \in {"added", "list", "removed"}
      /\ e.type \in {"added", "removed"} => e.id \in Lists
      /\ ListsKeysChildAdded(a) => e.type = "added"
      /\ left'[a] = left[a] /\ listener'[a] = listener[a] /\ screen'[a] = screen[a]
  BY OldestEvent DEF ListsKeysChildAdded, ListRead, ListsKeysChildRemoved, Next1, app
<1>2. ASSUME NEW X, NEW Y, Paired(X, Y)
      PROVE  \/ Tally(a, X, Y)' + One(e, Y) = Tally(a, X, Y)
             \/ /\ e.id \in Lists
                /\ Tally(a, X, Y)' + One(e, Y) = Tally(a, X, Y) + One(Node("list", e.id), X)
  <2>1. CASE ListsKeysChildAdded(a)
    BY <1>1, <1>2, <2>1, TallyChildAdded, QueuesOf
  <2>2. CASE ListRead(a)
    BY <1>2, <2>2, TallyListRead
  <2>3. CASE ListsKeysChildRemoved(a)
    BY <1>2, <2>3, TallyChildRemoved
  <2> QED BY <2>1, <2>2, <2>3
<1>3. /\ One(e, KeysTold) = 0 /\ One(e, {}) = 0
      /\ One(e, ReadsTold("loaded")) = 0
      /\ One(e, KeyEvents) = 1 \/ One(e, ReadsTold("list")) = 1
      /\ One(e, KeyEvents) \in Nat /\ One(e, ReadsTold("list")) \in Nat
  BY <1>1, OneEvent DEF NodeOps
<1>4. e.id \in Lists => /\ One(Node("list", e.id), {Keys}) = 0
                        /\ One(Node("list", e.id), {Listen}) = 0
                        /\ One(Node("list", e.id), {}) = 0
                        /\ One(Node("list", e.id), ReadsAsked("loaded")) = 0
  BY OneRequest DEF NodeOps
<1>5. HowMany(events[a], KeyEvents) # 0 \/ HowMany(events[a], ReadsTold("list")) # 0
  <2>1. events[a] \in Seq(Events)
    BY DEF TypeOK
  <2>2. ASSUME NEW Y, One(e, Y) = 1 PROVE HowMany(events[a], Y) # 0
    <3>1. HowMany(events[a], Y) = HowMany(Tail(events[a]), Y) + One(e, Y)
          /\ Tail(events[a]) \in Seq(Events)
      BY <1>1, <2>1, Counting
    <3>2. HowMany(Tail(events[a]), Y) \in Nat
      BY <3>1, HowManyType
    <3> QED BY <2>2, <3>1, <3>2
  <2> QED BY <1>3, <2>2
<1>6. TellsOut(a) # 0 \/ RowsOut(a) # 0
  <2>1. /\ HowMany(up[a], {}) \in Nat /\ HowMany(events[a], KeyEvents) \in Nat
        /\ HowMany(up[a], ReadsAsked("list")) \in Nat
        /\ HowMany(events[a], ReadsTold("list")) \in Nat
    BY QueuesOf
  <2> QED BY <1>5, <2>1 DEF TellsOut, RowsOut, Tally
<1>7. listener[a] = "on" /\ screen[a] \notin Closed /\ KeysOut(a) = 0
  BY <1>1, <1>6, TalliesType DEF Loads
<1> HIDE DEF e
<1>8. KeysOut(a)' = KeysOut(a)
  <2>1. Tally(a, {Keys}, KeysTold)' + One(e, KeysTold) = Tally(a, {Keys}, KeysTold)
    BY <1>2, <1>4, Pairs, QueuesOf
  <2> QED BY <1>3, <2>1, TalliesNext DEF KeysOut
<1>9. ListenOut(a)' = ListenOut(a)
  <2>1. Tally(a, {Listen}, {})' + One(e, {}) = Tally(a, {Listen}, {})
    BY <1>2, <1>4, Pairs, QueuesOf
  <2> QED BY <1>3, <2>1, TalliesNext DEF ListenOut
<1>10. NodesOut(a)' = NodesOut(a)
  <2> DEFINE X == ReadsAsked("loaded")
             Y == ReadsTold("loaded")
  <2>1. Paired(X, Y)
    BY Pairs DEF NodeOps
  <2> HIDE DEF Y
  <2>2. Tally(a, X, Y)' + One(e, Y) = Tally(a, X, Y)
    BY <1>2, <1>4, <2>1, QueuesOf
  <2> QED BY <1>3, <2>2, TalliesNext DEF NodesOut, Y
<1> QED BY <1>1, <1>7, <1>8, <1>9, <1>10 DEF Loads

\* The process ends, and starts again.
LEMMA LoadsReset ==
  ASSUME TypeOK, NEW a \in Apps, NEW how \in Closed, Reset(a, how), Loads(a)
  PROVE  Loads(a)'
<1>1. \A X, Y : Tally(a, X, Y)' = 0
  BY TallyReset
<1>2. /\ KeysOut(a)' = 0 /\ NodesOut(a)' = 0 /\ RowsOut(a)' = 0
      /\ ListenOut(a)' = 0 /\ TellsOut(a)' = 0
  BY <1>1 DEF KeysOut, NodesOut, RowsOut, ListenOut, TellsOut
<1>3. /\ up'[a] = <<>> /\ events'[a] = <<>> /\ data'[a] = <<>>
      /\ listener'[a] = "off" /\ left'[a] = 0 /\ screen'[a] \in Closed
  BY DEF Reset, TypeOK
<1> QED BY <1>2, <1>3 DEF Loads

LEMMA LoadsOpen ==
  ASSUME TypeOK, NEW a \in Apps, OpenLists(a), Loads(a)
  PROVE  Loads(a)'
<1>1. /\ events[a] = <<>> /\ data[a] = <<>> /\ listener[a] = "off" /\ up[a] = <<>>
      /\ screen'[a] = "loading" /\ data' = data /\ listener' = listener /\ left' = left
  BY DEF OpenLists, Loads, TypeOK
<1>2. left[a] = 0
  BY <1>1, Uncounted DEF Loads, NodesOut, Tally
<1>3. \A X, Y : Tally(a, X, Y)' = One(Keys, X)
  <2> SUFFICES ASSUME NEW X, NEW Y PROVE Tally(a, X, Y)' = One(Keys, X)
    OBVIOUS
  <2>1. HowMany(events[a], Y) = 0
    BY <1>1, Uncounted
  <2>2. Tally(a, X, Y)' = One(Keys, X) + HowMany(events[a], Y)
    BY TallyOpen
  <2> QED BY <2>1, <2>2 DEF One
<1>4. /\ KeysOut(a)' = 1 /\ NodesOut(a)' = 0 /\ RowsOut(a)' = 0
      /\ ListenOut(a)' = 0 /\ TellsOut(a)' = 0
  BY <1>3, OneRequest DEF KeysOut, NodesOut, RowsOut, ListenOut, TellsOut, NodeOps
<1>5. "loading" \notin Closed
  BY DEF Closed
<1> QED BY <1>1, <1>2, <1>4, <1>5 DEF Loads

LEMMA LoadsRemoveList ==
  ASSUME TypeOK, TypeOK', NEW a \in Apps, RemoveList(a), Loads(a)
  PROVE  Loads(a)'
<1>1. \A l \in Lists : /\ Node("users", l) \notin {Keys} /\ Node("users", l) \notin {Listen}
                       /\ \A o \in {"loaded", "list"} : Node("users", l) \notin ReadsAsked(o)
  BY DEF Node, Keys, Listen, ReadsAsked
<1>2. /\ Tally(a, {Keys}, KeysTold)' = Tally(a, {Keys}, KeysTold)
      /\ Tally(a, {Listen}, {})' = Tally(a, {Listen}, {})
      /\ Tally(a, {}, KeyEvents)' = Tally(a, {}, KeyEvents)
  BY <1>1, Pairs, TallyRemoveList
<1>3. \A o \in {"loaded", "list"} :
        Tally(a, ReadsAsked(o), ReadsTold(o))' = Tally(a, ReadsAsked(o), ReadsTold(o))
  BY <1>1, Pairs, TallyRemoveList DEF NodeOps
<1>4. AppKept(a) /\ screen[a] \notin Closed
  BY DEF RemoveList, AppKept, app, Closed
<1>5. /\ KeysOut(a)' = KeysOut(a) /\ NodesOut(a)' = NodesOut(a) /\ RowsOut(a)' = RowsOut(a)
      /\ ListenOut(a)' = ListenOut(a) /\ TellsOut(a)' = TellsOut(a)
  BY <1>2, <1>3 DEF KeysOut, NodesOut, RowsOut, ListenOut, TellsOut
<1> QED BY <1>4, <1>5, LoadsGoesOn

\* A step of a is none of another app, except for what a write of its tells there.
LEMMA OthersKept ==
  ASSUME TypeOK, NEW a \in Apps, NEW b \in Apps, b # a,
         \/ AnswerKeys(a) \/ AnswerListen(a) \/ AnswerNode(a) \/ Reject(a) \/ MainStep(a)
         \/ TimeoutGuardFired(a) \/ UserStep(a)
  PROVE  up'[b] = up[b] /\ events'[b] = events[b] /\ AppKept(b)
<1>1. CASE AnswerKeys(a)
  BY <1>1 DEF AnswerKeys, Answered, AppKept, app, TypeOK
<1>2. CASE AnswerListen(a)
  BY <1>2 DEF AnswerListen, Answered, AppKept, app, TypeOK
<1>3. CASE AnswerNode(a)
  BY <1>3 DEF AnswerNode, Answered, AppKept, app, TypeOK
<1>4. CASE Reject(a)
  BY <1>4 DEF Reject, Answered, AppKept, app, TypeOK
<1>5. CASE LoadNoLists(a)
  BY <1>5 DEF LoadNoLists, Loaded, Handled, AppKept, TypeOK
<1>6. CASE ListLoaded(a) /\ left[a] - 1 = 0
  BY <1>6 DEF ListLoaded, Loaded, Handled, NewRow, AppKept, TypeOK
<1>7. CASE ListLoaded(a) /\ left[a] - 1 # 0
  BY <1>7 DEF ListLoaded, Handled, NewRow, AppKept, TypeOK
<1>8. CASE LoadLists(a)
  <2>1. PICK s, r : /\ events' = [events EXCEPT ![a] = Tail(@) \o s]
                    /\ up' = [up EXCEPT ![a] = @ \o r]
    BY <1>8 DEF LoadLists
  <2> QED BY <1>8, <2>1 DEF LoadLists, AppKept, TypeOK
<1>9. CASE ListsKeysChildAdded(a)
  BY <1>9 DEF ListsKeysChildAdded, ReadNode, Handled, AppKept, app, TypeOK
<1>10. CASE ListRead(a)
  BY <1>10 DEF ListRead, Handled, NewRow, AppKept, TypeOK
<1>11. CASE ListsKeysChildRemoved(a)
  BY <1>11 DEF ListsKeysChildRemoved, Handled, AppKept, TypeOK
<1>12. CASE RemoveListUsersRead(a)
  BY <1>12 DEF RemoveListUsersRead, Handled, AppKept, app, TypeOK
<1>13. CASE NoSuchList(a)
  BY <1>13 DEF NoSuchList, Reset, AppKept, TypeOK
<1>14. CASE TimeoutGuardFired(a)
  BY <1>14 DEF TimeoutGuardFired, AppKept, app, sdk, TypeOK
<1>15. CASE OpenLists(a)
  BY <1>15 DEF OpenLists, AppKept, TypeOK
<1>16. CASE Quit(a) \/ SelectNoList(a)
  BY <1>16 DEF Quit, SelectNoList, Reset, AppKept, TypeOK
<1>17. CASE AddNewList(a)
  BY <1>17 DEF AddNewList, Send, AppKept, app, TypeOK
<1>18. CASE AcceptInvitation(a)
  BY <1>18 DEF AcceptInvitation, Send, AppKept, app, TypeOK
<1>19. CASE RemoveList(a)
  BY <1>19 DEF RemoveList, ReadNode, AppKept, app, TypeOK
<1> QED BY <1>1, <1>2, <1>3, <1>4, <1>5, <1>6, <1>7, <1>8, <1>9, <1>10, <1>11, <1>12,
   <1>13, <1>14, <1>15, <1>16, <1>17, <1>18, <1>19 DEF MainStep, UserStep

LEMMA LoadsUser ==
  ASSUME TypeOK, TypeOK', NEW a \in Apps, UserStep(a) \/ TimeoutGuardFired(a), Loads(a)
  PROVE  Loads(a)'
<1>1. CASE OpenLists(a)
  BY <1>1, LoadsOpen
<1>2. CASE Quit(a) \/ SelectNoList(a)
  BY <1>2, LoadsReset DEF Quit, SelectNoList, Closed
<1>3. CASE AddNewList(a)
  <2>1. PICK l \in Lists : Send(a, AddOf(l, owner[a]))
    BY <1>3 DEF AddNewList
  <2>2. AddOf(l, owner[a]) \in Writes
    BY DEF AddOf, Writes, WriteOps, TypeOK
  <2>3. AppKept(a) /\ screen[a] = "enabled"
    BY <1>3 DEF AddNewList, AppKept, app
  <2> QED BY <2>1, <2>2, <2>3, LoadsSend
<1>4. CASE AcceptInvitation(a)
  <2>1. PICK l \in heard : Send(a, JoinOf(l, owner[a]))
    BY <1>4 DEF AcceptInvitation
  <2>2. JoinOf(l, owner[a]) \in Writes
    BY DEF JoinOf, Writes, WriteOps, TypeOK
  <2>3. AppKept(a) /\ screen[a] = "enabled"
    BY <1>4 DEF AcceptInvitation, AppKept, app
  <2> QED BY <2>1, <2>2, <2>3, LoadsSend
<1>5. CASE RemoveList(a)
  BY <1>5, LoadsRemoveList
<1>6. CASE TimeoutGuardFired(a)
  <2>1. \A X, Y : Tally(a, X, Y)' = Tally(a, X, Y)
    BY <1>6 DEF TimeoutGuardFired, sdk, Tally
  <2>2. /\ KeysOut(a)' = KeysOut(a) /\ NodesOut(a)' = NodesOut(a) /\ RowsOut(a)' = RowsOut(a)
        /\ ListenOut(a)' = ListenOut(a) /\ TellsOut(a)' = TellsOut(a)
    BY <2>1 DEF KeysOut, NodesOut, RowsOut, ListenOut, TellsOut
  <2>3. /\ screen[a] \notin Closed /\ screen'[a] \notin Closed
        /\ left' = left /\ data' = data /\ listener' = listener
    BY <1>6 DEF TimeoutGuardFired, sdk, Closed, TypeOK
  <2> QED BY <2>2, <2>3 DEF Loads
<1> QED BY <1>1, <1>2, <1>3, <1>4, <1>5, <1>6 DEF UserStep

\* The counter is right after every step of any app, ...
LEMMA LoadsStep ==
  ASSUME TypeOK, TypeOK', [Next]_vars, \A b \in Apps : Loads(b)
  PROVE  \A b \in Apps : Loads(b)'
<1> SUFFICES ASSUME NEW b \in Apps PROVE Loads(b)'
  OBVIOUS
<1>1. CASE UNCHANGED vars
  <2>1. up' = up /\ events' = events /\ AppKept(b)
    BY <1>1 DEF vars, sdk, app, AppKept
  <2> QED BY <2>1, LoadsKept
<1>2. ASSUME NEW a \in Apps, Commit(a) PROVE Loads(b)'
  BY <1>2, LoadsCommit
<1>3. ASSUME NEW a \in Apps, b # a,
             \/ AnswerKeys(a) \/ AnswerListen(a) \/ AnswerNode(a) \/ Reject(a) \/ MainStep(a)
             \/ TimeoutGuardFired(a) \/ UserStep(a)
      PROVE  Loads(b)'
  BY <1>3, OthersKept, LoadsKept
<1>4. CASE \/ AnswerKeys(b) \/ AnswerListen(b) \/ AnswerNode(b) \/ Reject(b) \/ MainStep(b)
           \/ TimeoutGuardFired(b) \/ UserStep(b)
  <2>1. CASE AnswerKeys(b) \/ AnswerListen(b) \/ AnswerNode(b) \/ Reject(b)
    BY <2>1, LoadsServer, LoadsAnswerListen, LoadsReject
  <2>2. CASE LoadNoLists(b) \/ LoadLists(b) \/ ListLoaded(b)
    BY <2>2, LoadsNoLists, LoadsLists, LoadsLoaded
  <2>3. CASE ListsKeysChildAdded(b) \/ ListRead(b) \/ ListsKeysChildRemoved(b)
    BY <2>3, LoadsRows
  <2>4. CASE RemoveListUsersRead(b)
    BY <2>4, LoadsUsersRead
  <2>5. CASE NoSuchList(b)
    BY <2>5, LoadsReset DEF NoSuchList, Closed
  <2>6. CASE TimeoutGuardFired(b) \/ UserStep(b)
    BY <2>6, LoadsUser
  <2> QED BY <1>4, <2>1, <2>2, <2>3, <2>4, <2>5, <2>6 DEF MainStep
<1> QED BY <1>1, <1>2, <1>3, <1>4 DEF Next, ServerStep

AllLoad == \A b \in Apps : Loads(b)

\* ... and so in every state.
LEMMA AlwaysLoads == Spec => []AllLoad
<1>1. Init => AllLoad
  <2> SUFFICES ASSUME Init, NEW b \in Apps PROVE Loads(b)
    BY DEF AllLoad
  <2>1. /\ up[b] = <<>> /\ events[b] = <<>> /\ data[b] = <<>>
        /\ listener[b] = "off" /\ left[b] = 0 /\ screen[b] \in Closed
    BY DEF Init, Closed
  <2>2. \A X, Y : Tally(b, X, Y) = 0
    BY <2>1, Uncounted DEF Tally
  <2> QED BY <2>1, <2>2 DEF Loads, KeysOut, NodesOut, RowsOut, ListenOut, TellsOut
<1>2. TypeOK /\ TypeOK' /\ AllLoad /\ [Next]_vars => AllLoad'
  BY LoadsStep DEF AllLoad
<1> QED BY <1>1, <1>2, TypeCorrect, PTL DEF Spec

\* listsCounter is exact: whatever the guard does meanwhile, however the answers of the
\* database are ordered, it counts the nodes that LoadData still waits for.
THEOREM CounterIsExact == Spec => []CounterMatchesReads
<1>1. TypeOK /\ AllLoad => CounterMatchesReads
  <2> SUFFICES ASSUME TypeOK, NEW a \in Apps, Loads(a)
               PROVE  left[a] = Cardinality({k \in DOMAIN up[a] : up[a][k].op = "loaded"})
                              + Cardinality({k \in DOMAIN events[a] : events[a][k].type = "loaded"})
    BY DEF CounterMatchesReads, AllLoad
  <2>1. \A k \in DOMAIN up[a] : up[a][k] \in Requests
    BY DEF TypeOK
  <2>2. \A k \in DOMAIN events[a] : events[a][k] \in Events
    BY DEF TypeOK
  <2>3. \A r \in Requests : r.op = "loaded" <=> r \in ReadsAsked("loaded")
    <3> SUFFICES ASSUME NEW r \in Requests, r.op = "loaded" PROVE r \in ReadsAsked("loaded")
      BY DEF ReadsAsked
    <3>1. r = Node(r.op, r.id) /\ r.id \in Lists
      BY RequestForms DEF NodeOps
    <3> QED BY <3>1 DEF Node, ReadsAsked
  <2>4. \A e \in Events : e.type = "loaded" <=> e \in ReadsTold("loaded")
    <3> SUFFICES ASSUME NEW e \in Events PROVE e.type = "loaded" <=> e \in ReadsTold("loaded")
      OBVIOUS
    <3>1. One(e, ReadsTold("loaded")) = (IF e.type = "loaded" THEN 1 ELSE 0)
      BY OneEvent DEF NodeOps
    <3> QED BY <3>1 DEF One
  <2>5. {k \in DOMAIN up[a] : up[a][k].op = "loaded"} = Places(up[a], ReadsAsked("loaded"))
    BY <2>1, <2>3 DEF Places
  <2>6. {k \in DOMAIN events[a] : events[a][k].type = "loaded"}
          = Places(events[a], ReadsTold("loaded"))
    BY <2>2, <2>4 DEF Places
  <2> QED BY <2>5, <2>6, Zenon DEF Loads, NodesOut, Tally, HowMany
<1> QED BY <1>1, AlwaysLoads, TypeCorrect, PTL

\* Nobody waits for nothing: the observers are asked for with the last callback of the
\* loading, and until then one of its callbacks is on its way.
THEOREM ObserversWillStart == Spec => []LoadIsOwed
<1>1. TypeOK /\ AllLoad => LoadIsOwed
  <2> SUFFICES ASSUME TypeOK, NEW a \in Apps, Loads(a), screen[a] \notin Closed
               PROVE  LET keys == Cardinality({k \in DOMAIN up[a] : up[a][k].op = "keys"})
                            + Cardinality({k \in DOMAIN events[a] : events[a][k].type = "keys"})
                      IN  IF listener[a] = "off" THEN \/ keys = 1 /\ left[a] = 0
                                                      \/ keys = 0 /\ left[a] > 0
                          ELSE keys = 0 /\ left[a] = 0
    BY DEF LoadIsOwed, AllLoad
  <2> DEFINE asks == {k \in DOMAIN up[a] : up[a][k].op = "keys"}
             tells == {k \in DOMAIN events[a] : events[a][k].type = "keys"}
  <2>1. \A k \in DOMAIN up[a] : up[a][k] \in Requests
    BY DEF TypeOK
  <2>2. \A k \in DOMAIN events[a] : events[a][k] \in Events
    BY DEF TypeOK
  <2>3. \A r \in Requests : r.op = "keys" <=> r \in {Keys}
    BY RequestForms DEF Keys
  <2>4. \A e \in Events : e.type = "keys" <=> e \in KeysTold
    <3> SUFFICES ASSUME NEW e \in Events PROVE e.type = "keys" <=> e \in KeysTold
      OBVIOUS
    <3>1. One(e, KeysTold) = (IF e.type = "keys" THEN 1 ELSE 0)
      BY OneEvent
    <3> QED BY <3>1 DEF One
  <2>5. asks = Places(up[a], {Keys})
    BY <2>1, <2>3 DEF Places
  <2>6. tells = Places(events[a], KeysTold)
    BY <2>2, <2>4 DEF Places
  <2>7. KeysOut(a) = Cardinality(asks) + Cardinality(tells)
    BY <2>5, <2>6, Zenon DEF KeysOut, Tally, HowMany
  <2> HIDE DEF asks, tells
  <2>8. KeysOut(a) \in Nat /\ left[a] \in Int /\ listener[a] \in {"off", "asked", "on"}
    BY TalliesType
  <2>9. IF listener[a] = "off" THEN \/ KeysOut(a) = 1 /\ left[a] = 0
                                    \/ KeysOut(a) = 0 /\ left[a] > 0
        ELSE KeysOut(a) = 0 /\ left[a] = 0
    BY <2>8, TalliesType DEF Loads
  <2> QED BY <2>7, <2>9 DEF asks, tells
<1> QED BY <1>1, AlwaysLoads, TypeCorrect, PTL

-----------------------------------------------------------------------------
(***************************************************************************)
(* What queues hold, whatever their order.                                 *)
(***************************************************************************)
LEMMA EntriesTaken ==
  ASSUME NEW A, NEW q \in Seq(A), q # <<>>
  PROVE  /\ Tail(q) \in Seq(A) /\ Head(q) \in Entries(q)
         /\ Entries(q) = {Head(q)} \cup Entries(Tail(q))
<1> DEFINE t == Tail(q)
<1>1. /\ Len(q) \in Nat /\ Len(q) > 0 /\ DOMAIN q = 1 .. Len(q) /\ Head(q) = q[1]
      /\ t \in Seq(A) /\ Len(t) = Len(q) - 1 /\ DOMAIN t = 1 .. (Len(q) - 1)
      /\ \A k \in 1 .. (Len(q) - 1) : t[k] = q[k + 1]
  BY HeadTailProperties, EmptySeq
<1> HIDE DEF t
<1>2. \A x \in Entries(t) : x \in Entries(q)
  BY <1>1 DEF Entries
<1>3. ASSUME NEW x \in Entries(q), x # Head(q) PROVE x \in Entries(t)
  <2>1. PICK k \in 1 .. Len(q) : x = q[k]
    BY <1>1 DEF Entries
  <2>2. k # 1 /\ k - 1 \in 1 .. (Len(q) - 1) /\ t[k - 1] = q[k]
    BY <1>1, <1>3, <2>1
  <2> QED BY <1>1, <2>1, <2>2 DEF Entries
<1>4. Head(q) \in Entries(q)
  BY <1>1 DEF Entries
<1> QED BY <1>1, <1>2, <1>3, <1>4 DEF t

\* The entries of queues put together.
LEMMA EntriesJoined ==
  ASSUME NEW A, NEW q \in Seq(A), NEW r \in Seq(A)
  PROVE  Entries(q \o r) = Entries(q) \cup Entries(r)
<1> DEFINE n == Len(q)
           c == q \o r
<1>1. /\ n \in Nat /\ Len(r) \in Nat
      /\ DOMAIN q = 1 .. n /\ DOMAIN r = 1 .. Len(r) /\ DOMAIN c = 1 .. (n + Len(r))
      /\ \A k \in 1 .. n : c[k] = q[k]
      /\ \A k \in 1 .. Len(r) : c[k + n] = r[k]
  BY ConcatProperties
<1>2. \A k \in DOMAIN c : c[k] \in Entries(q) \cup Entries(r)
  BY ElementOfEither DEF Entries
<1> HIDE DEF n, c
<1>3. \A k \in DOMAIN q : k \in DOMAIN c /\ c[k] = q[k]
  BY <1>1
<1>4. \A k \in DOMAIN r : k + n \in DOMAIN c /\ c[k + n] = r[k]
  BY <1>1
<1>5. Entries(c) \subseteq Entries(q) \cup Entries(r)
  BY <1>2 DEF Entries
<1>6. Entries(q) \subseteq Entries(c)
  BY <1>3 DEF Entries
<1>7. Entries(r) \subseteq Entries(c)
  BY <1>4 DEF Entries
<1> QED BY <1>5, <1>6, <1>7 DEF c

LEMMA EntriesAppended ==
  ASSUME NEW A, NEW q \in Seq(A), NEW x \in A
  PROVE  Append(q, x) \in Seq(A) /\ Entries(Append(q, x)) = Entries(q) \cup {x}
<1> DEFINE one == <<x>>
<1>1. one \in Seq(A) /\ Append(q, x) = q \o one /\ Entries(one) = {x}
  BY AppendIsConcat DEF Entries
<1> HIDE DEF one
<1> QED BY <1>1, EntriesJoined

LEMMA EntriesNone == Entries(<<>>) = {}
BY DEF Entries

\* An app keeps its user.
LEMMA OwnerKept ==
  ASSUME [Next]_vars
  PROVE  owner' = owner
<1>1. CASE UNCHANGED vars
  BY <1>1 DEF vars
<1>2. ASSUME NEW a \in Apps, ServerStep(a) \/ Reject(a)
      PROVE  owner' = owner
  BY <1>2 DEF ServerStep, AnswerKeys, AnswerListen, AnswerNode, Commit, Reject
<1>3. ASSUME NEW a \in Apps, MainStep(a) \/ TimeoutGuardFired(a)
      PROVE  owner' = owner
  BY <1>3 DEF MainStep, LoadNoLists, LoadLists, ListLoaded, ListsKeysChildAdded, ListRead,
     ListsKeysChildRemoved, RemoveListUsersRead, NoSuchList, TimeoutGuardFired
<1>4. ASSUME NEW a \in Apps, UserStep(a)
      PROVE  owner' = owner
  BY <1>4 DEF UserStep, OpenLists, Quit, AddNewList, AcceptInvitation, RemoveList, SelectNoList
<1> QED BY <1>1, <1>2, <1>3, <1>4 DEF Next

\* One entry joins a queue; the oldest may be handled before.
LEMMA EntriesOfQueues ==
  ASSUME TypeOK, NEW b \in Apps
  PROVE  /\ up[b] \in Seq(Requests) /\ events[b] \in Seq(Events) /\ data[b] \in Seq(Lists)
         /\ events[b] # <<>> => /\ Tail(events[b]) \in Seq(Events)
                                /\ Entries(Tail(events[b])) \subseteq Entries(events[b])
                                /\ Head(events[b]) \in Entries(events[b])
         /\ up[b] # <<>> => /\ Tail(up[b]) \in Seq(Requests)
                            /\ Entries(Tail(up[b])) \subseteq Entries(up[b])
                            /\ Head(up[b]) \in Entries(up[b])
<1>1. up[b] \in Seq(Requests) /\ events[b] \in Seq(Events) /\ data[b] \in Seq(Lists)
  BY DEF TypeOK
<1>2. events[b] # <<>> => /\ Tail(events[b]) \in Seq(Events)
                          /\ Entries(Tail(events[b])) \subseteq Entries(events[b])
                          /\ Head(events[b]) \in Entries(events[b])
  BY <1>1, EntriesTaken
<1>3. up[b] # <<>> => /\ Tail(up[b]) \in Seq(Requests)
                      /\ Entries(Tail(up[b])) \subseteq Entries(up[b])
                      /\ Head(up[b]) \in Entries(up[b])
  BY <1>1, EntriesTaken
<1> QED BY <1>1, <1>2, <1>3
=============================================================================
