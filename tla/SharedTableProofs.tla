------------------------- MODULE SharedTableProofs -------------------------
(***************************************************************************)
(* SingleList implements SharedTable: for any users, ids and bounds, what  *)
(* the apps make of the server's items is what the single table allows.    *)
(***************************************************************************)
EXTENDS SingleListProofs

Step(c)        == ServerStep(c) \/ Reject(c) \/ MainStep(c) \/ UserStep(c)
NoWrites(q)    == \A k \in DOMAIN q : q[k].op \notin WriteOps
WritesOn(q, i) == \E k \in DOMAIN q : q[k].op \in WriteOps /\ q[k].id = i

(***************************************************************************)
(* What a step of c other than Commit makes of c's requests: the oldest    *)
(* one is taken, all are dropped, or something is appended - requests that *)
(* write nothing, an item with a fresh id, or a write to one of c's rows.  *)
(***************************************************************************)
QueueAfter(c, q) ==
    \/ UNCHANGED used /\ q = up[c]
    \/ UNCHANGED used /\ up[c] # <<>> /\ q = Tail(up[c])
    \/ UNCHANGED used /\ NoWrites(q)
    \/ UNCHANGED used /\ \E r \in Seq(Requests) : NoWrites(r) /\ q = up[c] \o r
    \/ UNCHANGED used /\ \E w \in Writes :
          w.op # "add" /\ w.id \in RowIds(c) /\ q = Append(up[c], w)
    \/ \E i \in Ids \ used : used' = used \cup {i} /\ q = Append(up[c], AddOf(i))

\* The write of a row of c names an item of c.
LEMMA RowOfApp ==
  ASSUME TypeOK, NEW c \in Users, NEW k \in DOMAIN data[c]
  PROVE  data[c][k] \in Rows /\ data[c][k].id \in Ids /\ data[c][k].id \in RowIds(c)
<1>1. data[c] \in Seq(Rows)
  BY DEF TypeOK
<1>2. data[c][k] \in Rows
  BY <1>1
<1> QED BY <1>2 DEF Rows, RowIds

\* Every step but Commit leaves the server alone and treats the requests as said.
LEMMA QueueStep ==
  ASSUME TypeOK, NEW c \in Users, Step(c), ~Commit(c)
  PROVE  /\ server' = server
         /\ \E q : up' = [up EXCEPT ![c] = q] /\ QueueAfter(c, q)
<1>q. up \in [Users -> Seq(Requests)]
  BY DEF TypeOK
<1>s. ASSUME up' = up, UNCHANGED used PROVE \E q : up' = [up EXCEPT ![c] = q] /\ QueueAfter(c, q)
  <2>1. up' = [up EXCEPT ![c] = up[c]]
    BY <1>q, <1>s
  <2> QED BY <1>s, <2>1 DEF QueueAfter
<1>1. CASE AnswerRead(c) \/ AnswerNames(c) \/ AnswerWatch(c) \/ AnswerTable(c) \/ Reject(c)
  <2>1. /\ up[c] # <<>> /\ up' = [up EXCEPT ![c] = Tail(up[c])]
        /\ UNCHANGED <<server, used>>
    BY <1>1 DEF AnswerRead, AnswerNames, AnswerWatch, AnswerTable, Reject, Oldest, Answered
  <2> QED BY <2>1 DEF QueueAfter
<1>2. CASE LoadNothing(c) \/ LastItemNamed(c)
  <2>1. /\ UNCHANGED <<server, used>>
        /\ up' = up \/ up' = [up EXCEPT ![c] = Append(up[c], Table)]
    BY <1>2 DEF LoadNothing, LastItemNamed, ActivateObservers
  <2>2. Table \in Requests /\ Table.op \notin WriteOps
    BY DEF Table, Requests, WriteOps
  <2>3. Append(up[c], Table) = up[c] \o <<Table>> /\ <<Table>> \in Seq(Requests)
    BY <1>q, <2>2, AppendIsConcat
  <2>4. NoWrites(<<Table>>)
    BY <2>2 DEF NoWrites
  <2> QED BY <1>s, <2>1, <2>3, <2>4 DEF QueueAfter
<1>3. CASE LoadItems(c)
  <2>1. PICK r \in Seq(Requests) :
           /\ \A k \in DOMAIN r : r[k].op \in {"watch", "names"}
           /\ up' = [up EXCEPT ![c] = up[c] \o r]
    BY <1>3, LoadItemsShape
  <2>2. NoWrites(r) /\ UNCHANGED <<server, used>>
    BY <1>3, <2>1 DEF NoWrites, WriteOps, LoadItems
  <2> QED BY <2>1, <2>2 DEF QueueAfter
<1>4. CASE ItemsChildAdded(c) \/ ItemsChildRemoved(c) \/ ItemUpdated(c)
  BY <1>4, <1>s DEF ItemsChildAdded, ItemsChildRemoved, ItemUpdated
<1>5. CASE LoadPartialItem(c) \/ PartialChildAdded(c) \/ PopupYesNoRow(c) \/ Quit(c)
  <2>1. up' = [up EXCEPT ![c] = <<>>] /\ UNCHANGED <<server, used>>
    BY <1>5 DEF LoadPartialItem, PartialChildAdded, PopupYesNoRow, Quit, Crash, Reset
  <2>2. NoWrites(<<>>)
    BY DEF NoWrites
  <2> QED BY <2>1, <2>2 DEF QueueAfter
<1>6. CASE OpenList(c)
  <2>1. up' = [up EXCEPT ![c] = <<Read>>] /\ UNCHANGED <<server, used>>
    BY <1>6 DEF OpenList
  <2>2. NoWrites(<<Read>>)
    BY DEF NoWrites, Read, WriteOps
  <2> QED BY <2>1, <2>2 DEF QueueAfter
<1>7. CASE LeaveScreen(c) \/ SelectChecked(c) \/ PopupNo(c)
  BY <1>7, <1>s DEF LeaveScreen, SelectChecked, PopupNo, sdk
<1>8. CASE AddNewItem(c)
  <2>1. PICK i \in Ids \ used : used' = used \cup {i} /\ Send(c, AddOf(i))
    BY <1>8 DEF AddNewItem
  <2>2. up' = [up EXCEPT ![c] = Append(up[c], AddOf(i))] /\ UNCHANGED server
    BY <1>8, <2>1 DEF AddNewItem, Send
  <2> QED BY <2>1, <2>2 DEF QueueAfter
<1>9. CASE RemoveItem(c)
  <2>1. PICK k \in DOMAIN data[c] : Send(c, DelOf(data[c][k].id))
    BY <1>9 DEF RemoveItem
  <2> DEFINE w == DelOf(data[c][k].id)
  <2>2. w \in Writes /\ w.op # "add" /\ w.id \in RowIds(c)
    BY RowOfApp DEF DelOf, Writes, WriteOps, Checkers
  <2>3. up' = [up EXCEPT ![c] = Append(up[c], w)] /\ UNCHANGED <<server, used>>
    BY <1>9, <2>1 DEF RemoveItem, Send
  <2> QED BY <2>2, <2>3 DEF QueueAfter
<1>10. CASE SelectUnchecked(c) \/ PopupYes(c)
  <2>1. PICK k \in DOMAIN data[c] : Send(c, ReverseCheckedOf(c, data[c][k]))
    BY <1>10 DEF SelectUnchecked, PopupYes, ReverseChecked
  <2> DEFINE w == ReverseCheckedOf(c, data[c][k])
  <2>2. w \in Writes /\ w.op # "add" /\ w.id \in RowIds(c)
    BY RowOfApp, ReverseType DEF ReverseCheckedOf, CheckOf
  <2>3. up' = [up EXCEPT ![c] = Append(up[c], w)] /\ UNCHANGED <<server, used>>
    BY <1>10, <2>1 DEF SelectUnchecked, PopupYes, Send
  <2> QED BY <2>2, <2>3 DEF QueueAfter
<1> QED BY <1>1, <1>2, <1>3, <1>4, <1>5, <1>6, <1>7, <1>8, <1>9, <1>10
        DEF Step, ServerStep, MainStep, UserStep
-----------------------------------------------------------------------------
(***************************************************************************)
(* What an app knows of an item: it has a row, a callback that may become  *)
(* one, or a write under way.                                              *)
(***************************************************************************)
Tells(e, i)  == \/ e.type = "added" /\ e.id = i
                \/ e.type = "loaded" /\ e.snap[i] # Absent
Silent(s, i) == \A k \in DOMAIN s : ~Tells(s[k], i)
Knows(c, i)  == i \in RowIds(c) \/ ~Silent(events[c], i) \/ WritesOn(up[c], i)

\* A slot without pending writes shows what the server holds.
LEMMA OverlayUnwritten ==
  ASSUME NEW n, NEW q, NEW i, ~WritesOn(q, i)
  PROVE  Overlay(n, q, i) = n
<1>1. PendingOn(q, i) = {}
  BY DEF WritesOn, PendingOn
<1> QED BY <1>1 DEF Overlay

\* Callbacks that are put behind others, or handled, tell nothing new.
LEMMA SilentQueue ==
  ASSUME NEW s \in Seq(Events), NEW i, Silent(s, i)
  PROVE  /\ s # <<>> => Silent(Tail(s), i) /\ ~Tells(Head(s), i)
         /\ \A r \in Seq(Events) : Silent(r, i) => Silent(s \o r, i)
         /\ \A e \in Events : ~Tells(e, i) => Silent(Append(s, e), i)
<1>1. s # <<>> => Silent(Tail(s), i) /\ ~Tells(Head(s), i)
  <2>1. ASSUME s # <<>>, NEW k \in DOMAIN Tail(s)
        PROVE  Tail(s)[k] = s[k + 1] /\ k + 1 \in DOMAIN s
    BY <2>1
  <2>2. s # <<>> => Head(s) = s[1] /\ 1 \in DOMAIN s
    OBVIOUS
  <2> QED BY <2>1, <2>2 DEF Silent
<1>2. ASSUME NEW r \in Seq(Events), Silent(r, i) PROVE Silent(s \o r, i)
  BY <1>2, ElementOfEither DEF Silent
<1>3. ASSUME NEW e \in Events, ~Tells(e, i) PROVE Silent(Append(s, e), i)
  <2>1. Silent(<<e>>, i) /\ <<e>> \in Seq(Events)
    BY <1>3 DEF Silent
  <2> QED BY <1>2, <2>1, AppendIsConcat
<1> QED BY <1>1, <1>2, <1>3

\* What the SDK raises for one item tells nothing about another.
LEMMA RaisedAbout ==
  ASSUME TypeOK, NEW c \in Users, NEW j \in Ids, NEW i \in Ids \ {j},
         NEW n \in Slot, NEW q \in Seq(Requests)
  PROVE  Raised(c, j, n, q) \in Seq(Events) /\ Silent(Raised(c, j, n, q), i)
<1> DEFINE old == Seen(c, j, server[j], up[c])
           new == Seen(c, j, n, q)
           e1 == [type |-> "checked", id |-> j, value |-> new.checked, regs |-> regs[c][j]]
           e2 == [type |-> "checked_by_id", id |-> j, value |-> new.by, regs |-> regs[c][j]]
           s1 == IF old.checked # new.checked THEN <<e1>> ELSE <<>>
           s2 == IF old.by # new.by THEN <<e2>> ELSE <<>>
<1>1. Raised(c, j, n, q) \in Seq(Events)
  BY RaisedType, CallbacksAreEvents
<1>2. \/ Raised(c, j, n, q) = <<Added(j, new)>>
      \/ Raised(c, j, n, q) = <<Removed(j)>>
      \/ Raised(c, j, n, q) = s1 \o s2
      \/ Raised(c, j, n, q) = <<>>
  BY DEF Raised, FieldChanges
<1>3. Silent(<<Added(j, new)>>, i) /\ Silent(<<Removed(j)>>, i) /\ Silent(<<>>, i)
  BY DEF Silent, Tells, Added, Removed
<1>4. Silent(s1 \o s2, i)
  <2>1. e1.type = "checked" /\ e2.type = "checked_by_id"
    OBVIOUS
  <2> DEFINE E == {e1, e2}
  <2>2. e1 \in E /\ e2 \in E
    OBVIOUS
  <2> HIDE DEF old, new, e1, e2, E
  <2>3. s1 \in Seq(E) /\ s2 \in Seq(E)
    BY <2>2
  <2> HIDE DEF s1, s2
  <2>4. ASSUME NEW k \in DOMAIN (s1 \o s2) PROVE (s1 \o s2)[k] \in E
    BY <2>3, ElementOfEither
  <2> QED BY <2>1, <2>4 DEF E, Silent, Tells
<1> HIDE DEF old, new, s1, s2
<1> QED BY <1>1, <1>2, <1>3, <1>4

\* Announcing items the app sees tells nothing of one that nobody wrote.
LEMMA AnnounceAbout ==
  ASSUME TypeOK, NEW c \in Users, NEW S \in SUBSET Ids,
         \A j \in S : Overlay(server[j], up[c], j) # Absent,
         NEW order \in SetToSeqs(S),
         NEW i \in Ids, server[i] = Absent, ~WritesOn(up[c], i)
  PROVE  LET told == [k \in DOMAIN order |->
                        Added(order[k], Overlay(server[order[k]], up[c], order[k]))]
         IN  told \in Seq(Events) /\ Silent(told, i)
<1> DEFINE told == [k \in DOMAIN order |->
                      Added(order[k], Overlay(server[order[k]], up[c], order[k]))]
<1>1. told \in Seq(Events)
  BY AnnounceType, CallbacksAreEvents
<1>2. i \notin S
  BY OverlayUnwritten
<1>3. ASSUME NEW k \in DOMAIN told PROVE ~Tells(told[k], i)
  <2>1. order[k] \in S
    BY OrderIsSequence
  <2> QED BY <1>2, <2>1 DEF Tells, Added
<1> HIDE DEF told
<1> QED BY <1>1, <1>3 DEF Silent, told

\* A write of another item tells its author nothing new.
LEMMA SecretSend ==
  ASSUME TypeOK, NEW c \in Users, NEW w \in Writes, NEW i \in Ids, w.id # i,
         Silent(events[c], i), Send(c, w)
  PROVE  Silent(events'[c], i)
<1> DEFINE q == Append(up[c], w)
           s == Raised(c, w.id, server[w.id], q)
<1>1. events'[c] = events[c] \o s /\ events[c] \in Seq(Events)
  BY DEF Send, TypeOK
<1>2. w.id \in Ids /\ q \in Seq(Requests)
  BY DEF Writes, Requests, TypeOK
<1>3. server[w.id] \in Slot
  BY <1>2 DEF TypeOK
<1> HIDE DEF q
<1>4. s \in Seq(Events) /\ Silent(s, i)
  BY <1>2, <1>3, RaisedAbout
<1> QED BY <1>1, <1>4, SilentQueue

\* Starting the table listener announces no item the app knows nothing of.
LEMMA SecretActivate ==
  ASSUME TypeOK, NEW c \in Users, NEW i \in Ids, server[i] = Absent, ~WritesOn(up[c], i),
         events[c] # <<>>, Silent(events[c], i), ActivateObservers(c)
  PROVE  Silent(events'[c], i)
<1> DEFINE S == {j \in live[c] : Overlay(server[j], up[c], j) # Absent}
<1>1. PICK order \in SetToSeqs(S) :
         events' = [events EXCEPT ![c] = Tail(@) \o
            [k \in DOMAIN order |->
               Added(order[k], Overlay(server[order[k]], up[c], order[k]))]]
  BY DEF ActivateObservers
<1> DEFINE told == [k \in DOMAIN order |->
                      Added(order[k], Overlay(server[order[k]], up[c], order[k]))]
<1>2. S \in SUBSET Ids /\ \A j \in S : Overlay(server[j], up[c], j) # Absent
  BY DEF TypeOK
<1>3. told \in Seq(Events) /\ Silent(told, i)
  <2> HIDE DEF S
  <2> QED BY <1>2, AnnounceAbout
<1>4. events'[c] = Tail(events[c]) \o told
  <2> HIDE DEF told
  <2> QED BY <1>1 DEF TypeOK, told
<1>5. Tail(events[c]) \in Seq(Events) /\ Silent(Tail(events[c]), i)
  BY OldestEvent, SilentQueue DEF TypeOK
<1> HIDE DEF told
<1> QED BY <1>3, <1>4, <1>5, SilentQueue

\* Rows put behind others: each is one of the former or one of the latter.
LEMMA RowsJoined ==
  ASSUME NEW q \in Seq(Rows), NEW r \in Seq(Rows), NEW S,
         \A j \in DOMAIN q : q[j].id \in S, \A j \in DOMAIN r : r[j].id \in S,
         NEW k \in DOMAIN (q \o r)
  PROVE  (q \o r)[k].id \in S
<1>1. \/ \E j \in DOMAIN q : (q \o r)[k] = q[j]
      \/ \E j \in DOMAIN r : (q \o r)[k] = r[j]
  BY ElementOfEither
<1> QED BY <1>1

\* An app that knows nothing of an empty slot learns nothing of it by its own steps.
LEMMA SecretOwn ==
  ASSUME TypeOK, NEW c \in Users, Step(c), ~Commit(c),
         NEW i \in Ids, server[i] = Absent, ~Knows(c, i), i \in used \/ i \notin used'
  PROVE  RowIds(c)' \in SUBSET (Ids \ {i}) /\ Silent(events'[c], i)
<1>k. /\ i \notin RowIds(c) /\ Silent(events[c], i) /\ ~WritesOn(up[c], i)
      /\ events[c] \in Seq(Events) /\ up[c] \in Seq(Requests) /\ data[c] \in Seq(Rows)
  BY DEF Knows, TypeOK
<1>d. ASSUME data' = data PROVE RowIds(c)' \in SUBSET (Ids \ {i})
  <2>1. RowIds(c)' = RowIds(c)
    BY <1>d DEF RowIds
  <2> QED BY <1>k, <2>1, RowIdsType
<1>e. ASSUME events[c] # <<>>, events'[c] = Tail(events[c]) PROVE Silent(events'[c], i)
  BY <1>k, <1>e, SilentQueue
<1>1. CASE AnswerRead(c)
  <2> DEFINE e == [type |-> "loaded", snap |-> server]
  <2>1. events'[c] = Append(events[c], e) /\ data' = data
    BY <1>1 DEF AnswerRead, TypeOK, app
  <2>2. e \in Events /\ ~Tells(e, i)
    BY DEF Events, Tells, TypeOK
  <2> QED BY <1>d, <1>k, <2>1, <2>2, SilentQueue
<1>2. CASE AnswerNames(c)
  <2> DEFINE e == [type |-> "named"]
  <2>1. events'[c] = Append(events[c], e) /\ data' = data
    BY <1>2 DEF AnswerNames, TypeOK, app
  <2>2. e \in Events /\ ~Tells(e, i)
    BY DEF Events, Tells
  <2> QED BY <1>d, <1>k, <2>1, <2>2, SilentQueue
<1>3. CASE AnswerWatch(c)
  <2> DEFINE j == Head(up[c]).id
             n == Overlay(server[j], up[c], j)
             e == Added(j, n)
  <2>1. /\ up[c] # <<>> /\ Head(up[c]).op = "watch" /\ data' = data
        /\ \/ events'[c] = events[c]
           \/ n # Absent /\ events'[c] = Append(events[c], e)
    BY <1>3 DEF AnswerWatch, Oldest, TypeOK, app
  <2>2. j \in Ids
    BY <2>1, OldestRequest
  <2>3. n \in Slot
    BY <1>k, <2>2, OverlayType DEF TypeOK
  <2>4. n # Absent => j # i
    BY <1>k, OverlayUnwritten
  <2> HIDE DEF j, n
  <2>5. n # Absent => e \in Events /\ ~Tells(e, i)
    BY <2>2, <2>3, <2>4 DEF Slot, Added, Events, Tells
  <2> HIDE DEF e
  <2> QED BY <1>d, <1>k, <2>1, <2>5, SilentQueue
<1>4. CASE AnswerTable(c)
  <2> DEFINE Held == {j \in Ids : Overlay(server[j], up[c], j) # Absent}
             S == Held \ known[c]
  <2>1. PICK order \in SetToSeqs(S) :
           events' = [events EXCEPT ![c] = @ \o [k \in DOMAIN order |->
              Added(order[k], Overlay(server[order[k]], up[c], order[k]))]]
    BY <1>4 DEF AnswerTable
  <2> DEFINE told == [k \in DOMAIN order |->
                         Added(order[k], Overlay(server[order[k]], up[c], order[k]))]
  <2>2. S \in SUBSET Ids /\ \A j \in S : Overlay(server[j], up[c], j) # Absent
    OBVIOUS
  <2>3. told \in Seq(Events) /\ Silent(told, i)
    <3> HIDE DEF S
    <3> QED BY <1>k, <2>2, AnnounceAbout
  <2>4. events'[c] = events[c] \o told
    <3> HIDE DEF told
    <3> QED BY <2>1 DEF TypeOK, told
  <2>5. data' = data
    BY <1>4 DEF AnswerTable, app
  <2> HIDE DEF told
  <2> QED BY <1>d, <1>k, <2>3, <2>4, <2>5, SilentQueue
<1>5. CASE Reject(c)
  <2> DEFINE j == Head(up[c]).id
             s == Raised(c, j, server[j], up'[c])
  <2>1. /\ up[c] # <<>> /\ Head(up[c]).op \in WriteOps /\ data' = data
        /\ up'[c] = Tail(up[c]) /\ events'[c] = events[c] \o s
    BY <1>5 DEF Reject, Answered, TypeOK, app
  <2>2. Head(up[c]) = up[c][1] /\ 1 \in DOMAIN up[c]
    BY <1>k, <2>1
  <2>3. j \in Ids \ {i} /\ up'[c] \in Seq(Requests)
    BY <1>k, <2>1, <2>2, OldestRequest DEF Writes, WritesOn
  <2>4. s \in Seq(Events) /\ Silent(s, i)
    BY <2>3, RaisedAbout DEF TypeOK
  <2> HIDE DEF s
  <2> QED BY <1>d, <1>k, <2>1, <2>4, SilentQueue
<1>6. CASE LoadNothing(c) \/ LastItemNamed(c)
  <2>1. /\ events[c] # <<>> /\ data' = data
        /\ ActivateObservers(c) \/ events'[c] = Tail(events[c])
    BY <1>6 DEF LoadNothing, LastItemNamed, Next1, TypeOK
  <2> QED BY <1>d, <1>e, <1>k, <2>1, SecretActivate
<1>7. CASE LoadItems(c)
  <2>1. PICK rows \in Seq(Rows), more \in Seq(Requests), told \in Seq(Events) :
           /\ data' = [data EXCEPT ![c] = data[c] \o rows]
           /\ up' = [up EXCEPT ![c] = up[c] \o more]
           /\ events' = [events EXCEPT ![c] = Tail(events[c]) \o told]
           /\ Once(rows)
           /\ \A k \in DOMAIN rows : Head(events[c]).snap[rows[k].id] # Absent
           /\ \A k \in DOMAIN more : more[k].op \in {"watch", "names"}
           /\ \A k \in DOMAIN told : told[k].type = "named"
           /\ HowMany(more, {Names}) + HowMany(told, {[type |-> "named"]}) = 1
    BY <1>7, LoadItemsShape
  <2>2. events[c] # <<>> /\ Head(events[c]).type = "loaded"
    BY <1>7 DEF LoadItems, Next1
  <2>3. \A j \in DOMAIN rows : rows[j].id \in Ids \ {i}
    <3>1. ~Tells(Head(events[c]), i)
      BY <1>k, <2>2, SilentQueue
    <3>2. Head(events[c]).snap[i] = Absent
      BY <2>2, <3>1 DEF Tells
    <3>3. ASSUME NEW j \in DOMAIN rows PROVE rows[j].id \in Ids
      <4>1. rows[j] \in Rows
        OBVIOUS
      <4> QED BY <4>1 DEF Rows
    <3> QED BY <2>1, <3>2, <3>3
  <2>4. ASSUME NEW k \in DOMAIN data'[c] PROVE data'[c][k].id \in Ids \ {i}
    <3>1. data'[c] = data[c] \o rows
      BY <2>1 DEF TypeOK
    <3>2. \A j \in DOMAIN data[c] : data[c][j].id \in Ids \ {i}
      BY <1>k, RowOfApp
    <3> QED BY <1>k, <2>3, <3>1, <3>2, RowsJoined
  <2>5. RowIds(c)' \in SUBSET (Ids \ {i})
    BY <2>4 DEF RowIds
  <2>6. Silent(told, i) /\ Silent(Tail(events[c]), i) /\ Tail(events[c]) \in Seq(Events)
    BY <1>k, <2>1, <2>2, OldestEvent, SilentQueue DEF Silent, Tells
  <2>7. events'[c] = Tail(events[c]) \o told
    BY <2>1 DEF TypeOK
  <2> QED BY <2>5, <2>6, <2>7, SilentQueue
<1>8. CASE ItemsChildAdded(c)
  <2> DEFINE ev == Head(events[c])
             r == Row(ev.id, ev.node, regs[c][ev.id] + 1)
  <2>1. /\ events[c] # <<>> /\ ev.type = "added" /\ events'[c] = Tail(events[c])
        /\ data' = data \/ data'[c] = Append(data[c], r)
    BY <1>8 DEF ItemsChildAdded, Next1, TypeOK
  <2>2. r.id = ev.id /\ ev.id \in Ids \ {i}
    BY <1>k, <2>1, OldestEvent, SilentQueue DEF Row, Tells, Events
  <2> HIDE DEF ev, r
  <2>3. CASE data'[c] = Append(data[c], r)
    <3>1. ASSUME NEW k \in DOMAIN data'[c] PROVE data'[c][k].id \in Ids \ {i}
      <4>1. data'[c][k] = r \/ (k \in DOMAIN data[c] /\ data'[c][k] = data[c][k])
        BY <1>k, <2>3
      <4> QED BY <1>k, <2>2, <4>1, RowOfApp
    <3>2. RowIds(c)' \in SUBSET (Ids \ {i})
      BY <3>1 DEF RowIds
    <3> QED BY <1>e, <2>1, <3>2 DEF ev
  <2> QED BY <1>d, <1>e, <2>1, <2>3 DEF ev
<1>9. CASE ItemsChildRemoved(c)
  <2> DEFINE j == Head(events[c]).id
             t == RemoveFirstMatch(data[c], LAMBDA r : r.id = j)
  <2>1. /\ events[c] # <<>> /\ Head(events[c]).type = "removed" /\ events'[c] = Tail(events[c])
        /\ data'[c] = t
    BY <1>9 DEF ItemsChildRemoved, Next1, TypeOK
  <2>2. j \in Ids
    BY <2>1, OldestEvent DEF Events
  <2>3. \A k \in DOMAIN t : \E m \in DOMAIN data[c] : t[k] = data[c][m]
    <3> HIDE DEF j
    <3> QED BY <1>k, <2>2, RemoveRow
  <2> HIDE DEF t
  <2>4. \A m \in DOMAIN data[c] : data[c][m].id \in Ids \ {i}
    BY <1>k, RowOfApp
  <2>5. RowIds(c)' \in SUBSET (Ids \ {i})
    BY <2>1, <2>3, <2>4 DEF RowIds
  <2> QED BY <1>e, <2>1, <2>5
<1>10. CASE ItemUpdated(c)
  <2>1. events[c] # <<>> /\ events'[c] = Tail(events[c])
    BY <1>10 DEF ItemUpdated, Next1, TypeOK
  <2>2. RowIds(c)' = RowIds(c)
    BY <1>10, UpdatedType DEF RowIds
  <2> QED BY <1>e, <1>k, <2>1, <2>2, RowIdsType
<1>11. CASE LoadPartialItem(c) \/ PartialChildAdded(c) \/ PopupYesNoRow(c) \/ Quit(c)
  <2>1. Reset(c, "crashed") \/ Reset(c, "closed")
    BY <1>11 DEF LoadPartialItem, PartialChildAdded, PopupYesNoRow, Quit, Crash
  <2>2. events'[c] = <<>> /\ data'[c] = <<>>
    BY <2>1 DEF Reset, TypeOK
  <2> QED BY <2>2 DEF RowIds, Silent
<1>12. CASE OpenList(c) \/ LeaveScreen(c) \/ SelectChecked(c) \/ PopupNo(c)
  <2>1. UNCHANGED <<events, data>>
    BY <1>12 DEF OpenList, LeaveScreen, SelectChecked, PopupNo, sdk
  <2> QED BY <1>d, <1>k, <2>1
<1>13. CASE AddNewItem(c)
  <2>1. PICK j \in Ids \ used : used' = used \cup {j} /\ Send(c, AddOf(j))
    BY <1>13 DEF AddNewItem
  <2>2. AddOf(j) \in Writes /\ AddOf(j).id # i /\ data' = data
    BY <1>13, <2>1 DEF AddNewItem, AddOf, Writes, WriteOps, Checkers, app
  <2> QED BY <1>d, <1>k, <2>1, <2>2, SecretSend
<1>14. CASE RemoveItem(c)
  <2>1. PICK k \in DOMAIN data[c] : Send(c, DelOf(data[c][k].id))
    BY <1>14 DEF RemoveItem
  <2>2. /\ DelOf(data[c][k].id) \in Writes /\ DelOf(data[c][k].id).id # i /\ data' = data
    BY <1>14, <1>k, RowOfApp DEF RemoveItem, DelOf, Writes, WriteOps, Checkers, app
  <2> QED BY <1>d, <1>k, <2>1, <2>2, SecretSend
<1>15. CASE SelectUnchecked(c) \/ PopupYes(c)
  <2>1. PICK k \in DOMAIN data[c] : Send(c, ReverseCheckedOf(c, data[c][k]))
    BY <1>15 DEF SelectUnchecked, PopupYes, ReverseChecked
  <2> DEFINE w == ReverseCheckedOf(c, data[c][k])
  <2>2. w.id = data[c][k].id
    BY DEF ReverseCheckedOf, CheckOf
  <2>3. w \in Writes /\ w.id # i /\ data' = data
    BY <1>15, <1>k, <2>2, RowOfApp, ReverseType DEF SelectUnchecked, PopupYes, app
  <2> HIDE DEF w
  <2> QED BY <1>d, <1>k, <2>1, <2>3, SecretSend DEF w
<1> QED BY <1>1, <1>2, <1>3, <1>4, <1>5, <1>6, <1>7, <1>8, <1>9, <1>10, <1>11, <1>12, <1>13,
           <1>14, <1>15 DEF Step, ServerStep, MainStep, UserStep
-----------------------------------------------------------------------------
(***************************************************************************)
(* The writes under way.  An add is the first write of its item in its     *)
(* queue, and until the server takes it only its author knows the item.    *)
(***************************************************************************)
Adding(q, i) == \E k \in DOMAIN q : q[k] = AddOf(i)
AddsFirst(q) == \A k \in DOMAIN q : q[k].op = "add" =>
    /\ q[k] = AddOf(q[k].id)
    /\ \A j \in DOMAIN q : q[j].op \in WriteOps /\ q[j].id = q[k].id => k <= j

Unborn      == \A i \in Ids \ used : server[i] = Absent /\ \A c \in Users : ~Knows(c, i)
AddsOnce    == \A c \in Users : AddsFirst(up[c])
AddsAreNews == \A c \in Users, i \in Ids : Adding(up[c], i) =>
                  server[i] = Absent /\ \A d \in Users \ {c} : ~Knows(d, i)
OneTable    == Unborn /\ AddsOnce /\ AddsAreNews

\* A request of a queue after something was put behind it.
LEMMA ElementOfAppend ==
  ASSUME NEW q \in Seq(Requests), NEW w \in Requests, NEW k \in DOMAIN Append(q, w)
  PROVE  \/ k \in DOMAIN q /\ Append(q, w)[k] = q[k]
         \/ k = Len(q) + 1 /\ Append(q, w)[k] = w
OBVIOUS

\* What is queued keeps adds in front of the other writes of their items.
LEMMA AddsFirstQueue ==
  ASSUME NEW q \in Seq(Requests), AddsFirst(q)
  PROVE  /\ q # <<>> => AddsFirst(Tail(q))
         /\ \A r \in Seq(Requests) : NoWrites(r) => AddsFirst(q \o r)
         /\ \A w \in Writes : w.op # "add" => AddsFirst(Append(q, w))
         /\ \A i \in Ids : ~WritesOn(q, i) => AddsFirst(Append(q, AddOf(i)))
<1>1. ASSUME q # <<>> PROVE AddsFirst(Tail(q))
  <2>1. ASSUME NEW k \in DOMAIN Tail(q)
        PROVE  Tail(q)[k] = q[k + 1] /\ k + 1 \in DOMAIN q /\ k \in Nat
    BY <1>1, <2>1
  <2>2. ASSUME NEW k \in DOMAIN Tail(q), Tail(q)[k].op = "add"
        PROVE  /\ Tail(q)[k] = AddOf(Tail(q)[k].id)
               /\ \A j \in DOMAIN Tail(q) :
                     Tail(q)[j].op \in WriteOps /\ Tail(q)[j].id = Tail(q)[k].id => k <= j
    BY <2>1, <2>2 DEF AddsFirst
  <2> QED BY <2>2 DEF AddsFirst
<1>2. ASSUME NEW r \in Seq(Requests), NoWrites(r) PROVE AddsFirst(q \o r)
  <2>1. ASSUME NEW k \in DOMAIN (q \o r), (q \o r)[k].op \in WriteOps
        PROVE  k \in DOMAIN q /\ (q \o r)[k] = q[k]
    <3>1. /\ k \in 1..(Len(q) + Len(r)) /\ Len(q) \in Nat /\ Len(r) \in Nat
          /\ (q \o r)[k] = IF k <= Len(q) THEN q[k] ELSE r[k - Len(q)]
      OBVIOUS
    <3>2. CASE k <= Len(q)
      BY <3>1, <3>2
    <3>3. CASE ~(k <= Len(q))
      <4>1. k - Len(q) \in DOMAIN r
        BY <3>1, <3>3
      <4> QED BY <1>2, <2>1, <3>1, <3>3, <4>1 DEF NoWrites
    <3> QED BY <3>2, <3>3
  <2>2. "add" \in WriteOps
    BY DEF WriteOps
  <2> QED BY <2>1, <2>2 DEF AddsFirst
<1>3. ASSUME NEW w \in Writes, w.op # "add" PROVE AddsFirst(Append(q, w))
  <2>1. w \in Requests
    BY DEF Requests
  <2>2. ASSUME NEW k \in DOMAIN Append(q, w), Append(q, w)[k].op = "add"
        PROVE  k \in DOMAIN q /\ Append(q, w)[k] = q[k]
    BY <1>3, <2>1, <2>2, ElementOfAppend
  <2>3. ASSUME NEW k \in DOMAIN q, NEW j \in DOMAIN Append(q, w), j \notin DOMAIN q
        PROVE  k <= j
    <3>1. j = Len(q) + 1 /\ k \in 1..Len(q) /\ Len(q) \in Nat
      BY <2>1, <2>3, ElementOfAppend
    <3> QED BY <3>1
  <2>4. ASSUME NEW j \in DOMAIN Append(q, w), j \in DOMAIN q
        PROVE  Append(q, w)[j] = q[j]
    BY <2>1, <2>4
  <2> HIDE DEF Requests
  <2> QED BY <2>2, <2>3, <2>4 DEF AddsFirst
<1>4. ASSUME NEW i \in Ids, ~WritesOn(q, i) PROVE AddsFirst(Append(q, AddOf(i)))
  <2> DEFINE w == AddOf(i)
             s == Append(q, w)
  <2>1. w \in Requests /\ w = AddOf(w.id) /\ w.id = i
    BY DEF AddOf, Requests, Writes, WriteOps, Checkers
  <2>2. \A k \in DOMAIN q : q[k].op \in WriteOps => q[k].id # i
    BY <1>4 DEF WritesOn
  <2> HIDE DEF w
  <2>3. ASSUME NEW k \in DOMAIN s, s[k].op = "add"
        PROVE  /\ s[k] = AddOf(s[k].id)
               /\ \A j \in DOMAIN s : s[j].op \in WriteOps /\ s[j].id = s[k].id => k <= j
    <3>1. \A j \in DOMAIN s : \/ j \in DOMAIN q /\ s[j] = q[j]
                              \/ j = Len(q) + 1 /\ s[j] = w
      BY <2>1, ElementOfAppend
    <3>2. \A j \in DOMAIN q : j <= Len(q) + 1
      OBVIOUS
    <3>l. Len(q) + 1 \in Nat
      OBVIOUS
    <3>w. "add" \in WriteOps
      BY DEF WriteOps
    <3> HIDE DEF s
    <3>3. CASE k \in DOMAIN q /\ s[k] = q[k]
      BY <2>3, <3>1, <3>2, <3>3 DEF AddsFirst
    <3>4. CASE k = Len(q) + 1 /\ s[k] = w
      <4>1. ASSUME NEW j \in DOMAIN s, s[j].op \in WriteOps, s[j].id = i
            PROVE  j = k
        BY <2>2, <3>1, <3>4, <4>1
      <4>2. k <= k
        BY <3>4, <3>l
      <4> QED BY <2>1, <3>4, <4>1, <4>2
    <3> QED BY <3>1, <3>3, <3>4
  <2> HIDE DEF s
  <2>4. AddsFirst(s)
    BY <2>3 DEF AddsFirst
  <2> QED BY <2>4 DEF s, w
<1> QED BY <1>1, <1>2, <1>3, <1>4

\* The writes of a queue after something was put behind it, or its oldest taken.
LEMMA WritesOnQueue ==
  ASSUME NEW q \in Seq(Requests), NEW i \in Ids
  PROVE  /\ q # <<>> => /\ WritesOn(Tail(q), i) => WritesOn(q, i)
                        /\ Adding(Tail(q), i) => Adding(q, i)
         /\ \A r \in Seq(Requests) : NoWrites(r) =>
               /\ WritesOn(q \o r, i) => WritesOn(q, i)
               /\ Adding(q \o r, i) => Adding(q, i)
         /\ \A w \in Writes :
               /\ WritesOn(Append(q, w), i) => WritesOn(q, i) \/ w.id = i
               /\ Adding(Append(q, w), i) => Adding(q, i) \/ w = AddOf(i)
<1>a. AddOf(i).op \in WriteOps
  BY DEF AddOf, WriteOps
<1>1. ASSUME q # <<>>, NEW k \in DOMAIN Tail(q)
      PROVE  Tail(q)[k] = q[k + 1] /\ k + 1 \in DOMAIN q
  BY <1>1
<1>2. ASSUME NEW r \in Seq(Requests), NoWrites(r), NEW k \in DOMAIN (q \o r),
             (q \o r)[k].op \in WriteOps
      PROVE  \E j \in DOMAIN q : (q \o r)[k] = q[j]
  BY <1>2, ElementOfEither DEF NoWrites
<1>3. ASSUME NEW w \in Writes, NEW k \in DOMAIN Append(q, w)
      PROVE  Append(q, w)[k] = w \/ \E j \in DOMAIN q : Append(q, w)[k] = q[j]
  <2>1. w \in Requests
    BY DEF Requests
  <2> QED BY <2>1, ElementOfAppend
<1>4. ASSUME q # <<>>
      PROVE  /\ WritesOn(Tail(q), i) => WritesOn(q, i)
             /\ Adding(Tail(q), i) => Adding(q, i)
  BY <1>1, <1>4 DEF WritesOn, Adding
<1>5. ASSUME NEW r \in Seq(Requests), NoWrites(r)
      PROVE  /\ WritesOn(q \o r, i) => WritesOn(q, i)
             /\ Adding(q \o r, i) => Adding(q, i)
  <2>1. WritesOn(q \o r, i) => WritesOn(q, i)
    BY <1>2, <1>5 DEF WritesOn
  <2>2. Adding(q \o r, i) => Adding(q, i)
    BY <1>2, <1>5, <1>a DEF Adding
  <2> QED BY <2>1, <2>2
<1>6. ASSUME NEW w \in Writes
      PROVE  /\ WritesOn(Append(q, w), i) => WritesOn(q, i) \/ w.id = i
             /\ Adding(Append(q, w), i) => Adding(q, i) \/ w = AddOf(i)
  <2>1. WritesOn(Append(q, w), i) => WritesOn(q, i) \/ w.id = i
    BY <1>3 DEF WritesOn
  <2>2. Adding(Append(q, w), i) => Adding(q, i) \/ w = AddOf(i)
    BY <1>3 DEF Adding
  <2> QED BY <2>1, <2>2
<1> QED BY <1>4, <1>5, <1>6
\* What the requests after a step of c may newly write.
LEMMA NewWrites ==
  ASSUME TypeOK, NEW c \in Users, NEW q, QueueAfter(c, q), NEW i \in Ids
  PROVE  /\ WritesOn(q, i) => WritesOn(up[c], i) \/ i \in RowIds(c) \/ i \in used' \ used
         /\ Adding(q, i) => Adding(up[c], i) \/ i \in used' \ used
         /\ used \subseteq used'
<1>q. up[c] \in Seq(Requests)
  BY DEF TypeOK
<1>n. ASSUME NoWrites(q) PROVE ~WritesOn(q, i) /\ ~Adding(q, i)
  <2>1. AddOf(i).op \in WriteOps
    BY DEF AddOf, WriteOps
  <2> QED BY <1>n, <2>1 DEF NoWrites, WritesOn, Adding
<1>1. CASE UNCHANGED used /\ q = up[c]
  BY <1>1
<1>2. CASE UNCHANGED used /\ up[c] # <<>> /\ q = Tail(up[c])
  BY <1>q, <1>2, WritesOnQueue
<1>3. CASE UNCHANGED used /\ NoWrites(q)
  BY <1>n, <1>3
<1>4. CASE UNCHANGED used /\ \E r \in Seq(Requests) : NoWrites(r) /\ q = up[c] \o r
  BY <1>q, <1>4, WritesOnQueue
<1>5. CASE UNCHANGED used /\ \E w \in Writes :
             w.op # "add" /\ w.id \in RowIds(c) /\ q = Append(up[c], w)
  <2>1. PICK w \in Writes : w.op # "add" /\ w.id \in RowIds(c) /\ q = Append(up[c], w)
    BY <1>5
  <2>2. w # AddOf(i)
    BY <2>1 DEF AddOf
  <2> QED BY <1>q, <1>5, <2>1, <2>2, WritesOnQueue
<1>6. CASE \E j \in Ids \ used : used' = used \cup {j} /\ q = Append(up[c], AddOf(j))
  <2>1. PICK j \in Ids \ used : used' = used \cup {j} /\ q = Append(up[c], AddOf(j))
    BY <1>6
  <2>2. AddOf(j) \in Writes /\ AddOf(j).id = j /\ AddOf(i).id = i
    BY DEF AddOf, Writes, WriteOps, Checkers
  <2> QED BY <1>q, <2>1, <2>2, WritesOnQueue
<1> QED BY <1>1, <1>2, <1>3, <1>4, <1>5, <1>6 DEF QueueAfter

\* A step of c that commits nothing tells nobody of an empty slot: not the others,
\* and not c, unless c gives the slot's id to a new item.
LEMMA KnowsStep ==
  ASSUME TypeOK, NEW c \in Users, Step(c), ~Commit(c), NEW d \in Users,
         NEW i \in Ids, server[i] = Absent, ~Knows(d, i),
         d = c => i \in used \/ i \notin used'
  PROVE  ~Knows(d, i)'
<1>1. CASE d # c
  <2>1. up'[d] = up[d] /\ events'[d] = events[d] /\ data'[d] = data[d]
    BY <1>1, OthersUntouched DEF Step, Untouched
  <2> QED BY <2>1 DEF Knows, RowIds
<1>2. CASE d = c
  <2>1. RowIds(c)' \in SUBSET (Ids \ {i}) /\ Silent(events'[c], i)
    BY <1>2, SecretOwn
  <2>2. PICK q : up' = [up EXCEPT ![c] = q] /\ QueueAfter(c, q)
    BY QueueStep
  <2>3. up'[c] = q
    BY <2>2 DEF TypeOK
  <2>4. ~WritesOn(q, i)
    BY <1>2, <2>2, NewWrites DEF Knows
  <2> QED BY <1>2, <2>1, <2>3, <2>4 DEF Knows
<1> QED BY <1>1, <1>2

\* The commit of a write of one item tells nobody of another one.
LEMMA SecretCommit ==
  ASSUME TypeOK, NEW c \in Users, Commit(c), NEW d \in Users,
         NEW i \in Ids, Head(up[c]).id # i, ~Knows(d, i)
  PROVE  ~Knows(d, i)'
<1> DEFINE w == Head(up[c])
           n == Apply(w, server[w.id])
<1>1. up[c] # <<>> /\ w \in Writes /\ w.id \in Ids /\ Tail(up[c]) \in Seq(Requests)
  BY OldestRequest DEF Commit, Writes
<1>2. n \in Slot
  BY <1>1, ApplyType DEF TypeOK
<1>3. /\ events'[d] = events[d] \o Raised(d, w.id, n, up'[d])
      /\ up' = [up EXCEPT ![c] = Tail(up[c])]
      /\ data' = data
  BY DEF Commit, Answered, app
<1> HIDE DEF n
<1>4. up'[d] \in Seq(Requests) /\ (WritesOn(up'[d], i) => WritesOn(up[d], i))
  BY <1>1, <1>3, WritesOnQueue DEF TypeOK
<1>5. Raised(d, w.id, n, up'[d]) \in Seq(Events) /\ Silent(Raised(d, w.id, n, up'[d]), i)
  BY <1>1, <1>2, <1>4, RaisedAbout
<1>6. Silent(events'[d], i)
  BY <1>3, <1>5, SilentQueue DEF Knows, TypeOK
<1> QED BY <1>3, <1>4, <1>6 DEF Knows, RowIds

\* An id nobody generated is nowhere: no add of it is under way.
LEMMA AddingIsKnown ==
  ASSUME NEW c \in Users, NEW i \in Ids, Adding(up[c], i)
  PROVE  Knows(c, i) /\ (Unborn => i \in used)
<1>1. AddOf(i).op \in WriteOps /\ AddOf(i).id = i
  BY DEF AddOf, WriteOps
<1>2. Knows(c, i)
  BY <1>1 DEF Adding, WritesOn, Knows
<1> QED BY <1>2 DEF Unborn

\* Steps that commit nothing keep the invariant.
LEMMA OneTableOwnStep ==
  ASSUME TypeOK, OneTable, NEW c \in Users, Step(c), ~Commit(c)
  PROVE  OneTable'
<1>1. server' = server
  BY QueueStep
<1>2. PICK q : up' = [up EXCEPT ![c] = q] /\ QueueAfter(c, q)
  BY QueueStep
<1>3. up'[c] = q /\ (\A d \in Users \ {c} : up'[d] = up[d]) /\ up[c] \in Seq(Requests)
  BY <1>2 DEF TypeOK
<1>4. used \subseteq used'
  BY <1>2, NewWrites DEF QueueAfter
<1>5. Unborn'
  BY <1>1, <1>4, KnowsStep DEF OneTable, Unborn
<1>6. AddsOnce'
  <2>1. AddsFirst(up[c])
    BY DEF OneTable, AddsOnce
  <2>2. \A i \in Ids \ used : ~WritesOn(up[c], i)
    BY DEF OneTable, Unborn, Knows
  <2>3. NoWrites(q) => AddsFirst(q)
    BY DEF NoWrites, AddsFirst, WriteOps
  <2>4. AddsFirst(q)
    BY <1>2, <1>3, <2>1, <2>2, <2>3, AddsFirstQueue DEF QueueAfter
  <2> QED BY <1>3, <2>4 DEF OneTable, AddsOnce
<1>7. AddsAreNews'
  <2>1. ASSUME NEW d \in Users, NEW i \in Ids, Adding(up'[d], i)
        PROVE  server'[i] = Absent /\ \A e \in Users \ {d} : ~Knows(e, i)'
    <3>1. CASE Adding(up[d], i)
      <4>1. server[i] = Absent /\ \A e \in Users \ {d} : ~Knows(e, i)
        BY <3>1 DEF OneTable, AddsAreNews
      <4>2. i \in used
        BY <3>1, AddingIsKnown DEF OneTable
      <4> QED BY <1>1, <4>1, <4>2, KnowsStep
    <3>2. CASE ~Adding(up[d], i)
      <4>1. d = c /\ i \in used' \ used
        BY <1>2, <1>3, <2>1, <3>2, NewWrites
      <4>2. server[i] = Absent /\ \A e \in Users : ~Knows(e, i)
        BY <4>1 DEF OneTable, Unborn
      <4> QED BY <1>1, <4>1, <4>2, KnowsStep
    <3> QED BY <3>1, <3>2
  <2> QED BY <2>1 DEF AddsAreNews
<1> QED BY <1>5, <1>6, <1>7 DEF OneTable

\* A commit keeps it: what is committed is neither unborn nor still to be added.
LEMMA OneTableCommit ==
  ASSUME TypeOK, OneTable, NEW c \in Users, Commit(c)
  PROVE  OneTable'
<1> DEFINE w == Head(up[c])
<1>1. /\ up[c] \in Seq(Requests) /\ up[c] # <<>> /\ w = up[c][1] /\ 1 \in DOMAIN up[c]
      /\ w \in Writes /\ w.op \in WriteOps /\ w.id \in Ids
  BY OldestRequest DEF Commit, TypeOK, Writes
<1>2. /\ server' = [server EXCEPT ![w.id] = Apply(w, server[w.id])]
      /\ up' = [up EXCEPT ![c] = Tail(up[c])]
      /\ used' = used
  BY DEF Commit, Answered
<1>3. \A i \in Ids : i # w.id => server'[i] = server[i]
  BY <1>2 DEF TypeOK
<1>4. ASSUME NEW i \in Ids, ~WritesOn(up[c], i) PROVE w.id # i
  BY <1>1, <1>4 DEF WritesOn
<1>u. up'[c] = Tail(up[c]) /\ \A d \in Users \ {c} : up'[d] = up[d]
  BY <1>2 DEF TypeOK
<1> HIDE DEF w
<1>5. Unborn'
  <2>1. ASSUME NEW i \in Ids \ used
        PROVE  server'[i] = Absent /\ \A d \in Users : ~Knows(d, i)'
    <3>1. server[i] = Absent /\ \A d \in Users : ~Knows(d, i)
      BY DEF OneTable, Unborn
    <3>2. w.id # i
      BY <1>4, <3>1 DEF Knows
    <3> QED BY <1>3, <3>1, <3>2, SecretCommit DEF w
  <2> QED BY <1>2, <2>1 DEF Unborn
<1>6. AddsOnce'
  <2>1. AddsFirst(Tail(up[c]))
    BY <1>1, AddsFirstQueue DEF OneTable, AddsOnce
  <2> QED BY <1>u, <2>1 DEF OneTable, AddsOnce
<1>7. AddsAreNews'
  <2>1. ASSUME NEW d \in Users, NEW i \in Ids, Adding(up'[d], i)
        PROVE  server'[i] = Absent /\ \A e \in Users \ {d} : ~Knows(e, i)'
    <3>1. Adding(up[d], i)
      BY <1>1, <1>u, <2>1, WritesOnQueue
    <3>2. server[i] = Absent /\ \A e \in Users \ {d} : ~Knows(e, i)
      BY <3>1 DEF OneTable, AddsAreNews
    <3>3. w.id # i
      <4>1. CASE d # c
        BY <1>4, <3>2, <4>1 DEF Knows
      <4>2. CASE d = c
        <5>1. PICK k \in DOMAIN Tail(up[c]) : Tail(up[c])[k] = AddOf(i)
          BY <1>u, <2>1, <4>2 DEF Adding
        <5>2. k + 1 \in DOMAIN up[c] /\ up[c][k + 1] = AddOf(i) /\ k \in Nat /\ 1 <= k
          BY <1>1, <5>1
        <5>3. AddOf(i).op = "add" /\ AddOf(i).id = i
          BY DEF AddOf
        <5>4. w.id = i => k + 1 <= 1
          BY <1>1, <5>2, <5>3 DEF OneTable, AddsOnce, AddsFirst
        <5> QED BY <5>2, <5>4
      <4> QED BY <4>1, <4>2
    <3> QED BY <1>3, <3>2, <3>3, SecretCommit DEF w
  <2> QED BY <2>1 DEF AddsAreNews
<1> QED BY <1>5, <1>6, <1>7 DEF OneTable

\* Every step keeps the invariant.
LEMMA OneTableStep == TypeOK /\ OneTable /\ [Next]_vars => OneTable'
<1> SUFFICES ASSUME TypeOK, OneTable, [Next]_vars PROVE OneTable'
  OBVIOUS
<1>1. CASE UNCHANGED vars
  BY <1>1 DEF OneTable, Unborn, AddsOnce, AddsAreNews, Knows, RowIds, vars, sdk, app
<1>2. CASE Next
  <2>1. PICK c \in Users : Step(c)
    BY <1>2 DEF Next, Step
  <2> QED BY <2>1, OneTableOwnStep, OneTableCommit
<1> QED BY <1>1, <1>2

\* Nothing is under way in the beginning, and no id not generated is used.
LEMMA OneTableInit == Init => OneTable
<1> SUFFICES ASSUME Init PROVE OneTable
  OBVIOUS
<1>1. \A c \in Users : up[c] = <<>> /\ events[c] = <<>> /\ data[c] = <<>>
  BY DEF Init
<1>2. \A c \in Users, i \in Ids : ~Knows(c, i) /\ ~Adding(up[c], i)
  BY <1>1 DEF Knows, RowIds, Silent, WritesOn, Adding
<1>3. \A c \in Users : AddsFirst(up[c])
  BY <1>1 DEF AddsFirst
<1>4. \A i \in Ids \ used : server[i] = Absent
  BY DEF Init
<1> QED BY <1>2, <1>3, <1>4 DEF OneTable, Unborn, AddsOnce, AddsAreNews
\* What is under way: an add of an empty slot, and every id not generated is nowhere.
LEMMA OneTableHolds == Spec => []OneTable
<1>1. Init => OneTable
  BY OneTableInit
<1>2. TypeOK /\ OneTable /\ [Next]_vars => OneTable'
  BY OneTableStep
<1> QED BY <1>1, <1>2, TypeCorrect, PTL DEF Spec
-----------------------------------------------------------------------------
\* The write a commit takes, and what it makes of the table.
LEMMA CommitTakes ==
  ASSUME TypeOK, OneTable, NEW c \in Users, Commit(c)
  PROVE  \E w \in Writes :
            /\ \E k \in DOMAIN up[c] : up[c][k] = w
            /\ w.id \in Ids
            /\ server' = [server EXCEPT ![w.id] = Apply(w, server[w.id])]
            /\ w.op = "add" => w = AddOf(w.id) /\ server[w.id] = Absent
<1> DEFINE w == Head(up[c])
<1>1. /\ up[c] # <<>> /\ w = up[c][1] /\ 1 \in DOMAIN up[c]
      /\ w \in Writes /\ w.id \in Ids
  BY OldestRequest DEF Commit, TypeOK, Writes
<1>2. server' = [server EXCEPT ![w.id] = Apply(w, server[w.id])]
  BY DEF Commit
<1> HIDE DEF w
<1>3. w.op = "add" => w = AddOf(w.id)
  BY <1>1 DEF OneTable, AddsOnce, AddsFirst
<1>4. w.op = "add" => server[w.id] = Absent
  BY <1>1, <1>3 DEF OneTable, AddsAreNews, Adding
<1> QED BY <1>1, <1>2, <1>3, <1>4

\* A commit is a step of the single table.
LEMMA CommitIsTableStep ==
  ASSUME TypeOK, OneTable, FieldsAgree, NEW c \in Users, Commit(c)
  PROVE  Shared!TableNext
<1>1. PICK w \in Writes :
         /\ \E k \in DOMAIN up[c] : up[c][k] = w
         /\ w.id \in Ids
         /\ server' = [server EXCEPT ![w.id] = Apply(w, server[w.id])]
         /\ w.op = "add" => w = AddOf(w.id) /\ server[w.id] = Absent
  BY CommitTakes
<1>2. w.op \in WriteOps /\ w.checked \in BOOLEAN /\ w.by \in Checkers
  BY DEF Writes
<1>3. Coherent(w)
  BY <1>1, <1>2 DEF FieldsAgree, CoherentQueue
<1>4. CASE w.op = "del"
  <2>1. Shared!RemoveItem(w.id)
    BY <1>1, <1>4 DEF Shared!RemoveItem, Apply
  <2> QED BY <1>1, <2>1 DEF Shared!TableNext
<1>5. CASE w.op = "add"
  <2>1. w.checked = FALSE /\ w.by = NONE
    BY <1>1, <1>5 DEF AddOf
  <2>2. Apply(w, server[w.id]) = [named |-> TRUE, checked |-> FALSE, by |-> NONE]
    BY <1>5, <2>1 DEF Apply
  <2>3. Shared!AddItem(w.id)
    BY <1>1, <1>5, <2>2 DEF Shared!AddItem
  <2> QED BY <1>1, <2>3 DEF Shared!TableNext
<1>6. CASE w.op = "check"
  <2>1. Apply(w, server[w.id]) =
           [named |-> Shared!Named(server[w.id]), checked |-> w.checked, by |-> w.by]
    <3>1. (w.op = "add" \/ Named(server[w.id])) = Shared!Named(server[w.id])
      BY <1>6 DEF Named, Shared!Named
    <3> QED BY <1>6, <3>1 DEF Apply
  <2>2. CASE w.checked
    <3>1. w.by \in Users /\ w.checked = TRUE
      BY <1>2, <1>3, <2>2 DEF Coherent, Checkers
    <3>2. Shared!CheckItem(w.by, w.id)
      BY <1>1, <2>1, <3>1 DEF Shared!CheckItem
    <3> QED BY <1>1, <3>1, <3>2 DEF Shared!TableNext
  <2>3. CASE ~w.checked
    <3>1. w.by = NONE /\ w.checked = FALSE
      BY <1>2, <1>3, <2>3 DEF Coherent
    <3>2. Shared!UncheckItem(w.id)
      BY <1>1, <2>1, <3>1 DEF Shared!UncheckItem
    <3> QED BY <1>1, <3>2 DEF Shared!TableNext
  <2> QED BY <2>2, <2>3
<1> QED BY <1>2, <1>4, <1>5, <1>6 DEF WriteOps

\* What the server holds is what one table with atomic operations would hold: every step
\* of every app, with requests pending, refused or lost, adds a new item, removes one,
\* checks it in the name of its user, unchecks it, or leaves the table alone.
THEOREM ImplementsTable == Spec => SharesOneTable
<1>1. Init => Shared!TableInit
  BY DEF Init, Shared!TableInit, Complete, Shared!Complete, Node, Shared!Node, Checkers,
         Shared!Checkers, Coherent, Shared!Coherent
<1>2. TypeOK /\ OneTable /\ FieldsAgree /\ [Next]_vars => [Shared!TableNext]_server
  <2> SUFFICES ASSUME TypeOK, OneTable, FieldsAgree, [Next]_vars
               PROVE  Shared!TableNext \/ server' = server
    OBVIOUS
  <2>1. CASE UNCHANGED vars
    BY <2>1 DEF vars
  <2>2. CASE Next
    <3>1. PICK c \in Users : Step(c)
      BY <2>2 DEF Next, Step
    <3> QED BY <3>1, QueueStep, CommitIsTableStep
  <2> QED BY <2>1, <2>2
<1> QED BY <1>1, <1>2, TypeCorrect, OneTableHolds, FieldsAgreeHolds, PTL
        DEF Spec, SharesOneTable, Shared!TableSpec

\* A removed item stays removed: a late toggle may leave its two fields behind, but no
\* order of commits, refusals and restarts gives it its title and its author again.
THEOREM RemovedStaysRemoved == Spec => RemovedForGood
<1> DEFINE Stays == \A i \in Ids :
              /\ i \in used /\ server[i] = Absent
              /\ \A c \in Users : \A k \in DOMAIN up[c] : up[c][k] # AddOf(i)
              => ~Named(server'[i])
<1>1. TypeOK /\ OneTable /\ [Next]_vars => [Stays]_vars
  <2> SUFFICES ASSUME TypeOK, OneTable, Next, NEW i \in Ids, server[i] = Absent,
                      \A c \in Users : \A k \in DOMAIN up[c] : up[c][k] # AddOf(i)
               PROVE  ~Named(server'[i])
    OBVIOUS
  <2>1. PICK c \in Users : Step(c)
    BY DEF Next, Step
  <2>2. CASE ~Commit(c)
    <3>1. server' = server
      BY <2>1, <2>2, QueueStep
    <3> QED BY <3>1 DEF Named
  <2>3. CASE Commit(c)
    <3>1. PICK w \in Writes :
             /\ \E k \in DOMAIN up[c] : up[c][k] = w
             /\ w.id \in Ids
             /\ server' = [server EXCEPT ![w.id] = Apply(w, server[w.id])]
             /\ w.op = "add" => w = AddOf(w.id) /\ server[w.id] = Absent
      BY <2>3, CommitTakes
    <3>2. CASE w.id # i
      BY <3>1, <3>2 DEF Named, TypeOK
    <3>3. CASE w.id = i
      <4>1. w.op # "add" /\ server'[i] = Apply(w, Absent)
        BY <3>1, <3>3 DEF TypeOK
      <4>2. Apply(w, Absent) # Absent => Apply(w, Absent).named = FALSE
        BY <4>1 DEF Apply, Named
      <4> QED BY <4>1, <4>2 DEF Named
    <3> QED BY <3>2, <3>3
  <2> QED BY <2>2, <2>3
<1> QED BY <1>1, TypeCorrect, OneTableHolds, PTL DEF Spec, RemovedForGood
=============================================================================
