----------------------------- MODULE RowsProofs -----------------------------
(***************************************************************************)
(* The rows of a settled screen are the items of the server, for any       *)
(* users, ids and bounds: what the listeners announce and withdraw, in     *)
(* the order they do, leaves the rows that the server's items ask for.     *)
(* None of what they tell ends the process, as long as nobody removes an   *)
(* item and nothing is refused.  And a row that missed nothing before its  *)
(* own listener was answered ends with the fields the server holds.  The   *)
(* last section shows that a load is never left without its end.           *)
(***************************************************************************)
EXTENDS SharedTableProofs

(***************************************************************************)
(* What the SDK raises is one of three things: an item is announced, it is *)
(* withdrawn, or only fields change; known follows.                        *)
(***************************************************************************)
OnlyFields(s) == \A k \in DOMAIN s : s[k].type \in {"checked", "checked_by_id"}

LEMMA RaisedIs ==
  ASSUME TypeOK, NEW c \in Users, NEW j \in Ids, NEW n \in Slot, NEW q \in Seq(Requests)
  PROVE  /\ Raised(c, j, n, q) \in Seq(Events)
         /\ \/ /\ \E v \in Node : Raised(c, j, n, q) = <<Added(j, v)>>
               /\ KnownAfter(c, j, n, q) = known[c] \cup {j}
               /\ table[c] = "on"
            \/ /\ Raised(c, j, n, q) = <<Removed(j)>>
               /\ KnownAfter(c, j, n, q) = known[c] \ {j}
               /\ j \in known[c]
            \/ /\ OnlyFields(Raised(c, j, n, q))
               /\ KnownAfter(c, j, n, q) = known[c]
<1> DEFINE old == Seen(c, j, server[j], up[c])
           new == Seen(c, j, n, q)
           e1 == [type |-> "checked", id |-> j, value |-> new.checked, regs |-> regs[c][j]]
           e2 == [type |-> "checked_by_id", id |-> j, value |-> new.by, regs |-> regs[c][j]]
           s1 == IF old.checked # new.checked THEN <<e1>> ELSE <<>>
           s2 == IF old.by # new.by THEN <<e2>> ELSE <<>>
<1>1. Raised(c, j, n, q) \in Seq(Events)
  BY RaisedType, CallbacksAreEvents
<1>2. new \in Slot
  BY OverlayType DEF Seen, Slot
<1>3. OnlyFields(s1 \o s2)
  <2>1. e1.type = "checked" /\ e2.type = "checked_by_id"
    OBVIOUS
  <2> DEFINE E == {e1, e2}
  <2>2. e1 \in E /\ e2 \in E
    OBVIOUS
  <2> HIDE DEF old, new, e1, e2, E
  <2>3. s1 \in Seq(E) /\ s2 \in Seq(E)
    BY <2>2
  <2> HIDE DEF s1, s2
  <2>4. ASSUME NEW k \in DOMAIN (s1 \o s2) PROVE (s1 \o s2)[k] \in E
    BY <2>3, ElementOfEither
  <2> QED BY <2>1, <2>4 DEF E, OnlyFields
<1>4. OnlyFields(<<>>)
  BY DEF OnlyFields
<1>5. /\ Raised(c, j, n, q) =
           CASE new # Absent /\ j \notin known[c] /\ table[c] = "on" -> <<Added(j, new)>>
             [] new = Absent /\ j \in known[c]                       -> <<Removed(j)>>
             [] /\ old # Absent /\ new # Absent /\ regs[c][j] > 0
                /\ j \in known[c] \/ table[c] # "on"           -> s1 \o s2
             [] OTHER -> <<>>
      /\ KnownAfter(c, j, n, q) =
           IF new = Absent THEN known[c] \ {j}
           ELSE IF table[c] = "on" THEN known[c] \cup {j} ELSE known[c]
  BY DEF Raised, KnownAfter, FieldChanges
<1> HIDE DEF old, new, s1, s2
<1>6. CASE new # Absent /\ j \notin known[c] /\ table[c] = "on"
  BY <1>1, <1>2, <1>5, <1>6 DEF Slot
<1>7. CASE new = Absent /\ j \in known[c]
  BY <1>1, <1>5, <1>7
<1>8. CASE ~(new # Absent /\ j \notin known[c] /\ table[c] = "on")
           /\ ~(new = Absent /\ j \in known[c])
  <2>1. Raised(c, j, n, q) = s1 \o s2 \/ Raised(c, j, n, q) = <<>>
    BY <1>5, <1>8
  <2>2. KnownAfter(c, j, n, q) = known[c]
    BY <1>5, <1>8
  <2> QED BY <1>1, <1>3, <1>4, <2>1, <2>2
<1> QED BY <1>6, <1>7, <1>8

\* It is never the answer of the names.
LEMMA RaisedNamesNobody ==
  ASSUME TypeOK, NEW c \in Users, NEW j \in Ids, NEW n \in Slot, NEW q \in Seq(Requests)
  PROVE  /\ Raised(c, j, n, q) \in Seq(Events)
         /\ \A k \in DOMAIN Raised(c, j, n, q) : Raised(c, j, n, q)[k].type # "named"
<1>1. /\ Raised(c, j, n, q) \in Seq(Events)
      /\ \/ \E v \in Node : Raised(c, j, n, q) = <<Added(j, v)>>
         \/ Raised(c, j, n, q) = <<Removed(j)>>
         \/ OnlyFields(Raised(c, j, n, q))
  BY RaisedIs
<1>2. \A v \in Node : Added(j, v).type = "added"
  BY DEF Added
<1>3. Removed(j).type = "removed"
  BY DEF Removed
<1> QED BY <1>1, <1>2, <1>3 DEF OnlyFields
-----------------------------------------------------------------------------
(***************************************************************************)
(* The names of the loaded items arrive once: after LoadData there is one  *)
(* request for them or one answer, and none once the table listener is     *)
(* asked for.  So ActivateObservers runs once, and it runs first.          *)
(***************************************************************************)
NamesThere   == [type |-> "named"]
NamesDue(d)  == HowMany(up[d], {Names}) + HowMany(events[d], {NamesThere})
NamesOnce(d) ==
    /\ NamesDue(d) <= 1
    /\ table[d] # "off" => NamesDue(d) = 0
    /\ table[d] = "off" => HowMany(up[d], {Table}) = 0
NamesComeOnce == \A d \in Users : NamesOnce(d)

\* The numbers it adds are numbers.
LEMMA NamesType ==
  ASSUME TypeOK, NEW d \in Users
  PROVE  /\ HowMany(up[d], {Names}) \in Nat /\ HowMany(up[d], {Table}) \in Nat
         /\ HowMany(events[d], {NamesThere}) \in Nat
<1>1. up[d] \in Seq(Requests) /\ events[d] \in Seq(Events)
  BY DEF TypeOK
<1> QED BY <1>1, HowManyType

\* Nothing is said of the names, and no listener is asked for.
LEMMA NamesStay ==
  ASSUME TypeOK, TypeOK', NEW d \in Users, NamesOnce(d), table'[d] = table[d],
         HowMany(up'[d], {Names}) <= HowMany(up[d], {Names}),
         HowMany(up'[d], {Table}) <= HowMany(up[d], {Table}),
         HowMany(events'[d], {NamesThere}) <= HowMany(events[d], {NamesThere})
  PROVE  NamesOnce(d)'
<1>1. /\ HowMany(up[d], {Names}) \in Nat /\ HowMany(up[d], {Table}) \in Nat
      /\ HowMany(events[d], {NamesThere}) \in Nat
  BY NamesType
<1>2. /\ HowMany(up'[d], {Names}) \in Nat /\ HowMany(up'[d], {Table}) \in Nat
      /\ HowMany(events'[d], {NamesThere}) \in Nat
  <2>1. up'[d] \in Seq(Requests) /\ events'[d] \in Seq(Events)
    BY DEF TypeOK
  <2> QED BY <2>1, HowManyType
<1> QED BY <1>1, <1>2 DEF NamesOnce, NamesDue

\* A queue does not gain by losing its head.
LEMMA TailHasFewer ==
  ASSUME NEW A, NEW q \in Seq(A), q # <<>>, NEW X
  PROVE  HowMany(Tail(q), X) <= HowMany(q, X)
<1>1. HowMany(q, X) = HowMany(Tail(q), X) + (IF Head(q) \in X THEN 1 ELSE 0)
  BY HowManyTail
<1>2. Tail(q) \in Seq(A)
  BY HeadTailProperties
<1>3. HowMany(Tail(q), X) \in Nat
  BY <1>2, HowManyType
<1> QED BY <1>1, <1>3

\* Callbacks of listeners join a queue.
LEMMA CallbacksNameNobody ==
  ASSUME NEW e \in Seq(Events), NEW s \in Seq(Events), \A k \in DOMAIN s : s[k].type # "named"
  PROVE  HowMany(e \o s, {NamesThere}) = HowMany(e, {NamesThere})
<1>1. HowMany(s, {NamesThere}) = 0
  BY HowManyType DEF NamesThere
<1>2. HowMany(e, {NamesThere}) \in Nat
  BY HowManyType
<1>3. HowMany(e \o s, {NamesThere}) = HowMany(e, {NamesThere}) + HowMany(s, {NamesThere})
  BY HowManyJoined
<1> QED BY <1>1, <1>2, <1>3

\* A request that asks for neither joins a queue.
LEMMA RequestAsksNeither ==
  ASSUME NEW q \in Seq(Requests), NEW w \in Requests, w.op \notin {"names", "table"}
  PROVE  /\ HowMany(Append(q, w), {Names}) = HowMany(q, {Names})
         /\ HowMany(Append(q, w), {Table}) = HowMany(q, {Table})
<1>1. w # Names /\ w # Table
  BY DEF Names, Table
<1>2. HowMany(q, {Names}) \in Nat /\ HowMany(q, {Table}) \in Nat
  BY HowManyType
<1>3. /\ HowMany(Append(q, w), {Names})
            = HowMany(q, {Names}) + (IF w \in {Names} THEN 1 ELSE 0)
      /\ HowMany(Append(q, w), {Table})
            = HowMany(q, {Table}) + (IF w \in {Table} THEN 1 ELSE 0)
  BY HowManyAppend
<1> QED BY <1>1, <1>2, <1>3

\* A write of the app says nothing of the names.
LEMMA SendNames ==
  ASSUME TypeOK, TypeOK', NEW c \in Users, NamesOnce(c), NEW w \in Writes, Send(c, w),
         table' = table
  PROVE  NamesOnce(c)'
<1> DEFINE q == Append(up[c], w)
           s == Raised(c, w.id, server[w.id], q)
<1>1. /\ w \in Requests /\ w.id \in Ids /\ w.op \notin {"names", "table"}
      /\ up[c] \in Seq(Requests) /\ events[c] \in Seq(Events)
  BY DEF Requests, Writes, WriteOps, TypeOK
<1>2. q \in Seq(Requests) /\ server[w.id] \in Slot
  BY <1>1 DEF TypeOK
<1>3. s \in Seq(Events) /\ \A k \in DOMAIN s : s[k].type # "named"
  BY <1>1, <1>2, RaisedNamesNobody
<1>4. up'[c] = Append(up[c], w) /\ events'[c] = events[c] \o s
  BY DEF Send, TypeOK
<1> HIDE DEF q, s
<1>5. /\ HowMany(up'[c], {Names}) = HowMany(up[c], {Names})
      /\ HowMany(up'[c], {Table}) = HowMany(up[c], {Table})
      /\ HowMany(events'[c], {NamesThere}) = HowMany(events[c], {NamesThere})
  BY <1>1, <1>3, <1>4, RequestAsksNeither, CallbacksNameNobody
<1>6. /\ HowMany(up[c], {Names}) \in Nat /\ HowMany(up[c], {Table}) \in Nat
      /\ HowMany(events[c], {NamesThere}) \in Nat
  BY NamesType
<1>7. /\ HowMany(up'[c], {Names}) <= HowMany(up[c], {Names})
      /\ HowMany(up'[c], {Table}) <= HowMany(up[c], {Table})
      /\ HowMany(events'[c], {NamesThere}) <= HowMany(events[c], {NamesThere})
  BY <1>5, <1>6
<1>8. table'[c] = table[c]
  OBVIOUS
<1> QED BY <1>7, <1>8, NamesStay

\* The table listener is asked for when no names are due.
LEMMA ActivateNames ==
  ASSUME TypeOK, NEW c \in Users, events[c] # <<>>, ActivateObservers(c),
         HowMany(up[c], {Names}) = 0, HowMany(Tail(events[c]), {NamesThere}) = 0
  PROVE  NamesOnce(c)'
<1> DEFINE Held == {i \in live[c] : Overlay(server[i], up[c], i) # Absent}
<1>1. Held \in SUBSET Ids
  BY DEF TypeOK
<1>2. PICK order \in SetToSeqs(Held) :
         events' = [events EXCEPT ![c] = Tail(@) \o
            [k \in DOMAIN order |-> Added(order[k], Overlay(server[order[k]], up[c], order[k]))]]
  BY DEF ActivateObservers
<1> DEFINE told == [k \in DOMAIN order |->
                       Added(order[k], Overlay(server[order[k]], up[c], order[k]))]
<1>3. told \in Seq(Events) /\ \A k \in DOMAIN told : told[k].type # "named"
  BY <1>1, AnnounceType, CallbacksAreEvents DEF Added
<1> HIDE DEF told
<1>4. events'[c] = Tail(events[c]) \o told /\ Tail(events[c]) \in Seq(Events)
  BY <1>2, OldestEvent DEF TypeOK, told
<1>5. HowMany(events'[c], {NamesThere}) = 0
  BY <1>3, <1>4, CallbacksNameNobody
<1>6. /\ up'[c] = Append(up[c], Table) /\ table'[c] = "asked"
      /\ Table \in Requests /\ Table # Names /\ up[c] \in Seq(Requests)
  BY DEF ActivateObservers, TypeOK, Table, Names, Requests
<1>7. HowMany(up'[c], {Names}) = 0
  BY <1>6, HowManyAppend
<1> QED BY <1>5, <1>6, <1>7 DEF NamesOnce, NamesDue

\* A step of the app itself, other than a commit.
LEMMA NamesOwnStep ==
  ASSUME TypeOK, TypeOK', NEW c \in Users, LoadsFirst(c), NamesOnce(c), Step(c), ~Commit(c)
  PROVE  NamesOnce(c)'
<1>q. up[c] \in Seq(Requests) /\ events[c] \in Seq(Events)
  BY DEF TypeOK
<1>n. /\ HowMany(up[c], {Names}) \in Nat /\ HowMany(up[c], {Table}) \in Nat
      /\ HowMany(events[c], {NamesThere}) \in Nat
  BY NamesType
<1>t. ASSUME up[c] # <<>>, up'[c] = Tail(up[c]), table'[c] = table[c],
             HowMany(events'[c], {NamesThere}) <= HowMany(events[c], {NamesThere})
      PROVE  NamesOnce(c)'
  BY <1>q, <1>t, TailHasFewer, NamesStay
<1>e. ASSUME events[c] # <<>>, events'[c] = Tail(events[c]), table'[c] = table[c],
             up'[c] = up[c]
      PROVE  NamesOnce(c)'
  <2>1. HowMany(events'[c], {NamesThere}) <= HowMany(events[c], {NamesThere})
    BY <1>q, <1>e, TailHasFewer
  <2>2. /\ HowMany(up'[c], {Names}) <= HowMany(up[c], {Names})
        /\ HowMany(up'[c], {Table}) <= HowMany(up[c], {Table})
    BY <1>n, <1>e
  <2> QED BY <1>e, <2>1, <2>2, NamesStay
<1>x. ASSUME up'[c] = up[c], events'[c] = events[c], table'[c] = table[c]
      PROVE  NamesOnce(c)'
  BY <1>x DEF NamesOnce, NamesDue
<1>1. CASE AnswerRead(c)
  <2> DEFINE e == [type |-> "loaded", snap |-> server]
  <2>1. e \in Events /\ e # NamesThere
    BY DEF TypeOK, Events, NamesThere
  <2>2. /\ up[c] # <<>> /\ up'[c] = Tail(up[c]) /\ table'[c] = table[c]
        /\ events'[c] = Append(events[c], e)
    BY <1>1 DEF AnswerRead, Answered, Oldest, TypeOK
  <2> HIDE DEF e
  <2>3. HowMany(events'[c], {NamesThere}) = HowMany(events[c], {NamesThere})
    BY <1>q, <1>n, <2>1, <2>2, HowManyAppend
  <2> QED BY <1>n, <1>t, <2>2, <2>3
<1>2. CASE AnswerNames(c)
  <2>1. /\ up[c] # <<>> /\ up'[c] = Tail(up[c]) /\ table'[c] = table[c]
        /\ events'[c] = Append(events[c], NamesThere) /\ Head(up[c]).op = "names"
    BY <1>2 DEF AnswerNames, Answered, Oldest, TypeOK, NamesThere
  <2>2. Head(up[c]) = Names
    BY <2>1, OldestRequest DEF Requests, Names, Writes, WriteOps
  <2>3. HowMany(up[c], {Names}) = HowMany(Tail(up[c]), {Names}) + 1
    BY <1>q, <2>1, <2>2, HowManyTail
  <2>4. HowMany(Tail(up[c]), {Table}) <= HowMany(up[c], {Table})
    BY <1>q, <2>1, TailHasFewer
  <2>5. HowMany(events'[c], {NamesThere}) = HowMany(events[c], {NamesThere}) + 1
    <3>1. NamesThere \in Events
      BY DEF NamesThere, Events
    <3> QED BY <1>q, <2>1, <3>1, HowManyAppend
  <2>6. HowMany(Tail(up[c]), {Names}) \in Nat /\ HowMany(Tail(up[c]), {Table}) \in Nat
    BY <2>1, OldestRequest, HowManyType
  <2>7. NamesDue(c)' = NamesDue(c)
    BY <1>n, <2>1, <2>3, <2>5, <2>6 DEF NamesDue
  <2> QED BY <1>n, <2>1, <2>4, <2>6, <2>7 DEF NamesOnce
<1>3. CASE AnswerWatch(c)
  <2> DEFINE i == Head(up[c]).id
             n == Overlay(server[i], up[c], i)
             tell == table[c] = "asked" /\ n # Absent
  <2>1. /\ up[c] # <<>> /\ up'[c] = Tail(up[c]) /\ table'[c] = table[c]
        /\ events'[c] = IF tell THEN Append(events[c], Added(i, n)) ELSE events[c]
        /\ i \in Ids
    BY <1>3, OldestRequest DEF AnswerWatch, Answered, Oldest, TypeOK
  <2>2. n \in Slot
    BY <2>1, OverlayType DEF TypeOK
  <2>3. tell => Added(i, n) \in Events /\ Added(i, n) # NamesThere
    BY <2>1, <2>2 DEF Slot, Added, Events, NamesThere
  <2> HIDE DEF i, n, tell
  <2>4. HowMany(events'[c], {NamesThere}) = HowMany(events[c], {NamesThere})
    BY <1>q, <1>n, <2>1, <2>3, HowManyAppend
  <2> QED BY <1>n, <1>t, <2>1, <2>4
<1>4. CASE AnswerTable(c)
  <2> DEFINE Held == {i \in Ids : Overlay(server[i], up[c], i) # Absent}
  <2>1. PICK order \in SetToSeqs(Held \ known[c]) :
           events' = [events EXCEPT ![c] = @ \o [k \in DOMAIN order |->
              Added(order[k], Overlay(server[order[k]], up[c], order[k]))]]
    BY <1>4 DEF AnswerTable
  <2> DEFINE told == [k \in DOMAIN order |->
                         Added(order[k], Overlay(server[order[k]], up[c], order[k]))]
  <2>2. told \in Seq(Events) /\ \A k \in DOMAIN told : told[k].type # "named"
    BY AnnounceType, CallbacksAreEvents DEF Added
  <2> HIDE DEF told
  <2>3. events'[c] = events[c] \o told
    BY <2>1 DEF TypeOK, told
  <2>4. /\ up[c] # <<>> /\ up'[c] = Tail(up[c]) /\ table'[c] = "on"
        /\ Head(up[c]).op = "table"
    BY <1>4 DEF AnswerTable, Answered, Oldest, TypeOK
  <2>5. Head(up[c]) = Table
    BY <2>4, OldestRequest DEF Requests, Table, Writes, WriteOps
  <2>6. HowMany(up[c], {Table}) = HowMany(Tail(up[c]), {Table}) + 1
    BY <1>q, <2>4, <2>5, HowManyTail
  <2>7. HowMany(Tail(up[c]), {Table}) \in Nat /\ HowMany(Tail(up[c]), {Names}) \in Nat
    BY <2>4, OldestRequest, HowManyType
  <2>8. table[c] # "off" /\ NamesDue(c) = 0
    BY <2>6, <2>7 DEF NamesOnce
  <2>9. HowMany(Tail(up[c]), {Names}) <= HowMany(up[c], {Names})
    BY <1>q, <2>4, TailHasFewer
  <2>10. HowMany(events'[c], {NamesThere}) = HowMany(events[c], {NamesThere})
    BY <1>q, <2>2, <2>3, CallbacksNameNobody
  <2>11. NamesDue(c)' = 0
    BY <1>n, <2>4, <2>7, <2>8, <2>9, <2>10 DEF NamesDue
  <2> QED BY <2>4, <2>11 DEF NamesOnce
<1>5. CASE Reject(c)
  <2> DEFINE i == Head(up[c]).id
             s == Raised(c, i, server[i], up'[c])
  <2>1. /\ up[c] # <<>> /\ up'[c] = Tail(up[c]) /\ table'[c] = table[c]
        /\ events'[c] = events[c] \o s /\ i \in Ids /\ server[i] \in Slot
    BY <1>5, OldestRequest DEF Reject, Answered, TypeOK, Writes
  <2>2. s \in Seq(Events) /\ \A k \in DOMAIN s : s[k].type # "named"
    BY <2>1, OldestRequest, RaisedNamesNobody
  <2> HIDE DEF i, s
  <2>3. HowMany(events'[c], {NamesThere}) = HowMany(events[c], {NamesThere})
    BY <1>q, <2>1, <2>2, CallbacksNameNobody
  <2> QED BY <1>n, <1>t, <2>1, <2>3
<1>6. CASE LoadNothing(c)
  <2>1. events[c] # <<>> /\ Head(events[c]).type = "loaded" /\ AwaitsItems(c)
    <3>1. events[c] # <<>> /\ Head(events[c]).type = "loaded"
      BY <1>6 DEF LoadNothing, Next1
    <3>2. 1 \in DOMAIN events[c] /\ events[c][1] = Head(events[c])
      BY <1>q, <3>1
    <3> QED BY <3>1, <3>2 DEF AwaitsItems
  <2>2. up[c] = <<>> /\ Tail(events[c]) = <<>>
    BY <2>1, Waiting
  <2>e. \A X : HowMany(<<>>, X) = 0
    BY FS_EmptySet DEF HowMany, Places
  <2>3. HowMany(up[c], {Names}) = 0 /\ HowMany(Tail(events[c]), {NamesThere}) = 0
    BY <2>2, <2>e
  <2>4. CASE HasDelegate(c)
    BY <1>6, <2>1, <2>3, <2>4, ActivateNames DEF LoadNothing
  <2>5. CASE ~HasDelegate(c)
    <3>1. events'[c] = Tail(events[c]) /\ up'[c] = up[c] /\ table'[c] = table[c]
      BY <1>6, <2>5 DEF LoadNothing, TypeOK
    <3> QED BY <2>1, <3>1, <1>e
  <2> QED BY <2>4, <2>5
<1>7. CASE LoadItems(c)
  <2>1. events[c] # <<>> /\ Head(events[c]).type = "loaded" /\ AwaitsItems(c)
    <3>1. events[c] # <<>> /\ Head(events[c]).type = "loaded"
      BY <1>7 DEF LoadItems, Next1
    <3>2. 1 \in DOMAIN events[c] /\ events[c][1] = Head(events[c])
      BY <1>q, <3>1
    <3> QED BY <3>1, <3>2 DEF AwaitsItems
  <2>2. up[c] = <<>> /\ Tail(events[c]) = <<>> /\ table[c] = "off"
    BY <2>1, Waiting DEF Fresh
  <2>3. PICK rows \in Seq(Rows), more \in Seq(Requests), told \in Seq(Events) :
           /\ data' = [data EXCEPT ![c] = data[c] \o rows]
           /\ up' = [up EXCEPT ![c] = up[c] \o more]
           /\ events' = [events EXCEPT ![c] = Tail(events[c]) \o told]
           /\ Once(rows)
           /\ \A k \in DOMAIN rows : Head(events[c]).snap[rows[k].id] # Absent
           /\ \A k \in DOMAIN more : more[k].op \in {"watch", "names"}
           /\ \A k \in DOMAIN told : told[k].type = "named"
           /\ HowMany(more, {Names}) + HowMany(told, {[type |-> "named"]}) = 1
    BY <1>7, LoadItemsShape
  <2>4. up'[c] = more /\ events'[c] = told
    <3>1. up'[c] = <<>> \o more /\ events'[c] = <<>> \o told
      BY <2>2, <2>3 DEF TypeOK
    <3> QED BY <3>1
  <2>5. HowMany(more, {Table}) = 0
    BY <2>3, HowManyType DEF Table
  <2>6. table'[c] = "off"
    BY <1>7, <2>2 DEF LoadItems
  <2>7. NamesDue(c)' = 1
    BY <2>3, <2>4 DEF NamesDue, NamesThere
  <2>8. HowMany(up'[c], {Table}) = 0
    BY <2>4, <2>5
  <2> QED BY <2>6, <2>7, <2>8 DEF NamesOnce
<1>8. CASE LastItemNamed(c)
  <2>1. events[c] # <<>> /\ Head(events[c]).type = "named"
    BY <1>8 DEF LastItemNamed, Next1
  <2>2. Head(events[c]) = NamesThere
    BY <2>1, OldestEvent DEF Events, NamesThere
  <2>3. HowMany(events[c], {NamesThere}) = HowMany(Tail(events[c]), {NamesThere}) + 1
    BY <1>q, <2>1, <2>2, HowManyTail
  <2>4. HowMany(Tail(events[c]), {NamesThere}) \in Nat
    BY <2>1, OldestEvent, HowManyType
  <2>5. HowMany(up[c], {Names}) = 0 /\ HowMany(Tail(events[c]), {NamesThere}) = 0
    BY <1>n, <2>3, <2>4 DEF NamesOnce, NamesDue
  <2>6. CASE HasDelegate(c)
    BY <1>8, <2>1, <2>5, <2>6, ActivateNames DEF LastItemNamed
  <2>7. CASE ~HasDelegate(c)
    <3>1. events'[c] = Tail(events[c]) /\ up'[c] = up[c] /\ table'[c] = table[c]
      BY <1>8, <2>7 DEF LastItemNamed, TypeOK
    <3> QED BY <2>1, <3>1, <1>e
  <2> QED BY <2>6, <2>7
<1>9. CASE ItemsChildAdded(c) \/ ItemsChildRemoved(c) \/ ItemUpdated(c)
  <2>1. /\ events[c] # <<>> /\ events'[c] = Tail(events[c])
        /\ up'[c] = up[c] /\ table'[c] = table[c]
    BY <1>9 DEF ItemsChildAdded, ItemsChildRemoved, ItemUpdated, Next1, TypeOK
  <2> QED BY <2>1, <1>e
<1>10. CASE LoadPartialItem(c) \/ PartialChildAdded(c) \/ PopupYesNoRow(c) \/ Quit(c)
  <2>1. Reset(c, "crashed") \/ Reset(c, "closed")
    BY <1>10 DEF LoadPartialItem, PartialChildAdded, PopupYesNoRow, Quit, Crash
  <2>2. up'[c] = <<>> /\ events'[c] = <<>>
    BY <2>1 DEF Reset, TypeOK
  <2>3. \A X : HowMany(<<>>, X) = 0
    BY FS_EmptySet DEF HowMany, Places
  <2> QED BY <2>2, <2>3 DEF NamesOnce, NamesDue
<1>11. CASE OpenList(c)
  <2>1. /\ up'[c] = <<Read>> /\ events'[c] = events[c] /\ table'[c] = table[c]
        /\ screen[c] \in {"closed", "crashed"}
    BY <1>11 DEF OpenList, TypeOK
  <2>2. events[c] = <<>> /\ table[c] = "off"
    BY <2>1 DEF LoadsFirst, Fresh
  <2>3. Read \in Requests /\ Read # Names /\ Read # Table
    BY DEF Read, Names, Table, Requests
  <2>4. HowMany(<<Read>>, {Names}) = 0 /\ HowMany(<<Read>>, {Table}) = 0
    BY <2>3, HowManyOne
  <2>5. HowMany(<<>>, {NamesThere}) = 0
    BY FS_EmptySet DEF HowMany, Places
  <2> QED BY <2>1, <2>2, <2>4, <2>5 DEF NamesOnce, NamesDue
<1>12. CASE LeaveScreen(c) \/ SelectChecked(c) \/ PopupNo(c)
  BY <1>12, <1>x DEF LeaveScreen, SelectChecked, PopupNo, sdk
<1>13. CASE AddNewItem(c)
  <2>1. PICK i \in Ids : Send(c, AddOf(i))
    BY <1>13 DEF AddNewItem
  <2>2. AddOf(i) \in Writes /\ table' = table
    BY <1>13 DEF AddNewItem, AddOf, Writes, WriteOps, Checkers
  <2> QED BY <2>1, <2>2, SendNames
<1>14. CASE RemoveItem(c)
  <2>1. PICK k \in DOMAIN data[c] : Send(c, DelOf(data[c][k].id))
    BY <1>14 DEF RemoveItem
  <2>2. DelOf(data[c][k].id) \in Writes /\ table' = table
    BY <1>14, RowOfApp DEF RemoveItem, DelOf, Writes, WriteOps, Checkers
  <2> QED BY <2>1, <2>2, SendNames
<1>15. CASE SelectUnchecked(c) \/ PopupYes(c)
  <2>1. PICK k \in DOMAIN data[c] : Send(c, ReverseCheckedOf(c, data[c][k]))
    BY <1>15 DEF SelectUnchecked, PopupYes, ReverseChecked
  <2>2. ReverseCheckedOf(c, data[c][k]) \in Writes /\ table' = table
    BY <1>15, ReverseType DEF SelectUnchecked, PopupYes
  <2> QED BY <2>1, <2>2, SendNames
<1> QED BY <1>1, <1>2, <1>3, <1>4, <1>5, <1>6, <1>7, <1>8, <1>9, <1>10, <1>11, <1>12,
           <1>13, <1>14, <1>15 DEF Step, ServerStep, MainStep, UserStep

\* A commit, seen by any app: its own queue loses the write, callbacks may join.
LEMMA NamesCommit ==
  ASSUME TypeOK, TypeOK', NEW c \in Users, Commit(c), NEW d \in Users, NamesOnce(d)
  PROVE  NamesOnce(d)'
<1> DEFINE w == Head(up[c])
           n == Apply(w, server[w.id])
           s == Raised(d, w.id, n, up'[d])
<1>1. up[c] # <<>> /\ w \in Writes /\ w.id \in Ids
  BY OldestRequest DEF Commit, Writes
<1>2. n \in Slot
  BY <1>1, ApplyType DEF TypeOK
<1>3. up'[d] \in Seq(Requests) /\ up[d] \in Seq(Requests) /\ events[d] \in Seq(Events)
  BY DEF TypeOK
<1>4. s \in Seq(Events) /\ \A k \in DOMAIN s : s[k].type # "named"
  BY <1>1, <1>2, <1>3, RaisedNamesNobody
<1>5. events'[d] = events[d] \o s
  BY DEF Commit
<1>6. /\ up'[d] = IF d = c THEN Tail(up[d]) ELSE up[d]
      /\ table' = table
  BY DEF Commit, Answered, TypeOK
<1> HIDE DEF w, n, s
<1>7. HowMany(events'[d], {NamesThere}) = HowMany(events[d], {NamesThere})
  BY <1>3, <1>4, <1>5, CallbacksNameNobody
<1>8. /\ HowMany(up[d], {Names}) \in Nat /\ HowMany(up[d], {Table}) \in Nat
      /\ HowMany(events[d], {NamesThere}) \in Nat
  BY NamesType
<1>9. \A X : d = c => HowMany(Tail(up[d]), X) <= HowMany(up[d], X)
  BY <1>1, <1>3, TailHasFewer
<1>10. /\ HowMany(up'[d], {Names}) <= HowMany(up[d], {Names})
       /\ HowMany(up'[d], {Table}) <= HowMany(up[d], {Table})
  BY <1>6, <1>8, <1>9
<1>11. HowMany(events'[d], {NamesThere}) <= HowMany(events[d], {NamesThere})
  BY <1>7, <1>8
<1>12. table'[d] = table[d]
  BY <1>6
<1> QED BY <1>10, <1>11, <1>12, NamesStay

\* Every step keeps that the names come once.
LEMMA NamesStep ==
  TypeOK /\ TypeOK' /\ LoadingComesFirst /\ NamesComeOnce /\ [Next]_vars => NamesComeOnce'
<1> SUFFICES ASSUME TypeOK, TypeOK', LoadingComesFirst, NamesComeOnce, [Next]_vars,
                    NEW d \in Users
             PROVE  NamesOnce(d)'
  BY DEF NamesComeOnce
<1>1. NamesOnce(d) /\ LoadsFirst(d)
  BY DEF NamesComeOnce, LoadingComesFirst
<1>u. ASSUME up'[d] = up[d], events'[d] = events[d], table'[d] = table[d]
      PROVE  NamesOnce(d)'
  BY <1>1, <1>u DEF NamesOnce, NamesDue
<1>2. CASE UNCHANGED vars
  BY <1>2, <1>u DEF vars, sdk
<1>3. CASE Next
  <2> PICK c \in Users : Step(c)
    BY <1>3 DEF Next, Step
  <2>1. CASE Commit(c)
    BY <1>1, <2>1, NamesCommit
  <2>2. CASE ~Commit(c) /\ d = c
    BY <1>1, <2>2, NamesOwnStep
  <2>3. CASE ~Commit(c) /\ d # c
    <3>1. Untouched(d)
      BY <2>3, OthersUntouched DEF Step
    <3> QED BY <1>u, <3>1 DEF Untouched
  <2> QED BY <2>1, <2>2, <2>3
<1> QED BY <1>2, <1>3

\* The names of the loaded items come once, in every behaviour.
LEMMA NamesComeOnceHolds == Spec => []NamesComeOnce
<1>1. Init => NamesComeOnce
  <2> SUFFICES ASSUME Init, NEW d \in Users PROVE NamesOnce(d)
    BY DEF NamesComeOnce
  <2>1. up[d] = <<>> /\ events[d] = <<>> /\ table[d] = "off"
    BY DEF Init
  <2>2. \A X : HowMany(<<>>, X) = 0
    BY FS_EmptySet DEF HowMany, Places
  <2>3. NamesDue(d) = 0
    BY <2>1, <2>2 DEF NamesDue
  <2> QED BY <2>1, <2>2, <2>3 DEF NamesOnce
<1>2. TypeOK /\ TypeOK' /\ LoadingComesFirst /\ NamesComeOnce /\ [Next]_vars
         => NamesComeOnce'
  BY NamesStep
<1> QED BY <1>1, <1>2, TypeCorrect, LoadingFirst, PTL DEF Spec
-----------------------------------------------------------------------------
(***************************************************************************)
(* What an app shows of an item only changes with the writes on the item.  *)
(***************************************************************************)

\* One place closer to the head, the greatest place is one less.
LEMMA MaxShifts ==
  ASSUME NEW n \in Nat, NEW P \in SUBSET (2..n), NEW Q \in SUBSET Nat,
         \A k \in Nat : k \in Q <=> k + 1 \in P
  PROVE  /\ P = {} <=> Q = {}
         /\ P # {} => Max(Q) \in Q /\ Max(Q) + 1 = Max(P)
<1>1. \A k \in Q : k + 1 \in P
  OBVIOUS
<1>2. \A j \in P : j \in Nat /\ j - 1 \in Nat /\ (j - 1) + 1 = j /\ j - 1 \in Q
  OBVIOUS
<1>3. P = {} <=> Q = {}
  BY <1>1, <1>2
<1>4. ASSUME P # {} PROVE Max(Q) \in Q /\ Max(Q) + 1 = Max(P)
  <2> DEFINE m == Max(P)
  <2>1. m \in P /\ \A j \in P : j <= m
    <3>1. P \in SUBSET (1..n)
      OBVIOUS
    <3> QED BY <1>4, <3>1, MaxExists
  <2> HIDE DEF m
  <2>2. PICK y \in Q : y + 1 = m
    BY <1>2, <2>1
  <2>3. \A j \in Q : j <= y
    BY <1>1, <2>1, <2>2
  <2>4. Max(Q) = y
    BY <2>2, <2>3, MaxIs
  <2> QED BY <2>2, <2>4 DEF m
<1> QED BY <1>3, <1>4

\* What the last write makes of an item with that title
Written(w, title) ==
    IF w.op = "del" THEN Absent
    ELSE [named |-> title, checked |-> w.checked, by |-> w.by]

\* The oldest request goes; it was no write on i.
LEMMA OverlayTail ==
  ASSUME NEW n, NEW q \in Seq(Requests), q # <<>>, NEW i,
         ~(Head(q).op \in WriteOps /\ Head(q).id = i)
  PROVE  Overlay(n, Tail(q), i) = Overlay(n, q, i)
<1> DEFINE t == Tail(q)
           P == PendingOn(q, i)
           Q == PendingOn(t, i)
           WP == {k \in P : q[k].op # "check"}
           WQ == {k \in Q : t[k].op # "check"}
<1>1. /\ Len(q) \in Nat /\ DOMAIN q = 1..Len(q) /\ DOMAIN t = 1..(Len(q) - 1)
      /\ \A k \in 1..(Len(q) - 1) : t[k] = q[k + 1]
      /\ Head(q) = q[1]
  BY HeadTailProperties
<1>2. P \in SUBSET (2..Len(q))
  BY <1>1 DEF PendingOn
<1>3. Q \in SUBSET Nat /\ \A k \in Nat : k \in Q <=> k + 1 \in P
  BY <1>1, <1>2 DEF PendingOn
<1>4. \A k \in Q : t[k] = q[k + 1]
  BY <1>1 DEF PendingOn
<1>5. /\ P = {} => Overlay(n, q, i) = n
      /\ P # {} /\ WP = {} => Overlay(n, q, i) = Written(q[Max(P)], Named(n))
      /\ P # {} /\ WP # {} =>
            Overlay(n, q, i) = Written(q[Max(P)], q[Max(WP)].op = "add")
  BY DEF Overlay, Written
<1>6. /\ Q = {} => Overlay(n, t, i) = n
      /\ Q # {} /\ WQ = {} => Overlay(n, t, i) = Written(t[Max(Q)], Named(n))
      /\ Q # {} /\ WQ # {} =>
            Overlay(n, t, i) = Written(t[Max(Q)], t[Max(WQ)].op = "add")
  BY DEF Overlay, Written
<1> HIDE DEF P, Q, t
<1>7. WP \in SUBSET (2..Len(q))
  BY <1>2
<1>8. WQ \in SUBSET Nat /\ \A k \in Nat : k \in WQ <=> k + 1 \in WP
  BY <1>3, <1>4
<1>9. \A k \in WQ : k \in Q
  OBVIOUS
<1> HIDE DEF WP, WQ
<1>10. (P = {} <=> Q = {}) /\ (P # {} => Max(Q) \in Q /\ Max(Q) + 1 = Max(P))
  BY <1>1, <1>2, <1>3, MaxShifts
<1>11. (WP = {} <=> WQ = {}) /\ (WP # {} => Max(WQ) \in WQ /\ Max(WQ) + 1 = Max(WP))
  BY <1>1, <1>7, <1>8, MaxShifts
<1>12. P # {} => t[Max(Q)] = q[Max(P)]
  BY <1>4, <1>10
<1>13. WP # {} => t[Max(WQ)] = q[Max(WP)]
  BY <1>4, <1>9, <1>11
<1>14. CASE P = {}
  BY <1>5, <1>6, <1>10, <1>14 DEF t
<1>15. CASE P # {} /\ WP = {}
  BY <1>5, <1>6, <1>10, <1>11, <1>12, <1>15 DEF t
<1>16. CASE P # {} /\ WP # {}
  BY <1>5, <1>6, <1>10, <1>11, <1>12, <1>13, <1>16 DEF t
<1> QED BY <1>14, <1>15, <1>16

\* A request joins; it is no write on i.
LEMMA OverlayAppend ==
  ASSUME NEW n, NEW q \in Seq(Requests), NEW w \in Requests, NEW i,
         ~(w.op \in WriteOps /\ w.id = i)
  PROVE  Overlay(n, Append(q, w), i) = Overlay(n, q, i)
<1> DEFINE t == Append(q, w)
           P == PendingOn(q, i)
           m == Max(P)
           W == {k \in P : q[k].op # "check"}
<1>1. /\ DOMAIN q = 1..Len(q) /\ DOMAIN t = 1..(Len(q) + 1) /\ Len(q) \in Nat
      /\ \A k \in 1..Len(q) : t[k] = q[k]
      /\ t[Len(q) + 1] = w
  OBVIOUS
<1>s. /\ P = {} => Overlay(n, q, i) = n
      /\ P # {} /\ W = {} => Overlay(n, q, i) = Written(q[m], Named(n))
      /\ P # {} /\ W # {} => Overlay(n, q, i) = Written(q[m], q[Max(W)].op = "add")
  BY DEF Overlay, Written
<1> HIDE DEF t
<1>2. PendingOn(t, i) = P /\ P \in SUBSET (1..Len(q))
  BY <1>1 DEF PendingOn
<1>3. \A k \in P : t[k] = q[k]
  BY <1>1, <1>2
<1>4. P # {} => m \in P
  BY <1>1, <1>2, MaxExists
<1> HIDE DEF P, m
<1>5. {k \in P : t[k].op # "check"} = W
  BY <1>3
<1>6. W # {} => Max(W) \in P
  <2>1. W \in SUBSET (1..Len(q))
    BY <1>2
  <2>2. W # {} => Max(W) \in W
    BY <1>1, <2>1, MaxExists
  <2> QED BY <2>2
<1>7. /\ P = {} => Overlay(n, t, i) = n
      /\ P # {} /\ W = {} => Overlay(n, t, i) = Written(t[m], Named(n))
      /\ P # {} /\ W # {} => Overlay(n, t, i) = Written(t[m], t[Max(W)].op = "add")
  BY <1>2, <1>5 DEF Overlay, Written, m
<1> HIDE DEF W
<1>8. W # {} => t[Max(W)] = q[Max(W)]
  BY <1>3, <1>6
<1>9. P # {} => t[m] = q[m]
  BY <1>3, <1>4
<1>10. CASE P = {}
  BY <1>s, <1>7, <1>10 DEF t
<1>11. CASE P # {} /\ W = {}
  BY <1>s, <1>7, <1>9, <1>11 DEF t
<1>12. CASE P # {} /\ W # {}
  BY <1>s, <1>7, <1>8, <1>9, <1>12 DEF t
<1> QED BY <1>10, <1>11, <1>12
-----------------------------------------------------------------------------
(***************************************************************************)
(* The inductive invariant.  An item is known if the table listener has    *)
(* announced it and not withdrawn it.  Once the listener is answered the   *)
(* known items are those the app shows (InView).  The last callback about  *)
(* an item that is still to be handled agrees with known; when none is     *)
(* left the rows agree with it (InStep), up to the rows whose item went    *)
(* before the listener was answered.                                       *)
(***************************************************************************)
Shown(d, i)  == Overlay(server[i], up[d], i) # Absent
InView(d, i) ==
    /\ table[d] = "on" => (i \in known[d] <=> Shown(d, i))
    /\ i \in known[d] => /\ table[d] # "off" /\ Shown(d, i)
                         /\ table[d] = "on" \/ i \in live[d]
InStep(d, i) ==
    /\ table[d] = "off" => Tellings(events[d], i) = {}
    /\ LastTells(events[d], i, i \in known[d])
    /\ Tellings(events[d], i) = {} =>
          /\ i \in known[d] => i \in RowIds(d)
          /\ table[d] = "on" /\ i \in RowIds(d) => i \in known[d] \cup gone[d]
RowsFollow == \A d \in Users, i \in Ids : InView(d, i) /\ InStep(d, i)

\* One callback tells of i or does not.
LEMMA TellsOne ==
  ASSUME NEW e, NEW i
  PROVE  /\ ~(e.type \in {"added", "removed"} /\ e.id = i) => Tellings(<<e>>, i) = {}
         /\ e.type \in {"added", "removed"} /\ e.id = i =>
               /\ Tellings(<<e>>, i) # {}
               /\ \A there : (e.type = "added" <=> there) => LastTells(<<e>>, i, there)
<1> DEFINE s == <<e>>
<1>1. DOMAIN s = {1} /\ s[1] = e
  OBVIOUS
<1> HIDE DEF s
<1>2. \A k \in Tellings(s, i) : k = 1
  BY <1>1 DEF Tellings
<1>3. e.type \in {"added", "removed"} /\ e.id = i => 1 \in Tellings(s, i)
  BY <1>1 DEF Tellings
<1>4. ~(e.type \in {"added", "removed"} /\ e.id = i) => Tellings(s, i) = {}
  BY <1>1 DEF Tellings
<1>5. ASSUME e.type \in {"added", "removed"}, NEW there, e.type = "added" <=> there
      PROVE  LastTells(s, i, there)
  BY <1>1, <1>2, <1>5 DEF LastTells
<1> QED BY <1>3, <1>4, <1>5 DEF s

\* The app neither learns nor forgets i.
LEMMA ViewStays ==
  ASSUME NEW d \in Users, NEW i \in Ids, InView(d, i), table'[d] = table[d],
         i \in known'[d] <=> i \in known[d], i \in live[d] => i \in live'[d],
         Overlay(server'[i], up'[d], i) = Overlay(server[i], up[d], i)
  PROVE  InView(d, i)'
BY DEF InView, Shown

\* The app listens to nothing.
LEMMA NothingFollows ==
  ASSUME NEW d \in Users, NEW i \in Ids, table'[d] = "off", known'[d] = {},
         Tellings(events'[d], i) = {}
  PROVE  InView(d, i)' /\ InStep(d, i)'
BY DEF InView, InStep, LastTells

\* Callbacks join; they tell how known changes.
LEMMA StepJoined ==
  ASSUME NEW d \in Users, NEW i \in Ids, InStep(d, i),
         events[d] \in Seq(Events), NEW s \in Seq(Events), events'[d] = events[d] \o s,
         Retold(s, i, i \in known[d], i \in known'[d]), RowIds(d)' = RowIds(d),
         table'[d] = "off" => table[d] = "off" /\ Tellings(s, i) = {},
         table'[d] = "on" =>
            \/ table[d] = "on" /\ gone'[d] = gone[d]
            \/ i \in RowIds(d) => i \in known'[d] \cup gone'[d]
  PROVE  InStep(d, i)'
<1>1. /\ Tellings(events'[d], i) = {} <=> Tellings(events[d], i) = {} /\ Tellings(s, i) = {}
      /\ LastTells(events[d], i, i \in known[d]) => LastTells(events'[d], i, i \in known'[d])
  <2> DEFINE e == events[d]
             old == i \in known[d]
             new == i \in known'[d]
  <2>1. e \in Seq(Events) /\ Retold(s, i, old, new) /\ events'[d] = e \o s
    OBVIOUS
  <2> HIDE DEF e, old, new
  <2>2. /\ Tellings(e \o s, i) = {} <=> Tellings(e, i) = {} /\ Tellings(s, i) = {}
        /\ LastTells(e, i, old) => LastTells(e \o s, i, new)
    BY <2>1, TellingsJoined
  <2> QED BY <2>1, <2>2 DEF e, old, new
<1>2. LastTells(events'[d], i, i \in known'[d])
  BY <1>1 DEF InStep
<1>3. Tellings(s, i) = {} => (i \in known[d] <=> i \in known'[d])
  BY DEF Retold
<1> QED BY <1>1, <1>2, <1>3 DEF InStep

\* The oldest callback is handled: a row appears with "added" and goes with "removed".
LEMMA StepHandled ==
  ASSUME NEW d \in Users, NEW i \in Ids, InStep(d, i),
         events[d] \in Seq(Events), events[d] # <<>>, events'[d] = Tail(events[d]),
         table'[d] = table[d], known'[d] = known[d], gone'[d] = gone[d],
         \/ /\ Head(events[d]).type \in {"added", "removed"} /\ Head(events[d]).id = i
            /\ i \in RowIds(d)' <=> Head(events[d]).type = "added"
         \/ /\ ~(Head(events[d]).type \in {"added", "removed"} /\ Head(events[d]).id = i)
            /\ i \in RowIds(d)' <=> i \in RowIds(d)
  PROVE  InStep(d, i)'
<1> DEFINE e == Head(events[d])
           about == e.type \in {"added", "removed"} /\ e.id = i
           there == i \in known[d]
<1>1. /\ LastTells(events'[d], i, i \in known[d])
      /\ Tellings(events'[d], i) = {} =>
            IF about THEN e.type = "added" <=> i \in known[d] ELSE Tellings(events[d], i) = {}
      /\ Tellings(events[d], i) = {} => Tellings(events'[d], i) = {}
  <2>1. LastTells(events[d], i, i \in known[d])
    BY DEF InStep
  <2> QED BY <2>1, TellingsTail
<1>2. CASE about
  BY <1>1, <1>2 DEF InStep
<1>3. CASE ~about
  BY <1>1, <1>3 DEF InStep
<1> QED BY <1>2, <1>3

\* A write on j, or its refusal, reaches the app.
LEMMA FollowsChange ==
  ASSUME TypeOK, TypeOK', NEW d \in Users, NEW i \in Ids, InView(d, i), InStep(d, i),
         NEW j \in Ids, NEW n \in Slot, server' = [server EXCEPT ![j] = n],
         events'[d] = events[d] \o Raised(d, j, n, up'[d]),
         known'[d] = KnownAfter(d, j, n, up'[d]),
         i # j => Overlay(server[i], up'[d], i) = Overlay(server[i], up[d], i),
         table'[d] = table[d], live'[d] = live[d], data'[d] = data[d], gone'[d] = gone[d]
  PROVE  InView(d, i)' /\ InStep(d, i)'
<1> DEFINE s == Raised(d, j, n, up'[d])
           new == Seen(d, j, n, up'[d])
<1>1. up'[d] \in Seq(Requests) /\ events[d] \in Seq(Events)
  BY DEF TypeOK
<1>2. server'[i] = IF i = j THEN n ELSE server[i]
  BY DEF TypeOK
<1>3. RowIds(d)' = RowIds(d)
  BY DEF RowIds
<1>4. known'[d] = IF new = Absent THEN known[d] \ {j}
                  ELSE IF table[d] = "on" THEN known[d] \cup {j} ELSE known[d]
  BY DEF KnownAfter
<1>5. InView(d, i)'
  <2>1. CASE i # j
    BY <1>2, <1>4, <2>1, ViewStays
  <2>2. CASE i = j
    <3>1. new = IF table[d] = "on" \/ i \in live[d] THEN Overlay(n, up'[d], i) ELSE Absent
      BY <2>2 DEF Seen
    <3>2. server'[i] = n
      BY <1>2, <2>2
    <3> HIDE DEF new
    <3> QED BY <1>4, <2>2, <3>1, <3>2 DEF InView, Shown
  <2> QED BY <2>1, <2>2
<1>6. /\ s \in Seq(Events)
      /\ Retold(s, i, i \in known[d], i \in known'[d])
      /\ table[d] = "off" => Tellings(s, i) = {}
  <2>1. /\ s \in Seq(Events)
        /\ \/ /\ \E v \in Node : s = <<Added(j, v)>>
              /\ known'[d] = known[d] \cup {j} /\ table[d] = "on"
           \/ s = <<Removed(j)>> /\ known'[d] = known[d] \ {j} /\ j \in known[d]
           \/ OnlyFields(s) /\ known'[d] = known[d]
    BY <1>1, RaisedIs
  <2> HIDE DEF s
  <2>2. CASE /\ \E v \in Node : s = <<Added(j, v)>>
             /\ known'[d] = known[d] \cup {j} /\ table[d] = "on"
    <3>1. PICK v \in Node : s = <<Added(j, v)>>
      BY <2>2
    <3> DEFINE e == Added(j, v)
    <3>2. e.type = "added" /\ e.id = j
      BY DEF Added
    <3> HIDE DEF e
    <3>3. CASE i = j
      <4>1. Tellings(s, i) # {} /\ LastTells(s, i, i \in known'[d])
        BY <2>2, <3>1, <3>2, <3>3, TellsOne DEF e
      <4> QED BY <2>1, <2>2, <4>1 DEF Retold
    <3>4. CASE i # j
      <4>1. Tellings(s, i) = {}
        BY <3>1, <3>2, <3>4, TellsOne DEF e
      <4> QED BY <2>1, <2>2, <3>4, <4>1 DEF Retold
    <3> QED BY <3>3, <3>4
  <2>3. CASE s = <<Removed(j)>> /\ known'[d] = known[d] \ {j} /\ j \in known[d]
    <3> DEFINE e == Removed(j)
    <3>2. e.type = "removed" /\ e.id = j
      BY DEF Removed
    <3> HIDE DEF e
    <3>3. CASE i = j
      <4>1. Tellings(s, i) # {} /\ LastTells(s, i, i \in known'[d])
        BY <2>3, <3>2, <3>3, TellsOne DEF e
      <4>2. table[d] # "off"
        BY <2>3, <3>3 DEF InView
      <4> QED BY <2>1, <4>1, <4>2 DEF Retold
    <3>4. CASE i # j
      <4>1. Tellings(s, i) = {}
        BY <2>3, <3>2, <3>4, TellsOne DEF e
      <4> QED BY <2>1, <2>3, <3>4, <4>1 DEF Retold
    <3> QED BY <3>3, <3>4
  <2>4. CASE OnlyFields(s) /\ known'[d] = known[d]
    <3>1. Tellings(s, i) = {}
      BY <2>4 DEF OnlyFields, Tellings
    <3> QED BY <2>1, <2>4, <3>1 DEF Retold
  <2> QED BY <2>1, <2>2, <2>3, <2>4
<1> HIDE DEF s
<1>7. InStep(d, i)'
  BY <1>1, <1>3, <1>6, StepJoined DEF s
<1> QED BY <1>5, <1>7
-----------------------------------------------------------------------------
(***************************************************************************)
(* Every step keeps the invariant.                                         *)
(***************************************************************************)

\* A write of the app.
LEMMA SendFollows ==
  ASSUME TypeOK, TypeOK', NEW c \in Users, NEW i \in Ids, InView(c, i), InStep(c, i),
         NEW w \in Writes, Send(c, w), server' = server, table' = table, live' = live,
         data' = data, gone' = gone
  PROVE  InView(c, i)' /\ InStep(c, i)'
<1> DEFINE j == w.id
           n == server[j]
<1>1. w \in Requests /\ j \in Ids
  BY DEF Requests, Writes
<1>2. n \in Slot /\ server' = [server EXCEPT ![j] = n]
  BY <1>1 DEF TypeOK
<1>3. /\ up'[c] = Append(up[c], w) /\ up[c] \in Seq(Requests)
      /\ events'[c] = events[c] \o Raised(c, j, n, up'[c])
      /\ known'[c] = KnownAfter(c, j, n, up'[c])
  BY DEF Send, TypeOK
<1>4. i # j => Overlay(server[i], up'[c], i) = Overlay(server[i], up[c], i)
  BY <1>1, <1>3, OverlayAppend
<1> HIDE DEF j, n
<1> QED BY <1>1, <1>2, <1>3, <1>4, FollowsChange

\* A commit of any app.
LEMMA CommitFollows ==
  ASSUME TypeOK, TypeOK', NEW c \in Users, Commit(c), NEW d \in Users, NEW i \in Ids,
         InView(d, i), InStep(d, i)
  PROVE  InView(d, i)' /\ InStep(d, i)'
<1> DEFINE w == Head(up[c])
           j == w.id
           n == Apply(w, server[j])
<1>1. up[c] # <<>> /\ w \in Writes /\ j \in Ids
  BY OldestRequest DEF Commit, Writes
<1>2. n \in Slot
  BY <1>1, ApplyType DEF TypeOK
<1>3. /\ server' = [server EXCEPT ![j] = n]
      /\ events'[d] = events[d] \o Raised(d, j, n, up'[d])
      /\ known'[d] = KnownAfter(d, j, n, up'[d])
      /\ UNCHANGED <<table, live, data, gone>>
  BY DEF Commit, app, history
<1>4. up'[d] = IF d = c THEN Tail(up[d]) ELSE up[d]
  BY DEF Commit, Answered, TypeOK
<1>5. i # j => Overlay(server[i], up'[d], i) = Overlay(server[i], up[d], i)
  <2>1. up[c] \in Seq(Requests)
    BY DEF TypeOK
  <2> QED BY <1>1, <1>4, <2>1, OverlayTail
<1> HIDE DEF w, j, n
<1> QED BY <1>1, <1>2, <1>3, <1>5, FollowsChange

\* A refusal.
LEMMA RejectFollows ==
  ASSUME TypeOK, TypeOK', NEW c \in Users, Reject(c), NEW i \in Ids,
         InView(c, i), InStep(c, i)
  PROVE  InView(c, i)' /\ InStep(c, i)'
<1> DEFINE j == Head(up[c]).id
           n == server[j]
<1>1. up[c] # <<>> /\ Head(up[c]) \in Writes /\ j \in Ids
  BY OldestRequest DEF Reject, Writes
<1>2. n \in Slot /\ server' = [server EXCEPT ![j] = n]
  BY <1>1 DEF TypeOK, Reject
<1>3. /\ up'[c] = Tail(up[c]) /\ up[c] \in Seq(Requests)
      /\ events'[c] = events[c] \o Raised(c, j, n, up'[c])
      /\ known'[c] = KnownAfter(c, j, n, up'[c])
      /\ UNCHANGED <<table, live, data, gone>>
  BY DEF Reject, Answered, TypeOK, app, history
<1>4. i # j => Overlay(server[i], up'[c], i) = Overlay(server[i], up[c], i)
  BY <1>1, <1>3, OverlayTail
<1> HIDE DEF j, n
<1> QED BY <1>1, <1>2, <1>3, <1>4, FollowsChange

\* The table listener is answered.
LEMMA TableFollows ==
  ASSUME TypeOK, TypeOK', NEW c \in Users, AnswerTable(c), NEW i \in Ids,
         InView(c, i), InStep(c, i)
  PROVE  InView(c, i)' /\ InStep(c, i)'
<1> DEFINE Held == {j \in Ids : Overlay(server[j], up[c], j) # Absent}
           New  == Held \ known[c]
<1>1. PICK order \in SetToSeqs(New) :
         events' = [events EXCEPT ![c] = @ \o [k \in DOMAIN order |->
            Added(order[k], Overlay(server[order[k]], up[c], order[k]))]]
  BY DEF AnswerTable
<1> DEFINE told == [k \in DOMAIN order |->
                       Added(order[k], Overlay(server[order[k]], up[c], order[k]))]
<1>2. told \in Seq(Events)
  BY AnnounceType, CallbacksAreEvents
<1>3. IsFiniteSet(New)
  <2>1. New \in SUBSET Ids
    OBVIOUS
  <2> QED BY <2>1, IdsFinite, FS_Subset
<1>4. /\ DOMAIN told = DOMAIN order
      /\ \A k \in DOMAIN order : told[k].type = "added" /\ told[k].id = order[k]
  BY DEF Added
<1>5. /\ up'[c] = Tail(up[c]) /\ table'[c] = "on" /\ known'[c] = Held
      /\ gone'[c] = RowIds(c) \ Held /\ RowIds(c)' = RowIds(c)
      /\ server' = server
      /\ up[c] # <<>> /\ up[c] \in Seq(Requests) /\ Head(up[c]).op = "table"
  BY DEF AnswerTable, Answered, Oldest, TypeOK, RowIds, app
<1>6. events'[c] = events[c] \o told /\ events[c] \in Seq(Events)
  BY <1>1 DEF TypeOK
<1>7. i \in Held <=> Shown(c, i)
  BY DEF Shown
<1>8. /\ i \in New => Tellings(told, i) # {}
      /\ i \notin New => Tellings(told, i) = {}
      /\ LastTells(told, i, TRUE)
  <2> HIDE DEF told, New
  <2> QED BY <1>3, <1>4, Announced
<1> HIDE DEF told
<1>9. Shown(c, i)' <=> Shown(c, i)
  <2>1. "table" \notin WriteOps
    BY DEF WriteOps
  <2>2. Overlay(server[i], up'[c], i) = Overlay(server[i], up[c], i)
    BY <1>5, <2>1, OverlayTail
  <2> QED BY <1>5, <2>2 DEF Shown
<1> HIDE DEF Held
<1>10. Retold(told, i, i \in known[c], i \in known'[c])
  <2>1. CASE i \in New
    <3>1. (i \in known'[c]) = TRUE
      BY <1>5, <2>1
    <3> QED BY <1>8, <2>1, <3>1 DEF Retold
  <2>2. CASE i \notin New
    <3>1. i \in known[c] <=> i \in known'[c]
      BY <1>5, <1>7, <2>2 DEF InView
    <3> QED BY <1>8, <2>2, <3>1 DEF Retold
  <2> QED BY <2>1, <2>2
<1>11. i \in RowIds(c) => i \in known'[c] \cup gone'[c]
  BY <1>5
<1>12. InStep(c, i)'
  BY <1>2, <1>5, <1>6, <1>10, <1>11, StepJoined
<1>13. InView(c, i)'
  BY <1>5, <1>7, <1>9 DEF InView
<1> QED BY <1>12, <1>13

\* A childChanged listener is answered.
LEMMA WatchFollows ==
  ASSUME TypeOK, TypeOK', NEW c \in Users, AnswerWatch(c), NEW i \in Ids,
         InView(c, i), InStep(c, i)
  PROVE  InView(c, i)' /\ InStep(c, i)'
<1> DEFINE j == Head(up[c]).id
           n == Overlay(server[j], up[c], j)
           tell == table[c] = "asked" /\ n # Absent
           e == Added(j, n)
           s == IF tell THEN <<e>> ELSE <<>>
<1>1. /\ up[c] # <<>> /\ up[c] \in Seq(Requests) /\ Head(up[c]).op = "watch" /\ j \in Ids
      /\ up'[c] = Tail(up[c])
  BY OldestRequest DEF AnswerWatch, Answered, Oldest, TypeOK
<1>2. n \in Slot /\ events[c] \in Seq(Events)
  BY <1>1, OverlayType DEF TypeOK
<1>3. tell => e \in Events
  BY <1>1, <1>2 DEF Slot, Added, Events
<1>4. e.type = "added" /\ e.id = j
  BY DEF Added
<1>5. /\ events'[c] = IF tell THEN Append(events[c], e) ELSE events[c]
      /\ known'[c] = IF tell THEN known[c] \cup {j} ELSE known[c]
      /\ live'[c] = live[c] \cup {j}
      /\ UNCHANGED <<server, table, data, gone>>
  BY DEF AnswerWatch, TypeOK, app
<1>6. n = Overlay(server[j], up[c], j)
  OBVIOUS
<1>7. Overlay(server'[i], up'[c], i) = Overlay(server[i], up[c], i)
  <2>1. "watch" \notin WriteOps
    BY DEF WriteOps
  <2> QED BY <1>1, <1>5, <2>1, OverlayTail
<1> HIDE DEF n, e, j
<1>8. s \in Seq(Events) /\ events'[c] = events[c] \o s
  <2> HIDE DEF tell
  <2>1. CASE tell
    <3>1. <<e>> \in Seq(Events) /\ Append(events[c], e) = events[c] \o <<e>>
      BY <1>2, <1>3, <2>1, AppendIsConcat
    <3> QED BY <1>5, <2>1, <3>1
  <2>2. CASE ~tell
    <3>1. <<>> \in Seq(Events) /\ events[c] = events[c] \o <<>>
      BY <1>2
    <3> QED BY <1>5, <2>2, <3>1
  <2> QED BY <2>1, <2>2
<1>9. RowIds(c)' = RowIds(c)
  BY <1>5 DEF RowIds
<1>10. /\ Retold(s, i, i \in known[c], i \in known'[c])
       /\ table[c] = "off" => Tellings(s, i) = {}
  <2>1. CASE ~tell
    <3>1. Tellings(s, i) = {} /\ known'[c] = known[c]
      BY <1>5, <2>1 DEF Tellings
    <3> QED BY <3>1 DEF Retold
  <2>2. CASE tell /\ i = j
    <3>1. Tellings(s, i) # {} /\ LastTells(s, i, i \in known'[c])
      BY <1>4, <1>5, <2>2, TellsOne
    <3> QED BY <2>2, <3>1 DEF Retold
  <2>3. CASE tell /\ i # j
    <3>1. Tellings(s, i) = {} /\ (i \in known'[c] <=> i \in known[c])
      BY <1>4, <1>5, <2>3, TellsOne
    <3> QED BY <3>1 DEF Retold
  <2> QED BY <2>1, <2>2, <2>3
<1>11. InView(c, i)'
  BY <1>5, <1>6, <1>7 DEF InView, Shown
<1> HIDE DEF s
<1>12. InStep(c, i)'
  BY <1>2, <1>5, <1>8, <1>9, <1>10, StepJoined
<1> QED BY <1>11, <1>12

\* The table listener is asked for, for the first time; the cached items are announced.
LEMMA ActivateFollows ==
  ASSUME TypeOK, TypeOK', NEW c \in Users, events[c] # <<>>, ActivateObservers(c),
         table[c] = "off", server' = server, live' = live, data' = data, gone' = gone,
         NEW i \in Ids, InView(c, i), InStep(c, i)
  PROVE  InView(c, i)' /\ InStep(c, i)'
<1> DEFINE Held == {j \in live[c] : Overlay(server[j], up[c], j) # Absent}
<1>1. PICK order \in SetToSeqs(Held) :
         events' = [events EXCEPT ![c] = Tail(@) \o [k \in DOMAIN order |->
            Added(order[k], Overlay(server[order[k]], up[c], order[k]))]]
  BY DEF ActivateObservers
<1> DEFINE told == [k \in DOMAIN order |->
                       Added(order[k], Overlay(server[order[k]], up[c], order[k]))]
<1>2. Held \in SUBSET Ids
  BY DEF TypeOK
<1>3. told \in Seq(Events)
  BY <1>2, AnnounceType, CallbacksAreEvents
<1>4. IsFiniteSet(Held)
  BY <1>2, IdsFinite, FS_Subset
<1>5. /\ DOMAIN told = DOMAIN order
      /\ \A k \in DOMAIN order : told[k].type = "added" /\ told[k].id = order[k]
  BY DEF Added
<1>6. /\ up'[c] = Append(up[c], Table) /\ table'[c] = "asked" /\ known'[c] = Held
      /\ up[c] \in Seq(Requests)
  BY DEF ActivateObservers, TypeOK
<1>7. events'[c] = Tail(events[c]) \o told /\ Tail(events[c]) \in Seq(Events)
  BY <1>1, OldestEvent DEF TypeOK
<1>8. i \in Held <=> i \in live[c] /\ Shown(c, i)
  BY DEF Shown
<1>9. /\ i \in Held => Tellings(told, i) # {}
      /\ i \notin Held => Tellings(told, i) = {}
      /\ LastTells(told, i, TRUE)
  <2> HIDE DEF told, Held
  <2> QED BY <1>4, <1>5, Announced
<1> HIDE DEF told, Held
<1>10. Overlay(server'[i], up'[c], i) = Overlay(server[i], up[c], i)
  <2>1. Table \in Requests /\ Table.op \notin WriteOps
    BY DEF Table, Requests, WriteOps
  <2> QED BY <1>6, <2>1, OverlayAppend
<1>11. InView(c, i)'
  BY <1>6, <1>8, <1>10 DEF InView, Shown
<1>12. Tellings(Tail(events[c]), i) = {}
  <2>1. events[c] \in Seq(Events) /\ LastTells(events[c], i, i \in known[c])
    BY DEF TypeOK, InStep
  <2>2. Tellings(events[c], i) = {}
    BY DEF InStep
  <2> QED BY <2>1, <2>2, TellingsTail
<1>13. LastTells(events'[c], i, i \in known'[c]) /\ (i \in known'[c] => Tellings(events'[c], i) # {})
  <2> DEFINE e == Tail(events[c])
  <2>1. LastTells(e, i, FALSE)
    BY <1>12 DEF LastTells
  <2>2. CASE i \in Held
    <3>1. Retold(told, i, FALSE, TRUE)
      BY <1>9, <2>2 DEF Retold
    <3> HIDE DEF e
    <3>2. LastTells(e \o told, i, TRUE) /\ Tellings(e \o told, i) # {}
      BY <1>3, <1>7, <1>9, <2>1, <2>2, <3>1, TellingsJoined DEF e
    <3>3. (i \in known'[c]) = TRUE
      BY <1>6, <2>2
    <3> QED BY <1>7, <3>2, <3>3 DEF e
  <2>3. CASE i \notin Held
    <3> HIDE DEF e
    <3>1. Tellings(e \o told, i) = {}
      BY <1>3, <1>7, <1>9, <1>12, <2>3, TellingsJoined DEF e
    <3> QED BY <1>6, <1>7, <2>3, <3>1 DEF e, LastTells
  <2> QED BY <2>2, <2>3
<1>14. InStep(c, i)'
  BY <1>6, <1>13 DEF InStep
<1> QED BY <1>11, <1>14

\* The callbacks of the items turn announcements into rows and withdrawals into none.
LEMMA RowsHandled ==
  ASSUME TypeOK, NEW c \in Users, NEW i \in Ids, Once(data[c]),
         ItemsChildAdded(c) \/ ItemsChildRemoved(c) \/ ItemUpdated(c)
  PROVE  \/ /\ Head(events[c]).type \in {"added", "removed"} /\ Head(events[c]).id = i
            /\ i \in RowIds(c)' <=> Head(events[c]).type = "added"
         \/ /\ ~(Head(events[c]).type \in {"added", "removed"} /\ Head(events[c]).id = i)
            /\ i \in RowIds(c)' <=> i \in RowIds(c)
<1> DEFINE e == Head(events[c])
<1>1. data[c] \in Seq(Rows)
  BY DEF TypeOK
<1>2. CASE ItemsChildAdded(c)
  <2>1. e.type = "added"
    BY <1>2 DEF ItemsChildAdded, Next1
  <2>2. CASE e.id \in RowIds(c)
    <3>1. data' = data
      BY <1>2, <2>2 DEF ItemsChildAdded
    <3>2. RowIds(c)' = RowIds(c)
      BY <3>1 DEF RowIds
    <3> HIDE DEF e
    <3> QED BY <2>1, <2>2, <3>2 DEF e
  <2>3. CASE e.id \notin RowIds(c)
    <3> DEFINE r == Row(e.id, e.node, regs[c][e.id] + 1)
    <3>1. data'[c] = Append(data[c], r)
      BY <1>2, <2>3 DEF ItemsChildAdded, TypeOK
    <3>2. r.id = e.id
      BY DEF Row
    <3> HIDE DEF r, e
    <3>3. /\ DOMAIN data'[c] = DOMAIN data[c] \cup {Len(data[c]) + 1}
          /\ data'[c][Len(data[c]) + 1] = r
          /\ \A k \in DOMAIN data[c] : data'[c][k] = data[c][k]
      BY <1>1, <3>1
    <3>4. RowIds(c)' = RowIds(c) \cup {e.id}
      BY <3>2, <3>3 DEF RowIds
    <3> QED BY <2>1, <3>4 DEF e
  <2> QED BY <2>2, <2>3
<1>3. CASE ItemsChildRemoved(c)
  <2>1. e.type = "removed" /\ e.id \in Ids
    BY <1>3, OldestEvent DEF ItemsChildRemoved, Next1, Events
  <2> DEFINE j == e.id
             q == RemoveFirstMatch(data[c], LAMBDA r : r.id = j)
  <2>2. data'[c] = q
    BY <1>3 DEF ItemsChildRemoved, TypeOK
  <2>3. /\ \A k \in DOMAIN q : \E m \in DOMAIN data[c] : q[k] = data[c][m]
        /\ \A m \in DOMAIN data[c] : data[c][m].id # j => \E k \in DOMAIN q : q[k] = data[c][m]
        /\ \A k \in DOMAIN q : q[k].id # j
    <3> HIDE DEF j
    <3> QED BY <1>1, <2>1, RemoveRow DEF j
  <2> HIDE DEF q, j
  <2>4. RowIds(c)' = RowIds(c) \ {j}
    <3>1. RowIds(c)' = {q[k].id : k \in DOMAIN q}
      BY <2>2 DEF RowIds
    <3>2. RowIds(c) = {data[c][k].id : k \in DOMAIN data[c]}
      BY DEF RowIds
    <3> QED BY <2>3, <3>1, <3>2
  <2> QED BY <2>1, <2>4 DEF j
<1>4. CASE ItemUpdated(c)
  <2>1. e.type \notin {"added", "removed"}
    BY <1>4 DEF ItemUpdated, Next1
  <2>2. RowIds(c)' = RowIds(c)
    BY <1>4, UpdatedType DEF RowIds
  <2> QED BY <2>1, <2>2
<1> QED BY <1>2, <1>3, <1>4

\* A step of the app itself, other than a commit.
LEMMA FollowsOwn ==
  ASSUME TypeOK, TypeOK', NEW c \in Users, LoadsFirst(c), NamesOnce(c), Once(data[c]),
         Step(c), ~Commit(c), NEW i \in Ids, InView(c, i), InStep(c, i)
  PROVE  InView(c, i)' /\ InStep(c, i)'
<1>q. up[c] \in Seq(Requests) /\ events[c] \in Seq(Events)
  BY DEF TypeOK
<1>h. ASSUME events[c] # <<>>, events'[c] = Tail(events[c]), server' = server,
             up'[c] = up[c], table'[c] = table[c], known'[c] = known[c],
             live'[c] = live[c], gone'[c] = gone[c],
             \/ /\ Head(events[c]).type \in {"added", "removed"} /\ Head(events[c]).id = i
                /\ i \in RowIds(c)' <=> Head(events[c]).type = "added"
             \/ /\ ~(Head(events[c]).type \in {"added", "removed"} /\ Head(events[c]).id = i)
                /\ i \in RowIds(c)' <=> i \in RowIds(c)
      PROVE  InView(c, i)' /\ InStep(c, i)'
  <2>1. InView(c, i)'
    BY <1>h, ViewStays
  <2>2. InStep(c, i)'
    BY <1>q, <1>h, StepHandled
  <2> QED BY <2>1, <2>2
<1>a. ASSUME up[c] # <<>>, up'[c] = Tail(up[c]), Head(up[c]).op \notin WriteOps,
             server' = server, NEW e \in Events, e.type \notin {"added", "removed"},
             events'[c] = Append(events[c], e), table'[c] = table[c],
             known'[c] = known[c], live'[c] = live[c], data' = data, gone'[c] = gone[c]
      PROVE  InView(c, i)' /\ InStep(c, i)'
  <2>1. Overlay(server'[i], up'[c], i) = Overlay(server[i], up[c], i)
    BY <1>q, <1>a, OverlayTail
  <2>2. InView(c, i)'
    BY <1>a, <2>1, ViewStays
  <2> DEFINE s == <<e>>
  <2>3. s \in Seq(Events) /\ events'[c] = events[c] \o s
    <3>1. s \in Seq(Events)
      OBVIOUS
    <3>2. Append(events[c], e) = events[c] \o s
      BY <1>q, AppendIsConcat
    <3> QED BY <1>a, <3>1, <3>2
  <2>4. Tellings(s, i) = {}
    BY <1>a, TellsOne
  <2>5. RowIds(c)' = RowIds(c)
    BY <1>a DEF RowIds
  <2> HIDE DEF s
  <2>6. Retold(s, i, i \in known[c], i \in known'[c])
    BY <1>a, <2>4 DEF Retold
  <2>7. InStep(c, i)'
    BY <1>q, <1>a, <2>3, <2>4, <2>5, <2>6, StepJoined
  <2> QED BY <2>2, <2>7
<1>x. ASSUME server' = server, up'[c] = up[c], events'[c] = events[c], table'[c] = table[c],
             known'[c] = known[c], live'[c] = live[c], gone'[c] = gone[c], data'[c] = data[c]
      PROVE  InView(c, i)' /\ InStep(c, i)'
  BY <1>x DEF InView, InStep, Shown, RowIds, LastTells
<1>1. CASE AnswerRead(c)
  <2> DEFINE e == [type |-> "loaded", snap |-> server]
  <2>1. e \in Events /\ e.type \notin {"added", "removed"}
    BY DEF TypeOK, Events
  <2>2. /\ up[c] # <<>> /\ up'[c] = Tail(up[c]) /\ Head(up[c]).op = "read"
        /\ events'[c] = Append(events[c], e)
        /\ UNCHANGED <<server, table, known, live, data, gone>>
    BY <1>1 DEF AnswerRead, Answered, Oldest, TypeOK, app, history
  <2> HIDE DEF e
  <2> QED BY <1>a, <2>1, <2>2 DEF WriteOps
<1>2. CASE AnswerNames(c)
  <2>1. NamesThere \in Events /\ NamesThere.type \notin {"added", "removed"}
    BY DEF NamesThere, Events
  <2>2. /\ up[c] # <<>> /\ up'[c] = Tail(up[c]) /\ Head(up[c]).op = "names"
        /\ events'[c] = Append(events[c], NamesThere)
        /\ UNCHANGED <<server, table, known, live, data, gone>>
    BY <1>2 DEF AnswerNames, Answered, Oldest, TypeOK, NamesThere, app, history
  <2> QED BY <1>a, <2>1, <2>2 DEF WriteOps
<1>3. CASE AnswerWatch(c)
  BY <1>3, WatchFollows
<1>4. CASE AnswerTable(c)
  BY <1>4, TableFollows
<1>5. CASE Reject(c)
  BY <1>5, RejectFollows
<1>6. CASE LoadNothing(c)
  <2>1. events[c] # <<>> /\ Head(events[c]).type = "loaded" /\ AwaitsItems(c)
    <3>1. events[c] # <<>> /\ Head(events[c]).type = "loaded"
      BY <1>6 DEF LoadNothing, Next1
    <3>2. 1 \in DOMAIN events[c] /\ events[c][1] = Head(events[c])
      BY <1>q, <3>1
    <3> QED BY <3>1, <3>2 DEF AwaitsItems
  <2>2. table[c] = "off"
    BY <2>1, Waiting DEF Fresh
  <2>3. CASE HasDelegate(c)
    <3>1. ActivateObservers(c) /\ UNCHANGED <<server, live, data, gone>>
      BY <1>6, <2>3 DEF LoadNothing, history
    <3> QED BY <2>1, <2>2, <3>1, ActivateFollows
  <2>4. CASE ~HasDelegate(c)
    <3>1. /\ events'[c] = Tail(events[c])
          /\ UNCHANGED <<server, up, table, known, live, data, gone>>
      BY <1>6, <2>4 DEF LoadNothing, TypeOK, history
    <3>2. RowIds(c)' = RowIds(c)
      BY <3>1 DEF RowIds
    <3> QED BY <1>h, <2>1, <3>1, <3>2
  <2> QED BY <2>3, <2>4
<1>7. CASE LoadItems(c)
  <2>1. events[c] # <<>> /\ Head(events[c]).type = "loaded" /\ AwaitsItems(c)
    <3>1. events[c] # <<>> /\ Head(events[c]).type = "loaded"
      BY <1>7 DEF LoadItems, Next1
    <3>2. 1 \in DOMAIN events[c] /\ events[c][1] = Head(events[c])
      BY <1>q, <3>1
    <3> QED BY <3>1, <3>2 DEF AwaitsItems
  <2>2. /\ up[c] = <<>> /\ Tail(events[c]) = <<>> /\ table[c] = "off" /\ known[c] = {}
    BY <2>1, Waiting DEF Fresh
  <2>3. PICK told \in Seq(Events) :
           /\ events' = [events EXCEPT ![c] = Tail(events[c]) \o told]
           /\ \A k \in DOMAIN told : told[k].type = "named"
    BY <1>7, LoadItemsShape
  <2>4. events'[c] = told
    <3>1. events'[c] = <<>> \o told
      BY <2>2, <2>3 DEF TypeOK
    <3> QED BY <3>1
  <2>5. Tellings(events'[c], i) = {}
    BY <2>3, <2>4 DEF Tellings
  <2>6. table'[c] = "off" /\ known'[c] = {}
    BY <1>7, <2>2 DEF LoadItems
  <2> QED BY <2>5, <2>6, NothingFollows
<1>8. CASE LastItemNamed(c)
  <2>1. events[c] # <<>> /\ Head(events[c]).type = "named"
    BY <1>8 DEF LastItemNamed, Next1
  <2>2. CASE HasDelegate(c)
    <3>1. ActivateObservers(c) /\ UNCHANGED <<server, live, data, gone>>
      BY <1>8, <2>2 DEF LastItemNamed, history
    <3>2. Head(events[c]) = NamesThere
      BY <2>1, OldestEvent DEF Events, NamesThere
    <3>3. HowMany(events[c], {NamesThere}) = HowMany(Tail(events[c]), {NamesThere}) + 1
      BY <1>q, <2>1, <3>2, HowManyTail
    <3>4. HowMany(Tail(events[c]), {NamesThere}) \in Nat
      BY <2>1, OldestEvent, HowManyType
    <3>5. HowMany(up[c], {Names}) \in Nat
      BY NamesType
    <3>6. table[c] = "off"
      BY <3>3, <3>4, <3>5 DEF NamesOnce, NamesDue
    <3> QED BY <2>1, <3>1, <3>6, ActivateFollows
  <2>3. CASE ~HasDelegate(c)
    <3>1. /\ events'[c] = Tail(events[c])
          /\ UNCHANGED <<server, up, table, known, live, data, gone>>
      BY <1>8, <2>3 DEF LastItemNamed, TypeOK, history
    <3>2. RowIds(c)' = RowIds(c)
      BY <3>1 DEF RowIds
    <3> QED BY <1>h, <2>1, <3>1, <3>2
  <2> QED BY <2>2, <2>3
<1>9. CASE ItemsChildAdded(c) \/ ItemsChildRemoved(c) \/ ItemUpdated(c)
  <2>1. /\ events[c] # <<>> /\ events'[c] = Tail(events[c])
        /\ UNCHANGED <<server, up, table, known, live, gone>>
    BY <1>9 DEF ItemsChildAdded, ItemsChildRemoved, ItemUpdated, Next1, TypeOK, history
  <2> QED BY <1>9, <1>h, <2>1, RowsHandled
<1>10. CASE LoadPartialItem(c) \/ PartialChildAdded(c) \/ PopupYesNoRow(c) \/ Quit(c)
  <2>1. Reset(c, "crashed") \/ Reset(c, "closed")
    BY <1>10 DEF LoadPartialItem, PartialChildAdded, PopupYesNoRow, Quit, Crash
  <2>2. events'[c] = <<>> /\ table'[c] = "off" /\ known'[c] = {}
    BY <2>1 DEF Reset, TypeOK
  <2>3. Tellings(events'[c], i) = {}
    BY <2>2 DEF Tellings
  <2> QED BY <2>2, <2>3, NothingFollows
<1>11. CASE OpenList(c)
  <2>1. UNCHANGED <<events, table, known>> /\ screen[c] \in {"closed", "crashed"}
    BY <1>11 DEF OpenList
  <2>2. events'[c] = <<>> /\ table'[c] = "off" /\ known'[c] = {}
    BY <2>1 DEF LoadsFirst, Fresh
  <2>3. Tellings(events'[c], i) = {}
    BY <2>2 DEF Tellings
  <2> QED BY <2>2, <2>3, NothingFollows
<1>12. CASE LeaveScreen(c) \/ SelectChecked(c) \/ PopupNo(c)
  BY <1>12, <1>x DEF LeaveScreen, SelectChecked, PopupNo, sdk, history
<1>13. CASE AddNewItem(c)
  <2>1. PICK j \in Ids : Send(c, AddOf(j))
    BY <1>13 DEF AddNewItem
  <2>2. AddOf(j) \in Writes
    BY DEF AddOf, Writes, WriteOps, Checkers
  <2>3. UNCHANGED <<server, table, live, data, gone>>
    BY <1>13 DEF AddNewItem, app, history
  <2> QED BY <2>1, <2>2, <2>3, SendFollows
<1>14. CASE RemoveItem(c)
  <2>1. PICK k \in DOMAIN data[c] : Send(c, DelOf(data[c][k].id))
    BY <1>14 DEF RemoveItem
  <2>2. DelOf(data[c][k].id) \in Writes
    BY RowOfApp DEF DelOf, Writes, WriteOps, Checkers
  <2>3. UNCHANGED <<server, table, live, data, gone>>
    BY <1>14 DEF RemoveItem, app, history
  <2> QED BY <2>1, <2>2, <2>3, SendFollows
<1>15. CASE SelectUnchecked(c) \/ PopupYes(c)
  <2>1. PICK k \in DOMAIN data[c] : Send(c, ReverseCheckedOf(c, data[c][k]))
    BY <1>15 DEF SelectUnchecked, PopupYes, ReverseChecked
  <2>2. ReverseCheckedOf(c, data[c][k]) \in Writes
    BY ReverseType
  <2>3. UNCHANGED <<server, table, live, data, gone>>
    BY <1>15 DEF SelectUnchecked, PopupYes, app, history
  <2> QED BY <2>1, <2>2, <2>3, SendFollows
<1> QED BY <1>1, <1>2, <1>3, <1>4, <1>5, <1>6, <1>7, <1>8, <1>9, <1>10, <1>11, <1>12,
           <1>13, <1>14, <1>15 DEF Step, ServerStep, MainStep, UserStep

\* A step of another app, other than a commit, leaves the items and this app alone.
LEMMA OthersGone ==
  ASSUME TypeOK, NEW c \in Users, NEW d \in Users \ {c}, Step(c), ~Commit(c)
  PROVE  gone'[d] = gone[d]
<1> USE DEF TypeOK, history
<1>1. CASE AnswerTable(c)
  BY <1>1 DEF AnswerTable
<1>2. CASE LoadPartialItem(c) \/ PartialChildAdded(c) \/ PopupYesNoRow(c) \/ Quit(c)
  BY <1>2 DEF LoadPartialItem, PartialChildAdded, PopupYesNoRow, Quit, Crash, Reset
<1>3. CASE AnswerRead(c) \/ AnswerNames(c) \/ AnswerWatch(c) \/ Reject(c)
  BY <1>3 DEF AnswerRead, AnswerNames, AnswerWatch, Reject
<1>4. CASE \/ LoadNothing(c) \/ LoadItems(c) \/ LastItemNamed(c)
           \/ ItemsChildAdded(c) \/ ItemsChildRemoved(c) \/ ItemUpdated(c)
  BY <1>4 DEF LoadNothing, LoadItems, LastItemNamed, ItemsChildAdded, ItemsChildRemoved,
              ItemUpdated
<1>5. CASE \/ OpenList(c) \/ LeaveScreen(c) \/ AddNewItem(c) \/ RemoveItem(c)
           \/ SelectUnchecked(c) \/ SelectChecked(c) \/ PopupNo(c) \/ PopupYes(c)
  BY <1>5 DEF OpenList, LeaveScreen, AddNewItem, RemoveItem, SelectUnchecked,
              SelectChecked, PopupNo, PopupYes
<1> QED BY <1>1, <1>2, <1>3, <1>4, <1>5 DEF Step, ServerStep, MainStep, UserStep

\* Every step keeps the invariant, for every app and item.
LEMMA FollowsStep ==
  /\ TypeOK /\ TypeOK' /\ LoadingComesFirst /\ NamesComeOnce /\ NoDuplicateRows
  /\ RowsFollow /\ [Next]_vars
  => RowsFollow'
<1> SUFFICES ASSUME TypeOK, TypeOK', LoadingComesFirst, NamesComeOnce, NoDuplicateRows,
                    RowsFollow, [Next]_vars, NEW d \in Users, NEW i \in Ids
             PROVE  InView(d, i)' /\ InStep(d, i)'
  BY DEF RowsFollow
<1>1. /\ LoadsFirst(d) /\ NamesOnce(d) /\ Once(data[d])
      /\ InView(d, i) /\ InStep(d, i)
  BY DEF LoadingComesFirst, NamesComeOnce, NoDuplicateRows, Once, RowsFollow
<1>x. ASSUME server' = server, up'[d] = up[d], events'[d] = events[d], table'[d] = table[d],
             known'[d] = known[d], live'[d] = live[d], gone'[d] = gone[d], data'[d] = data[d]
      PROVE  InView(d, i)' /\ InStep(d, i)'
  BY <1>1, <1>x DEF InView, InStep, Shown, RowIds, LastTells
<1>2. CASE UNCHANGED vars
  BY <1>2, <1>x DEF vars, sdk, app, history
<1>3. CASE Next
  <2> PICK c \in Users : Step(c)
    BY <1>3 DEF Next, Step
  <2>1. CASE Commit(c)
    BY <1>1, <2>1, CommitFollows
  <2>2. CASE ~Commit(c) /\ d = c
    BY <1>1, <2>2, FollowsOwn
  <2>3. CASE ~Commit(c) /\ d # c
    <3>1. Untouched(d)
      BY <2>3, OthersUntouched DEF Step
    <3>2. server' = server
      BY <2>3, QueueStep
    <3>3. gone'[d] = gone[d]
      BY <2>3, OthersGone
    <3> QED BY <1>x, <3>1, <3>2, <3>3 DEF Untouched
  <2> QED BY <2>1, <2>2, <2>3
<1> QED BY <1>2, <1>3

\* The invariant holds in every behaviour.
LEMMA RowsFollowHolds == Spec => []RowsFollow
<1>1. Init => RowsFollow
  BY DEF Init, RowsFollow, InView, InStep, LastTells, Tellings
<1>2. /\ TypeOK /\ TypeOK' /\ LoadingComesFirst /\ NamesComeOnce /\ NoDuplicateRows
      /\ RowsFollow /\ [Next]_vars
      => RowsFollow'
  BY FollowsStep
<1> QED BY <1>1, <1>2, TypeCorrect, LoadingFirst, NamesComeOnceHolds, RowsAreUnique, PTL
        DEF Spec

-----------------------------------------------------------------------------
\* What an app without requests shows is what the server holds.
LEMMA ShownOfIdle ==
  ASSUME NEW d \in Users, NEW i \in Ids, up[d] = <<>>
  PROVE  Shown(d, i) <=> server[i] # Absent
<1>1. ~WritesOn(up[d], i)
  BY DEF WritesOn
<1> QED BY <1>1, OverlayUnwritten DEF Shown

\* Once nothing is under way a screen lists every item of the server: what appeared
\* between the snapshot of LoadData, the answers of the childChanged listeners and
\* that of the table listener is announced, however the writes of all apps interleave.
THEOREM EveryItemIsListed == Spec => []EveryItemListed
<1>1. RowsFollow => EveryItemListed
  <2> SUFFICES ASSUME RowsFollow, NEW c \in Users, Settled(c), NEW i \in Ids, server[i] # Absent
               PROVE  i \in RowIds(c)
    BY DEF EveryItemListed, There
  <2>1. InView(c, i) /\ InStep(c, i)
    BY DEF RowsFollow
  <2>2. i \in known[c]
    BY <2>1, ShownOfIdle DEF Settled, InView
  <2>3. Tellings(events[c], i) = {}
    BY DEF Settled, Tellings
  <2> QED BY <2>1, <2>2, <2>3 DEF InStep
<1> QED BY <1>1, RowsFollowHolds, PTL

\* A row whose item is no more lost it before the table listener was answered: every
\* later removal, and every refused write, reaches the screen.
THEOREM GhostsComeFromLoading == Spec => []GhostRowsOnlyFromLoading
<1>1. TypeOK /\ RowsFollow => GhostRowsOnlyFromLoading
  <2> SUFFICES ASSUME TypeOK, RowsFollow, NEW c \in Users, Settled(c),
                      NEW i \in RowIds(c), i \notin gone[c]
               PROVE  i \in There
    BY DEF GhostRowsOnlyFromLoading
  <2>1. i \in Ids
    BY RowIdsType
  <2>2. InView(c, i) /\ InStep(c, i)
    BY <2>1 DEF RowsFollow
  <2>3. Tellings(events[c], i) = {}
    BY DEF Settled, Tellings
  <2>4. i \in known[c]
    BY <2>2, <2>3 DEF InStep, Settled
  <2>5. Shown(c, i)
    BY <2>2, <2>4 DEF InView, Settled
  <2> QED BY <2>1, <2>5, ShownOfIdle DEF There, Settled
<1> QED BY <1>1, TypeCorrect, RowsFollowHolds, PTL

-----------------------------------------------------------------------------
(***************************************************************************)
(* The force casts never fail as long as nobody removes an item and the    *)
(* server refuses nothing, which is what the screens of today can do.  An  *)
(* item an app knows of, by a row, a callback or a write under way, is     *)
(* there for good: the server holds it, or the add is still on its way.    *)
(***************************************************************************)
HasAdd(q, i) == \E k \in DOMAIN q : q[k].op = "add" /\ q[k].id = i
NoDels(q)    == \A k \in DOMAIN q : q[k].op # "del"
FirmIds(d)   == {i \in Ids : Named(server[i]) \/ HasAdd(up[d], i)}

\* A callback, or queue of them, that withdraws nothing and tells of whole items in F
Harmless(F, e) ==
    /\ e.type # "removed"
    /\ e.type = "added" => e.node.named /\ e.id \in F
    /\ e.type = "loaded" => \A i \in Ids : e.snap[i] # Absent => e.snap[i].named /\ i \in F
Calm(F, s) == \A k \in DOMAIN s : Harmless(F, s[k])

Intact(d) ==
    /\ screen[d] # "crashed"
    /\ popup[d] # NoPopup => popup[d].row \in DOMAIN data[d]
    /\ NoDels(up[d])
    /\ \A i \in Ids : WritesOn(up[d], i) => i \in FirmIds(d)
    /\ RowIds(d) \subseteq FirmIds(d)
    /\ Calm(FirmIds(d), events[d])

AllNamed      == \A i \in Ids : server[i] # Absent => server[i].named
NothingBreaks == AllNamed /\ \A d \in Users : Intact(d)

\* An item shows exactly if it is held or on its way, and then with its title: the
\* writes under way complete it or only touch what is there.
LEMMA OverlayNamed ==
  ASSUME NEW n \in Slot, n # Absent => n.named, NEW q \in Seq(Requests), NoDels(q),
         NEW i \in Ids, WritesOn(q, i) => Named(n) \/ HasAdd(q, i)
  PROVE  /\ Overlay(n, q, i) # Absent => Overlay(n, q, i).named
         /\ Overlay(n, q, i) # Absent <=> Named(n) \/ HasAdd(q, i)
<1> DEFINE P == PendingOn(q, i)
           W == {k \in P : q[k].op # "check"}
           title == IF W = {} THEN Named(n) ELSE q[Max(W)].op = "add"
           v == [named |-> title, checked |-> q[Max(P)].checked, by |-> q[Max(P)].by]
<1>1. P \in SUBSET (1..Len(q)) /\ W \in SUBSET (1..Len(q)) /\ Len(q) \in Nat
  BY DEF PendingOn
<1>2. \A k \in P : q[k] \in Writes /\ q[k].op # "del"
  BY DEF PendingOn, Requests, Writes, WriteOps, NoDels
<1>3. W # {} <=> HasAdd(q, i)
  BY <1>2 DEF HasAdd, PendingOn, WriteOps, Writes
<1>4. P # {} <=> WritesOn(q, i)
  BY DEF PendingOn, WritesOn
<1>5. P = {} => Overlay(n, q, i) = n
  BY DEF Overlay
<1>6. P # {} => Overlay(n, q, i) = IF q[Max(P)].op = "del" THEN Absent ELSE v
  BY DEF Overlay
<1>7. P # {} => Max(P) \in P
  BY <1>1, MaxExists
<1>8. W # {} => Max(W) \in W
  BY <1>1, MaxExists
<1>9. W # {} => q[Max(W)].op = "add"
  <2>1. \A k \in W : q[k].op = "add"
    BY <1>2 DEF Writes, WriteOps
  <2> HIDE DEF W
  <2> QED BY <1>8, <2>1
<1>10. W # {} => P # {}
  OBVIOUS
<1> HIDE DEF P, W
<1>11. CASE P = {}
  <2>1. Named(n) <=> n # Absent
    BY DEF Named
  <2> QED BY <1>3, <1>5, <1>10, <1>11, <2>1
<1>12. CASE P # {}
  <2>1. Named(n) \/ HasAdd(q, i)
    BY <1>4, <1>12
  <2>2. title = TRUE
    <3>1. CASE W = {}
      <4>1. Named(n)
        BY <1>3, <2>1, <3>1
      <4>2. Named(n) \in BOOLEAN
        BY DEF Named, Slot, Node
      <4> QED BY <3>1, <4>1, <4>2
    <3>2. CASE W # {}
      BY <1>9, <3>2
    <3> QED BY <3>1, <3>2
  <2>3. Overlay(n, q, i) = v
    BY <1>2, <1>6, <1>7, <1>12
  <2>4. v \in Node
    <3>1. q[Max(P)] \in Writes
      BY <1>2, <1>7, <1>12
    <3>2. q[Max(P)].checked \in BOOLEAN /\ q[Max(P)].by \in Checkers
      BY <3>1 DEF Writes
    <3> HIDE DEF title
    <3> QED BY <2>2, <3>2 DEF Node
  <2>5. v # Absent /\ v.named
    <3> HIDE DEF title
    <3>1. v.named
      BY <2>2
    <3> HIDE DEF v
    <3> QED BY <2>4, <3>1, AbsentIsNoNode
  <2> HIDE DEF v
  <2> QED BY <2>1, <2>3, <2>5
<1> QED BY <1>11, <1>12

\* Changes of fields are told as changes of fields.
LEMMA ChangesAreFields ==
  ASSUME NEW c, NEW j, NEW old, NEW new
  PROVE  OnlyFields(FieldChanges(c, j, old, new))
<1> DEFINE e1 == [type |-> "checked", id |-> j, value |-> new.checked, regs |-> regs[c][j]]
           e2 == [type |-> "checked_by_id", id |-> j, value |-> new.by, regs |-> regs[c][j]]
           s1 == IF old.checked # new.checked THEN <<e1>> ELSE <<>>
           s2 == IF old.by # new.by THEN <<e2>> ELSE <<>>
           E  == {e1, e2}
<1>1. e1.type = "checked" /\ e2.type = "checked_by_id"
  OBVIOUS
<1>2. FieldChanges(c, j, old, new) = s1 \o s2
  BY DEF FieldChanges
<1>3. e1 \in E /\ e2 \in E
  OBVIOUS
<1> HIDE DEF e1, e2, E
<1>4. s1 \in Seq(E) /\ s2 \in Seq(E)
  BY <1>3
<1> HIDE DEF s1, s2
<1>5. ASSUME NEW k \in DOMAIN (s1 \o s2) PROVE (s1 \o s2)[k] \in E
  BY <1>4, ElementOfEither
<1> QED BY <1>1, <1>2, <1>5 DEF E, OnlyFields

\* What the SDK raises of an item that is firm is no withdrawal, and an announcement
\* carries the whole item.
LEMMA RaisedCalm ==
  ASSUME TypeOK, NEW c \in Users, NEW j \in Ids, InView(c, j),
         NEW n \in Slot, n # Absent => n.named, NEW q \in Seq(Requests), NoDels(q),
         WritesOn(q, j) \/ j \in known[c] => Named(n) \/ HasAdd(q, j),
         NEW F, Named(n) \/ HasAdd(q, j) => j \in F
  PROVE  Calm(F, Raised(c, j, n, q))
<1> DEFINE s == Raised(c, j, n, q)
           new == Seen(c, j, n, q)
<1>1. /\ Overlay(n, q, j) # Absent => Overlay(n, q, j).named
      /\ Overlay(n, q, j) # Absent <=> Named(n) \/ HasAdd(q, j)
  BY OverlayNamed
<1>2. new # Absent => new = Overlay(n, q, j)
  BY DEF Seen
<1>3. j \in known[c] => new # Absent
  BY <1>1 DEF InView, Seen
<1>4. \/ OnlyFields(s)
      \/ s = <<Added(j, new)>> /\ new # Absent
  <2>1. \/ s = <<Added(j, new)>> /\ new # Absent
        \/ new = Absent /\ j \in known[c]
        \/ s = FieldChanges(c, j, Seen(c, j, server[j], up[c]), new)
        \/ s = <<>>
    BY DEF Raised
  <2>2. OnlyFields(<<>>)
    BY DEF OnlyFields
  <2> HIDE DEF s, new
  <2> QED BY <1>3, <2>1, <2>2, ChangesAreFields
<1> HIDE DEF s, new
<1>5. CASE OnlyFields(s)
  BY <1>5 DEF OnlyFields, Calm, Harmless, s
<1>6. CASE s = <<Added(j, new)>> /\ new # Absent
  <2>1. DOMAIN s = {1} /\ s[1] = Added(j, new)
    BY <1>6, Short
  <2>2. new.named /\ j \in F
    BY <1>1, <1>2, <1>6
  <2>3. Harmless(F, Added(j, new))
    BY <2>2 DEF Added, Harmless
  <2> QED BY <2>1, <2>3 DEF Calm, s
<1> QED BY <1>4, <1>5, <1>6

\* Items that are there, announced in any order.
LEMMA AnnouncedCalm ==
  ASSUME TypeOK, AllNamed, NEW c \in Users, Intact(c), NEW S \in SUBSET Ids,
         \A i \in S : Overlay(server[i], up[c], i) # Absent, NEW order \in SetToSeqs(S)
  PROVE  Calm(FirmIds(c), [k \in DOMAIN order |->
            Added(order[k], Overlay(server[order[k]], up[c], order[k]))])
<1>1. order \in Seq(S) /\ DOMAIN order = 1..Len(order)
  BY OrderIsSequence
<1>2. ASSUME NEW i \in S
      PROVE  Harmless(FirmIds(c), Added(i, Overlay(server[i], up[c], i)))
  <2>1. server[i] \in Slot /\ up[c] \in Seq(Requests) /\ i \in Ids
    BY DEF TypeOK
  <2>2. NoDels(up[c]) /\ (WritesOn(up[c], i) => Named(server[i]) \/ HasAdd(up[c], i))
    BY <2>1 DEF Intact, FirmIds
  <2>3. server[i] # Absent => server[i].named
    BY <2>1 DEF AllNamed
  <2>4. /\ Overlay(server[i], up[c], i).named
        /\ Named(server[i]) \/ HasAdd(up[c], i)
    BY <2>1, <2>2, <2>3, OverlayNamed
  <2> QED BY <2>1, <2>4 DEF Harmless, Added, FirmIds
<1>3. \A k \in DOMAIN order : order[k] \in S
  BY <1>1
<1> QED BY <1>2, <1>3 DEF Calm

\* Queues of callbacks: more items may become firm, the oldest is handled, others join.
LEMMA CalmQueues ==
  ASSUME NEW F, NEW G, F \subseteq G, NEW s \in Seq(Events), Calm(F, s)
  PROVE  /\ Calm(G, s)
         /\ s # <<>> => Harmless(F, Head(s)) /\ Calm(G, Tail(s))
         /\ \A r \in Seq(Events) : Calm(G, r) => Calm(G, s \o r)
<1>1. Calm(G, s)
  BY DEF Calm, Harmless
<1>2. s # <<>> => Harmless(F, Head(s)) /\ Calm(G, Tail(s))
  <2> SUFFICES ASSUME s # <<>> PROVE Harmless(F, Head(s)) /\ Calm(G, Tail(s))
    OBVIOUS
  <2>1. 1 \in DOMAIN s /\ Head(s) = s[1]
    OBVIOUS
  <2>2. \A k \in DOMAIN Tail(s) : k + 1 \in DOMAIN s /\ Tail(s)[k] = s[k + 1]
    OBVIOUS
  <2> HIDE DEF Harmless
  <2> QED BY <1>1, <2>1, <2>2 DEF Calm
<1>3. ASSUME NEW r \in Seq(Events), Calm(G, r) PROVE Calm(G, s \o r)
  <2> SUFFICES ASSUME NEW k \in DOMAIN (s \o r) PROVE Harmless(G, (s \o r)[k])
    BY DEF Calm
  <2>1. \/ \E j \in DOMAIN s : (s \o r)[k] = s[j]
        \/ \E j \in DOMAIN r : (s \o r)[k] = r[j]
    BY ElementOfEither
  <2> QED BY <1>1, <1>3, <2>1 DEF Calm
<1> QED BY <1>1, <1>2, <1>3

\* Queues of requests: one that writes nothing is taken, such requests join, or a
\* write joins; what was on its way stays so.
LEMMA QueueHas ==
  ASSUME NEW q \in Seq(Requests), NoDels(q)
  PROVE  /\ q # <<>> => /\ NoDels(Tail(q))
                        /\ \A i : HasAdd(q, i) => HasAdd(Tail(q), i)
                                      \/ (Head(q).op = "add" /\ Head(q).id = i)
         /\ \A r \in Seq(Requests) : NoWrites(r) =>
               NoDels(q \o r) /\ \A i : HasAdd(q, i) => HasAdd(q \o r, i)
         /\ \A w \in Writes : w.op # "del" =>
               /\ NoDels(Append(q, w))
               /\ \A i : HasAdd(q, i) => HasAdd(Append(q, w), i)
               /\ w.op = "add" => HasAdd(Append(q, w), w.id)
<1>1. ASSUME q # <<>>
      PROVE  /\ NoDels(Tail(q))
             /\ \A i : HasAdd(q, i) => HasAdd(Tail(q), i)
                           \/ (Head(q).op = "add" /\ Head(q).id = i)
  <2>1. \A k \in DOMAIN Tail(q) : k + 1 \in DOMAIN q /\ Tail(q)[k] = q[k + 1]
    BY <1>1
  <2>2. \A k \in DOMAIN q : k # 1 => k - 1 \in DOMAIN Tail(q) /\ Tail(q)[k - 1] = q[k]
    BY <1>1
  <2>3. Head(q) = q[1]
    BY <1>1
  <2>4. NoDels(Tail(q))
    BY <2>1 DEF NoDels
  <2> QED BY <2>2, <2>3, <2>4 DEF HasAdd
<1>2. ASSUME NEW r \in Seq(Requests), NoWrites(r)
      PROVE  NoDels(q \o r) /\ \A i : HasAdd(q, i) => HasAdd(q \o r, i)
  <2>1. ASSUME NEW k \in DOMAIN (q \o r) PROVE (q \o r)[k].op # "del"
    <3>1. \/ \E j \in DOMAIN q : (q \o r)[k] = q[j]
          \/ \E j \in DOMAIN r : (q \o r)[k] = r[j]
      BY ElementOfEither
    <3>2. \A j \in DOMAIN r : r[j].op # "del"
      BY <1>2 DEF NoWrites, WriteOps
    <3> QED BY <3>1, <3>2 DEF NoDels
  <2>2. \A k \in DOMAIN q : k \in DOMAIN (q \o r) /\ (q \o r)[k] = q[k]
    OBVIOUS
  <2> QED BY <2>1, <2>2 DEF NoDels, HasAdd
<1>3. ASSUME NEW w \in Writes, w.op # "del"
      PROVE  /\ NoDels(Append(q, w))
             /\ \A i : HasAdd(q, i) => HasAdd(Append(q, w), i)
             /\ w.op = "add" => HasAdd(Append(q, w), w.id)
  <2>1. w \in Requests
    BY DEF Requests
  <2>2. /\ \A k \in DOMAIN q : k \in DOMAIN Append(q, w) /\ Append(q, w)[k] = q[k]
        /\ Len(q) + 1 \in DOMAIN Append(q, w) /\ Append(q, w)[Len(q) + 1] = w
    BY <2>1
  <2>3. ASSUME NEW k \in DOMAIN Append(q, w)
        PROVE  Append(q, w)[k] = w \/ \E j \in DOMAIN q : Append(q, w)[k] = q[j]
    BY <2>1, ElementOfAppend
  <2> QED BY <1>3, <2>2, <2>3 DEF NoDels, HasAdd
<1> QED BY <1>1, <1>2, <1>3

\* Requests of a step other than a commit: what was firm stays firm, and so is every
\* item that the queue writes to.
LEMMA FirmAfter ==
  ASSUME TypeOK, NEW c \in Users, Intact(c), server' = server,
         \/ up'[c] = up[c]
         \/ up[c] # <<>> /\ Head(up[c]).op \notin WriteOps /\ up'[c] = Tail(up[c])
         \/ \E r \in Seq(Requests) : NoWrites(r) /\ up'[c] = up[c] \o r
         \/ \E w \in Writes : /\ w.op = "add" \/ (w.op = "check" /\ w.id \in RowIds(c))
                              /\ up'[c] = Append(up[c], w)
  PROVE  /\ FirmIds(c) \subseteq FirmIds(c)'
         /\ NoDels(up'[c])
         /\ \A i \in Ids : WritesOn(up'[c], i) => i \in FirmIds(c)'
<1>q. /\ up[c] \in Seq(Requests) /\ NoDels(up[c])
      /\ \A i \in Ids : WritesOn(up[c], i) => i \in FirmIds(c)
  BY DEF TypeOK, Intact
<1>f. (\A i \in Ids : HasAdd(up[c], i) => HasAdd(up'[c], i)) => FirmIds(c) \subseteq FirmIds(c)'
  BY DEF FirmIds
<1>g. \A i \in Ids : HasAdd(up'[c], i) => i \in FirmIds(c)'
  BY DEF FirmIds
<1>1. CASE up'[c] = up[c]
  BY <1>q, <1>f, <1>1
<1>2. CASE up[c] # <<>> /\ Head(up[c]).op \notin WriteOps /\ up'[c] = Tail(up[c])
  <2>1. Head(up[c]).op # "add"
    BY <1>2 DEF WriteOps
  <2>2. NoDels(up'[c]) /\ \A i \in Ids : HasAdd(up[c], i) => HasAdd(up'[c], i)
    BY <1>q, <1>2, <2>1, QueueHas
  <2>3. \A i \in Ids : WritesOn(up'[c], i) => WritesOn(up[c], i)
    BY <1>q, <1>2, WritesOnQueue
  <2> QED BY <1>q, <1>f, <2>2, <2>3
<1>3. CASE \E r \in Seq(Requests) : NoWrites(r) /\ up'[c] = up[c] \o r
  <2>1. NoDels(up'[c]) /\ \A i \in Ids : HasAdd(up[c], i) => HasAdd(up'[c], i)
    BY <1>q, <1>3, QueueHas
  <2>2. \A i \in Ids : WritesOn(up'[c], i) => WritesOn(up[c], i)
    BY <1>q, <1>3, WritesOnQueue
  <2> QED BY <1>q, <1>f, <2>1, <2>2
<1>4. CASE \E w \in Writes : /\ w.op = "add" \/ (w.op = "check" /\ w.id \in RowIds(c))
                             /\ up'[c] = Append(up[c], w)
  <2>1. PICK w \in Writes : /\ w.op = "add" \/ (w.op = "check" /\ w.id \in RowIds(c))
                            /\ up'[c] = Append(up[c], w)
    BY <1>4
  <2>2. /\ NoDels(up'[c]) /\ \A i \in Ids : HasAdd(up[c], i) => HasAdd(up'[c], i)
        /\ w.op = "add" => HasAdd(up'[c], w.id)
    BY <1>q, <2>1, QueueHas
  <2>3. \A i \in Ids : WritesOn(up'[c], i) => WritesOn(up[c], i) \/ w.id = i
    BY <1>q, <2>1, WritesOnQueue
  <2>4. FirmIds(c) \subseteq FirmIds(c)'
    BY <1>f, <2>2
  <2>5. w.id \in FirmIds(c)'
    <3>1. w.id \in Ids
      BY DEF Writes
    <3>2. RowIds(c) \subseteq FirmIds(c)
      BY DEF Intact
    <3> QED BY <1>g, <2>1, <2>2, <2>4, <3>1, <3>2
  <2> QED BY <1>q, <2>2, <2>3, <2>4, <2>5
<1> QED BY <1>1, <1>2, <1>3, <1>4

\* A write of the app: a new item, or the check of a row.
LEMMA SendIntact ==
  ASSUME TypeOK, AllNamed, NEW c \in Users, Intact(c), NEW w \in Writes,
         InView(c, w.id), w.op = "add" \/ (w.op = "check" /\ w.id \in RowIds(c)),
         Send(c, w), server' = server, data' = data, screen' = screen,
         popup'[c] = popup[c] \/ popup'[c] = NoPopup
  PROVE  Intact(c)'
<1> DEFINE j == w.id
           q == Append(up[c], w)
           s == Raised(c, j, server[j], q)
<1>1. w \in Requests /\ j \in Ids
  BY DEF Requests, Writes
<1>2. /\ up'[c] = q /\ q \in Seq(Requests)
      /\ events'[c] = events[c] \o s /\ events[c] \in Seq(Events)
  BY <1>1 DEF Send, TypeOK
<1>3. /\ FirmIds(c) \subseteq FirmIds(c)'
      /\ NoDels(up'[c])
      /\ \A i \in Ids : WritesOn(up'[c], i) => i \in FirmIds(c)'
  <2>1. \E v \in Writes : /\ v.op = "add" \/ (v.op = "check" /\ v.id \in RowIds(c))
                          /\ up'[c] = Append(up[c], v)
    BY <1>2
  <2> QED BY <2>1, FirmAfter
<1>4. WritesOn(q, j)
  <2>1. Len(up[c]) + 1 \in DOMAIN q /\ q[Len(up[c]) + 1] = w
    BY <1>1 DEF TypeOK
  <2>2. w.op \in WriteOps
    BY DEF Writes
  <2> QED BY <2>1, <2>2 DEF WritesOn
<1>5. j \in FirmIds(c)'
  BY <1>1, <1>2, <1>3, <1>4
<1>6. Named(server[j]) \/ HasAdd(q, j)
  BY <1>2, <1>5 DEF FirmIds
<1>7. server[j] \in Slot /\ (server[j] # Absent => server[j].named)
  BY <1>1 DEF TypeOK, AllNamed
<1> PICK G : G = FirmIds(c)'
  OBVIOUS
<1>8. s \in Seq(Events)
  <2> HIDE DEF j, q
  <2> QED BY <1>1, <1>2, <1>7, RaisedIs
<1>9. Calm(G, s)
  <2>1. InView(c, j) /\ NoDels(q) /\ j \in G
    BY <1>2, <1>3, <1>5
  <2> HIDE DEF j, q
  <2> QED BY <1>1, <1>2, <1>6, <1>7, <2>1, RaisedCalm
<1>10. Calm(G, events'[c])
  <2>1. Calm(FirmIds(c), events[c]) /\ FirmIds(c) \subseteq G
    BY <1>3 DEF Intact
  <2> HIDE DEF s
  <2> QED BY <1>2, <1>8, <1>9, <2>1, CalmQueues
<1>11. RowIds(c)' = RowIds(c)
  BY DEF RowIds
<1>12. RowIds(c)' \subseteq FirmIds(c)'
  BY <1>3, <1>11 DEF Intact
<1>13. screen'[c] # "crashed" /\ (popup'[c] # NoPopup => popup'[c].row \in DOMAIN data'[c])
  BY DEF Intact
<1> QED BY <1>3, <1>10, <1>12, <1>13 DEF Intact

\* Starting the table listener announces whole items.
LEMMA ActivateIntact ==
  ASSUME TypeOK, AllNamed, NEW c \in Users, Intact(c), events[c] # <<>>,
         ActivateObservers(c), server' = server, data' = data, popup' = popup,
         screen'[c] # "crashed"
  PROVE  Intact(c)'
<1> DEFINE S == {i \in live[c] : Overlay(server[i], up[c], i) # Absent}
<1>1. PICK order \in SetToSeqs(S) :
         events' = [events EXCEPT ![c] = Tail(@) \o
            [k \in DOMAIN order |-> Added(order[k], Overlay(server[order[k]], up[c], order[k]))]]
  BY DEF ActivateObservers
<1> DEFINE told == [k \in DOMAIN order |->
                       Added(order[k], Overlay(server[order[k]], up[c], order[k]))]
<1>2. S \in SUBSET Ids /\ \A i \in S : Overlay(server[i], up[c], i) # Absent
  BY DEF TypeOK
<1>3. told \in Seq(Events) /\ Calm(FirmIds(c), told)
  <2> HIDE DEF S
  <2> QED BY <1>2, AnnounceType, CallbacksAreEvents, AnnouncedCalm
<1>4. events'[c] = Tail(events[c]) \o told /\ events[c] \in Seq(Events)
  <2> HIDE DEF told
  <2> QED BY <1>1 DEF TypeOK, told
<1>5. /\ FirmIds(c) \subseteq FirmIds(c)'
      /\ NoDels(up'[c])
      /\ \A i \in Ids : WritesOn(up'[c], i) => i \in FirmIds(c)'
  <2>1. Table \in Requests /\ Table.op \notin WriteOps
    BY DEF Table, Requests, WriteOps
  <2>2. up'[c] = up[c] \o <<Table>> /\ <<Table>> \in Seq(Requests) /\ NoWrites(<<Table>>)
    <3>1. up'[c] = Append(up[c], Table) /\ up[c] \in Seq(Requests)
      BY DEF ActivateObservers, TypeOK
    <3> QED BY <2>1, <3>1, AppendIsConcat DEF NoWrites
  <2>3. \E r \in Seq(Requests) : NoWrites(r) /\ up'[c] = up[c] \o r
    BY <2>2
  <2> QED BY <2>3, FirmAfter
<1> PICK G : G = FirmIds(c)'
  OBVIOUS
<1> HIDE DEF told, S
<1>6. Calm(G, events'[c])
  <2>1. Calm(FirmIds(c), events[c]) /\ FirmIds(c) \subseteq G
    BY <1>5 DEF Intact
  <2>2. Tail(events[c]) \in Seq(Events) /\ Calm(G, Tail(events[c]))
    BY <1>4, <2>1, OldestEvent, CalmQueues
  <2>3. Calm(G, told)
    BY <1>3, <2>1, CalmQueues
  <2>4. G \subseteq G
    OBVIOUS
  <2> QED BY <1>3, <1>4, <2>2, <2>3, <2>4, CalmQueues
<1>7. RowIds(c)' = RowIds(c)
  BY DEF RowIds
<1>8. RowIds(c)' \subseteq FirmIds(c)'
  BY <1>5, <1>7 DEF Intact
<1>9. popup'[c] # NoPopup => popup'[c].row \in DOMAIN data'[c]
  BY DEF Intact
<1> QED BY <1>5, <1>6, <1>8, <1>9 DEF Intact

\* A callback that makes rows of firm items only, or updates them, leaves all whole.
LEMMA HandledIntact ==
  ASSUME TypeOK, NEW c \in Users, Intact(c), events[c] # <<>>, server' = server,
         up' = up, events'[c] = Tail(events[c]), popup' = popup,
         screen'[c] # "crashed", DOMAIN data[c] \subseteq DOMAIN data'[c],
         RowIds(c)' \subseteq FirmIds(c)
  PROVE  Intact(c)'
<1>1. FirmIds(c)' = FirmIds(c)
  BY DEF FirmIds
<1>2. Calm(FirmIds(c), Tail(events[c]))
  <2>1. events[c] \in Seq(Events) /\ Calm(FirmIds(c), events[c])
    BY DEF TypeOK, Intact
  <2>2. FirmIds(c) \subseteq FirmIds(c)
    OBVIOUS
  <2> QED BY <2>1, <2>2, CalmQueues
<1> QED BY <1>1, <1>2 DEF Intact

\* The next callback is harmless.
LEMMA NextHarmless ==
  ASSUME TypeOK, NEW c \in Users, Intact(c), events[c] # <<>>
  PROVE  Harmless(FirmIds(c), Head(events[c]))
<1>1. events[c] \in Seq(Events) /\ Calm(FirmIds(c), events[c]) /\ FirmIds(c) \subseteq FirmIds(c)
  BY DEF TypeOK, Intact
<1> QED BY <1>1, CalmQueues

\* The rows LoadData makes are of items the server holds.
LEMMA LoadItemsIntact ==
  ASSUME TypeOK, TypeOK', NEW c \in Users, Intact(c), LoadItems(c)
  PROVE  Intact(c)'
<1>1. PICK rows \in Seq(Rows), more \in Seq(Requests), told \in Seq(Events) :
         /\ data' = [data EXCEPT ![c] = data[c] \o rows]
         /\ up' = [up EXCEPT ![c] = up[c] \o more]
         /\ events' = [events EXCEPT ![c] = Tail(events[c]) \o told]
         /\ Once(rows)
         /\ \A k \in DOMAIN rows : Head(events[c]).snap[rows[k].id] # Absent
         /\ \A k \in DOMAIN more : more[k].op \in {"watch", "names"}
         /\ \A k \in DOMAIN told : told[k].type = "named"
         /\ HowMany(more, {Names}) + HowMany(told, {[type |-> "named"]}) = 1
  BY LoadItemsShape
<1>2. /\ data'[c] = data[c] \o rows /\ up'[c] = up[c] \o more
      /\ events'[c] = Tail(events[c]) \o told
      /\ data[c] \in Seq(Rows) /\ events[c] \in Seq(Events)
      /\ UNCHANGED <<server, screen, popup>>
  BY <1>1 DEF TypeOK, LoadItems
<1>3. events[c] # <<>> /\ Head(events[c]).type = "loaded"
  BY DEF LoadItems, Next1
<1>4. /\ FirmIds(c) \subseteq FirmIds(c)'
      /\ NoDels(up'[c])
      /\ \A i \in Ids : WritesOn(up'[c], i) => i \in FirmIds(c)'
  <2>1. NoWrites(more)
    BY <1>1 DEF NoWrites, WriteOps
  <2>2. \E r \in Seq(Requests) : NoWrites(r) /\ up'[c] = up[c] \o r
    BY <1>2, <2>1
  <2> QED BY <1>2, <2>2, FirmAfter
<1> PICK G : G = FirmIds(c)'
  OBVIOUS
<1>5. Calm(G, events'[c])
  <2>1. Calm(FirmIds(c), events[c]) /\ FirmIds(c) \subseteq G
    BY <1>4 DEF Intact
  <2>2. Tail(events[c]) \in Seq(Events) /\ Calm(G, Tail(events[c]))
    BY <1>2, <1>3, <2>1, OldestEvent, CalmQueues
  <2>3. Calm(G, told)
    BY <1>1 DEF Calm, Harmless
  <2>4. G \subseteq G
    OBVIOUS
  <2> QED BY <1>2, <2>2, <2>3, <2>4, CalmQueues
<1>6. \A k \in DOMAIN rows : rows[k].id \in FirmIds(c)
  <2>1. Harmless(FirmIds(c), Head(events[c]))
    BY <1>3, NextHarmless
  <2>2. \A k \in DOMAIN rows : rows[k] \in Rows
    OBVIOUS
  <2>3. \A k \in DOMAIN rows : rows[k].id \in Ids
    BY <2>2 DEF Rows
  <2> QED BY <1>1, <1>3, <2>1, <2>3 DEF Harmless
<1>7. RowIds(c)' \subseteq FirmIds(c)'
  <2> SUFFICES ASSUME NEW k \in DOMAIN data'[c] PROVE data'[c][k].id \in FirmIds(c)'
    BY DEF RowIds
  <2>1. \A j \in DOMAIN data[c] : data[c][j].id \in FirmIds(c)
    BY DEF Intact, RowIds
  <2>2. data'[c][k].id \in FirmIds(c)
    BY <1>2, <1>6, <2>1, RowsJoined
  <2> QED BY <1>4, <2>2
<1>8. DOMAIN data[c] \subseteq DOMAIN data'[c]
  BY <1>2
<1>9. screen'[c] # "crashed" /\ (popup'[c] # NoPopup => popup'[c].row \in DOMAIN data'[c])
  BY <1>2, <1>8 DEF Intact
<1> QED BY <1>4, <1>5, <1>7, <1>9 DEF Intact

\* The oldest request is answered; a callback may follow.
LEMMA AnsweredIntact ==
  ASSUME TypeOK, NEW c \in Users, Intact(c), up[c] # <<>>, Head(up[c]).op \notin WriteOps,
         Answered(c), UNCHANGED <<server, data, screen, popup>>,
         NEW s \in Seq(Events), events'[c] = events[c] \o s, Calm(FirmIds(c), s)
  PROVE  Intact(c)'
<1>1. up'[c] = Tail(up[c]) /\ events[c] \in Seq(Events)
  BY DEF Answered, TypeOK
<1>2. /\ FirmIds(c) \subseteq FirmIds(c)'
      /\ NoDels(up'[c])
      /\ \A i \in Ids : WritesOn(up'[c], i) => i \in FirmIds(c)'
  BY <1>1, FirmAfter
<1> PICK G : G = FirmIds(c)'
  OBVIOUS
<1>3. Calm(G, events'[c])
  <2>1. Calm(FirmIds(c), events[c]) /\ FirmIds(c) \subseteq G
    BY <1>2 DEF Intact
  <2>2. Calm(G, s)
    BY <2>1, CalmQueues
  <2> QED BY <1>1, <2>1, <2>2, CalmQueues
<1>4. RowIds(c)' = RowIds(c)
  BY DEF RowIds
<1>5. RowIds(c)' \subseteq FirmIds(c)'
  BY <1>2, <1>4 DEF Intact
<1> QED BY <1>2, <1>3, <1>5 DEF Intact

\* A step of the app itself, other than a commit.
LEMMA IntactOwn ==
  ASSUME ~Removal, MaxRejects = 0, TypeOK, TypeOK', NEW c \in Users, LoadsFirst(c),
         Once(data[c]), Step(c), ~Commit(c), AllNamed, Intact(c),
         \A i \in Ids : InView(c, i)
  PROVE  Intact(c)'
<1>q. /\ up[c] \in Seq(Requests) /\ events[c] \in Seq(Events) /\ data[c] \in Seq(Rows)
      /\ <<>> \in Seq(Events)
  BY DEF TypeOK
<1>e. \A e \in Events : <<e>> \in Seq(Events) /\ Append(events[c], e) = events[c] \o <<e>>
  BY <1>q, AppendIsConcat
<1>n. events[c] \o <<>> = events[c]
  BY <1>q
<1>c. ASSUME NEW F, NEW e, Harmless(F, e) PROVE Calm(F, <<e>>)
  BY <1>c, Short DEF Calm
<1>1. CASE AnswerRead(c)
  <2> DEFINE e == [type |-> "loaded", snap |-> server]
  <2>1. e \in Events
    BY DEF TypeOK, Events
  <2>2. /\ up[c] # <<>> /\ Head(up[c]).op \notin WriteOps /\ Answered(c)
        /\ events'[c] = Append(events[c], e)
        /\ UNCHANGED <<server, data, screen, popup>>
    BY <1>1 DEF AnswerRead, Oldest, WriteOps, TypeOK, app
  <2>3. Harmless(FirmIds(c), e)
    BY DEF Harmless, AllNamed, FirmIds, Named
  <2> HIDE DEF e
  <2>4. Calm(FirmIds(c), <<e>>)
    BY <1>c, <2>3
  <2>5. <<e>> \in Seq(Events) /\ events'[c] = events[c] \o <<e>>
    BY <1>e, <2>1, <2>2
  <2> QED BY <2>2, <2>4, <2>5, AnsweredIntact
<1>2. CASE AnswerNames(c)
  <2> DEFINE e == NamesThere
  <2>1. e \in Events
    BY DEF NamesThere, Events
  <2>2. /\ up[c] # <<>> /\ Head(up[c]).op \notin WriteOps /\ Answered(c)
        /\ events'[c] = Append(events[c], e)
        /\ UNCHANGED <<server, data, screen, popup>>
    BY <1>2 DEF AnswerNames, Oldest, WriteOps, TypeOK, NamesThere, app
  <2>3. Harmless(FirmIds(c), e)
    BY DEF Harmless, NamesThere
  <2> HIDE DEF e
  <2>4. Calm(FirmIds(c), <<e>>)
    BY <1>c, <2>3
  <2>5. <<e>> \in Seq(Events) /\ events'[c] = events[c] \o <<e>>
    BY <1>e, <2>1, <2>2
  <2> QED BY <2>2, <2>4, <2>5, AnsweredIntact
<1>3. CASE AnswerWatch(c)
  <2> DEFINE j == Head(up[c]).id
             n == Overlay(server[j], up[c], j)
             e == Added(j, n)
  <2>1. /\ up[c] # <<>> /\ Head(up[c]).op = "watch" /\ Answered(c)
        /\ UNCHANGED <<server, data, screen, popup>>
        /\ \/ events'[c] = events[c]
           \/ n # Absent /\ events'[c] = Append(events[c], e)
    BY <1>3 DEF AnswerWatch, Oldest, TypeOK, app
  <2>2. Head(up[c]).op \notin WriteOps
    BY <2>1 DEF WriteOps
  <2>3. j \in Ids
    BY <2>1, OldestRequest
  <2>4. server[j] \in Slot /\ (server[j] # Absent => server[j].named) /\ NoDels(up[c])
    BY <2>3 DEF TypeOK, AllNamed, Intact
  <2>5. WritesOn(up[c], j) => Named(server[j]) \/ HasAdd(up[c], j)
    BY <2>3 DEF Intact, FirmIds
  <2>6. CASE events'[c] = events[c]
    <3>1. events'[c] = events[c] \o <<>> /\ Calm(FirmIds(c), <<>>)
      BY <1>n, <2>6 DEF Calm
    <3> QED BY <1>q, <2>1, <2>2, <3>1, AnsweredIntact
  <2>7. CASE n # Absent /\ events'[c] = Append(events[c], e)
    <3>1. n \in Slot
      BY <1>q, <2>3, <2>4, OverlayType
    <3>2. n.named /\ j \in FirmIds(c)
      <4>1. n.named /\ (Named(server[j]) \/ HasAdd(up[c], j))
        <5> HIDE DEF j
        <5> QED BY <1>q, <2>3, <2>4, <2>5, <2>7, OverlayNamed
      <4> QED BY <2>3, <4>1 DEF FirmIds
    <3>3. e \in Events /\ Harmless(FirmIds(c), e)
      <4> HIDE DEF n, j
      <4> QED BY <2>3, <2>7, <3>1, <3>2 DEF Added, Events, Slot, Harmless
    <3> HIDE DEF e, n, j
    <3>4. Calm(FirmIds(c), <<e>>)
      BY <1>c, <3>3
    <3>5. <<e>> \in Seq(Events) /\ events'[c] = events[c] \o <<e>>
      BY <1>e, <2>7, <3>3
    <3> QED BY <2>1, <2>2, <3>4, <3>5, AnsweredIntact
  <2> QED BY <2>1, <2>6, <2>7
<1>4. CASE AnswerTable(c)
  <2> DEFINE Held == {i \in Ids : Overlay(server[i], up[c], i) # Absent}
             S    == Held \ known[c]
  <2>1. PICK order \in SetToSeqs(S) :
           events' = [events EXCEPT ![c] = @ \o [k \in DOMAIN order |->
              Added(order[k], Overlay(server[order[k]], up[c], order[k]))]]
    BY <1>4 DEF AnswerTable
  <2> DEFINE told == [k \in DOMAIN order |->
                         Added(order[k], Overlay(server[order[k]], up[c], order[k]))]
  <2>2. S \in SUBSET Ids /\ \A i \in S : Overlay(server[i], up[c], i) # Absent
    OBVIOUS
  <2>3. told \in Seq(Events) /\ Calm(FirmIds(c), told)
    <3> HIDE DEF S
    <3> QED BY <2>2, AnnounceType, CallbacksAreEvents, AnnouncedCalm
  <2>4. events'[c] = events[c] \o told
    <3> HIDE DEF told
    <3> QED BY <2>1 DEF TypeOK, told
  <2>5. /\ up[c] # <<>> /\ Head(up[c]).op \notin WriteOps /\ Answered(c)
        /\ UNCHANGED <<server, data, screen, popup>>
    BY <1>4 DEF AnswerTable, Oldest, WriteOps, app
  <2> HIDE DEF told
  <2> QED BY <2>3, <2>4, <2>5, AnsweredIntact
<1>5. ~Reject(c)
  BY DEF Reject, TypeOK
<1>6. CASE LoadNothing(c) \/ LastItemNamed(c)
  <2>1. /\ events[c] # <<>> /\ UNCHANGED <<server, data, popup>>
        /\ \/ DataLoaded(c) /\ ActivateObservers(c)
           \/ events' = [events EXCEPT ![c] = Tail(@)] /\ UNCHANGED <<up, screen>>
    BY <1>6 DEF LoadNothing, LastItemNamed, Next1
  <2>2. CASE DataLoaded(c) /\ ActivateObservers(c)
    <3>1. screen'[c] # "crashed"
      BY <2>2 DEF DataLoaded, Intact, TypeOK
    <3> QED BY <2>1, <2>2, <3>1, ActivateIntact
  <2>3. CASE events' = [events EXCEPT ![c] = Tail(@)] /\ UNCHANGED <<up, screen>>
    <3>1. /\ events'[c] = Tail(events[c]) /\ screen'[c] # "crashed"
          /\ DOMAIN data[c] \subseteq DOMAIN data'[c]
      BY <2>1, <2>3 DEF TypeOK, Intact
    <3>2. RowIds(c)' = RowIds(c)
      BY <2>1 DEF RowIds
    <3>3. RowIds(c)' \subseteq FirmIds(c)
      BY <3>2 DEF Intact
    <3> QED BY <2>1, <2>3, <3>1, <3>3, HandledIntact
  <2> QED BY <2>1, <2>2, <2>3
<1>7. CASE LoadItems(c)
  BY <1>7, LoadItemsIntact
<1>8. ~LoadPartialItem(c) /\ ~PartialChildAdded(c)
  <2>1. events[c] # <<>> => Harmless(FirmIds(c), Head(events[c]))
    BY NextHarmless
  <2>2. ~LoadPartialItem(c)
    BY <2>1 DEF LoadPartialItem, Next1, Harmless, Named
  <2>3. ~PartialChildAdded(c)
    BY <2>1 DEF PartialChildAdded, Next1, Harmless
  <2> QED BY <2>2, <2>3
<1>9. ~PopupYesNoRow(c)
  BY DEF PopupYesNoRow, Intact
<1>10. CASE Quit(c)
  <2>1. Reset(c, "closed") /\ server' = server
    BY <1>10 DEF Quit
  <2>2. /\ screen'[c] = "closed" /\ popup'[c] = NoPopup
        /\ up'[c] = <<>> /\ events'[c] = <<>> /\ data'[c] = <<>>
    BY <2>1 DEF Reset, TypeOK
  <2>3. \A i \in Ids : ~WritesOn(up'[c], i)
    BY <2>2 DEF WritesOn
  <2>4. RowIds(c)' = {}
    BY <2>2 DEF RowIds
  <2> QED BY <2>2, <2>3, <2>4 DEF Intact, NoDels, Calm
<1>11. CASE OpenList(c)
  <2>1. /\ screen'[c] = "loading" /\ up'[c] = <<Read>>
        /\ UNCHANGED <<server, events, data, popup>>
        /\ screen[c] \in {"closed", "crashed"}
    BY <1>11 DEF OpenList, TypeOK
  <2>2. data[c] = <<>> /\ events[c] = <<>>
    BY <2>1 DEF LoadsFirst, Fresh
  <2>3. DOMAIN up'[c] = {1} /\ up'[c][1].op = "read"
    BY <2>1, Short DEF Read
  <2>4. (\A i \in Ids : ~WritesOn(up'[c], i)) /\ NoDels(up'[c])
    BY <2>3 DEF WritesOn, NoDels, WriteOps
  <2>5. RowIds(c)' = {}
    BY <2>1, <2>2 DEF RowIds
  <2>6. Calm(FirmIds(c)', events'[c])
    BY <2>1, <2>2 DEF Calm
  <2>7. popup'[c] # NoPopup => popup'[c].row \in DOMAIN data'[c]
    BY <2>1 DEF Intact
  <2> QED BY <2>1, <2>4, <2>5, <2>6, <2>7 DEF Intact
<1>12. CASE LeaveScreen(c) \/ SelectChecked(c) \/ PopupNo(c)
  <2>1. UNCHANGED <<server, up, events, data>>
    BY <1>12 DEF LeaveScreen, SelectChecked, PopupNo, sdk
  <2>2. FirmIds(c)' = FirmIds(c) /\ RowIds(c)' = RowIds(c)
    BY <2>1 DEF FirmIds, RowIds
  <2>3. screen'[c] # "crashed"
    BY <1>12 DEF LeaveScreen, SelectChecked, PopupNo, Intact, TypeOK
  <2>4. popup'[c] # NoPopup => popup'[c].row \in DOMAIN data[c]
    <3>1. CASE LeaveScreen(c)
      BY <3>1 DEF LeaveScreen, Intact
    <3>2. CASE SelectChecked(c)
      <4>1. PICK k \in DOMAIN data[c] :
               popup' = [popup EXCEPT ![c] = [row |-> k, id |-> data[c][k].id]]
        BY <3>2 DEF SelectChecked
      <4>2. popup'[c].row = k
        BY <4>1 DEF TypeOK
      <4> QED BY <4>2
    <3>3. CASE PopupNo(c)
      BY <3>3 DEF PopupNo, TypeOK
    <3> QED BY <1>12, <3>1, <3>2, <3>3
  <2> QED BY <2>1, <2>2, <2>3, <2>4 DEF Intact
<1>13. CASE ItemsChildAdded(c)
  <2>1. /\ events[c] # <<>> /\ Head(events[c]).type = "added"
        /\ events'[c] = Tail(events[c]) /\ UNCHANGED <<server, up, screen, popup>>
    BY <1>13 DEF ItemsChildAdded, Next1, TypeOK
  <2> DEFINE i == Head(events[c]).id
  <2>2. i \in FirmIds(c)
    BY <2>1, NextHarmless DEF Harmless
  <2>3. RowIds(c)' \subseteq RowIds(c) \cup {i}
    <3> SUFFICES ASSUME NEW x \in RowIds(c)', x # i PROVE x \in RowIds(c)
      OBVIOUS
    <3>1. RowIds(c)' \subseteq Ids
      <4>1. data'[c] \in Seq(Rows)
        BY DEF TypeOK
      <4>2. \A k \in DOMAIN data'[c] : data'[c][k] \in Rows
        BY <4>1
      <4>3. \A k \in DOMAIN data'[c] : data'[c][k].id \in Ids
        BY <4>2 DEF Rows
      <4> QED BY <4>3 DEF RowIds
    <3> HIDE DEF i
    <3> QED BY <3>1, <1>13, RowsHandled, <2>1 DEF i
  <2>4. DOMAIN data[c] \subseteq DOMAIN data'[c]
    BY <1>q, <1>13 DEF ItemsChildAdded, TypeOK
  <2>5. screen'[c] # "crashed" /\ RowIds(c)' \subseteq FirmIds(c)
    BY <2>1, <2>2, <2>3 DEF Intact
  <2> QED BY <2>1, <2>4, <2>5, HandledIntact
<1>14. ~ItemsChildRemoved(c)
  <2>1. events[c] # <<>> => Harmless(FirmIds(c), Head(events[c]))
    BY NextHarmless
  <2> QED BY <2>1 DEF ItemsChildRemoved, Next1, Harmless
<1>15. CASE ItemUpdated(c)
  <2>1. /\ events[c] # <<>> /\ events'[c] = Tail(events[c])
        /\ UNCHANGED <<server, up, screen, popup>>
    BY <1>15 DEF ItemUpdated, Next1, TypeOK
  <2>2. DOMAIN data'[c] = DOMAIN data[c] /\ RowIds(c)' = RowIds(c)
    BY <1>15, UpdatedType DEF RowIds
  <2>3. screen'[c] # "crashed" /\ RowIds(c)' \subseteq FirmIds(c)
    BY <2>1, <2>2 DEF Intact
  <2> QED BY <2>1, <2>2, <2>3, HandledIntact
<1>16. CASE AddNewItem(c)
  <2>1. PICK j \in Ids : Send(c, AddOf(j))
    BY <1>16 DEF AddNewItem
  <2> DEFINE w == AddOf(j)
  <2>2. w \in Writes /\ w.op = "add" /\ w.id \in Ids
    BY DEF AddOf, Writes, WriteOps, Checkers
  <2>3. server' = server /\ data' = data /\ screen' = screen /\ popup'[c] = popup[c]
    BY <1>16 DEF AddNewItem, app
  <2>4. Send(c, w)
    BY <2>1
  <2> HIDE DEF w
  <2> QED BY <2>2, <2>3, <2>4, SendIntact
<1>17. ~RemoveItem(c)
  BY DEF RemoveItem
<1>18. CASE SelectUnchecked(c) \/ PopupYes(c)
  <2>1. PICK k \in DOMAIN data[c] : Send(c, ReverseCheckedOf(c, data[c][k]))
    BY <1>18 DEF SelectUnchecked, PopupYes, ReverseChecked
  <2> DEFINE w == ReverseCheckedOf(c, data[c][k])
  <2>2. w \in Writes /\ w.op = "check" /\ w.id \in RowIds(c) /\ w.id \in Ids
    BY ReverseType, RowOfApp DEF ReverseCheckedOf, CheckOf
  <2>3. /\ server' = server /\ data' = data /\ screen' = screen
        /\ popup'[c] = popup[c] \/ popup'[c] = NoPopup
    BY <1>18 DEF SelectUnchecked, PopupYes, app, TypeOK
  <2>4. Send(c, w)
    BY <2>1
  <2> HIDE DEF w
  <2> QED BY <2>2, <2>3, <2>4, SendIntact
<1> QED BY <1>1, <1>2, <1>3, <1>4, <1>5, <1>6, <1>7, <1>8, <1>9, <1>10, <1>11, <1>12, <1>13,
           <1>14, <1>15, <1>16, <1>17, <1>18 DEF Step, ServerStep, MainStep, UserStep

\* A commit of any app: the item it writes has its title afterwards.
LEMMA CommitWrites ==
  ASSUME TypeOK, NEW c \in Users, Commit(c), AllNamed, Intact(c), AddsFirst(up[c])
  PROVE  \E j \in Ids, n \in Node :
            /\ n.named /\ j = Head(up[c]).id /\ up[c] # <<>>
            /\ n = Apply(Head(up[c]), server[j])
            /\ server' = [server EXCEPT ![j] = n]
<1> DEFINE w == Head(up[c])
           j == w.id
           n == Apply(w, server[j])
<1>1. up[c] # <<>> /\ w \in Writes /\ j \in Ids /\ server' = [server EXCEPT ![j] = n]
  BY OldestRequest DEF Commit, Writes
<1>2. 1 \in DOMAIN up[c] /\ up[c][1] = w /\ up[c] \in Seq(Requests)
  BY <1>1 DEF TypeOK
<1>3. w.op \in WriteOps /\ w.op # "del"
  BY <1>1, <1>2 DEF Writes, Intact, NoDels
<1>4. w.op = "add" \/ Named(server[j])
  <2> SUFFICES ASSUME w.op # "add", ~Named(server[j]) PROVE FALSE
    OBVIOUS
  <2>1. WritesOn(up[c], j)
    BY <1>2, <1>3 DEF WritesOn
  <2>2. j \in FirmIds(c)
    BY <1>1, <2>1 DEF Intact
  <2>3. PICK k \in DOMAIN up[c] : up[c][k].op = "add" /\ up[c][k].id = j
    BY <2>2 DEF FirmIds, HasAdd
  <2>4. k <= 1
    BY <1>2, <1>3, <2>3 DEF AddsFirst
  <2>5. k = 1
    BY <1>2, <2>4
  <2> QED BY <1>2, <2>3, <2>5
<1>5. n.named /\ n \in Node
  <2>1. n = [named |-> w.op = "add" \/ Named(server[j]), checked |-> w.checked, by |-> w.by]
    BY <1>3 DEF Apply
  <2>2. (w.op = "add" \/ Named(server[j])) = TRUE
    BY <1>4
  <2>3. w.checked \in BOOLEAN /\ w.by \in Checkers
    BY <1>1 DEF Writes
  <2> HIDE DEF w, n
  <2> QED BY <2>1, <2>2, <2>3 DEF Node
<1> HIDE DEF n
<1> QED BY <1>1, <1>5 DEF n

\* A commit of any app leaves every app whole.
LEMMA IntactCommit ==
  ASSUME TypeOK, TypeOK', NEW c \in Users, Commit(c), AllNamed, Intact(c), AddsFirst(up[c]),
         NEW d \in Users, Intact(d), \A i \in Ids : InView(d, i)
  PROVE  Intact(d)'
<1>1. PICK j \in Ids, n \in Node :
         /\ n.named /\ j = Head(up[c]).id /\ up[c] # <<>>
         /\ n = Apply(Head(up[c]), server[j])
         /\ server' = [server EXCEPT ![j] = n]
  BY CommitWrites
<1>2. n \in Slot /\ n # Absent /\ Named(n)
  BY <1>1, AbsentIsNoNode DEF Slot, Named
<1>3. /\ events'[d] = events[d] \o Raised(d, j, n, up'[d])
      /\ UNCHANGED <<data, screen, popup>>
  BY <1>1 DEF Commit, app
<1>4. /\ up[d] \in Seq(Requests) /\ up'[d] \in Seq(Requests) /\ events[d] \in Seq(Events)
      /\ NoDels(up[d])
  BY DEF TypeOK, Intact
<1>5. \/ up'[d] = up[d]
      \/ d = c /\ up[d] # <<>> /\ up'[d] = Tail(up[d])
  BY <1>1 DEF Commit, Answered, TypeOK
<1>6. /\ NoDels(up'[d])
      /\ \A i \in Ids : WritesOn(up'[d], i) => WritesOn(up[d], i)
      /\ \A i \in Ids : HasAdd(up[d], i) => HasAdd(up'[d], i) \/ i = j
  <2>1. CASE up'[d] = up[d]
    BY <1>4, <2>1
  <2>2. CASE d = c /\ up[d] # <<>> /\ up'[d] = Tail(up[d])
    BY <1>1, <1>4, <2>2, QueueHas, WritesOnQueue
  <2> QED BY <1>5, <2>1, <2>2
<1>7. j \in FirmIds(d)'
  BY <1>1, <1>2 DEF FirmIds, TypeOK
<1>8. FirmIds(d) \subseteq FirmIds(d)'
  <2> SUFFICES ASSUME NEW i \in FirmIds(d), i # j PROVE i \in FirmIds(d)'
    BY <1>7
  <2>1. server'[i] = server[i] /\ i \in Ids
    BY <1>1 DEF TypeOK, FirmIds
  <2> QED BY <1>6, <2>1 DEF FirmIds
<1>9. \A i \in Ids : WritesOn(up'[d], i) => i \in FirmIds(d)'
  BY <1>6, <1>8 DEF Intact
<1> PICK G : G = FirmIds(d)'
  OBVIOUS
<1> PICK q : q = up'[d]
  OBVIOUS
<1>10. Raised(d, j, n, q) \in Seq(Events) /\ Calm(G, Raised(d, j, n, q))
  <2>1. q \in Seq(Requests) /\ NoDels(q) /\ j \in G /\ InView(d, j)
    BY <1>4, <1>6, <1>7
  <2> QED BY <1>1, <1>2, <2>1, RaisedIs, RaisedCalm
<1>11. Calm(G, events'[d])
  <2>1. Calm(FirmIds(d), events[d]) /\ FirmIds(d) \subseteq G
    BY <1>8 DEF Intact
  <2> QED BY <1>3, <1>4, <1>10, <2>1, CalmQueues
<1>12. RowIds(d)' = RowIds(d)
  BY <1>3 DEF RowIds
<1>13. RowIds(d)' \subseteq FirmIds(d)'
  BY <1>8, <1>12 DEF Intact
<1>14. screen'[d] # "crashed" /\ (popup'[d] # NoPopup => popup'[d].row \in DOMAIN data'[d])
  BY <1>3 DEF Intact
<1> QED BY <1>6, <1>9, <1>11, <1>13, <1>14 DEF Intact

\* A step of another app, other than a commit, does not touch the popup.
LEMMA OthersPopup ==
  ASSUME TypeOK, NEW c \in Users, NEW d \in Users \ {c}, Step(c), ~Commit(c)
  PROVE  popup'[d] = popup[d]
<1> USE DEF TypeOK, app
<1>1. CASE AnswerRead(c) \/ AnswerNames(c) \/ AnswerWatch(c) \/ AnswerTable(c) \/ Reject(c)
  BY <1>1 DEF AnswerRead, AnswerNames, AnswerWatch, AnswerTable, Reject
<1>2. CASE LoadPartialItem(c) \/ PartialChildAdded(c) \/ PopupYesNoRow(c) \/ Quit(c)
  BY <1>2 DEF LoadPartialItem, PartialChildAdded, PopupYesNoRow, Quit, Crash, Reset
<1>3. CASE \/ LoadNothing(c) \/ LoadItems(c) \/ LastItemNamed(c)
           \/ ItemsChildAdded(c) \/ ItemsChildRemoved(c) \/ ItemUpdated(c)
  BY <1>3 DEF LoadNothing, LoadItems, LastItemNamed, ItemsChildAdded, ItemsChildRemoved,
              ItemUpdated
<1>4. CASE \/ OpenList(c) \/ LeaveScreen(c) \/ AddNewItem(c) \/ RemoveItem(c)
           \/ SelectUnchecked(c) \/ SelectChecked(c) \/ PopupNo(c) \/ PopupYes(c)
  BY <1>4 DEF OpenList, LeaveScreen, AddNewItem, RemoveItem, SelectUnchecked,
              SelectChecked, PopupNo, PopupYes
<1> QED BY <1>1, <1>2, <1>3, <1>4 DEF Step, ServerStep, MainStep, UserStep

\* Every step keeps the invariant.
LEMMA BreaksStep ==
  ASSUME ~Removal, MaxRejects = 0
  PROVE  /\ TypeOK /\ TypeOK' /\ LoadingComesFirst /\ NoDuplicateRows /\ OneTable
         /\ RowsFollow /\ NothingBreaks /\ [Next]_vars
         => NothingBreaks'
<1> SUFFICES ASSUME TypeOK, TypeOK', LoadingComesFirst, NoDuplicateRows, OneTable,
                    RowsFollow, NothingBreaks, [Next]_vars
             PROVE  NothingBreaks'
  OBVIOUS
<1>1. ASSUME NEW d \in Users
      PROVE  /\ LoadsFirst(d) /\ Once(data[d]) /\ AddsFirst(up[d]) /\ Intact(d)
             /\ \A i \in Ids : InView(d, i)
  BY DEF LoadingComesFirst, NoDuplicateRows, Once, OneTable, AddsOnce, RowsFollow, NothingBreaks
<1>2. AllNamed
  BY DEF NothingBreaks
<1>x. ASSUME server' = server, NEW d \in Users, up'[d] = up[d], events'[d] = events[d],
             data'[d] = data[d], screen'[d] = screen[d], popup'[d] = popup[d]
      PROVE  Intact(d)'
  <2>1. FirmIds(d)' = FirmIds(d) /\ RowIds(d)' = RowIds(d)
    BY <1>x DEF FirmIds, RowIds
  <2>2. Intact(d)
    BY <1>1
  <2> QED BY <1>x, <2>1, <2>2 DEF Intact
<1>3. CASE UNCHANGED vars
  <2>1. UNCHANGED <<server, up, events, data, screen, popup>>
    BY <1>3 DEF vars, sdk, app
  <2>2. AllNamed'
    BY <1>2, <2>1 DEF AllNamed
  <2> QED BY <1>x, <2>1, <2>2 DEF NothingBreaks
<1>4. CASE Next
  <2> PICK c \in Users : Step(c)
    BY <1>4 DEF Next, Step
  <2>1. CASE Commit(c)
    <3>1. \A d \in Users : Intact(d)'
      BY <1>1, <1>2, <2>1, IntactCommit
    <3>2. PICK j \in Ids, n \in Node : n.named /\ server' = [server EXCEPT ![j] = n]
      BY <1>1, <1>2, <2>1, CommitWrites
    <3>3. AllNamed'
      BY <1>2, <3>2 DEF AllNamed, TypeOK
    <3> QED BY <3>1, <3>3 DEF NothingBreaks
  <2>2. CASE ~Commit(c)
    <3>1. server' = server
      BY <2>2, QueueStep
    <3>2. AllNamed'
      BY <1>2, <3>1 DEF AllNamed
    <3>3. ASSUME NEW d \in Users PROVE Intact(d)'
      <4>1. CASE d = c
        BY <1>1, <1>2, <2>2, <4>1, IntactOwn
      <4>2. CASE d # c
        <5>1. Untouched(d) /\ popup'[d] = popup[d]
          BY <2>2, <4>2, OthersUntouched, OthersPopup DEF Step
        <5> QED BY <1>x, <3>1, <5>1 DEF Untouched
      <4> QED BY <4>1, <4>2
    <3> QED BY <3>2, <3>3 DEF NothingBreaks
  <2> QED BY <2>1, <2>2
<1> QED BY <1>3, <1>4

\* At the start the server's items are complete and no app has anything of them.
LEMMA BreaksInit == Init => NothingBreaks
<1> SUFFICES ASSUME Init PROVE NothingBreaks
  OBVIOUS
<1>1. AllNamed
  BY DEF Init, AllNamed, Complete
<1>2. ASSUME NEW d \in Users PROVE Intact(d)
  BY DEF Init, Intact, NoDels, WritesOn, RowIds, Calm
<1> QED BY <1>1, <1>2 DEF NothingBreaks

\* No force cast of Item.Deserialize and no subscript of ReverseChecked ends the
\* process, in no interleaving of the apps, as long as items are only added and
\* checked and nothing is refused.
THEOREM NeverCrashes ==
  ASSUME ~Removal, MaxRejects = 0
  PROVE  Spec => []NoCrash
<1>1. Init => NothingBreaks
  BY BreaksInit
<1>2. /\ TypeOK /\ TypeOK' /\ LoadingComesFirst /\ NoDuplicateRows /\ OneTable
      /\ RowsFollow /\ NothingBreaks /\ [Next]_vars
      => NothingBreaks'
  BY BreaksStep
<1>3. NothingBreaks => NoCrash
  BY DEF NothingBreaks, Intact, NoCrash
<1> QED BY <1>1, <1>2, <1>3, TypeCorrect, LoadingFirst, RowsAreUnique, OneTableHolds,
           RowsFollowHolds, PTL DEF Spec

-----------------------------------------------------------------------------
(***************************************************************************)
(* Rows that are watched follow the server.  What holds of the listeners   *)
(* themselves (Steady): a row has the latest registration of its item;     *)
(* what is told is told of items that are heard of, to registrations that  *)
(* exist; a row that is not heard of has its listener on the way, ahead of *)
(* the table's; and no user has written or could before the table listener.*)
(***************************************************************************)
Fields       == {"checked", "checked_by_id"}
RowsOf(d)    == {data[d][k] : k \in DOMAIN data[d]}
Heard(d)     == IF table[d] = "on" THEN Ids ELSE live[d]
WatchAhead(q, i) ==
    \E k \in DOMAIN q : q[k] = Watch(i) /\ \A m \in DOMAIN q : q[m] = Table => k < m

\* A callback, or queue of them, fits the registrations g and the items L heard of
Fit(g, L, e) == /\ e.type \in Fields => e.regs <= g[e.id]
                /\ e.type \in Fields \cup {"added", "removed"} => e.id \in L
AllFit(g, L, s) == \A k \in DOMAIN s : Fit(g, L, s[k])

Steady(d) ==
    /\ \A r \in RowsOf(d) : r.reg = regs[d][r.id]
    /\ \A i \in RowIds(d) : i \in Heard(d) \/ WatchAhead(up[d], i)
    /\ AllFit(regs[d], Heard(d), events[d])
    /\ table[d] = "off" => screen[d] # "enabled" /\ popup[d] = NoPopup /\ NoWrites(up[d])

\* Queues of callbacks: there are more registrations, more is heard of; the oldest is
\* handled, others join.
LEMMA FitQueues ==
  ASSUME NEW g \in [Ids -> Nat], NEW h \in [Ids -> Nat], \A i \in Ids : g[i] <= h[i],
         NEW L, NEW M, L \subseteq M, NEW s \in Seq(Events), AllFit(g, L, s)
  PROVE  /\ AllFit(h, M, s)
         /\ s # <<>> => Fit(g, L, Head(s)) /\ AllFit(h, M, Tail(s))
         /\ \A r \in Seq(Events) : AllFit(h, M, r) => AllFit(h, M, s \o r)
<1>1. ASSUME NEW k \in DOMAIN s PROVE Fit(h, M, s[k])
  <2>1. s[k] \in Events /\ Fit(g, L, s[k])
    BY DEF AllFit
  <2> PICK e : e = s[k]
    OBVIOUS
  <2>2. ASSUME e.type \in Fields PROVE e.regs <= h[e.id]
    <3>1. e.id \in Ids /\ e.regs \in Nat
      BY <2>1, <2>2 DEF Events, Fields
    <3>2. e.regs <= g[e.id] /\ g[e.id] <= h[e.id] /\ g[e.id] \in Nat /\ h[e.id] \in Nat
      BY <2>1, <2>2, <3>1 DEF Fit
    <3> QED BY <3>1, <3>2
  <2> QED BY <2>1, <2>2 DEF Fit
<1>2. AllFit(h, M, s)
  BY <1>1 DEF AllFit
<1>3. s # <<>> => Fit(g, L, Head(s)) /\ AllFit(h, M, Tail(s))
  <2> SUFFICES ASSUME s # <<>> PROVE Fit(g, L, Head(s)) /\ AllFit(h, M, Tail(s))
    OBVIOUS
  <2>1. 1 \in DOMAIN s /\ Head(s) = s[1]
    OBVIOUS
  <2>2. \A k \in DOMAIN Tail(s) : k + 1 \in DOMAIN s /\ Tail(s)[k] = s[k + 1]
    OBVIOUS
  <2> HIDE DEF Fit
  <2> QED BY <1>2, <2>1, <2>2 DEF AllFit
<1>4. ASSUME NEW r \in Seq(Events), AllFit(h, M, r) PROVE AllFit(h, M, s \o r)
  <2> SUFFICES ASSUME NEW k \in DOMAIN (s \o r) PROVE Fit(h, M, (s \o r)[k])
    BY DEF AllFit
  <2>1. \/ \E j \in DOMAIN s : (s \o r)[k] = s[j]
        \/ \E j \in DOMAIN r : (s \o r)[k] = r[j]
    BY ElementOfEither
  <2> QED BY <1>2, <1>4, <2>1 DEF AllFit
<1> QED BY <1>2, <1>3, <1>4

\* Queues of requests: another request than the listener's own is answered; others join.
LEMMA WatchQueues ==
  ASSUME NEW q \in Seq(Requests), NEW i, WatchAhead(q, i)
  PROVE  /\ q # <<>> /\ Head(q) # Table
         /\ Head(q) # Watch(i) => WatchAhead(Tail(q), i)
         /\ \A r \in Seq(Requests) : WatchAhead(q \o r, i)
<1>1. PICK k \in DOMAIN q : q[k] = Watch(i) /\ \A m \in DOMAIN q : q[m] = Table => k < m
  BY DEF WatchAhead
<1>2. /\ Len(q) \in Nat /\ DOMAIN q = 1 .. Len(q) /\ q # <<>> /\ Head(q) = q[1]
      /\ k \in 1 .. Len(q) /\ 1 \in DOMAIN q
  <2>1. Len(q) \in Nat /\ DOMAIN q = 1 .. Len(q)
    OBVIOUS
  <2> QED BY <2>1, <1>1
<1>3. Head(q) # Table
  BY <1>1, <1>2
<1>4. ASSUME Head(q) # Watch(i) PROVE WatchAhead(Tail(q), i)
  <2>1. /\ DOMAIN Tail(q) = 1 .. (Len(q) - 1)
        /\ \A m \in 1 .. (Len(q) - 1) : Tail(q)[m] = q[m + 1]
    BY <1>2, HeadTailProperties
  <2>2. k # 1
    BY <1>1, <1>2, <1>4
  <2>3. k - 1 \in 1 .. (Len(q) - 1) /\ (k - 1) + 1 = k
    BY <1>2, <2>2
  <2>4. Tail(q)[k - 1] = Watch(i)
    BY <1>1, <2>1, <2>3
  <2>5. ASSUME NEW m \in DOMAIN Tail(q), Tail(q)[m] = Table PROVE k - 1 < m
    <3>1. m \in 1 .. (Len(q) - 1) /\ m + 1 \in DOMAIN q /\ q[m + 1] = Table
      BY <1>2, <2>1, <2>5
    <3>2. k < m + 1
      BY <1>1, <3>1
    <3> QED BY <1>2, <3>1, <3>2
  <2> QED BY <2>1, <2>3, <2>4, <2>5 DEF WatchAhead
<1>5. ASSUME NEW r \in Seq(Requests) PROVE WatchAhead(q \o r, i)
  <2>1. /\ Len(r) \in Nat /\ DOMAIN (q \o r) = 1 .. (Len(q) + Len(r))
        /\ \A m \in 1 .. Len(q) : (q \o r)[m] = q[m]
    OBVIOUS
  <2>2. k \in DOMAIN (q \o r) /\ (q \o r)[k] = Watch(i)
    BY <1>1, <1>2, <2>1
  <2>3. ASSUME NEW m \in DOMAIN (q \o r), (q \o r)[m] = Table PROVE k < m
    <3>1. CASE m \in 1 .. Len(q)
      <4>1. q[m] = Table
        BY <2>1, <2>3, <3>1
      <4> QED BY <1>1, <1>2, <3>1, <4>1
    <3>2. CASE m \notin 1 .. Len(q)
      BY <1>2, <2>1, <3>2
    <3> QED BY <3>1, <3>2
  <2> QED BY <2>2, <2>3 DEF WatchAhead
<1> QED BY <1>2, <1>3, <1>4, <1>5

\* A change of the fields is told to the registrations of the moment.
LEMMA ChangesTell ==
  ASSUME NEW d, NEW j, NEW old, NEW new, NEW k \in DOMAIN FieldChanges(d, j, old, new)
  PROVE  LET e == FieldChanges(d, j, old, new)[k]
         IN  e.type \in Fields /\ e.id = j /\ e.regs = regs[d][j]
<1> DEFINE e1 == [type |-> "checked", id |-> j, value |-> new.checked, regs |-> regs[d][j]]
           e2 == [type |-> "checked_by_id", id |-> j, value |-> new.by, regs |-> regs[d][j]]
           s1 == IF old.checked # new.checked THEN <<e1>> ELSE <<>>
           s2 == IF old.by # new.by THEN <<e2>> ELSE <<>>
           E  == {e1, e2}
<1>1. /\ e1.type \in Fields /\ e1.id = j /\ e1.regs = regs[d][j]
      /\ e2.type \in Fields /\ e2.id = j /\ e2.regs = regs[d][j]
  BY DEF Fields
<1>2. FieldChanges(d, j, old, new) = s1 \o s2
  BY DEF FieldChanges
<1>3. e1 \in E /\ e2 \in E
  OBVIOUS
<1> HIDE DEF e1, e2, E
<1>4. s1 \in Seq(E) /\ s2 \in Seq(E)
  BY <1>3
<1> HIDE DEF s1, s2
<1>5. (s1 \o s2)[k] \in E
  BY <1>2, <1>4, ElementOfEither
<1>6. \A e \in E : e.type \in Fields /\ e.id = j /\ e.regs = regs[d][j]
  BY <1>1 DEF E
<1> QED BY <1>2, <1>5, <1>6

\* What the SDK raises is about the item, fits, and is told to the latest registration.
LEMMA RaisedFit ==
  ASSUME TypeOK, NEW d \in Users, NEW j \in Ids, InView(d, j), NEW n \in Slot,
         NEW q \in Seq(Requests)
  PROVE  /\ Raised(d, j, n, q) \in Seq(Events)
         /\ \A k \in DOMAIN Raised(d, j, n, q) : Raised(d, j, n, q)[k].id = j
         /\ AllFit(regs[d], Heard(d), Raised(d, j, n, q))
<1> DEFINE s == Raised(d, j, n, q)
           old == Seen(d, j, server[j], up[d])
           new == Seen(d, j, n, q)
<1>1. s \in Seq(Events)
  BY RaisedIs
<1>2. regs[d][j] \in Nat
  BY DEF TypeOK
<1>3. \/ s = <<Added(j, new)>> /\ table[d] = "on"
      \/ s = <<Removed(j)>> /\ j \in known[d]
      \/ s = FieldChanges(d, j, old, new) /\ old # Absent
      \/ s = <<>>
  BY DEF Raised
<1>4. j \in known[d] \/ old # Absent \/ table[d] = "on" => j \in Heard(d)
  BY DEF InView, Heard, Seen
<1> HIDE DEF s, old, new
<1>5. ASSUME NEW k \in DOMAIN s PROVE s[k].id = j /\ Fit(regs[d], Heard(d), s[k])
  <2>1. CASE s = <<Added(j, new)>> /\ table[d] = "on"
    <3>1. s[k] = Added(j, new)
      BY <1>5, <2>1, Short
    <3> QED BY <1>4, <2>1, <3>1 DEF Added, Fit, Fields
  <2>2. CASE s = <<Removed(j)>> /\ j \in known[d]
    <3>1. s[k] = Removed(j)
      BY <1>5, <2>2, Short
    <3> QED BY <1>4, <2>2, <3>1 DEF Removed, Fit, Fields
  <2>3. CASE s = FieldChanges(d, j, old, new) /\ old # Absent
    <3>1. s[k].type \in Fields /\ s[k].id = j /\ s[k].regs = regs[d][j]
      BY <1>5, <2>3, ChangesTell
    <3> QED BY <1>2, <1>4, <2>3, <3>1 DEF Fit
  <2>4. CASE s = <<>>
    BY <1>5, <2>4
  <2> QED BY <1>3, <2>1, <2>2, <2>3, <2>4
<1> QED BY <1>1, <1>5 DEF AllFit, s

\* Announcements of items that are heard of fit.
LEMMA AnnouncedFit ==
  ASSUME NEW c, NEW S \in SUBSET Ids, NEW order \in SetToSeqs(S), NEW g, NEW L, S \subseteq L
  PROVE  AllFit(g, L, [k \in DOMAIN order |->
            Added(order[k], Overlay(server[order[k]], up[c], order[k]))])
<1>1. \A k \in DOMAIN order : order[k] \in L
  BY OrderIsSequence
<1> QED BY <1>1 DEF AllFit, Fit, Added, Fields

\* LoadData gives every row its first registration and asks for its listener.
LEMMA LoadedWatched ==
  ASSUME TypeOK, NEW c \in Users, LoadItems(c), up[c] = <<>>, data[c] = <<>>
  PROVE  \A k \in DOMAIN data'[c] :
            /\ data'[c][k].reg = regs'[c][data'[c][k].id]
            /\ \E m \in DOMAIN up'[c] : up'[c][m] = Watch(data'[c][k].id)
<1> DEFINE snap == Head(events[c]).snap
           S == {i \in Ids : snap[i] # Absent}
<1>1. S \in SUBSET Ids /\ S # {} /\ IsFiniteSet(S)
  <2>1. S \in SUBSET Ids /\ S # {}
    BY DEF LoadItems
  <2> QED BY <2>1, IdsFinite, FS_Subset
<1>2. PICK order \in SetToSeqs(S), cached \in BOOLEAN :
        LET W == [k \in DOMAIN order |-> Watch(order[k])]
        IN  /\ data' = [data EXCEPT ![c] = @ \o
                  [k \in DOMAIN order |->
                     Row(order[k], snap[order[k]], regs[c][order[k]] + 1)]]
            /\ up' = [up EXCEPT ![c] = @ \o
                  (IF cached THEN W ELSE <<W[1], Names>> \o Tail(W))]
  BY DEF LoadItems
<1> DEFINE W == [k \in DOMAIN order |-> Watch(order[k])]
           rows == [k \in DOMAIN order |->
                      Row(order[k], snap[order[k]], regs[c][order[k]] + 1)]
           more == IF cached THEN W ELSE <<W[1], Names>> \o Tail(W)
<1>3. /\ order \in Seq(S) /\ DOMAIN order = 1..Len(order) /\ Len(order) \in Nat
  BY <1>1, OrderIsSequence
<1>4. data'[c] = rows /\ up'[c] = more
  <2>1. rows \in Seq({rows[k] : k \in DOMAIN order}) /\ W \in Seq({W[k] : k \in DOMAIN order})
    BY <1>3
  <2>2. data'[c] = data[c] \o rows /\ up'[c] = up[c] \o more
    BY <1>2 DEF TypeOK
  <2> QED BY <2>1, <2>2
<1>5. ASSUME NEW k \in DOMAIN order
      PROVE  /\ rows[k].id = order[k]
             /\ rows[k].reg = regs'[c][order[k]]
             /\ \E m \in DOMAIN more : more[m] = Watch(order[k])
  <2>1. order[k] \in S
    BY <1>3
  <2>2. regs'[c][order[k]] = regs[c][order[k]] + 1
    <3>1. regs' = [regs EXCEPT ![c] = [i \in Ids |-> IF i \in S THEN @[i] + 1 ELSE @[i]]]
      BY DEF LoadItems
    <3> HIDE DEF S
    <3> QED BY <1>1, <2>1, <3>1 DEF TypeOK
  <2>3. rows[k].id = order[k] /\ rows[k].reg = regs[c][order[k]] + 1
    BY DEF Row
  <2>4. \E m \in DOMAIN more : more[m] = Watch(order[k])
    <3>1. /\ W \in Seq({W[m] : m \in DOMAIN order}) /\ Len(W) = Len(order)
          /\ DOMAIN W = DOMAIN order /\ W[k] = Watch(order[k])
      BY <1>3
    <3> DEFINE A == {W[m] : m \in DOMAIN order} \cup {Names}
    <3> HIDE DEF W
    <3>2. CASE cached
      BY <3>1, <3>2
    <3>3. CASE ~cached
      <4> DEFINE rest == Tail(W)
                 first == W[1]
                 two == <<first, Names>>
      <4>1. W # <<>> /\ 1 \in DOMAIN W /\ Len(W) \in Nat /\ DOMAIN W = 1 .. Len(W)
        BY <1>3, <3>1
      <4>2. /\ rest \in Seq(A) /\ Len(rest) = Len(W) - 1
            /\ \A m \in 1 .. (Len(W) - 1) : rest[m] = W[m + 1]
        BY <3>1, <4>1, HeadTailProperties
      <4>3. first \in A /\ Names \in A
        BY <3>1, <4>1
      <4> HIDE DEF first, rest, A
      <4>4. two \in Seq(A) /\ Len(two) = 2 /\ two[1] = first
        BY <4>3
      <4> HIDE DEF two
      <4>5. /\ DOMAIN (two \o rest) = 1 .. (Len(W) + 1) /\ (two \o rest)[1] = first
            /\ \A m \in 1 .. (Len(W) - 1) : (two \o rest)[m + 2] = rest[m]
        <5>1. /\ DOMAIN (two \o rest) = 1 .. (Len(two) + Len(rest))
              /\ \A m \in 1 .. Len(two) : (two \o rest)[m] = two[m]
              /\ \A m \in 1 .. Len(rest) : (two \o rest)[m + Len(two)] = rest[m]
          BY <4>2, <4>4, JoinedAt
        <5>2. Len(two) + Len(rest) = Len(W) + 1 /\ 1 \in 1 .. Len(two)
          BY <4>1, <4>2, <4>4
        <5> QED BY <4>2, <4>4, <5>1, <5>2
      <4>6. CASE k = 1
        <5>1. (two \o rest)[1] = Watch(order[k]) /\ 1 \in DOMAIN (two \o rest)
          BY <3>1, <4>1, <4>5, <4>6 DEF first
        <5>2. more = two \o rest
          BY <3>3 DEF two, rest, first
        <5> HIDE DEF more
        <5> QED BY <5>1, <5>2
      <4>7. CASE k # 1
        <5>1. k - 1 \in 1 .. (Len(W) - 1) /\ (k - 1) + 1 = k /\ (k - 1) + 2 = k + 1
          BY <3>1, <4>1, <4>7
        <5> DEFINE j == k - 1
        <5>2. (two \o rest)[k + 1] = W[k] /\ k + 1 \in DOMAIN (two \o rest)
          <6>1. j \in 1 .. (Len(W) - 1) /\ j + 1 = k /\ j + 2 = k + 1
            BY <5>1
          <6> HIDE DEF j
          <6>2. (two \o rest)[j + 2] = rest[j] /\ rest[j] = W[j + 1]
            BY <4>2, <4>5, <6>1
          <6>3. k + 1 \in 1 .. (Len(W) + 1)
            BY <4>1, <6>1
          <6> QED BY <4>5, <6>1, <6>2, <6>3
        <5>3. more = two \o rest
          BY <3>3 DEF two, rest, first
        <5> HIDE DEF more
        <5> QED BY <3>1, <5>2, <5>3
      <4> QED BY <4>6, <4>7
    <3> QED BY <3>2, <3>3
  <2> QED BY <2>2, <2>3, <2>4
<1>6. DOMAIN rows = DOMAIN order
  OBVIOUS
<1> HIDE DEF rows, more
<1> QED BY <1>4, <1>5, <1>6
-----------------------------------------------------------------------------
\* The rows stay; requests are answered or join, callbacks are handled or join.
LEMMA SteadyMoves ==
  ASSUME TypeOK, TypeOK', NEW d \in Users, Steady(d), data'[d] = data[d], regs'[d] = regs[d],
         Heard(d) \subseteq Heard(d)', NEW s \in Seq(Events),
         \/ events'[d] = events[d] \o s
         \/ events[d] # <<>> /\ events'[d] = Tail(events[d]) \o s,
         AllFit(regs[d], Heard(d)', s),
         \A i \in Ids : WatchAhead(up[d], i) => i \in Heard(d)' \/ WatchAhead(up'[d], i),
         table'[d] = "off" => /\ table[d] = "off" /\ NoWrites(up'[d])
                              /\ screen'[d] # "enabled" /\ popup'[d] = NoPopup
  PROVE  Steady(d)'
<1>1. RowIds(d)' = RowIds(d) /\ RowsOf(d)' = RowsOf(d)
  BY DEF RowIds, RowsOf
<1>2. \A r \in RowsOf(d)' : r.reg = regs'[d][r.id]
  BY <1>1 DEF Steady
<1>3. \A i \in RowIds(d)' : i \in Heard(d)' \/ WatchAhead(up'[d], i)
  <2>1. RowIds(d) \in SUBSET Ids
    BY RowIdsType
  <2> QED BY <1>1, <2>1 DEF Steady
<1> PICK L : L = Heard(d)'
  OBVIOUS
<1> PICK g : g = regs[d]
  OBVIOUS
<1>4. AllFit(g, L, events'[d])
  <2>1. g \in [Ids -> Nat] /\ \A i \in Ids : g[i] <= g[i]
    BY DEF TypeOK
  <2>2. /\ events[d] \in Seq(Events) /\ AllFit(g, Heard(d), events[d])
        /\ Heard(d) \subseteq L /\ L \subseteq L /\ AllFit(g, L, s)
    BY DEF TypeOK, Steady
  <2> PICK e : e = events[d]
    OBVIOUS
  <2>3. /\ AllFit(g, L, e) /\ e \in Seq(Events)
        /\ e # <<>> => AllFit(g, L, Tail(e)) /\ Tail(e) \in Seq(Events)
    <3>1. e \in Seq(Events) /\ AllFit(g, Heard(d), e) /\ Heard(d) \subseteq L
      BY <2>2
    <3>2. AllFit(g, L, e) /\ (e # <<>> => AllFit(g, L, Tail(e)))
      BY <2>1, <3>1, FitQueues
    <3>3. e # <<>> => Tail(e) \in Seq(Events)
      BY <3>1, HeadTailProperties
    <3> QED BY <3>1, <3>2, <3>3
  <2>4. \A u \in Seq(Events) : AllFit(g, L, u) => AllFit(g, L, u \o s)
    <3> SUFFICES ASSUME NEW u \in Seq(Events), AllFit(g, L, u) PROVE AllFit(g, L, u \o s)
      OBVIOUS
    <3>1. \A r \in Seq(Events) : AllFit(g, L, r) => AllFit(g, L, u \o r)
      BY <2>1, <2>2, FitQueues
    <3> QED BY <2>2, <3>1
  <2> QED BY <2>3, <2>4
<1> QED BY <1>2, <1>3, <1>4 DEF Steady

\* A write on j, or its refusal, reaches the app.
LEMMA SteadyChange ==
  ASSUME TypeOK, TypeOK', NEW d \in Users, Steady(d), NEW j \in Ids, InView(d, j),
         NEW n \in Slot, events'[d] = events[d] \o Raised(d, j, n, up'[d]),
         \/ up'[d] = up[d]
         \/ up[d] # <<>> /\ Head(up[d]).op \in WriteOps /\ up'[d] = Tail(up[d])
         \/ table[d] # "off" /\ \E w \in Writes : up'[d] = Append(up[d], w),
         table'[d] = table[d], live'[d] = live[d], data'[d] = data[d], regs'[d] = regs[d],
         screen'[d] = screen[d], popup'[d] = popup[d] \/ popup'[d] = NoPopup
  PROVE  Steady(d)'
<1>1. up[d] \in Seq(Requests) /\ up'[d] \in Seq(Requests)
  BY DEF TypeOK
<1>2. Heard(d)' = Heard(d)
  BY DEF Heard
<1> PICK q : q = up'[d]
  OBVIOUS
<1>3. /\ Raised(d, j, n, q) \in Seq(Events)
      /\ AllFit(regs[d], Heard(d), Raised(d, j, n, q))
  BY <1>1, RaisedFit
<1>4. ASSUME NEW i \in Ids, WatchAhead(up[d], i) PROVE WatchAhead(q, i)
  <2>1. CASE q = up[d]
    BY <1>4, <2>1
  <2>2. CASE up[d] # <<>> /\ Head(up[d]).op \in WriteOps /\ q = Tail(up[d])
    <3>1. Head(up[d]) # Watch(i)
      BY <2>2 DEF Watch, WriteOps
    <3> QED BY <1>1, <1>4, <2>2, <3>1, WatchQueues
  <2>3. CASE \E w \in Writes : q = Append(up[d], w)
    <3>1. PICK w \in Writes : q = Append(up[d], w)
      BY <2>3
    <3>2. w \in Requests
      BY DEF Requests
    <3>3. q = up[d] \o <<w>> /\ <<w>> \in Seq(Requests)
      BY <1>1, <3>1, <3>2, AppendIsConcat
    <3> QED BY <1>1, <1>4, <3>3, WatchQueues
  <2> QED BY <2>1, <2>2, <2>3
<1>5. table[d] = "off" => NoWrites(q) /\ screen[d] # "enabled" /\ popup[d] = NoPopup
  <2> SUFFICES ASSUME table[d] = "off" PROVE NoWrites(q)
    BY DEF Steady
  <2>1. NoWrites(up[d])
    BY DEF Steady
  <2>2. CASE q = up[d]
    BY <2>1, <2>2
  <2>3. CASE up[d] # <<>> /\ q = Tail(up[d])
    <3>1. \A k \in DOMAIN q : k + 1 \in DOMAIN up[d] /\ q[k] = up[d][k + 1]
      BY <1>1, <2>3
    <3> QED BY <2>1, <3>1 DEF NoWrites
  <2> QED BY <2>2, <2>3
<1> PICK s : s = Raised(d, j, n, q)
  OBVIOUS
<1>6. s \in Seq(Events) /\ events'[d] = events[d] \o s /\ AllFit(regs[d], Heard(d)', s)
  BY <1>2, <1>3
<1>7. \A i \in Ids : WatchAhead(up[d], i) => i \in Heard(d)' \/ WatchAhead(up'[d], i)
  BY <1>4
<1> QED BY <1>2, <1>5, <1>6, <1>7, SteadyMoves

\* A callback is handled that changes the rows: some go, or one comes with a new registration.
LEMMA SteadyHandled ==
  ASSUME TypeOK, TypeOK', NEW d \in Users, Steady(d), events[d] # <<>>,
         events'[d] = Tail(events[d]), up'[d] = up[d], table'[d] = table[d],
         live'[d] = live[d], screen'[d] = screen[d], popup'[d] = popup[d],
         \A i \in Ids : regs[d][i] <= regs'[d][i],
         \A r \in RowsOf(d)' : r.reg = regs'[d][r.id],
         \A i \in RowIds(d)' : i \in RowIds(d) \/ i \in Heard(d)
  PROVE  Steady(d)'
<1>1. Heard(d)' = Heard(d)
  BY DEF Heard
<1>2. \A i \in RowIds(d)' : i \in Heard(d)' \/ WatchAhead(up'[d], i)
  BY <1>1 DEF Steady
<1> PICK h : h = regs'[d]
  OBVIOUS
<1>3. AllFit(h, Heard(d), events'[d])
  <2>1. regs[d] \in [Ids -> Nat] /\ h \in [Ids -> Nat] /\ \A i \in Ids : regs[d][i] <= h[i]
    BY DEF TypeOK
  <2>2. events[d] \in Seq(Events) /\ AllFit(regs[d], Heard(d), events[d])
    BY DEF TypeOK, Steady
  <2> PICK L : L = Heard(d)
    OBVIOUS
  <2>3. L \subseteq L /\ AllFit(regs[d], L, events[d])
    BY <2>2
  <2>4. events[d] # <<>> => AllFit(h, L, Tail(events[d]))
    BY <2>1, <2>2, <2>3, FitQueues
  <2> QED BY <2>4
<1>4. AllFit(regs'[d], Heard(d)', events'[d])
  BY <1>1, <1>3
<1>5. table'[d] = "off" => NoWrites(up'[d]) /\ screen'[d] # "enabled" /\ popup'[d] = NoPopup
  BY DEF Steady
<1> QED BY <1>2, <1>4, <1>5 DEF Steady

\* An app without rows and callbacks, that listens to nothing.
LEMMA SteadyFresh ==
  ASSUME NEW d \in Users, data'[d] = <<>>, events'[d] = <<>>, NoWrites(up'[d]),
         screen'[d] # "enabled", popup'[d] = NoPopup
  PROVE  Steady(d)'
BY DEF Steady, RowsOf, RowIds, AllFit

\* Starting the table listener.
LEMMA SteadyActivate ==
  ASSUME TypeOK, TypeOK', NEW c \in Users, Steady(c), events[c] # <<>>, ActivateObservers(c),
         table[c] = "off", live' = live, data' = data, regs' = regs
  PROVE  Steady(c)'
<1> DEFINE S == {i \in live[c] : Overlay(server[i], up[c], i) # Absent}
<1>1. PICK order \in SetToSeqs(S) :
         events' = [events EXCEPT ![c] = Tail(@) \o
            [k \in DOMAIN order |-> Added(order[k], Overlay(server[order[k]], up[c], order[k]))]]
  BY DEF ActivateObservers
<1> DEFINE told == [k \in DOMAIN order |->
                       Added(order[k], Overlay(server[order[k]], up[c], order[k]))]
<1>2. S \in SUBSET Ids /\ S \subseteq live[c] /\ \A i \in S : Overlay(server[i], up[c], i) # Absent
  BY DEF TypeOK
<1>3. told \in Seq(Events) /\ AllFit(regs[c], live[c], told)
  <2> HIDE DEF S
  <2> QED BY <1>2, AnnounceType, CallbacksAreEvents, AnnouncedFit
<1>4. events'[c] = Tail(events[c]) \o told
  <2> HIDE DEF told
  <2> QED BY <1>1 DEF TypeOK, told
<1>5. up'[c] = Append(up[c], Table) /\ table'[c] = "asked" /\ up[c] \in Seq(Requests)
  BY DEF ActivateObservers, TypeOK
<1>6. Heard(c) = live[c] /\ Heard(c)' = live[c]
  BY <1>5 DEF Heard
<1>7. ASSUME NEW i \in Ids, WatchAhead(up[c], i) PROVE WatchAhead(up'[c], i)
  <2>1. Table \in Requests
    BY DEF Table, Requests
  <2>2. up'[c] = up[c] \o <<Table>> /\ <<Table>> \in Seq(Requests)
    BY <1>5, <2>1, AppendIsConcat
  <2> QED BY <1>5, <1>7, <2>2, WatchQueues
<1> HIDE DEF told, S
<1>8. Heard(c) \subseteq Heard(c)' /\ AllFit(regs[c], Heard(c)', told)
  BY <1>3, <1>6
<1> QED BY <1>3, <1>4, <1>5, <1>7, <1>8, SteadyMoves

\* The callbacks that end the loading come before the table listener.
LEMMA LoadedUnlistened ==
  ASSUME TypeOK, NEW c \in Users, LoadsFirst(c), NamesOnce(c),
         LoadNothing(c) \/ LastItemNamed(c)
  PROVE  /\ events[c] # <<>> /\ Head(events[c]).type \in {"loaded", "named"}
         /\ table[c] = "off"
<1>1. events[c] # <<>> /\ events[c] \in Seq(Events)
  BY DEF LoadNothing, LastItemNamed, Next1, TypeOK
<1>2. CASE LoadNothing(c)
  <2>1. Head(events[c]).type = "loaded" /\ 1 \in DOMAIN events[c]
        /\ events[c][1] = Head(events[c])
    BY <1>1, <1>2 DEF LoadNothing, Next1
  <2>2. AwaitsItems(c)
    BY <2>1 DEF AwaitsItems
  <2> QED BY <1>1, <2>1, <2>2, Waiting DEF Fresh
<1>3. CASE LastItemNamed(c)
  <2>1. Head(events[c]).type = "named"
    BY <1>3 DEF LastItemNamed, Next1
  <2>2. Head(events[c]) = NamesThere
    BY <1>1, <2>1, OldestEvent DEF Events, NamesThere
  <2>3. HowMany(events[c], {NamesThere}) = HowMany(Tail(events[c]), {NamesThere}) + 1
    BY <1>1, <2>2, HowManyTail
  <2>4. HowMany(Tail(events[c]), {NamesThere}) \in Nat
    BY <1>1, OldestEvent, HowManyType
  <2>5. HowMany(up[c], {Names}) \in Nat
    BY NamesType
  <2>6. NamesDue(c) # 0
    BY <2>3, <2>4, <2>5 DEF NamesDue
  <2>7. table[c] \in {"off", "asked", "on"}
    BY DEF TypeOK
  <2> QED BY <1>1, <2>1, <2>6, <2>7 DEF NamesOnce
<1> QED BY <1>2, <1>3

\* A step of the app itself, other than a commit.
LEMMA SteadyOwn ==
  ASSUME TypeOK, TypeOK', NEW c \in Users, LoadsFirst(c), NamesOnce(c), Once(data[c]),
         Step(c), ~Commit(c), \A i \in Ids : InView(c, i), Steady(c)
  PROVE  Steady(c)'
<1>q. /\ up[c] \in Seq(Requests) /\ events[c] \in Seq(Events) /\ data[c] \in Seq(Rows)
      /\ <<>> \in Seq(Events) /\ regs[c] \in [Ids -> Nat] /\ live[c] \in SUBSET Ids
  BY DEF TypeOK
<1>n. events[c] \o <<>> = events[c] /\ AllFit(regs[c], Heard(c)', <<>>)
  BY <1>q DEF AllFit
<1>o. table[c] = "off" => screen[c] # "enabled" /\ popup[c] = NoPopup /\ NoWrites(up[c])
  BY DEF Steady
<1>a. ASSUME up[c] # <<>>, up'[c] = Tail(up[c]), Head(up[c]).op \in {"read", "names"},
             NEW e \in Events, e.type \in {"loaded", "named"}, events'[c] = Append(events[c], e),
             UNCHANGED <<table, live, regs, data, screen, popup>>
      PROVE  Steady(c)'
  <2>1. Heard(c)' = Heard(c)
    BY <1>a DEF Heard
  <2>2. <<e>> \in Seq(Events) /\ events'[c] = events[c] \o <<e>>
    BY <1>q, <1>a, AppendIsConcat
  <2>3. AllFit(regs[c], Heard(c)', <<e>>)
    <3>1. Fit(regs[c], Heard(c)', e)
      BY <1>a DEF Fit, Fields
    <3> QED BY <3>1, Short DEF AllFit
  <2>4. ASSUME NEW i \in Ids, WatchAhead(up[c], i) PROVE WatchAhead(up'[c], i)
    <3>1. Head(up[c]) # Watch(i)
      BY <1>a DEF Watch
    <3> QED BY <1>q, <1>a, <2>4, <3>1, WatchQueues
  <2>5. table[c] = "off" => NoWrites(up'[c])
    <3>1. \A k \in DOMAIN Tail(up[c]) : k + 1 \in DOMAIN up[c] /\ Tail(up[c])[k] = up[c][k + 1]
      BY <1>q, <1>a
    <3> QED BY <1>o, <1>a, <3>1 DEF NoWrites
  <2>6. Heard(c) \subseteq Heard(c)'
    BY <2>1
  <2>7. table'[c] = "off" => /\ table[c] = "off" /\ NoWrites(up'[c])
                             /\ screen'[c] # "enabled" /\ popup'[c] = NoPopup
    BY <1>o, <1>a, <2>5
  <2>8. data'[c] = data[c] /\ regs'[c] = regs[c]
    BY <1>a
  <2> PICK s : s = <<e>>
    OBVIOUS
  <2> QED BY <2>2, <2>3, <2>4, <2>6, <2>7, <2>8, SteadyMoves
<1>t. ASSUME \/ events'[c] = events[c]
             \/ events[c] # <<>> /\ events'[c] = Tail(events[c]),
             UNCHANGED <<up, table, live, regs, data>>,
             table[c] = "off" => screen'[c] # "enabled" /\ popup'[c] = NoPopup
      PROVE  Steady(c)'
  <2>1. Heard(c) \subseteq Heard(c)'
    BY <1>t DEF Heard
  <2>2. \/ events'[c] = events[c] \o <<>>
        \/ events[c] # <<>> /\ events'[c] = Tail(events[c]) \o <<>>
    BY <1>q, <1>t, OldestEvent
  <2>3. \A i \in Ids : WatchAhead(up[c], i) => WatchAhead(up'[c], i)
    BY <1>t
  <2>4. table'[c] = "off" => /\ table[c] = "off" /\ NoWrites(up'[c])
                             /\ screen'[c] # "enabled" /\ popup'[c] = NoPopup
    BY <1>o, <1>t
  <2>5. data'[c] = data[c] /\ regs'[c] = regs[c]
    BY <1>t
  <2> PICK s \in Seq(Events) : s = <<>>
    BY <1>q
  <2> QED BY <1>n, <2>1, <2>2, <2>3, <2>4, <2>5, SteadyMoves
<1>s. ASSUME NEW w \in Writes, Send(c, w), table[c] # "off",
             UNCHANGED <<server, table, live, regs, data, screen>>,
             popup'[c] = popup[c] \/ popup'[c] = NoPopup
      PROVE  Steady(c)'
  <2> PICK j \in Ids : j = w.id
    BY DEF Writes
  <2>1. /\ up'[c] = Append(up[c], w)
        /\ events'[c] = events[c] \o Raised(c, j, server[j], up'[c])
        /\ server[j] \in Slot
    BY <1>s DEF Send, TypeOK
  <2> PICK n \in Slot : n = server[j]
    BY <2>1
  <2>2. /\ table'[c] = table[c] /\ live'[c] = live[c] /\ data'[c] = data[c]
        /\ regs'[c] = regs[c] /\ screen'[c] = screen[c]
    BY <1>s
  <2>3. InView(c, j) /\ \E v \in Writes : up'[c] = Append(up[c], v)
    BY <2>1
  <2> QED BY <1>s, <2>1, <2>2, <2>3, SteadyChange
<1>1. CASE AnswerRead(c)
  <2> DEFINE e == [type |-> "loaded", snap |-> server]
  <2>1. e \in Events /\ e.type = "loaded"
    BY DEF TypeOK, Events
  <2>2. /\ up[c] # <<>> /\ up'[c] = Tail(up[c]) /\ Head(up[c]).op = "read"
        /\ events'[c] = Append(events[c], e)
        /\ UNCHANGED <<table, live, regs, data, screen, popup>>
    BY <1>1 DEF AnswerRead, Answered, Oldest, TypeOK, app
  <2> HIDE DEF e
  <2> QED BY <1>a, <2>1, <2>2
<1>2. CASE AnswerNames(c)
  <2>1. NamesThere \in Events /\ NamesThere.type = "named"
    BY DEF NamesThere, Events
  <2>2. /\ up[c] # <<>> /\ up'[c] = Tail(up[c]) /\ Head(up[c]).op = "names"
        /\ events'[c] = Append(events[c], NamesThere)
        /\ UNCHANGED <<table, live, regs, data, screen, popup>>
    BY <1>2 DEF AnswerNames, Answered, Oldest, TypeOK, NamesThere, app
  <2> QED BY <1>a, <2>1, <2>2
<1>3. CASE AnswerWatch(c)
  <2> DEFINE j == Head(up[c]).id
             n == Overlay(server[j], up[c], j)
             tell == table[c] = "asked" /\ n # Absent
             e == Added(j, n)
             s == IF tell THEN <<e>> ELSE <<>>
  <2>1. /\ up[c] # <<>> /\ Head(up[c]).op = "watch" /\ j \in Ids /\ up'[c] = Tail(up[c])
    BY <1>3, OldestRequest DEF AnswerWatch, Answered, Oldest, TypeOK
  <2>2. n \in Slot
    BY <1>q, <2>1, OverlayType DEF TypeOK
  <2>3. tell => e \in Events
    BY <2>1, <2>2 DEF Slot, Added, Events
  <2>4. e.type = "added" /\ e.id = j
    BY DEF Added
  <2>5. /\ events'[c] = IF tell THEN Append(events[c], e) ELSE events[c]
        /\ live'[c] = live[c] \cup {j}
        /\ UNCHANGED <<table, regs, data, screen, popup>>
    BY <1>3 DEF AnswerWatch, TypeOK, app
  <2>6. j \in Heard(c)' /\ Heard(c) \subseteq Heard(c)'
    BY <2>1, <2>5 DEF Heard
  <2> HIDE DEF e, n, tell
  <2>7. s \in Seq(Events) /\ events'[c] = events[c] \o s
    <3>1. CASE tell
      <4>1. <<e>> \in Seq(Events) /\ Append(events[c], e) = events[c] \o <<e>>
        BY <1>q, <2>3, <3>1, AppendIsConcat
      <4> QED BY <2>5, <3>1, <4>1
    <3>2. CASE ~tell
      BY <1>q, <1>n, <2>5, <3>2
    <3> QED BY <3>1, <3>2
  <2>8. AllFit(regs[c], Heard(c)', s)
    <3>1. Fit(regs[c], Heard(c)', e)
      BY <2>4, <2>6 DEF Fit, Fields
    <3>2. AllFit(regs[c], Heard(c)', <<e>>)
      BY <3>1, Short DEF AllFit
    <3> QED BY <1>n, <3>2
  <2>9. ASSUME NEW i \in Ids, WatchAhead(up[c], i) PROVE i \in Heard(c)' \/ WatchAhead(up'[c], i)
    <3>1. CASE i = j
      BY <2>6, <3>1
    <3>2. CASE i # j
      <4>1. Head(up[c]) # Watch(i)
        BY <3>2 DEF Watch
      <4> QED BY <1>q, <2>1, <2>9, <4>1, WatchQueues
    <3> QED BY <3>1, <3>2
  <2>10. table[c] = "off" => NoWrites(up'[c])
    <3>1. \A k \in DOMAIN Tail(up[c]) : k + 1 \in DOMAIN up[c] /\ Tail(up[c])[k] = up[c][k + 1]
      BY <1>q, <2>1
    <3> QED BY <1>o, <2>1, <3>1 DEF NoWrites
  <2>11. table'[c] = "off" => /\ table[c] = "off" /\ NoWrites(up'[c])
                              /\ screen'[c] # "enabled" /\ popup'[c] = NoPopup
    BY <1>o, <2>5, <2>10
  <2>12. data'[c] = data[c] /\ regs'[c] = regs[c]
    BY <2>5
  <2> HIDE DEF s
  <2> QED BY <2>6, <2>7, <2>8, <2>9, <2>11, <2>12, SteadyMoves
<1>4. CASE AnswerTable(c)
  <2> DEFINE There1 == {i \in Ids : Overlay(server[i], up[c], i) # Absent} \ known[c]
  <2>1. PICK order \in SetToSeqs(There1) :
           events' = [events EXCEPT ![c] = @ \o [k \in DOMAIN order |->
              Added(order[k], Overlay(server[order[k]], up[c], order[k]))]]
    BY <1>4 DEF AnswerTable
  <2> DEFINE told == [k \in DOMAIN order |->
                         Added(order[k], Overlay(server[order[k]], up[c], order[k]))]
  <2>2. There1 \in SUBSET Ids /\ \A i \in There1 : Overlay(server[i], up[c], i) # Absent
    OBVIOUS
  <2>3. told \in Seq(Events) /\ AllFit(regs[c], Ids, told)
    <3> HIDE DEF There1
    <3> QED BY <2>2, AnnounceType, CallbacksAreEvents, AnnouncedFit
  <2>4. events'[c] = events[c] \o told
    <3> HIDE DEF told
    <3> QED BY <2>1 DEF TypeOK, told
  <2>5. table'[c] = "on" /\ data'[c] = data[c] /\ regs'[c] = regs[c]
    BY <1>4 DEF AnswerTable, TypeOK, app
  <2>6. Heard(c)' = Ids
    BY <2>5 DEF Heard
  <2>7. Heard(c) \subseteq Heard(c)'
    BY <1>q, <2>6 DEF Heard
  <2> HIDE DEF told
  <2> QED BY <2>3, <2>4, <2>5, <2>6, <2>7, SteadyMoves
<1>5. CASE Reject(c)
  <2> DEFINE w == Head(up[c])
  <2>1. up[c] # <<>> /\ w \in Writes /\ w.op \in WriteOps
    BY <1>5, OldestRequest DEF Reject
  <2> PICK j \in Ids : j = w.id
    BY <2>1 DEF Writes
  <2>2. /\ up'[c] = Tail(up[c])
        /\ events'[c] = events[c] \o Raised(c, j, server[j], up'[c])
        /\ server[j] \in Slot
        /\ UNCHANGED <<table, live, data, regs, screen, popup>>
    BY <1>5 DEF Reject, Answered, TypeOK, app
  <2> PICK n \in Slot : n = server[j]
    BY <2>2
  <2>3. /\ table'[c] = table[c] /\ live'[c] = live[c] /\ data'[c] = data[c]
        /\ regs'[c] = regs[c] /\ screen'[c] = screen[c] /\ popup'[c] = popup[c]
        /\ InView(c, j)
    BY <2>2
  <2> QED BY <2>1, <2>2, <2>3, SteadyChange
<1>6. CASE LoadNothing(c) \/ LastItemNamed(c)
  <2>1. events[c] # <<>> /\ UNCHANGED <<live, data, regs, popup>>
    BY <1>6 DEF LoadNothing, LastItemNamed, Next1
  <2>2. CASE HasDelegate(c)
    <3>1. ActivateObservers(c)
      BY <1>6, <2>2 DEF LoadNothing, LastItemNamed
    <3>2. table[c] = "off"
      BY <1>6, LoadedUnlistened
    <3> QED BY <2>1, <3>1, <3>2, SteadyActivate
  <2>3. CASE ~HasDelegate(c)
    <3>1. /\ events'[c] = Tail(events[c])
          /\ UNCHANGED <<up, table, screen>>
      BY <1>6, <2>3 DEF LoadNothing, LastItemNamed, TypeOK
    <3>2. UNCHANGED <<up, table, live, regs, data>>
      BY <2>1, <3>1
    <3>3. table[c] = "off" => screen'[c] # "enabled" /\ popup'[c] = NoPopup
      BY <1>o, <2>1, <3>1
    <3> QED BY <1>t, <2>1, <3>1, <3>2, <3>3
  <2> QED BY <2>2, <2>3
<1>7. CASE LoadItems(c)
  <2>1. events[c] # <<>> /\ Head(events[c]).type = "loaded" /\ AwaitsItems(c)
    <3>1. events[c] # <<>> /\ Head(events[c]).type = "loaded"
      BY <1>7 DEF LoadItems, Next1
    <3>2. 1 \in DOMAIN events[c] /\ events[c][1] = Head(events[c])
      BY <1>q, <3>1
    <3> QED BY <3>1, <3>2 DEF AwaitsItems
  <2>2. /\ up[c] = <<>> /\ Tail(events[c]) = <<>> /\ table[c] = "off" /\ data[c] = <<>>
        /\ screen[c] # "enabled"
    BY <2>1, Waiting DEF Fresh
  <2>3. PICK rows \in Seq(Rows), more \in Seq(Requests), told \in Seq(Events) :
           /\ data' = [data EXCEPT ![c] = data[c] \o rows]
           /\ up' = [up EXCEPT ![c] = up[c] \o more]
           /\ events' = [events EXCEPT ![c] = Tail(events[c]) \o told]
           /\ Once(rows)
           /\ \A k \in DOMAIN rows : Head(events[c]).snap[rows[k].id] # Absent
           /\ \A k \in DOMAIN more : more[k].op \in {"watch", "names"}
           /\ \A k \in DOMAIN told : told[k].type = "named"
           /\ HowMany(more, {Names}) + HowMany(told, {[type |-> "named"]}) = 1
    BY <1>7, LoadItemsShape
  <2>4. up'[c] = more /\ events'[c] = told
    <3>1. up'[c] = <<>> \o more /\ events'[c] = <<>> \o told
      BY <2>2, <2>3 DEF TypeOK
    <3> QED BY <3>1
  <2>5. \A k \in DOMAIN data'[c] :
            /\ data'[c][k].reg = regs'[c][data'[c][k].id]
            /\ \E m \in DOMAIN up'[c] : up'[c][m] = Watch(data'[c][k].id)
    BY <1>7, <2>2, LoadedWatched
  <2>6. \A m \in DOMAIN up'[c] : up'[c][m] # Table
    <3>1. Table.op = "table"
      BY DEF Table
    <3>2. \A m \in DOMAIN up'[c] : up'[c][m].op \in {"watch", "names"}
      BY <2>3, <2>4
    <3> QED BY <3>1, <3>2
  <2>7. \A i \in RowIds(c)' : WatchAhead(up'[c], i)
    BY <2>5, <2>6 DEF RowIds, WatchAhead
  <2>8. \A r \in RowsOf(c)' : r.reg = regs'[c][r.id]
    BY <2>5 DEF RowsOf
  <2>9. AllFit(regs'[c], Heard(c)', events'[c])
    BY <2>3, <2>4 DEF AllFit, Fit, Fields
  <2>10. screen'[c] # "enabled" /\ popup'[c] = NoPopup /\ NoWrites(up'[c])
    BY <1>7, <1>o, <2>2, <2>3, <2>4 DEF LoadItems, NoWrites, WriteOps
  <2> QED BY <2>7, <2>8, <2>9, <2>10 DEF Steady
<1>8. CASE ItemsChildAdded(c)
  <2> PICK e \in Events : e = Head(events[c])
    BY <1>8, OldestEvent DEF ItemsChildAdded, Next1
  <2>1. events[c] # <<>> /\ e.type = "added"
    BY <1>8 DEF ItemsChildAdded, Next1
  <2>2. e.id \in Ids /\ e.node \in Node
    BY <2>1 DEF Events
  <2>3. /\ events'[c] = Tail(events[c]) /\ UNCHANGED <<up, table, live, screen, popup>>
    BY <1>8 DEF ItemsChildAdded, TypeOK
  <2>4. e.id \in Heard(c)
    <3>1. Fit(regs[c], Heard(c), e)
      <4>1. events[c] # <<>> => Head(events[c]) = events[c][1] /\ 1 \in DOMAIN events[c]
        BY <1>q
      <4> QED BY <2>1, <4>1 DEF Steady, AllFit
    <3> QED BY <2>1, <3>1 DEF Fit
  <2>5. CASE e.id \in RowIds(c)
    <3>1. UNCHANGED <<data, regs>>
      BY <1>8, <2>5 DEF ItemsChildAdded
    <3>2. UNCHANGED <<up, table, live, regs, data>>
      BY <2>3, <3>1
    <3> QED BY <1>o, <1>t, <2>1, <2>3, <3>2
  <2>6. CASE e.id \notin RowIds(c)
    <3> DEFINE r == Row(e.id, e.node, regs[c][e.id] + 1)
    <3>1. /\ data'[c] = Append(data[c], r)
          /\ regs'[c] = [regs[c] EXCEPT ![e.id] = @ + 1]
      BY <1>8, <2>6 DEF ItemsChildAdded, TypeOK
    <3>2. r.id = e.id /\ r.reg = regs[c][e.id] + 1
      BY DEF Row
    <3> HIDE DEF r
    <3>3. /\ DOMAIN data'[c] = DOMAIN data[c] \cup {Len(data[c]) + 1}
          /\ data'[c][Len(data[c]) + 1] = r
          /\ \A k \in DOMAIN data[c] : data'[c][k] = data[c][k]
      BY <1>q, <3>1
    <3>4. RowsOf(c)' = RowsOf(c) \cup {r}
      BY <3>3 DEF RowsOf
    <3>5. RowIds(c)' = RowIds(c) \cup {e.id}
      BY <3>2, <3>3 DEF RowIds
    <3>6. \A i \in Ids : regs[c][i] <= regs'[c][i]
      BY <1>q, <3>1
    <3>7. \A x \in RowsOf(c)' : x.reg = regs'[c][x.id]
      <4>1. ASSUME NEW x \in RowsOf(c) PROVE x.reg = regs'[c][x.id]
        <5>1. x.id \in RowIds(c)
          BY DEF RowsOf, RowIds
        <5>2. x.id # e.id
          BY <2>6, <5>1
        <5>3. x.reg = regs[c][x.id] /\ x.id \in Ids
          BY <5>1, RowIdsType DEF Steady
        <5> QED BY <1>q, <3>1, <5>2, <5>3
      <4>2. r.reg = regs'[c][r.id]
        BY <1>q, <2>2, <3>1, <3>2
      <4> QED BY <3>4, <4>1, <4>2
    <3> QED BY <2>1, <2>3, <2>4, <3>5, <3>6, <3>7, SteadyHandled
  <2> QED BY <2>5, <2>6
<1>9. CASE ItemsChildRemoved(c)
  <2> PICK e \in Events : e = Head(events[c])
    BY <1>9, OldestEvent DEF ItemsChildRemoved, Next1
  <2>1. events[c] # <<>> /\ e.type = "removed"
    BY <1>9 DEF ItemsChildRemoved, Next1
  <2> PICK j \in Ids : j = e.id
    BY <2>1 DEF Events
  <2> DEFINE q == RemoveFirstMatch(data[c], LAMBDA r : r.id = j)
  <2>2. data'[c] = q /\ events'[c] = Tail(events[c])
        /\ UNCHANGED <<up, table, live, regs, screen, popup>>
    BY <1>9 DEF ItemsChildRemoved, TypeOK
  <2>3. \A k \in DOMAIN q : \E m \in DOMAIN data[c] : q[k] = data[c][m]
    BY <1>q, RemoveRow
  <2> HIDE DEF q
  <2>4. RowIds(c)' \subseteq RowIds(c) /\ RowsOf(c)' \subseteq RowsOf(c)
    BY <2>2, <2>3 DEF RowIds, RowsOf
  <2>5. \A r \in RowsOf(c)' : r.reg = regs'[c][r.id]
    BY <2>2, <2>4 DEF Steady
  <2>6. \A i \in Ids : regs[c][i] <= regs'[c][i]
    BY <1>q, <2>2
  <2> QED BY <2>1, <2>2, <2>4, <2>5, <2>6, SteadyHandled
<1>10. CASE ItemUpdated(c)
  <2> DEFINE ev == Head(events[c])
             New(r) == IF r.id # ev.id \/ r.reg > ev.regs THEN r
                       ELSE IF ev.type = "checked" THEN [r EXCEPT !.checked = ev.value]
                       ELSE [r EXCEPT !.by = ev.value]
  <2>1. /\ data'[c] = [k \in DOMAIN data[c] |-> New(data[c][k])]
        /\ events[c] # <<>> /\ events'[c] = Tail(events[c])
        /\ UNCHANGED <<up, table, live, regs, screen, popup>>
    BY <1>10 DEF ItemUpdated, TypeOK, Next1
  <2>2. ASSUME NEW r \in Rows PROVE New(r).id = r.id /\ New(r).reg = r.reg
    BY DEF Rows
  <2>3. \A k \in DOMAIN data[c] : data[c][k] \in Rows
    BY <1>q
  <2> HIDE DEF New
  <2>4. RowIds(c)' \subseteq RowIds(c)
    BY <2>1, <2>2, <2>3 DEF RowIds
  <2>5. \A r \in RowsOf(c)' : r.reg = regs'[c][r.id]
    BY <2>1, <2>2, <2>3 DEF RowsOf, Steady
  <2>6. \A i \in Ids : regs[c][i] <= regs'[c][i]
    BY <1>q, <2>1
  <2> QED BY <2>1, <2>4, <2>5, <2>6, SteadyHandled
<1>11. CASE LoadPartialItem(c) \/ PartialChildAdded(c) \/ PopupYesNoRow(c) \/ Quit(c)
  <2>1. Reset(c, "crashed") \/ Reset(c, "closed")
    BY <1>11 DEF LoadPartialItem, PartialChildAdded, PopupYesNoRow, Quit, Crash
  <2>2. /\ data'[c] = <<>> /\ events'[c] = <<>> /\ up'[c] = <<>>
        /\ screen'[c] # "enabled" /\ popup'[c] = NoPopup
    BY <2>1 DEF Reset, TypeOK
  <2> QED BY <2>2, SteadyFresh DEF NoWrites
<1>12. CASE OpenList(c)
  <2>1. /\ up'[c] = <<Read>> /\ screen'[c] = "loading" /\ screen[c] \in {"closed", "crashed"}
        /\ UNCHANGED <<events, data, popup>>
    BY <1>12 DEF OpenList, TypeOK
  <2>2. data[c] = <<>> /\ events[c] = <<>> /\ table[c] = "off"
    BY <2>1 DEF LoadsFirst, Fresh
  <2>3. NoWrites(<<Read>>)
    BY Short DEF NoWrites, Read, WriteOps
  <2> QED BY <1>o, <2>1, <2>2, <2>3, SteadyFresh
<1>13. CASE LeaveScreen(c) \/ SelectChecked(c) \/ PopupNo(c)
  <2>1. UNCHANGED <<events, up, table, live, regs, data>>
    BY <1>13 DEF LeaveScreen, SelectChecked, PopupNo, sdk
  <2>2. table[c] = "off" => screen'[c] # "enabled" /\ popup'[c] = NoPopup
    BY <1>13, <1>o DEF LeaveScreen, SelectChecked, PopupNo, Idle, TypeOK
  <2> QED BY <1>t, <2>1, <2>2
<1>14. CASE AddNewItem(c)
  <2>1. PICK j \in Ids : Send(c, AddOf(j))
    BY <1>14 DEF AddNewItem
  <2>2. AddOf(j) \in Writes
    BY DEF AddOf, Writes, WriteOps, Checkers
  <2>3. UNCHANGED <<server, table, live, regs, data, screen, popup>> /\ table[c] # "off"
    BY <1>14, <1>o DEF AddNewItem, app, Idle
  <2> QED BY <1>s, <2>1, <2>2, <2>3
<1>15. CASE RemoveItem(c)
  <2>1. PICK k \in DOMAIN data[c] : Send(c, DelOf(data[c][k].id))
    BY <1>15 DEF RemoveItem
  <2>2. DelOf(data[c][k].id) \in Writes
    BY RowOfApp DEF DelOf, Writes, WriteOps, Checkers
  <2>3. UNCHANGED <<server, table, live, regs, data, screen, popup>> /\ table[c] # "off"
    BY <1>15, <1>o DEF RemoveItem, app, Idle
  <2> QED BY <1>s, <2>1, <2>2, <2>3
<1>16. CASE SelectUnchecked(c) \/ PopupYes(c)
  <2>1. PICK k \in DOMAIN data[c] : Send(c, ReverseCheckedOf(c, data[c][k]))
    BY <1>16 DEF SelectUnchecked, PopupYes, ReverseChecked
  <2>2. ReverseCheckedOf(c, data[c][k]) \in Writes
    BY ReverseType
  <2>3. /\ UNCHANGED <<server, table, live, regs, data, screen>>
        /\ popup'[c] = popup[c] \/ popup'[c] = NoPopup
        /\ table[c] # "off"
    BY <1>16, <1>o DEF SelectUnchecked, PopupYes, app, Idle, TypeOK
  <2> QED BY <1>s, <2>1, <2>2, <2>3
<1> QED BY <1>1, <1>2, <1>3, <1>4, <1>5, <1>6, <1>7, <1>8, <1>9, <1>10, <1>11, <1>12,
           <1>13, <1>14, <1>15, <1>16 DEF Step, ServerStep, MainStep, UserStep

\* A step of another app, other than a commit, registers no listener and loses nothing.
LEMMA OthersRows ==
  ASSUME TypeOK, NEW c \in Users, NEW d \in Users \ {c}, Step(c), ~Commit(c)
  PROVE  regs'[d] = regs[d] /\ lost'[d] = lost[d]
<1> USE DEF TypeOK, history
<1>1. CASE AnswerRead(c) \/ AnswerNames(c) \/ AnswerWatch(c) \/ AnswerTable(c) \/ Reject(c)
  BY <1>1 DEF AnswerRead, AnswerNames, AnswerWatch, AnswerTable, Reject
<1>2. CASE LoadPartialItem(c) \/ PartialChildAdded(c) \/ PopupYesNoRow(c) \/ Quit(c)
  BY <1>2 DEF LoadPartialItem, PartialChildAdded, PopupYesNoRow, Quit, Crash, Reset
<1>3. CASE LoadNothing(c) \/ LastItemNamed(c) \/ ItemsChildRemoved(c) \/ ItemUpdated(c)
  BY <1>3 DEF LoadNothing, LastItemNamed, ItemsChildRemoved, ItemUpdated
<1>4. CASE LoadItems(c)
  BY <1>4 DEF LoadItems
<1>5. CASE ItemsChildAdded(c)
  BY <1>5 DEF ItemsChildAdded
<1>6. CASE \/ OpenList(c) \/ LeaveScreen(c) \/ AddNewItem(c) \/ RemoveItem(c)
           \/ SelectUnchecked(c) \/ SelectChecked(c) \/ PopupNo(c) \/ PopupYes(c)
  BY <1>6 DEF OpenList, LeaveScreen, AddNewItem, RemoveItem, SelectUnchecked,
              SelectChecked, PopupNo, PopupYes, sdk
<1> QED BY <1>1, <1>2, <1>3, <1>4, <1>5, <1>6 DEF Step, ServerStep, MainStep, UserStep

\* A commit, seen by any app: what it takes, raises and leaves alone.
LEMMA CommitSeen ==
  ASSUME TypeOK, NEW c \in Users, Commit(c), NEW d \in Users
  PROVE  \E j \in Ids, n \in Slot :
            /\ server' = [server EXCEPT ![j] = n] /\ j = Head(up[c]).id
            /\ events'[d] = events[d] \o Raised(d, j, n, up'[d])
            /\ known'[d] = KnownAfter(d, j, n, up'[d])
            /\ \/ up'[d] = up[d]
               \/ up[d] # <<>> /\ Head(up[d]).op \in WriteOps /\ up'[d] = Tail(up[d])
            /\ \A i \in Ids : i # j =>
                  Overlay(server[i], up'[d], i) = Overlay(server[i], up[d], i)
            /\ UNCHANGED <<used, table, live, regs, data, screen, popup, lost>>
<1> DEFINE w == Head(up[c])
           j == w.id
           n == Apply(w, server[j])
<1>1. up[c] # <<>> /\ w \in Writes /\ j \in Ids /\ w.op \in WriteOps
  BY OldestRequest DEF Commit, Writes
<1>2. n \in Slot
  BY <1>1, ApplyType DEF TypeOK
<1>3. /\ server' = [server EXCEPT ![j] = n]
      /\ events'[d] = events[d] \o Raised(d, j, n, up'[d])
      /\ known'[d] = KnownAfter(d, j, n, up'[d])
      /\ UNCHANGED <<used, table, live, regs, data, screen, popup, lost>>
  BY DEF Commit, app, history
<1>4. up'[d] = IF d = c THEN Tail(up[d]) ELSE up[d]
  BY DEF Commit, Answered, TypeOK
<1>5. ASSUME NEW i \in Ids, i # j
      PROVE  Overlay(server[i], up'[d], i) = Overlay(server[i], up[d], i)
  <2>1. up[c] \in Seq(Requests)
    BY DEF TypeOK
  <2> QED BY <1>1, <1>4, <1>5, <2>1, OverlayTail
<1>6. \/ up'[d] = up[d]
      \/ up[d] # <<>> /\ Head(up[d]).op \in WriteOps /\ up'[d] = Tail(up[d])
  BY <1>1, <1>4
<1>7. j = Head(up[c]).id
  OBVIOUS
<1> HIDE DEF w, j, n
<1> QED BY <1>1, <1>2, <1>3, <1>5, <1>6, <1>7

\* Every step keeps the listeners steady, for every app.
ListenersSteady == \A d \in Users : Steady(d)

LEMMA SteadyStep ==
  /\ TypeOK /\ TypeOK' /\ LoadingComesFirst /\ NamesComeOnce /\ NoDuplicateRows
  /\ RowsFollow /\ ListenersSteady /\ [Next]_vars
  => ListenersSteady'
<1> SUFFICES ASSUME TypeOK, TypeOK', LoadingComesFirst, NamesComeOnce, NoDuplicateRows,
                    RowsFollow, ListenersSteady, [Next]_vars, NEW d \in Users
             PROVE  Steady(d)'
  BY DEF ListenersSteady
<1>1. /\ LoadsFirst(d) /\ NamesOnce(d) /\ Once(data[d])
      /\ \A i \in Ids : InView(d, i)
      /\ Steady(d)
  BY DEF LoadingComesFirst, NamesComeOnce, NoDuplicateRows, Once, RowsFollow, ListenersSteady
<1>x. ASSUME up'[d] = up[d], events'[d] = events[d], table'[d] = table[d], live'[d] = live[d],
             regs'[d] = regs[d], data'[d] = data[d], screen'[d] = screen[d], popup'[d] = popup[d]
      PROVE  Steady(d)'
  <2>1. RowsOf(d)' = RowsOf(d) /\ RowIds(d)' = RowIds(d) /\ Heard(d)' = Heard(d)
    BY <1>x DEF RowsOf, RowIds, Heard
  <2> QED BY <1>1, <1>x, <2>1 DEF Steady
<1>2. CASE UNCHANGED vars
  BY <1>2, <1>x DEF vars, sdk, app
<1>3. CASE Next
  <2> PICK c \in Users : Step(c)
    BY <1>3 DEF Next, Step
  <2>1. CASE Commit(c)
    <3>1. PICK j \in Ids, n \in Slot :
            /\ server' = [server EXCEPT ![j] = n] /\ j = Head(up[c]).id
            /\ events'[d] = events[d] \o Raised(d, j, n, up'[d])
            /\ known'[d] = KnownAfter(d, j, n, up'[d])
            /\ \/ up'[d] = up[d]
               \/ up[d] # <<>> /\ Head(up[d]).op \in WriteOps /\ up'[d] = Tail(up[d])
            /\ \A i \in Ids : i # j =>
                  Overlay(server[i], up'[d], i) = Overlay(server[i], up[d], i)
            /\ UNCHANGED <<used, table, live, regs, data, screen, popup, lost>>
      BY <2>1, CommitSeen
    <3>2. /\ table'[d] = table[d] /\ live'[d] = live[d] /\ data'[d] = data[d]
          /\ regs'[d] = regs[d] /\ screen'[d] = screen[d] /\ popup'[d] = popup[d]
          /\ InView(d, j) /\ Steady(d)
      BY <1>1, <3>1
    <3>3. \/ up'[d] = up[d]
          \/ up[d] # <<>> /\ Head(up[d]).op \in WriteOps /\ up'[d] = Tail(up[d])
      BY <3>1
    <3>4. events'[d] = events[d] \o Raised(d, j, n, up'[d])
      BY <3>1
    <3> QED BY <3>2, <3>3, <3>4, SteadyChange
  <2>2. CASE ~Commit(c) /\ d = c
    BY <1>1, <2>2, SteadyOwn
  <2>3. CASE ~Commit(c) /\ d # c
    <3>1. Untouched(d) /\ regs'[d] = regs[d] /\ popup'[d] = popup[d]
      BY <2>3, OthersUntouched, OthersPopup, OthersRows DEF Step
    <3> QED BY <1>x, <3>1 DEF Untouched
  <2> QED BY <2>1, <2>2, <2>3
<1> QED BY <1>2, <1>3

\* The listeners are steady in every behaviour.
LEMMA SteadyHolds == Spec => []ListenersSteady
<1>1. Init => ListenersSteady
  BY DEF Init, ListenersSteady, Steady, RowsOf, RowIds, AllFit, NoWrites
<1>2. /\ TypeOK /\ TypeOK' /\ LoadingComesFirst /\ NamesComeOnce /\ NoDuplicateRows
      /\ RowsFollow /\ ListenersSteady /\ [Next]_vars
      => ListenersSteady'
  BY SteadyStep
<1> QED BY <1>1, <1>2, TypeCorrect, LoadingFirst, NamesComeOnceHolds, RowsAreUnique,
           RowsFollowHolds, PTL DEF Spec

-----------------------------------------------------------------------------
(***************************************************************************)
(* A row that is watched shows the item once the callbacks under way are   *)
(* handled: those for its registration lead from its two fields to those   *)
(* of the item as the app sees it (Agrees).  The other rows missed a       *)
(* change, are of an item that is no more or is withdrawn, or wait for     *)
(* their listener (Tracked).                                               *)
(***************************************************************************)
Field(i, t, g)       == {e \in Events : e.type = t /\ e.id = i /\ e.regs = g}
Leads(s, i, g, m, n) == /\ Ends(s, Field(i, "checked", g), m.checked, n.checked)
                        /\ Ends(s, Field(i, "checked_by_id", g), m.by, n.by)
Agrees(s, r, n)      == Leads(s, r.id, r.reg, r, n)
Changes(e, i, g)     == e.type \in Fields /\ e.id = i /\ e.regs = g

\* No user can bring the item back: it was generated, lost its title, and no add is under way
Dead(i)         == i \in used /\ ~Named(server[i]) /\ \A c \in Users : ~Adding(up[c], i)
Withdraws(s, i) == \E k \in DOMAIN s : s[k] = Removed(i)
Watched(d, i)   == i \in known[d] \/ (table[d] = "off" /\ i \in live[d] /\ Shown(d, i))
Unheard(d, i)   == table[d] # "on" /\ i \notin live[d]

Tracked(d, r) ==
    \/ r.id \in lost[d] \/ Dead(r.id) \/ Withdraws(events[d], r.id) \/ Unheard(d, r.id)
    \/ Watched(d, r.id) /\ Agrees(events[d], r, Overlay(server[r.id], up[d], r.id))
RowsTracked == \A d \in Users : \A r \in RowsOf(d) : Tracked(d, r)

\* Callbacks that change none of the fields lead nowhere.
LEMMA LeadsNone ==
  ASSUME NEW s, NEW i, NEW g, \A k \in DOMAIN s : ~Changes(s[k], i, g),
         NEW m, NEW n, m.checked = n.checked, m.by = n.by
  PROVE  Leads(s, i, g, m, n)
<1>1. \A k \in DOMAIN s : /\ s[k] \notin Field(i, "checked", g)
                          /\ s[k] \notin Field(i, "checked_by_id", g)
  BY DEF Changes, Field, Fields
<1> QED BY <1>1, EndsNone DEF Leads

\* Callbacks join: they lead on.
LEMMA LeadsJoined ==
  ASSUME NEW e \in Seq(Events), NEW s \in Seq(Events), NEW i, NEW g, NEW m, NEW n, NEW o,
         Leads(e, i, g, m, n), Leads(s, i, g, n, o)
  PROVE  Leads(e \o s, i, g, m, o)
BY EndsJoined DEF Leads

\* The oldest callback is handled: it changes a field of the row, or leads nowhere.
LEMMA LeadsTail ==
  ASSUME NEW e \in Seq(Events), e # <<>>, NEW i, NEW g, NEW r \in Rows, NEW n,
         Leads(e, i, g, r, n)
  PROVE  /\ ~Changes(Head(e), i, g) => Leads(Tail(e), i, g, r, n)
         /\ Changes(Head(e), i, g) /\ Head(e).type = "checked" =>
               Leads(Tail(e), i, g, [r EXCEPT !.checked = Head(e).value], n)
         /\ Changes(Head(e), i, g) /\ Head(e).type = "checked_by_id" =>
               Leads(Tail(e), i, g, [r EXCEPT !.by = Head(e).value], n)
<1> DEFINE h == Head(e)
           X == Field(i, "checked", g)
           Y == Field(i, "checked_by_id", g)
<1>1. h \in Events
  BY HeadTailProperties
<1>2. /\ h \in X <=> h.type = "checked" /\ Changes(h, i, g)
      /\ h \in Y <=> h.type = "checked_by_id" /\ Changes(h, i, g)
  BY <1>1 DEF Field, Changes, Fields
<1>3. "checked" # "checked_by_id"
  OBVIOUS
<1>4. Changes(h, i, g) => h.type \in {"checked", "checked_by_id"}
  BY DEF Changes, Fields
<1>5. /\ h \in X => Ends(Tail(e), X, h.value, n.checked)
      /\ h \notin X => Ends(Tail(e), X, r.checked, n.checked)
      /\ h \in Y => Ends(Tail(e), Y, h.value, n.by)
      /\ h \notin Y => Ends(Tail(e), Y, r.by, n.by)
  <2>1. Ends(e, X, r.checked, n.checked) /\ Ends(e, Y, r.by, n.by)
    BY DEF Leads
  <2> HIDE DEF X, Y
  <2> QED BY <2>1, EndsTail DEF h
<1>6. /\ [r EXCEPT !.checked = h.value].checked = h.value
      /\ [r EXCEPT !.checked = h.value].by = r.by
      /\ [r EXCEPT !.by = h.value].by = h.value
      /\ [r EXCEPT !.by = h.value].checked = r.checked
  BY DEF Rows
<1> HIDE DEF h
<1>7. CASE ~Changes(h, i, g)
  BY <1>2, <1>5, <1>7 DEF Leads, h
<1>8. CASE Changes(h, i, g) /\ h.type = "checked"
  <2>1. Ends(Tail(e), X, h.value, n.checked) /\ Ends(Tail(e), Y, r.by, n.by)
    BY <1>2, <1>3, <1>5, <1>8
  <2>2. Leads(Tail(e), i, g, [r EXCEPT !.checked = h.value], n)
    BY <1>6, <2>1 DEF Leads
  <2> QED BY <1>3, <1>8, <2>2 DEF h
<1>9. CASE Changes(h, i, g) /\ h.type = "checked_by_id"
  <2>1. Ends(Tail(e), X, r.checked, n.checked) /\ Ends(Tail(e), Y, h.value, n.by)
    BY <1>2, <1>3, <1>5, <1>9
  <2>2. Leads(Tail(e), i, g, [r EXCEPT !.by = h.value], n)
    BY <1>6, <2>1 DEF Leads
  <2> QED BY <1>3, <1>9, <2>2 DEF h
<1> QED BY <1>4, <1>7, <1>8, <1>9

\* What a change of the item raises for the latest registration leads from what the item
\* was to what it is.
LEMMA ChangesLead ==
  ASSUME NEW d, NEW i \in Ids, NEW old \in Node, NEW new \in Node, regs[d][i] \in Nat
  PROVE  /\ FieldChanges(d, i, old, new) \in Seq(Events)
         /\ Leads(FieldChanges(d, i, old, new), i, regs[d][i], old, new)
<1> DEFINE g == regs[d][i]
           X == Field(i, "checked", g)
           Y == Field(i, "checked_by_id", g)
           e1 == [type |-> "checked", id |-> i, value |-> new.checked, regs |-> g]
           e2 == [type |-> "checked_by_id", id |-> i, value |-> new.by, regs |-> g]
           s1 == IF old.checked # new.checked THEN <<e1>> ELSE <<>>
           s2 == IF old.by # new.by THEN <<e2>> ELSE <<>>
<1>1. /\ e1 \in Events /\ e2 \in Events
      /\ e1.type = "checked" /\ e1.id = i /\ e1.value = new.checked /\ e1.regs = g
      /\ e2.type = "checked_by_id" /\ e2.id = i /\ e2.value = new.by /\ e2.regs = g
  BY DEF Node, Events
<1>2. FieldChanges(d, i, old, new) = s1 \o s2
  BY DEF FieldChanges
<1> HIDE DEF e1, e2, g
<1>3. e1 \in X /\ e1 \notin Y /\ e2 \in Y /\ e2 \notin X
  BY <1>1 DEF Field
<1>4. s1 \in Seq(Events) /\ s2 \in Seq(Events)
  BY <1>1
<1> HIDE DEF X, Y
<1>5. /\ Ends(s1, X, old.checked, new.checked) /\ Ends(s1, Y, old.by, old.by)
      /\ Ends(s2, X, new.checked, new.checked) /\ Ends(s2, Y, old.by, new.by)
  <2>1. /\ Ends(s1, X, old.checked, new.checked) /\ Ends(s1, Y, old.by, old.by)
    <3>1. CASE old.checked # new.checked
      BY <1>1, <1>3, <3>1, EndsOne
    <3>2. CASE old.checked = new.checked
      BY <3>2, EndsOne
    <3> QED BY <3>1, <3>2
  <2>2. Ends(s2, X, new.checked, new.checked) /\ Ends(s2, Y, old.by, new.by)
    <3>1. CASE old.by # new.by
      BY <1>1, <1>3, <3>1, EndsOne
    <3>2. CASE old.by = new.by
      BY <3>2, EndsOne
    <3> QED BY <3>1, <3>2
  <2> QED BY <2>1, <2>2
<1> HIDE DEF s1, s2
<1>6. Ends(s1 \o s2, X, old.checked, new.checked) /\ Ends(s1 \o s2, Y, old.by, new.by)
  BY <1>4, <1>5, EndsJoined
<1>7. s1 \o s2 \in Seq(Events)
  BY <1>4
<1> QED BY <1>2, <1>6, <1>7 DEF Leads, X, Y, g

\* A withdrawal in either of two queues is one in both together.
LEMMA WithdrawsJoined ==
  ASSUME NEW e \in Seq(Events), NEW s \in Seq(Events), NEW i,
         Withdraws(e, i) \/ Withdraws(s, i)
  PROVE  Withdraws(e \o s, i)
<1>1. /\ Len(e) \in Nat /\ Len(s) \in Nat
      /\ DOMAIN e = 1 .. Len(e) /\ DOMAIN s = 1 .. Len(s)
      /\ DOMAIN (e \o s) = 1 .. (Len(e) + Len(s))
      /\ \A k \in 1 .. Len(e) : (e \o s)[k] = e[k]
      /\ \A k \in 1 .. Len(s) : (e \o s)[k + Len(e)] = s[k]
  BY JoinedAt
<1>2. CASE Withdraws(e, i)
  BY <1>1, <1>2 DEF Withdraws
<1>3. CASE Withdraws(s, i)
  <2>1. PICK k \in DOMAIN s : s[k] = Removed(i)
    BY <1>3 DEF Withdraws
  <2>2. k + Len(e) \in DOMAIN (e \o s) /\ (e \o s)[k + Len(e)] = Removed(i)
    BY <1>1, <2>1
  <2> QED BY <2>2 DEF Withdraws
<1> QED BY <1>2, <1>3

\* Queues of callbacks of which none is for the row: its fields end as they did, and what
\* withdraws it stays.
LEMMA QueuesLead ==
  ASSUME NEW e \in Seq(Events), NEW s \in Seq(Events), NEW r \in Rows,
         \A k \in DOMAIN s : ~Changes(s[k], r.id, r.reg)
  PROVE  /\ \A n : Agrees(e, r, n) => Agrees(e \o s, r, n)
         /\ Withdraws(e, r.id) => Withdraws(e \o s, r.id)
         /\ e # <<>> /\ ~Changes(Head(e), r.id, r.reg) =>
               \A n : Agrees(e, r, n) => Agrees(Tail(e) \o s, r, n)
         /\ e # <<>> /\ Head(e) # Removed(r.id) =>
               (Withdraws(e, r.id) => Withdraws(Tail(e) \o s, r.id))
<1>1. ASSUME NEW q \in Seq(Events), NEW n, Agrees(q, r, n) PROVE Agrees(q \o s, r, n)
  <2>1. Leads(s, r.id, r.reg, n, n)
    BY LeadsNone
  <2> QED BY <1>1, <2>1, LeadsJoined DEF Agrees
<1>2. ASSUME NEW q \in Seq(Events), Withdraws(q, r.id) PROVE Withdraws(q \o s, r.id)
  BY <1>2, WithdrawsJoined
<1>3. ASSUME e # <<>>, ~Changes(Head(e), r.id, r.reg), NEW n, Agrees(e, r, n)
      PROVE  Agrees(Tail(e), r, n)
  BY <1>3, LeadsTail DEF Agrees
<1>4. ASSUME e # <<>>, Head(e) # Removed(r.id), Withdraws(e, r.id)
      PROVE  Withdraws(Tail(e), r.id)
  <2>1. PICK k \in DOMAIN e : e[k] = Removed(r.id)
    BY <1>4 DEF Withdraws
  <2>2. Head(e) = e[1] /\ DOMAIN e = 1 .. Len(e) /\ Len(e) \in Nat
    BY <1>4
  <2>3. /\ DOMAIN Tail(e) = 1 .. (Len(e) - 1)
        /\ \A m \in 1 .. (Len(e) - 1) : Tail(e)[m] = e[m + 1]
    BY <1>4, HeadTailProperties
  <2>4. k # 1
    BY <1>4, <2>1, <2>2
  <2>5. k - 1 \in 1 .. (Len(e) - 1) /\ (k - 1) + 1 = k
    BY <2>2, <2>4
  <2> QED BY <2>1, <2>3, <2>5 DEF Withdraws
<1>5. e # <<>> => Tail(e) \in Seq(Events)
  BY HeadTailProperties
<1> QED BY <1>1, <1>2, <1>3, <1>4, <1>5

\* What makes a row tracked stays, or the row has become another one that is.
LEMMA TrackedCarry ==
  ASSUME NEW d \in Users, NEW r, NEW x, x.id = r.id, Tracked(d, r),
         r.id \in lost[d] => r.id \in lost'[d],
         Dead(r.id) => Dead(r.id)',
         Withdraws(events[d], r.id) => Withdraws(events'[d], r.id),
         Unheard(d, r.id) => Tracked(d, x)',
         Watched(d, r.id) => Watched(d, r.id)',
         \A n : Agrees(events[d], r, n) => Agrees(events'[d], x, n),
         Overlay(server'[r.id], up'[d], r.id) = Overlay(server[r.id], up[d], r.id)
  PROVE  Tracked(d, x)'
<1>1. CASE r.id \in lost[d] \/ Dead(r.id) \/ Withdraws(events[d], r.id) \/ Unheard(d, r.id)
  BY <1>1 DEF Tracked
<1>2. CASE Watched(d, r.id) /\ Agrees(events[d], r, Overlay(server[r.id], up[d], r.id))
  <2>1. Watched(d, r.id)'
    BY <1>2
  <2>2. Agrees(events'[d], x, Overlay(server[r.id], up[d], r.id))
    BY <1>2
  <2>3. Agrees(events'[d], x, Overlay(server'[r.id], up'[d], r.id))
    BY <2>2
  <2> QED BY <2>1, <2>3 DEF Tracked
<1> QED BY <1>1, <1>2 DEF Tracked

\* An item that no user can bring back stays so: adds are of new ids, and no other write
\* gives a title.
LEMMA DeadStays ==
  ASSUME TypeOK, OneTable, NEW c \in Users, Step(c), NEW i \in Ids, Dead(i)
  PROVE  Dead(i)'
<1>1. CASE Commit(c)
  <2>1. PICK w \in Writes :
            /\ \E k \in DOMAIN up[c] : up[c][k] = w
            /\ w.id \in Ids
            /\ server' = [server EXCEPT ![w.id] = Apply(w, server[w.id])]
            /\ w.op = "add" => w = AddOf(w.id) /\ server[w.id] = Absent
    BY <1>1, CommitTakes
  <2>2. ~Named(server'[i])
    <3>1. CASE w.id = i
      <4>1. w.op # "add"
        BY <2>1, <3>1 DEF Dead, Adding
      <4>2. server'[i] = Apply(w, server[i])
        BY <2>1, <3>1 DEF TypeOK
      <4>3. ~Named(server[i])
        BY DEF Dead
      <4>4. CASE w.op = "del"
        BY <4>2, <4>4 DEF Apply, Named
      <4>5. CASE w.op # "del"
        <5>1. server'[i].named = (w.op = "add" \/ Named(server[i]))
          BY <4>2, <4>5 DEF Apply
        <5>2. ~server'[i].named
          BY <4>1, <4>3, <5>1
        <5> QED BY <5>2 DEF Named
      <4> QED BY <4>4, <4>5
    <3>2. CASE w.id # i
      BY <2>1, <3>2 DEF Dead, TypeOK
    <3> QED BY <3>1, <3>2
  <2>3. used' = used
    BY <1>1 DEF Commit
  <2>4. ASSUME NEW d \in Users PROVE ~Adding(up'[d], i)
    <3>1. \/ up'[d] = up[d]
          \/ up[d] # <<>> /\ up'[d] = Tail(up[d])
      BY <1>1 DEF Commit, Answered, TypeOK
    <3>2. up[d] \in Seq(Requests) /\ ~Adding(up[d], i)
      BY DEF TypeOK, Dead
    <3> QED BY <3>1, <3>2, WritesOnQueue
  <2> QED BY <2>2, <2>3, <2>4 DEF Dead
<1>2. CASE ~Commit(c)
  <2>1. server' = server
    BY <1>2, QueueStep
  <2>2. PICK q : up' = [up EXCEPT ![c] = q] /\ QueueAfter(c, q)
    BY <1>2, QueueStep
  <2>3. (Adding(q, i) => Adding(up[c], i) \/ i \in used' \ used) /\ used \subseteq used'
    BY <2>2, NewWrites
  <2>4. i \in used /\ ~Named(server[i]) /\ \A d \in Users : ~Adding(up[d], i)
    BY DEF Dead
  <2>5. \A d \in Users : ~Adding(up'[d], i)
    BY <2>2, <2>3, <2>4 DEF TypeOK
  <2> QED BY <2>1, <2>3, <2>4, <2>5 DEF Dead
<1> QED BY <1>1, <1>2

\* A write on j, or its refusal, reaches the app.
LEMMA TrackedChange ==
  ASSUME TypeOK, TypeOK', NEW d \in Users, Steady(d), NEW r \in RowsOf(d), r \in Rows,
         InView(d, r.id), Tracked(d, r), Dead(r.id) => Dead(r.id)',
         NEW j \in Ids, InView(d, j), NEW n \in Slot, server' = [server EXCEPT ![j] = n],
         events'[d] = events[d] \o Raised(d, j, n, up'[d]),
         known'[d] = KnownAfter(d, j, n, up'[d]),
         r.id # j => Overlay(server[r.id], up'[d], r.id) = Overlay(server[r.id], up[d], r.id),
         table'[d] = table[d], live'[d] = live[d], lost'[d] = lost[d],
         table[d] = "off" /\ Shown(d, j) /\ ~Shown(d, j)' => Dead(j)'
  PROVE  Tracked(d, r)'
<1> PICK i \in Ids : i = r.id
  BY DEF Rows
<1> PICK q \in Seq(Requests) : q = up'[d]
  BY DEF TypeOK
<1> DEFINE s == Raised(d, j, n, q)
           old == Overlay(server[i], up[d], i)
           new == Overlay(server'[i], q, i)
<1>1. /\ events[d] \in Seq(Events) /\ s \in Seq(Events) /\ events'[d] = events[d] \o s
      /\ \A k \in DOMAIN s : s[k].id = j
  <2>1. s \in Seq(Events) /\ \A k \in DOMAIN s : s[k].id = j
    BY RaisedFit
  <2> QED BY <2>1 DEF TypeOK
<1>2. r.reg = regs[d][i] /\ regs[d][i] \in Nat \ {0}
  BY DEF Steady, Rows
<1>3. known'[d] = KnownAfter(d, j, n, q)
  OBVIOUS
<1>4. server'[i] = IF i = j THEN n ELSE server[i]
  BY DEF TypeOK
<1>5. CASE i # j
  <2>1. \A k \in DOMAIN s : ~Changes(s[k], r.id, r.reg)
    BY <1>1, <1>5 DEF Changes
  <2>2. /\ \A m : Agrees(events[d], r, m) => Agrees(events'[d], r, m)
        /\ Withdraws(events[d], r.id) => Withdraws(events'[d], r.id)
    <3> HIDE DEF s
    <3>1. /\ \A m : Agrees(events[d], r, m) => Agrees(events[d] \o s, r, m)
          /\ Withdraws(events[d], r.id) => Withdraws(events[d] \o s, r.id)
      BY <1>1, <2>1, QueuesLead
    <3> QED BY <1>1, <3>1
  <2>3. Overlay(server'[i], up'[d], i) = Overlay(server[i], up[d], i)
    BY <1>4, <1>5
  <2>4. i \in known'[d] <=> i \in known[d]
    BY <1>3, <1>5 DEF KnownAfter
  <2>5. Watched(d, i) => Watched(d, i)'
    BY <2>3, <2>4 DEF Watched, Shown
  <2>6. Unheard(d, i) => Tracked(d, r)'
    BY DEF Unheard, Tracked
  <2> QED BY <2>2, <2>3, <2>5, <2>6, TrackedCarry
<1>6. CASE i = j
  <2>1. CASE i \in lost[d] \/ Dead(i) \/ Unheard(d, i)
    BY <2>1 DEF Tracked, Unheard
  <2>2. CASE Withdraws(events[d], i)
    <3> HIDE DEF s
    <3>1. Withdraws(events'[d], i)
      BY <1>1, <2>2, WithdrawsJoined
    <3> QED BY <3>1 DEF Tracked
  <2>3. CASE ~Unheard(d, i) /\ Watched(d, i) /\ Agrees(events[d], r, old)
    <3>1. table[d] = "on" \/ i \in live[d]
      BY <2>3 DEF Unheard
    <3>2. /\ Seen(d, j, server[j], up[d]) = old
          /\ Seen(d, j, n, q) = new
          /\ new = Overlay(n, q, j)
      BY <1>4, <1>6, <3>1 DEF Seen
    <3>3. old # Absent
      BY <2>3 DEF Watched, InView, Shown
    <3>4. old \in Slot /\ new \in Slot
      <4>1. server[i] \in Slot /\ server'[i] \in Slot /\ up[d] \in Seq(Requests)
        BY DEF TypeOK
      <4> QED BY <4>1, OverlayType
    <3>5. old \in Node
      BY <3>3, <3>4 DEF Slot
    <3> HIDE DEF old, new
    <3>6. CASE new # Absent
      <4>1. new \in Node
        BY <3>4, <3>6 DEF Slot
      <4>2. s = FieldChanges(d, i, old, new)
        <5>1. i \in known[d] \/ table[d] # "on"
          BY <2>3 DEF Watched
        <5>2. ~(i \notin known[d] /\ table[d] = "on")
          BY <5>1
        <5>3. regs[d][i] > 0
          BY <1>2
        <5> QED BY <1>6, <3>2, <3>3, <3>6, <5>1, <5>2, <5>3 DEF Raised
      <4>3. Leads(s, i, r.reg, old, new)
        BY <1>2, <3>5, <4>1, <4>2, ChangesLead
      <4> HIDE DEF s
      <4>4. Leads(events[d] \o s, i, r.reg, r, new)
        BY <1>1, <2>3, <4>3, LeadsJoined DEF Agrees
      <4>5. Agrees(events'[d], r, Overlay(server'[i], up'[d], i))
        BY <1>1, <4>4 DEF Agrees, new
      <4>6. Watched(d, i)'
        <5>1. i \in known[d] => i \in known'[d]
          BY <1>3, <1>6, <3>2, <3>6 DEF KnownAfter
        <5>2. Shown(d, i)'
          BY <3>6 DEF Shown, new
        <5> QED BY <2>3, <5>1, <5>2 DEF Watched
      <4> QED BY <4>5, <4>6 DEF Tracked
    <3>7. CASE new = Absent /\ i \in known[d]
      <4>1. s = <<Removed(i)>>
        BY <1>6, <3>2, <3>7 DEF Raised
      <4> DEFINE e == Removed(i)
                 t == <<e>>
      <4>2. DOMAIN t = {1} /\ t[1] = e
        <5> HIDE DEF e
        <5> QED BY Short
      <4> HIDE DEF t
      <4>3. Withdraws(t, i)
        BY <4>2 DEF Withdraws
      <4>4. t = s
        BY <4>1 DEF t
      <4> HIDE DEF s
      <4>5. Withdraws(events'[d], i)
        BY <1>1, <4>3, <4>4, WithdrawsJoined
      <4> QED BY <4>5 DEF Tracked
    <3>8. CASE new = Absent /\ i \notin known[d]
      <4>1. table[d] = "off" /\ Shown(d, i)
        BY <2>3, <3>8 DEF Watched
      <4>2. ~Shown(d, i)'
        BY <3>8 DEF Shown, new
      <4>3. Dead(i)'
        BY <1>6, <4>1, <4>2
      <4> QED BY <4>3 DEF Tracked
    <3> QED BY <3>6, <3>7, <3>8
  <2> QED BY <2>1, <2>2, <2>3 DEF Tracked
<1> QED BY <1>5, <1>6

\* A step of the app itself, other than a commit.
LEMMA TrackedOwn ==
  ASSUME TypeOK, TypeOK', OneTable, NEW c \in Users, LoadsFirst(c), NamesOnce(c),
         Once(data[c]), Step(c), ~Commit(c), \A i \in Ids : InView(c, i) /\ InStep(c, i),
         Steady(c), \A r \in RowsOf(c) : Tracked(c, r), NEW x \in RowsOf(c)'
  PROVE  Tracked(c, x)'
<1>q. /\ up[c] \in Seq(Requests) /\ events[c] \in Seq(Events) /\ data[c] \in Seq(Rows)
      /\ <<>> \in Seq(Events) /\ regs[c] \in [Ids -> Nat] /\ live[c] \in SUBSET Ids
      /\ \A k \in DOMAIN <<>> : <<>>[k].type \notin Fields
  BY DEF TypeOK
<1>e. /\ events[c] \o <<>> = events[c]
      /\ events[c] # <<>> => Tail(events[c]) \o <<>> = Tail(events[c])
  BY <1>q, OldestEvent
<1>d. \A i \in Ids : Dead(i) => Dead(i)'
  BY DeadStays
<1>r. ASSUME NEW r \in RowsOf(c)
      PROVE  /\ r \in Rows /\ r.id \in Ids /\ r.id \in RowIds(c) /\ r.reg = regs[c][r.id]
             /\ InView(c, r.id) /\ Tracked(c, r)
  <2>1. PICK k \in DOMAIN data[c] : data[c][k] = r
    BY DEF RowsOf
  <2>2. r \in Rows /\ r.id \in Ids /\ r.id \in RowIds(c)
    BY <2>1, RowOfApp
  <2> QED BY <2>2 DEF Steady
<1>m. ASSUME NEW r \in RowsOf(c), NEW s \in Seq(Events), \A k \in DOMAIN s : s[k].type \notin Fields,
             \/ events'[c] = events[c] \o s
             \/ /\ events[c] # <<>> /\ events'[c] = Tail(events[c]) \o s
                /\ Head(events[c]).type \notin Fields /\ Head(events[c]) # Removed(r.id),
             r.id \in lost[c] => r.id \in lost'[c],
             Unheard(c, r.id) => Tracked(c, r)',
             Watched(c, r.id) => Watched(c, r.id)',
             Overlay(server'[r.id], up'[c], r.id) = Overlay(server[r.id], up[c], r.id)
      PROVE  Tracked(c, r)'
  <2>1. \A k \in DOMAIN s : ~Changes(s[k], r.id, r.reg)
    BY <1>m DEF Changes
  <2>2. Head(events[c]).type \notin Fields => ~Changes(Head(events[c]), r.id, r.reg)
    BY DEF Changes
  <2>3. /\ \A n : Agrees(events[c], r, n) => Agrees(events'[c], r, n)
        /\ Withdraws(events[c], r.id) => Withdraws(events'[c], r.id)
    <3>1. r \in Rows
      BY <1>r
    <3>2. CASE events'[c] = events[c] \o s
      <4>1. /\ \A n : Agrees(events[c], r, n) => Agrees(events[c] \o s, r, n)
            /\ Withdraws(events[c], r.id) => Withdraws(events[c] \o s, r.id)
        BY <1>q, <2>1, <3>1, QueuesLead
      <4> QED BY <3>2, <4>1
    <3>3. CASE /\ events[c] # <<>> /\ events'[c] = Tail(events[c]) \o s
               /\ Head(events[c]).type \notin Fields /\ Head(events[c]) # Removed(r.id)
      <4>1. /\ events[c] # <<>> /\ ~Changes(Head(events[c]), r.id, r.reg) =>
                 \A n : Agrees(events[c], r, n) => Agrees(Tail(events[c]) \o s, r, n)
            /\ events[c] # <<>> /\ Head(events[c]) # Removed(r.id) =>
                 (Withdraws(events[c], r.id) => Withdraws(Tail(events[c]) \o s, r.id))
        BY <1>q, <2>1, <3>1, QueuesLead
      <4> QED BY <2>2, <3>3, <4>1
    <3> QED BY <1>m, <3>2, <3>3
  <2>4. Dead(r.id) => Dead(r.id)'
    BY <1>d, <1>r
  <2>5. Tracked(c, r)
    BY <1>r
  <2> QED BY <1>m, <2>3, <2>4, <2>5, TrackedCarry
\* nothing happens to what the app sees and hears: only other callbacks come and go
<1>s. ASSUME NEW s \in Seq(Events), \A k \in DOMAIN s : s[k].type \notin Fields,
             \/ events'[c] = events[c] \o s
             \/ /\ events[c] # <<>> /\ events'[c] = Tail(events[c]) \o s
                /\ Head(events[c]).type \notin Fields \cup {"removed"},
             up'[c] = up[c] \/ (up[c] # <<>> /\ Head(up[c]).op \notin WriteOps
                                /\ up'[c] = Tail(up[c])),
             UNCHANGED <<server, table, live, known, data, lost>>
      PROVE  Tracked(c, x)'
  <2>1. x \in RowsOf(c) /\ x.id \in Ids
    BY <1>r, <1>s DEF RowsOf
  <2>2. Overlay(server'[x.id], up'[c], x.id) = Overlay(server[x.id], up[c], x.id)
    BY <1>q, <1>s, OverlayTail
  <2>3. Unheard(c, x.id) => Tracked(c, x)'
    BY <1>s DEF Unheard, Tracked
  <2>4. Watched(c, x.id) => Watched(c, x.id)'
    BY <1>s, <2>2 DEF Watched, Shown
  <2>5. Head(events[c]).type \notin Fields \cup {"removed"} =>
           Head(events[c]).type \notin Fields /\ Head(events[c]) # Removed(x.id)
    BY DEF Removed
  <2>6. x.id \in lost[c] => x.id \in lost'[c]
    BY <1>s
  <2> QED BY <1>m, <1>s, <2>1, <2>2, <2>3, <2>4, <2>5, <2>6
<1>w. ASSUME NEW w \in Writes, Send(c, w), table[c] # "off",
             UNCHANGED <<server, table, live, data, lost>>
      PROVE  Tracked(c, x)'
  <2>1. x \in RowsOf(c)
    BY <1>w DEF RowsOf
  <2> PICK j \in Ids : j = w.id
    BY DEF Writes
  <2>2. w \in Requests /\ server[j] \in Slot
    BY DEF Requests, TypeOK
  <2> PICK n \in Slot : n = server[j]
    BY <2>2
  <2>3. /\ up'[c] = Append(up[c], w)
        /\ events'[c] = events[c] \o Raised(c, j, n, up'[c])
        /\ known'[c] = KnownAfter(c, j, n, up'[c])
        /\ server' = [server EXCEPT ![j] = n]
    BY <1>w DEF Send, TypeOK
  <2>4. x.id # j => Overlay(server[x.id], up'[c], x.id) = Overlay(server[x.id], up[c], x.id)
    BY <1>q, <2>2, <2>3, OverlayAppend
  <2>5. /\ x \in Rows /\ InView(c, x.id) /\ Tracked(c, x) /\ (Dead(x.id) => Dead(x.id)')
        /\ InView(c, j)
    BY <1>d, <1>r, <2>1
  <2>6. table'[c] = table[c] /\ live'[c] = live[c] /\ lost'[c] = lost[c]
    BY <1>w
  <2>7. table[c] # "off"
    BY <1>w
  <2> QED BY <2>1, <2>3, <2>4, <2>5, <2>6, <2>7, TrackedChange
<1>f. data'[c] # <<>>
  BY DEF RowsOf
<1>1. CASE AnswerRead(c) \/ AnswerNames(c)
  <2>1. PICK e \in Events : e.type \in {"loaded", "named"} /\ events'[c] = Append(events[c], e)
    <3>1. CASE AnswerRead(c)
      <4> DEFINE e == [type |-> "loaded", snap |-> server]
      <4>1. e \in Events /\ e.type = "loaded" /\ events'[c] = Append(events[c], e)
        BY <3>1 DEF AnswerRead, TypeOK, Events
      <4> HIDE DEF e
      <4> QED BY <4>1
    <3>2. CASE AnswerNames(c)
      <4> DEFINE e == [type |-> "named"]
      <4>1. e \in Events /\ e.type = "named" /\ events'[c] = Append(events[c], e)
        BY <3>2 DEF AnswerNames, TypeOK, Events
      <4> HIDE DEF e
      <4> QED BY <4>1
    <3> QED BY <1>1, <3>1, <3>2
  <2>2. events'[c] = events[c] \o <<e>> /\ <<e>> \in Seq(Events)
    BY <1>q, <2>1, AppendIsConcat
  <2>3. \A k \in DOMAIN <<e>> : <<e>>[k].type \notin Fields
    BY <2>1, Short DEF Fields
  <2>4. /\ up[c] # <<>> /\ Head(up[c]).op \notin WriteOps /\ up'[c] = Tail(up[c])
        /\ UNCHANGED <<server, table, live, known, data, lost>>
    BY <1>1 DEF AnswerRead, AnswerNames, Answered, Oldest, TypeOK, app, history, WriteOps
  <2> PICK s : s = <<e>>
    OBVIOUS
  <2> QED BY <1>s, <2>2, <2>3, <2>4
<1>2. CASE AnswerWatch(c)
  <2>0. up[c] # <<>> /\ Head(up[c]).op = "watch" /\ Head(up[c]).id \in Ids
    BY <1>2, OldestRequest DEF AnswerWatch, Oldest
  <2> PICK j \in Ids : j = Head(up[c]).id
    BY <2>0
  <2>1. up[c] # <<>> /\ Head(up[c]).op = "watch" /\ up'[c] = Tail(up[c])
    BY <1>2, <2>0 DEF AnswerWatch, Answered, TypeOK
  <2>2. Overlay(server[j], up[c], j) \in Slot
    BY <1>q, OverlayType DEF TypeOK
  <2> PICK n \in Slot : n = Overlay(server[j], up[c], j)
    BY <2>2
  <2> PICK tell \in BOOLEAN : tell = (table[c] = "asked" /\ n # Absent)
    OBVIOUS
  <2> DEFINE e == Added(j, n)
             s == IF tell THEN <<e>> ELSE <<>>
  <2>3. tell => e \in Events
    BY DEF Slot, Added, Events
  <2>4. e.type = "added" /\ e.id = j
    BY DEF Added
  <2>5. /\ events'[c] = IF tell THEN Append(events[c], e) ELSE events[c]
        /\ live'[c] = live[c] \cup {j}
        /\ known'[c] = IF tell THEN known[c] \cup {j} ELSE known[c]
        /\ lost'[c] = IF Differs(c, j, n) THEN lost[c] \cup {j} ELSE lost[c]
        /\ UNCHANGED <<server, table, data>>
    BY <1>2 DEF AnswerWatch, TypeOK, app
  <2>6. \A i \in Ids : Overlay(server'[i], up'[c], i) = Overlay(server[i], up[c], i)
    <3>1. "watch" \notin WriteOps
      BY DEF WriteOps
    <3> QED BY <1>q, <2>1, <2>5, <3>1, OverlayTail
  <2>7. x \in RowsOf(c) /\ x.id \in Ids /\ x \in Rows
    BY <1>r, <2>5 DEF RowsOf
  <2>8. Shown(c, j) <=> n # Absent
    BY DEF Shown
  <2>9. n = Overlay(server[j], up[c], j)
    OBVIOUS
  <2> HIDE DEF e
  <2>10. s \in Seq(Events) /\ events'[c] = events[c] \o s /\ \A k \in DOMAIN s : s[k].type \notin Fields
    <3>1. CASE tell
      <4>1. <<e>> \in Seq(Events) /\ Append(events[c], e) = events[c] \o <<e>>
        BY <1>q, <2>3, <3>1, AppendIsConcat
      <4>2. \A k \in DOMAIN <<e>> : <<e>>[k].type \notin Fields
        BY <2>4, Short DEF Fields
      <4> QED BY <2>5, <3>1, <4>1, <4>2
    <3>2. CASE ~tell
      BY <1>q, <1>e, <2>5, <3>2
    <3> QED BY <3>1, <3>2
  <2>11. x.id \in lost[c] => x.id \in lost'[c]
    BY <2>5
  <2>12. Watched(c, x.id) => Watched(c, x.id)'
    BY <2>5, <2>6, <2>7 DEF Watched, Shown
  <2>13. ASSUME Unheard(c, x.id) PROVE Tracked(c, x)'
    <3>1. CASE x.id # j
      <4>1. Unheard(c, x.id)'
        BY <2>5, <2>13, <3>1 DEF Unheard
      <4> QED BY <4>1 DEF Tracked
    <3>2. CASE x.id = j /\ Differs(c, j, n)
      <4>1. x.id \in lost'[c]
        BY <2>5, <3>2
      <4> QED BY <4>1 DEF Tracked
    <3>3. CASE x.id = j /\ ~Differs(c, j, n)
      <4>1. n # Absent /\ x.checked = n.checked /\ x.by = n.by
        BY <2>7, <3>3 DEF Differs, SameAs, RowsOf
      <4>2. Watched(c, j)'
        <5>1. table[c] \in {"off", "asked"}
          BY <2>13 DEF Unheard, TypeOK
        <5>2. CASE table[c] = "asked"
          BY <2>5, <4>1, <5>2 DEF Watched
        <5>3. CASE table[c] = "off"
          <6>1. Shown(c, j)' /\ table'[c] = "off" /\ j \in live'[c]
            BY <2>1, <2>5, <2>6, <2>9, <4>1, <5>3 DEF Shown
          <6> QED BY <6>1 DEF Watched
        <5> QED BY <5>1, <5>2, <5>3
      <4>3. \A k \in DOMAIN events[c] : ~Changes(events[c][k], x.id, x.reg)
        <5>1. j \notin Heard(c)
          BY <2>13, <3>3 DEF Heard, Unheard
        <5>2. \A k \in DOMAIN events[c] : Fit(regs[c], Heard(c), events[c][k])
          BY DEF Steady, AllFit
        <5> QED BY <3>3, <5>1, <5>2 DEF Fit, Changes
      <4>4. Agrees(events[c], x, n)
        BY <4>1, <4>3, LeadsNone DEF Agrees
      <4>5. Agrees(events[c] \o s, x, n)
        <5>1. \A k \in DOMAIN s : ~Changes(s[k], x.id, x.reg)
          BY <2>10 DEF Changes
        <5> HIDE DEF s
        <5>2. \A m : Agrees(events[c], x, m) => Agrees(events[c] \o s, x, m)
          BY <1>q, <2>7, <2>10, <5>1, QueuesLead
        <5> QED BY <4>4, <5>2
      <4>6. Overlay(server'[x.id], up'[c], x.id) = n
        BY <2>1, <2>6, <2>9, <3>3
      <4> HIDE DEF s
      <4> QED BY <2>10, <3>3, <4>2, <4>5, <4>6 DEF Tracked
    <3> QED BY <3>1, <3>2, <3>3
  <2> HIDE DEF s
  <2>14. Overlay(server'[x.id], up'[c], x.id) = Overlay(server[x.id], up[c], x.id)
    BY <2>6, <2>7
  <2> QED BY <1>m, <2>7, <2>10, <2>11, <2>12, <2>13, <2>14
<1>3. CASE AnswerTable(c)
  <2> DEFINE There1 == {i \in Ids : Overlay(server[i], up[c], i) # Absent}
             S      == There1 \ known[c]
  <2>1. PICK order \in SetToSeqs(S) :
           events' = [events EXCEPT ![c] = @ \o [k \in DOMAIN order |->
              Added(order[k], Overlay(server[order[k]], up[c], order[k]))]]
    BY <1>3 DEF AnswerTable
  <2> DEFINE told == [k \in DOMAIN order |->
                         Added(order[k], Overlay(server[order[k]], up[c], order[k]))]
  <2>2. S \in SUBSET Ids /\ \A i \in S : Overlay(server[i], up[c], i) # Absent
    OBVIOUS
  <2>3. told \in Seq(Events) /\ \A k \in DOMAIN told : told[k].type \notin Fields
    <3>1. \A k \in DOMAIN told : told[k].type \notin Fields
      BY DEF Added, Fields
    <3>2. told \in Seq(Events)
      <4> HIDE DEF S
      <4> QED BY <2>2, AnnounceType, CallbacksAreEvents
    <3> QED BY <3>1, <3>2
  <2>4. events'[c] = events[c] \o told
    <3> HIDE DEF told
    <3> QED BY <2>1 DEF TypeOK, told
  <2>5. /\ table'[c] = "on" /\ up[c] # <<>> /\ up'[c] = Tail(up[c]) /\ Head(up[c]).op = "table"
        /\ known'[c] = There1
        /\ UNCHANGED <<server, live, data, lost>>
    BY <1>3 DEF AnswerTable, Answered, Oldest, TypeOK, app
  <2>6. x \in RowsOf(c) /\ x.id \in Ids /\ x.id \in RowIds(c)
    BY <1>r, <2>5 DEF RowsOf
  <2>7. Overlay(server'[x.id], up'[c], x.id) = Overlay(server[x.id], up[c], x.id)
    <3>1. "table" \notin WriteOps
      BY DEF WriteOps
    <3> QED BY <1>q, <2>5, <3>1, OverlayTail
  <2>8. Head(up[c]) = Table
    <3>1. Head(up[c]) \in Requests
      BY <2>5, OldestRequest
    <3> QED BY <2>5, <3>1 DEF Requests, Writes, WriteOps, Table
  <2>9. ~Unheard(c, x.id)
    <3> SUFFICES ASSUME Unheard(c, x.id) PROVE FALSE
      OBVIOUS
    <3>1. x.id \notin Heard(c)
      BY DEF Unheard, Heard
    <3>2. WatchAhead(up[c], x.id)
      BY <2>6, <3>1 DEF Steady
    <3> QED BY <1>q, <2>8, <3>2, WatchQueues
  <2>10. Watched(c, x.id) => Watched(c, x.id)'
    <3>1. Watched(c, x.id) => Shown(c, x.id)
      BY <1>r, <2>6 DEF Watched, InView
    <3> QED BY <2>5, <2>6, <3>1 DEF Watched, Shown
  <2>11. x.id \in lost[c] => x.id \in lost'[c]
    BY <2>5
  <2> HIDE DEF told
  <2> QED BY <1>m, <2>3, <2>4, <2>6, <2>7, <2>9, <2>10, <2>11
<1>4. CASE Reject(c)
  <2> DEFINE w == Head(up[c])
  <2>1. up[c] # <<>> /\ w \in Writes /\ w.op \in WriteOps
    BY <1>4, OldestRequest DEF Reject
  <2> PICK j \in Ids : j = w.id
    BY <2>1 DEF Writes
  <2>2. server[j] \in Slot
    BY DEF TypeOK
  <2> PICK n \in Slot : n = server[j]
    BY <2>2
  <2>3. /\ up'[c] = Tail(up[c])
        /\ events'[c] = events[c] \o Raised(c, j, n, up'[c])
        /\ known'[c] = KnownAfter(c, j, n, up'[c])
        /\ server' = [server EXCEPT ![j] = n]
        /\ UNCHANGED <<table, live, data, lost>>
    BY <1>4 DEF Reject, Answered, TypeOK, app, history
  <2>4. x \in RowsOf(c)
    BY <2>3 DEF RowsOf
  <2>5. x.id # j => Overlay(server[x.id], up'[c], x.id) = Overlay(server[x.id], up[c], x.id)
    BY <1>q, <2>1, <2>3, OverlayTail
  <2>6. /\ x \in Rows /\ InView(c, x.id) /\ Tracked(c, x) /\ (Dead(x.id) => Dead(x.id)')
        /\ InView(c, j)
    BY <1>d, <1>r, <2>4
  <2>7. table'[c] = table[c] /\ live'[c] = live[c] /\ lost'[c] = lost[c]
    BY <2>3
  <2>8. table[c] # "off"
    <3>1. 1 \in DOMAIN up[c] /\ up[c][1] = w
      BY <1>q, <2>1
    <3>2. ~NoWrites(up[c])
      BY <2>1, <3>1 DEF NoWrites
    <3> QED BY <3>2 DEF Steady
  <2> QED BY <2>3, <2>4, <2>5, <2>6, <2>7, <2>8, TrackedChange
<1>5. CASE LoadNothing(c) \/ LastItemNamed(c)
  <2>1. /\ events[c] # <<>> /\ Head(events[c]).type \in {"loaded", "named"} /\ table[c] = "off"
    BY <1>5, LoadedUnlistened
  <2>2. Head(events[c]).type \notin Fields \cup {"removed"}
    BY <2>1 DEF Fields
  <2>3. UNCHANGED <<server, live, data, lost>>
    BY <1>5 DEF LoadNothing, LastItemNamed, history
  <2>4. CASE ~HasDelegate(c)
    <3>1. events'[c] = Tail(events[c]) /\ UNCHANGED <<up, table, known>>
      BY <1>5, <2>4 DEF LoadNothing, LastItemNamed, TypeOK
    <3> QED BY <1>e, <1>q, <1>s, <2>1, <2>2, <2>3, <3>1
  <2>5. CASE HasDelegate(c)
    <3>1. ActivateObservers(c)
      BY <1>5, <2>5 DEF LoadNothing, LastItemNamed
    <3> DEFINE S == {i \in live[c] : Overlay(server[i], up[c], i) # Absent}
    <3>2. PICK order \in SetToSeqs(S) :
             events' = [events EXCEPT ![c] = Tail(@) \o
                [k \in DOMAIN order |-> Added(order[k], Overlay(server[order[k]], up[c], order[k]))]]
      BY <3>1 DEF ActivateObservers
    <3> DEFINE told == [k \in DOMAIN order |->
                           Added(order[k], Overlay(server[order[k]], up[c], order[k]))]
    <3>3. S \in SUBSET Ids /\ \A i \in S : Overlay(server[i], up[c], i) # Absent
      BY DEF TypeOK
    <3>4. told \in Seq(Events) /\ \A k \in DOMAIN told : told[k].type \notin Fields
      <4>1. \A k \in DOMAIN told : told[k].type \notin Fields
        BY DEF Added, Fields
      <4>2. told \in Seq(Events)
        <5> HIDE DEF S
        <5> QED BY <3>3, AnnounceType, CallbacksAreEvents
      <4> QED BY <4>1, <4>2
    <3>5. events'[c] = Tail(events[c]) \o told
      <4> HIDE DEF told
      <4> QED BY <3>2 DEF TypeOK, told
    <3>6. up'[c] = Append(up[c], Table) /\ table'[c] = "asked" /\ known'[c] = S
      BY <3>1 DEF ActivateObservers, TypeOK
    <3>7. x \in RowsOf(c) /\ x.id \in Ids
      BY <1>r, <2>3 DEF RowsOf
    <3>8. Overlay(server'[x.id], up'[c], x.id) = Overlay(server[x.id], up[c], x.id)
      <4>1. Table \in Requests /\ Table.op \notin WriteOps
        BY DEF Table, Requests, WriteOps
      <4> QED BY <1>q, <2>3, <3>6, <4>1, OverlayAppend
    <3>9. Unheard(c, x.id) => Tracked(c, x)'
      BY <2>3, <3>6 DEF Unheard, Tracked
    <3>10. Watched(c, x.id) => Watched(c, x.id)'
      <4>1. x.id \notin known[c]
        BY <1>r, <2>1, <3>7 DEF InView
      <4> QED BY <3>6, <4>1 DEF Watched, Shown
    <3>11. /\ x.id \in lost[c] => x.id \in lost'[c]
           /\ Head(events[c]).type \notin Fields /\ Head(events[c]) # Removed(x.id)
      BY <2>2, <2>3 DEF Removed
    <3> HIDE DEF told
    <3> QED BY <1>m, <2>1, <3>4, <3>5, <3>7, <3>8, <3>9, <3>10, <3>11
  <2> QED BY <2>4, <2>5
<1>6. CASE LoadItems(c)
  <2>1. events[c] # <<>> /\ Head(events[c]).type = "loaded"
    BY <1>6 DEF LoadItems, Next1
  <2>2. 1 \in DOMAIN events[c] /\ events[c][1] = Head(events[c])
    BY <1>q, <2>1
  <2>3. AwaitsItems(c)
    BY <2>1, <2>2 DEF AwaitsItems
  <2>4. table[c] = "off" /\ live[c] = {}
    BY <2>3, Waiting DEF Fresh
  <2>5. table' = table /\ live' = live
    BY <1>6 DEF LoadItems
  <2> QED BY <2>4, <2>5 DEF Tracked, Unheard
<1>7. CASE LoadPartialItem(c) \/ PartialChildAdded(c) \/ PopupYesNoRow(c) \/ Quit(c)
  <2>1. Reset(c, "crashed") \/ Reset(c, "closed")
    BY <1>7 DEF LoadPartialItem, PartialChildAdded, PopupYesNoRow, Quit, Crash
  <2> QED BY <1>f, <2>1 DEF Reset, TypeOK
<1>8. CASE OpenList(c)
  <2>1. screen[c] \in {"closed", "crashed"} /\ data' = data
    BY <1>8 DEF OpenList
  <2> QED BY <1>f, <2>1 DEF LoadsFirst, Fresh
<1>9. CASE LeaveScreen(c) \/ SelectChecked(c) \/ PopupNo(c)
  <2>1. UNCHANGED <<events, up, server, table, live, known, data, lost>>
    BY <1>9 DEF LeaveScreen, SelectChecked, PopupNo, sdk, history
  <2>2. events'[c] = events[c] \o <<>>
    BY <1>e, <2>1
  <2> QED BY <1>q, <1>s, <2>1, <2>2
<1>10. CASE AddNewItem(c) \/ RemoveItem(c) \/ SelectUnchecked(c) \/ PopupYes(c)
  <2>1. PICK w \in Writes : Send(c, w)
    <3>1. CASE AddNewItem(c)
      <4>1. PICK j \in Ids : Send(c, AddOf(j))
        BY <3>1 DEF AddNewItem
      <4>2. AddOf(j) \in Writes
        BY DEF AddOf, Writes, WriteOps, Checkers
      <4> QED BY <4>1, <4>2
    <3>2. CASE RemoveItem(c)
      <4>1. PICK k \in DOMAIN data[c] : Send(c, DelOf(data[c][k].id))
        BY <3>2 DEF RemoveItem
      <4>2. DelOf(data[c][k].id) \in Writes
        BY RowOfApp DEF DelOf, Writes, WriteOps, Checkers
      <4> QED BY <4>1, <4>2
    <3>3. CASE SelectUnchecked(c) \/ PopupYes(c)
      <4>1. PICK k \in DOMAIN data[c] : Send(c, ReverseCheckedOf(c, data[c][k]))
        BY <3>3 DEF SelectUnchecked, PopupYes, ReverseChecked
      <4>2. ReverseCheckedOf(c, data[c][k]) \in Writes
        BY ReverseType
      <4> QED BY <4>1, <4>2
    <3> QED BY <1>10, <3>1, <3>2, <3>3
  <2>2. UNCHANGED <<server, table, live, data, lost>>
    BY <1>10 DEF AddNewItem, RemoveItem, SelectUnchecked, PopupYes, app, history
  <2>3. table[c] # "off"
    BY <1>10 DEF AddNewItem, RemoveItem, SelectUnchecked, PopupYes, Idle, Steady
  <2> QED BY <1>w, <2>1, <2>2, <2>3
<1>11. CASE ItemsChildAdded(c)
  <2> PICK e \in Events : e = Head(events[c])
    BY <1>11, OldestEvent DEF ItemsChildAdded, Next1
  <2>1. events[c] # <<>> /\ e.type = "added"
    BY <1>11 DEF ItemsChildAdded, Next1
  <2>2. e.id \in Ids /\ e.node \in Node
    BY <2>1 DEF Events
  <2>3. events'[c] = Tail(events[c]) /\ UNCHANGED <<server, up, table, live, known>>
    BY <1>11 DEF ItemsChildAdded, TypeOK
  <2>4. CASE e.id \in RowIds(c)
    <3>1. UNCHANGED <<data, lost>>
      BY <1>11, <2>4 DEF ItemsChildAdded
    <3>2. Head(events[c]).type \notin Fields \cup {"removed"}
      BY <2>1 DEF Fields
    <3> QED BY <1>e, <1>q, <1>s, <2>1, <2>3, <3>1, <3>2
  <2>5. CASE e.id \notin RowIds(c)
    <3> DEFINE n == Overlay(server[e.id], up[c], e.id)
               new == Row(e.id, e.node, regs[c][e.id] + 1)
    <3>1. /\ data'[c] = Append(data[c], new)
          /\ lost'[c] = IF SameAs(Row(e.id, e.node, 1), n) THEN lost[c] \ {e.id}
                        ELSE lost[c] \cup {e.id}
      BY <1>11, <2>5 DEF ItemsChildAdded, TypeOK
    <3>2. /\ new.id = e.id /\ new.reg = regs[c][e.id] + 1
          /\ new.checked = e.node.checked /\ new.by = e.node.by
      BY DEF Row
    <3>3. SameAs(Row(e.id, e.node, 1), n) =>
             n # Absent /\ new.checked = n.checked /\ new.by = n.by
      BY <3>2 DEF SameAs, Row
    <3> HIDE DEF new
    <3>4. x \in RowsOf(c) \/ x = new
      <4>1. /\ DOMAIN data'[c] = DOMAIN data[c] \cup {Len(data[c]) + 1}
            /\ data'[c][Len(data[c]) + 1] = new
            /\ \A k \in DOMAIN data[c] : data'[c][k] = data[c][k]
        BY <1>q, <3>1
      <4> QED BY <4>1 DEF RowsOf
    <3>5. CASE x \in RowsOf(c)
      <4>1. x.id # e.id /\ x.id \in Ids
        BY <1>r, <2>5, <3>5
      <4>2. x.id \in lost[c] => x.id \in lost'[c]
        BY <3>1, <4>1
      <4>3. Overlay(server'[x.id], up'[c], x.id) = Overlay(server[x.id], up[c], x.id)
        BY <2>3
      <4>4. Unheard(c, x.id) => Tracked(c, x)'
        BY <2>3 DEF Unheard, Tracked
      <4>5. Watched(c, x.id) => Watched(c, x.id)'
        BY <2>3 DEF Watched, Shown
      <4>6. Head(events[c]).type \notin Fields /\ Head(events[c]) # Removed(x.id)
        BY <2>1 DEF Fields, Removed
      <4>7. events'[c] = Tail(events[c]) \o <<>>
        BY <1>e, <2>1, <2>3
      <4> QED BY <1>m, <1>q, <2>1, <3>5, <4>2, <4>3, <4>4, <4>5, <4>6, <4>7
    <3>6. CASE x = new
      <4>1. CASE ~SameAs(Row(e.id, e.node, 1), n)
        <5>1. x.id \in lost'[c]
          BY <3>1, <3>2, <3>6, <4>1
        <5> QED BY <5>1 DEF Tracked
      <4>2. CASE SameAs(Row(e.id, e.node, 1), n) /\ e.id \in known[c]
        <5>1. Watched(c, e.id)'
          BY <2>3, <4>2 DEF Watched
        <5>2. \A k \in DOMAIN Tail(events[c]) : ~Changes(Tail(events[c])[k], x.id, x.reg)
          <6>1. ASSUME NEW k \in DOMAIN Tail(events[c]), Changes(Tail(events[c])[k], x.id, x.reg)
                PROVE  FALSE
            <7>1. k + 1 \in DOMAIN events[c] /\ Tail(events[c])[k] = events[c][k + 1]
              BY <1>q, <2>1
            <7>2. Fit(regs[c], Heard(c), Tail(events[c])[k])
              BY <7>1 DEF Steady, AllFit
            <7>3. regs[c][e.id] + 1 <= regs[c][e.id]
              BY <3>2, <3>6, <6>1, <7>2 DEF Fit, Changes
            <7>4. regs[c][e.id] \in Nat
              BY <1>q, <2>2
            <7> QED BY <7>3, <7>4
          <6> QED BY <6>1
        <5>3. Agrees(events'[c], x, n)
          BY <2>3, <3>3, <3>6, <4>2, <5>2, LeadsNone DEF Agrees
        <5>4. Overlay(server'[x.id], up'[c], x.id) = n
          BY <2>3, <3>2, <3>6
        <5> QED BY <3>2, <3>6, <5>1, <5>3, <5>4 DEF Tracked
      <4>3. CASE e.id \notin known[c]
        <5> DEFINE t == Tail(events[c])
        <5>1. LastTells(events[c], e.id, FALSE)
          <6>1. LastTells(events[c], e.id, e.id \in known[c])
            BY <2>2 DEF InStep
          <6>2. (e.id \in known[c]) = FALSE
            BY <4>3
          <6> QED BY <6>1, <6>2
        <5>2. LastTells(t, e.id, FALSE) /\ Tellings(t, e.id) # {}
          <6>1. /\ LastTells(Tail(events[c]), e.id, FALSE)
                /\ Tellings(Tail(events[c]), e.id) = {} =>
                     IF Head(events[c]).type \in {"added", "removed"} /\ Head(events[c]).id = e.id
                       THEN Head(events[c]).type = "added" <=> FALSE
                       ELSE Tellings(events[c], e.id) = {}
            BY <1>q, <2>1, <5>1, TellingsTail
          <6> QED BY <2>1, <6>1
        <5>3. t \in Seq(Events)
          BY <2>1, OldestEvent
        <5>4. Len(t) \in Nat /\ Tellings(t, e.id) \in SUBSET (1 .. Len(t))
          BY <5>3 DEF Tellings
        <5> HIDE DEF t
        <5>5. PICK k \in Tellings(t, e.id) : \A m \in Tellings(t, e.id) : m <= k
          BY <5>2, <5>4, MaxExists
        <5>6. ~ \E m \in Tellings(t, e.id) : m > k
          BY <5>4, <5>5
        <5>7. t[k].type # "added"
          BY <5>2, <5>6 DEF LastTells
        <5>8. k \in DOMAIN t /\ t[k].type = "removed" /\ t[k].id = e.id
          BY <5>7 DEF Tellings
        <5>9. t[k] = Removed(e.id)
          <6>1. t[k] \in Events
            BY <5>3, <5>8
          <6> QED BY <5>8, <6>1 DEF Events, Removed
        <5>10. Withdraws(events'[c], x.id)
          BY <2>3, <3>2, <3>6, <5>8, <5>9 DEF Withdraws, t
        <5> QED BY <5>10 DEF Tracked
      <4> QED BY <4>1, <4>2, <4>3
    <3> QED BY <3>4, <3>5, <3>6
  <2> QED BY <2>4, <2>5
<1>12. CASE ItemsChildRemoved(c)
  <2> PICK e \in Events : e = Head(events[c])
    BY <1>12, OldestEvent DEF ItemsChildRemoved, Next1
  <2>1. events[c] # <<>> /\ e.type = "removed"
    BY <1>12 DEF ItemsChildRemoved, Next1
  <2> PICK j \in Ids : j = e.id
    BY <2>1 DEF Events
  <2> DEFINE q == RemoveFirstMatch(data[c], LAMBDA r : r.id = j)
  <2>2. data'[c] = q /\ events'[c] = Tail(events[c])
        /\ UNCHANGED <<server, up, table, live, known, lost>>
    BY <1>12 DEF ItemsChildRemoved, TypeOK, history
  <2>3. /\ \A k \in DOMAIN q : \E m \in DOMAIN data[c] : q[k] = data[c][m]
        /\ \A k \in DOMAIN q : q[k].id # j
    BY <1>q, RemoveRow
  <2> HIDE DEF q
  <2>4. x \in RowsOf(c) /\ x.id # j
    BY <2>2, <2>3 DEF RowsOf
  <2>5. Head(events[c]).type \notin Fields /\ Head(events[c]) # Removed(x.id)
    BY <2>1, <2>4 DEF Fields, Removed
  <2>6. Overlay(server'[x.id], up'[c], x.id) = Overlay(server[x.id], up[c], x.id)
    BY <2>2
  <2>7. Unheard(c, x.id) => Tracked(c, x)'
    BY <2>2 DEF Unheard, Tracked
  <2>8. Watched(c, x.id) => Watched(c, x.id)'
    BY <2>2 DEF Watched, Shown
  <2>9. x.id \in lost[c] => x.id \in lost'[c]
    BY <2>2
  <2>10. events'[c] = Tail(events[c]) \o <<>>
    BY <1>e, <2>1, <2>2
  <2> QED BY <1>m, <1>q, <2>1, <2>4, <2>5, <2>6, <2>7, <2>8, <2>9, <2>10
<1>13. CASE ItemUpdated(c)
  <2> PICK e \in Events : e = Head(events[c])
    BY <1>13, OldestEvent DEF ItemUpdated, Next1
  <2> DEFINE New(r) == IF r.id # e.id \/ r.reg > e.regs THEN r
                       ELSE IF e.type = "checked" THEN [r EXCEPT !.checked = e.value]
                       ELSE [r EXCEPT !.by = e.value]
  <2>1. /\ data'[c] = [k \in DOMAIN data[c] |-> New(data[c][k])]
        /\ events[c] # <<>> /\ events'[c] = Tail(events[c]) /\ e.type \in Fields
        /\ UNCHANGED <<server, up, table, live, known, lost>>
    BY <1>13 DEF ItemUpdated, TypeOK, Next1, history, Fields
  <2>2. PICK r \in RowsOf(c) : x = New(r)
    <3> HIDE DEF New
    <3> QED BY <2>1 DEF RowsOf
  <2>3. r \in Rows /\ r.id \in Ids /\ r.reg = regs[c][r.id] /\ Tracked(c, r)
    BY <1>r
  <2>4. x.id = r.id /\ x.reg = r.reg
    BY <2>2, <2>3 DEF Rows
  <2>5. e.regs <= regs[c][e.id]
    <3>1. 1 \in DOMAIN events[c] /\ events[c][1] = e
      BY <1>q, <2>1
    <3>2. Fit(regs[c], Heard(c), e)
      BY <3>1 DEF Steady, AllFit
    <3> QED BY <2>1, <3>2 DEF Fit
  <2>6. ASSUME NEW n, Agrees(events[c], r, n) PROVE Agrees(events'[c], x, n)
    <3>1. /\ ~Changes(e, r.id, r.reg) => Leads(Tail(events[c]), r.id, r.reg, r, n)
          /\ Changes(e, r.id, r.reg) /\ e.type = "checked" =>
                Leads(Tail(events[c]), r.id, r.reg, [r EXCEPT !.checked = e.value], n)
          /\ Changes(e, r.id, r.reg) /\ e.type = "checked_by_id" =>
                Leads(Tail(events[c]), r.id, r.reg, [r EXCEPT !.by = e.value], n)
      BY <1>q, <2>1, <2>3, <2>6, LeadsTail DEF Agrees
    <3>2. e.regs \in Nat /\ r.reg \in Nat
      BY <2>1, <2>3 DEF Events, Fields, Rows
    <3>3. Changes(e, r.id, r.reg) <=> r.id = e.id /\ ~(r.reg > e.regs)
      BY <2>1, <2>3, <2>5, <3>2 DEF Changes
    <3>4. Leads(Tail(events[c]), r.id, r.reg, x, n)
      <4>1. CASE ~Changes(e, r.id, r.reg)
        BY <2>2, <3>1, <3>3, <4>1
      <4>2. CASE Changes(e, r.id, r.reg) /\ e.type = "checked"
        BY <2>2, <3>1, <3>3, <4>2
      <4>3. CASE Changes(e, r.id, r.reg) /\ e.type = "checked_by_id"
        BY <2>2, <3>1, <3>3, <4>3
      <4> QED BY <2>1, <4>1, <4>2, <4>3 DEF Fields
    <3> QED BY <2>1, <2>4, <3>4 DEF Agrees
  <2> HIDE DEF New
  <2>7. Withdraws(events[c], r.id) => Withdraws(events'[c], r.id)
    <3>1. e # Removed(r.id)
      BY <2>1 DEF Fields, Removed
    <3>2. events[c] # <<>> /\ Head(events[c]) # Removed(r.id) =>
             (Withdraws(events[c], r.id) => Withdraws(Tail(events[c]) \o <<>>, r.id))
      <4>1. \A k \in DOMAIN <<>> : ~Changes(<<>>[k], r.id, r.reg)
        OBVIOUS
      <4> QED BY <1>q, <2>3, <4>1, QueuesLead
    <3> QED BY <1>e, <2>1, <3>1, <3>2
  <2>8. Unheard(c, r.id) => Tracked(c, x)'
    BY <2>1, <2>4 DEF Unheard, Tracked
  <2>9. /\ Watched(c, r.id) => Watched(c, r.id)'
        /\ Overlay(server'[r.id], up'[c], r.id) = Overlay(server[r.id], up[c], r.id)
        /\ r.id \in lost[c] => r.id \in lost'[c]
        /\ Dead(r.id) => Dead(r.id)'
    BY <1>d, <2>1, <2>3 DEF Watched, Shown
  <2> QED BY <2>3, <2>4, <2>6, <2>7, <2>8, <2>9, TrackedCarry
<1> QED BY <1>1, <1>2, <1>3, <1>4, <1>5, <1>6, <1>7, <1>8, <1>9, <1>10, <1>11, <1>12, <1>13
        DEF Step, ServerStep, MainStep, UserStep

\* What an app without writes saw, and sees no more, is dead: the commit removed it.
LEMMA RemovedIsDead ==
  ASSUME TypeOK, OneTable, NEW c \in Users, Commit(c), NEW d \in Users,
         NoWrites(up[d]), NEW j \in Ids, Shown(d, j), ~Shown(d, j)'
  PROVE  Dead(j)'
<1>1. ASSUME NEW b \in Users
      PROVE  \/ up'[b] = up[b]
             \/ up[b] # <<>> /\ Head(up[b]).op \in WriteOps /\ up'[b] = Tail(up[b])
  <2>1. up[c] # <<>> /\ Head(up[c]).op \in WriteOps /\ up' = [up EXCEPT ![c] = Tail(@)]
    BY DEF Commit, Answered
  <2> QED BY <2>1 DEF TypeOK
<1>2. \A b \in Users : up[b] \in Seq(Requests)
  BY DEF TypeOK
<1>3. up'[d] = up[d]
  <2>1. up[d] # <<>> => 1 \in DOMAIN up[d] /\ Head(up[d]) = up[d][1]
    BY <1>2
  <2> QED BY <1>1, <2>1 DEF NoWrites
<1>4. ~WritesOn(up[d], j) /\ ~WritesOn(up'[d], j)
  BY <1>3 DEF NoWrites, WritesOn
<1>5. server[j] # Absent /\ server'[j] = Absent
  BY <1>4, OverlayUnwritten DEF Shown
<1>6. j \in used' /\ ~Named(server'[j])
  <2>1. used' = used
    BY DEF Commit
  <2> QED BY <1>5, <2>1 DEF OneTable, Unborn, Named
<1>7. ASSUME NEW b \in Users PROVE ~Adding(up'[b], j)
  <2>1. ~Adding(up[b], j)
    BY <1>5 DEF OneTable, AddsAreNews
  <2> QED BY <1>1, <1>2, <2>1, WritesOnQueue
<1> QED BY <1>6, <1>7 DEF Dead

\* Every step keeps every row tracked.
LEMMA TrackedStep ==
  /\ TypeOK /\ TypeOK' /\ LoadingComesFirst /\ NamesComeOnce /\ NoDuplicateRows
  /\ OneTable /\ RowsFollow /\ ListenersSteady /\ RowsTracked /\ [Next]_vars
  => RowsTracked'
<1> SUFFICES ASSUME TypeOK, TypeOK', LoadingComesFirst, NamesComeOnce, NoDuplicateRows,
                    OneTable, RowsFollow, ListenersSteady, RowsTracked, [Next]_vars,
                    NEW d \in Users, NEW x \in RowsOf(d)'
             PROVE  Tracked(d, x)'
  BY DEF RowsTracked
<1>1. /\ LoadsFirst(d) /\ NamesOnce(d) /\ Once(data[d]) /\ Steady(d)
      /\ \A i \in Ids : InView(d, i) /\ InStep(d, i)
      /\ \A r \in RowsOf(d) : Tracked(d, r)
  BY DEF LoadingComesFirst, NamesComeOnce, NoDuplicateRows, Once, RowsFollow,
         ListenersSteady, RowsTracked
<1>r. ASSUME data'[d] = data[d]
      PROVE  x \in RowsOf(d) /\ x \in Rows /\ x.id \in Ids /\ Tracked(d, x)
  <2>1. x \in RowsOf(d)
    BY <1>r DEF RowsOf
  <2>2. PICK k \in DOMAIN data[d] : data[d][k] = x
    BY <2>1 DEF RowsOf
  <2>3. x \in Rows /\ x.id \in Ids
    BY <2>2, RowOfApp
  <2> QED BY <1>1, <2>1, <2>3
<1>x. ASSUME server' = server, up'[d] = up[d], events'[d] = events[d], table'[d] = table[d],
             known'[d] = known[d], live'[d] = live[d], lost'[d] = lost[d], data'[d] = data[d],
             Dead(x.id) => Dead(x.id)'
      PROVE  Tracked(d, x)'
  <2>1. Tracked(d, x)
    BY <1>r, <1>x
  <2>2. Unheard(d, x.id) => Tracked(d, x)'
    BY <1>x DEF Unheard, Tracked
  <2>3. Watched(d, x.id) => Watched(d, x.id)'
    BY <1>x DEF Watched, Shown
  <2> QED BY <1>x, <2>1, <2>2, <2>3, TrackedCarry
<1>2. CASE UNCHANGED vars
  <2>1. UNCHANGED <<server, used, up, events, table, known, live, lost, data>>
    BY <1>2 DEF vars, sdk, app, history
  <2>2. Dead(x.id) => Dead(x.id)'
    BY <2>1 DEF Dead
  <2> QED BY <1>x, <2>1, <2>2
<1>3. CASE Next
  <2> PICK c \in Users : Step(c)
    BY <1>3 DEF Next, Step
  <2>1. CASE Commit(c)
    <3>1. PICK j \in Ids, n \in Slot :
            /\ server' = [server EXCEPT ![j] = n] /\ j = Head(up[c]).id
            /\ events'[d] = events[d] \o Raised(d, j, n, up'[d])
            /\ known'[d] = KnownAfter(d, j, n, up'[d])
            /\ \/ up'[d] = up[d]
               \/ up[d] # <<>> /\ Head(up[d]).op \in WriteOps /\ up'[d] = Tail(up[d])
            /\ \A i \in Ids : i # j =>
                  Overlay(server[i], up'[d], i) = Overlay(server[i], up[d], i)
            /\ UNCHANGED <<used, table, live, regs, data, screen, popup, lost>>
      BY <2>1, CommitSeen
    <3>2. /\ table'[d] = table[d] /\ live'[d] = live[d] /\ lost'[d] = lost[d]
          /\ data'[d] = data[d]
      BY <3>1
    <3>3. x \in RowsOf(d) /\ x \in Rows /\ x.id \in Ids /\ Tracked(d, x)
      BY <1>r, <3>2
    <3>4. InView(d, x.id) /\ InView(d, j) /\ Steady(d)
      BY <1>1, <3>3
    <3>5. Dead(x.id) => Dead(x.id)'
      BY <3>3, DeadStays
    <3>6. table[d] = "off" /\ Shown(d, j) /\ ~Shown(d, j)' => Dead(j)'
      <4>1. table[d] = "off" => NoWrites(up[d])
        BY <3>4 DEF Steady
      <4> QED BY <2>1, <4>1, RemovedIsDead
    <3>7. x.id # j => Overlay(server[x.id], up'[d], x.id) = Overlay(server[x.id], up[d], x.id)
      BY <3>1, <3>3
    <3>8. /\ server' = [server EXCEPT ![j] = n]
          /\ events'[d] = events[d] \o Raised(d, j, n, up'[d])
          /\ known'[d] = KnownAfter(d, j, n, up'[d])
      BY <3>1
    <3> QED BY <3>2, <3>3, <3>4, <3>5, <3>6, <3>7, <3>8, TrackedChange
  <2>2. CASE ~Commit(c) /\ d = c
    BY <1>1, <2>2, TrackedOwn
  <2>3. CASE ~Commit(c) /\ d # c
    <3>1. Untouched(d) /\ lost'[d] = lost[d]
      BY <2>3, OthersUntouched, OthersRows DEF Step
    <3>2. server' = server
      BY <2>3, QueueStep
    <3>3. data'[d] = data[d]
      BY <3>1 DEF Untouched
    <3>4. Dead(x.id) => Dead(x.id)'
      BY <1>r, <3>3, DeadStays
    <3> QED BY <1>x, <3>1, <3>2, <3>4 DEF Untouched
  <2> QED BY <2>1, <2>2, <2>3
<1> QED BY <1>2, <1>3

\* Every row is tracked in every behaviour.
LEMMA TrackedHolds == Spec => []RowsTracked
<1>1. Init => RowsTracked
  BY DEF Init, RowsTracked, RowsOf
<1>2. /\ TypeOK /\ TypeOK' /\ LoadingComesFirst /\ NamesComeOnce /\ NoDuplicateRows
      /\ OneTable /\ RowsFollow /\ ListenersSteady /\ RowsTracked /\ [Next]_vars
      => RowsTracked'
  BY TrackedStep
<1> QED BY <1>1, <1>2, TypeCorrect, LoadingFirst, NamesComeOnceHolds, RowsAreUnique,
           OneTableHolds, RowsFollowHolds, SteadyHolds, PTL DEF Spec

\* Once nothing is under way, a row of an item that was never removed shows the check
\* and the checker the server holds, unless the item changed after the snapshot or the
\* announcement the row was made from and before its childChanged listener was answered:
\* no later change is missed, applied out of order, or handled by a stale registration.
THEOREM WatchedRowsAreRight == Spec => []WatchedRowsFollowServer
<1>1. RowsTracked => WatchedRowsFollowServer
  <2> SUFFICES ASSUME RowsTracked, NEW c \in Users, Settled(c), NEW k \in DOMAIN data[c],
                      Named(server[data[c][k].id]), data[c][k].id \notin lost[c]
               PROVE  SameAs(data[c][k], server[data[c][k].id])
    BY DEF WatchedRowsFollowServer
  <2> PICK r : r = data[c][k]
    OBVIOUS
  <2>1. Tracked(c, r)
    BY DEF RowsTracked, RowsOf
  <2>2. up[c] = <<>> /\ events[c] = <<>> /\ table[c] = "on"
    BY DEF Settled
  <2>3. Agrees(<<>>, r, Overlay(server[r.id], up[c], r.id))
    BY <2>1, <2>2 DEF Tracked, Dead, Withdraws, Unheard
  <2>4. Overlay(server[r.id], up[c], r.id) = server[r.id]
    <3>1. ~WritesOn(up[c], r.id)
      BY <2>2 DEF WritesOn
    <3> QED BY <3>1, OverlayUnwritten
  <2>5. \A X, old, v : Ends(<<>>, X, old, v) => old = v
    BY DEF Ends, Places
  <2>6. r.checked = server[r.id].checked /\ r.by = server[r.id].by
    BY <2>3, <2>4, <2>5 DEF Agrees, Leads
  <2> QED BY <2>6 DEF SameAs, Named
<1> QED BY <1>1, TrackedHolds, PTL

-----------------------------------------------------------------------------
(***************************************************************************)
(* Loading is owed its end.  While the spinner turns the read, the names   *)
(* or an answer of theirs is under way: what other apps do adds callbacks  *)
(* of listeners at most, and each step of the loading leads to the next.   *)
(***************************************************************************)
LoadDue(d)  == screen[d] = "loading" =>
                  table[d] = "off" /\ (AwaitsItems(d) \/ NamesDue(d) = 1)
LoadsAreDue == \A d \in Users : LoadDue(d)

\* Nothing is said of the load.
LEMMA DueStays ==
  ASSUME NEW d \in Users, LoadDue(d), screen'[d] = "loading" => screen[d] = "loading",
         table'[d] = table[d], AwaitsItems(d) => AwaitsItems(d)', NamesDue(d)' = NamesDue(d)
  PROVE  LoadDue(d)'
BY DEF LoadDue

\* Callbacks of listeners join the queue of an app; its requests stay.
LEMMA DueCallbacks ==
  ASSUME TypeOK, NEW d \in Users, LoadDue(d), NEW s \in Seq(Events),
         \A k \in DOMAIN s : s[k].type # "named",
         events'[d] = events[d] \o s, up'[d] = up[d], table'[d] = table[d], screen'[d] = screen[d]
  PROVE  LoadDue(d)'
<1>1. events[d] \in Seq(Events)
  BY DEF TypeOK
<1>2. NamesDue(d)' = NamesDue(d)
  BY <1>1, CallbacksNameNobody DEF NamesDue
<1>3. ASSUME NEW k \in DOMAIN events[d]
      PROVE  k \in DOMAIN events'[d] /\ events'[d][k] = events[d][k]
  BY <1>1, <1>3
<1>4. AwaitsItems(d) => AwaitsItems(d)'
  BY <1>3 DEF AwaitsItems
<1> QED BY <1>2, <1>4, DueStays

\* A commit, seen by any app: one that loads has no write of its own under way.
LEMMA DueCommit ==
  ASSUME TypeOK, TypeOK', NEW c \in Users, Commit(c), NEW d \in Users, LoadDue(d), Steady(d)
  PROVE  LoadDue(d)'
<1> DEFINE w == Head(up[c])
           n == Apply(w, server[w.id])
           s == Raised(d, w.id, n, up'[d])
<1>1. up[c] # <<>> /\ w \in Writes /\ w.id \in Ids /\ w.op \in WriteOps
  BY OldestRequest DEF Commit, Writes
<1>2. n \in Slot
  BY <1>1, ApplyType DEF TypeOK
<1>3. up'[d] \in Seq(Requests) /\ up[c] \in Seq(Requests)
  BY DEF TypeOK
<1>4. s \in Seq(Events) /\ \A k \in DOMAIN s : s[k].type # "named"
  BY <1>1, <1>2, <1>3, RaisedNamesNobody
<1>5. events'[d] = events[d] \o s
  BY DEF Commit
<1>6. /\ up'[d] = IF d = c THEN Tail(up[d]) ELSE up[d]
      /\ table' = table /\ screen' = screen
  BY DEF Commit, Answered, TypeOK, app
<1>7. 1 \in DOMAIN up[c] /\ up[c][1] = w
  BY <1>1, <1>3
<1> HIDE DEF w, n, s
<1>8. CASE d = c
  <2>1. ~NoWrites(up[c])
    BY <1>1, <1>7 DEF NoWrites
  <2>2. screen[d] # "loading"
    BY <1>8, <2>1 DEF LoadDue, Steady
  <2> QED BY <1>6, <2>2 DEF LoadDue
<1>9. CASE d # c
  BY <1>4, <1>5, <1>6, <1>9, DueCallbacks
<1> QED BY <1>8, <1>9

\* A step of the app itself, other than a commit.
LEMMA DueOwn ==
  ASSUME TypeOK, TypeOK', NEW c \in Users, LoadsFirst(c), NamesOnce(c), Steady(c), LoadDue(c),
         Step(c), ~Commit(c)
  PROVE  LoadDue(c)'
<1>q. up[c] \in Seq(Requests) /\ events[c] \in Seq(Events)
  BY DEF TypeOK
<1>n. /\ HowMany(up[c], {Names}) \in Nat /\ HowMany(up[c], {Table}) \in Nat
      /\ HowMany(events[c], {NamesThere}) \in Nat
  BY NamesType
<1>l. ASSUME screen'[c] # "loading" PROVE LoadDue(c)'
  BY <1>l DEF LoadDue
<1>i. ASSUME screen[c] # "loading", screen'[c] = screen[c] PROVE LoadDue(c)'
  BY <1>i DEF LoadDue
<1>1. CASE AnswerRead(c)
  <2> DEFINE e == [type |-> "loaded", snap |-> server]
  <2>1. events'[c] = Append(events[c], e) /\ table'[c] = table[c] /\ screen'[c] = screen[c]
    BY <1>1 DEF AnswerRead, TypeOK, app
  <2>2. Len(events[c]) + 1 \in DOMAIN events'[c] /\ events'[c][Len(events[c]) + 1] = e
    BY <1>q, <2>1
  <2>3. AwaitsItems(c)'
    BY <2>2 DEF AwaitsItems
  <2> QED BY <2>1, <2>3 DEF LoadDue
<1>2. CASE AnswerNames(c)
  <2>1. /\ up[c] # <<>> /\ up'[c] = Tail(up[c]) /\ table'[c] = table[c]
        /\ events'[c] = Append(events[c], NamesThere) /\ Head(up[c]).op = "names"
        /\ screen'[c] = screen[c]
    BY <1>2 DEF AnswerNames, Answered, Oldest, TypeOK, NamesThere, app
  <2>2. Head(up[c]) = Names
    BY <2>1, OldestRequest DEF Requests, Names, Writes, WriteOps
  <2>3. HowMany(up[c], {Names}) = HowMany(Tail(up[c]), {Names}) + 1
    BY <1>q, <2>1, <2>2, HowManyTail
  <2>4. HowMany(events'[c], {NamesThere}) = HowMany(events[c], {NamesThere}) + 1
    <3>1. NamesThere \in Events
      BY DEF NamesThere, Events
    <3> QED BY <1>q, <2>1, <3>1, HowManyAppend
  <2>5. HowMany(Tail(up[c]), {Names}) \in Nat
    BY <2>1, OldestRequest, HowManyType
  <2>6. NamesDue(c)' = NamesDue(c)
    BY <1>n, <2>1, <2>3, <2>4, <2>5 DEF NamesDue
  <2>7. ~AwaitsItems(c)
    BY <2>1, Waiting
  <2> QED BY <2>1, <2>6, <2>7, DueStays
<1>3. CASE AnswerWatch(c)
  <2> DEFINE i == Head(up[c]).id
             n == Overlay(server[i], up[c], i)
             tell == table[c] = "asked" /\ n # Absent
  <2>1. /\ up[c] # <<>> /\ up'[c] = Tail(up[c]) /\ table'[c] = table[c]
        /\ events'[c] = IF tell THEN Append(events[c], Added(i, n)) ELSE events[c]
        /\ Head(up[c]).op = "watch" /\ screen'[c] = screen[c]
    BY <1>3 DEF AnswerWatch, Answered, Oldest, TypeOK, app
  <2> HIDE DEF i, n
  <2>2. CASE screen[c] # "loading"
    BY <2>1, <2>2, <1>i
  <2>3. CASE screen[c] = "loading"
    <3>1. events'[c] = events[c]
      BY <2>1, <2>3 DEF LoadDue
    <3>2. Head(up[c]) # Names
      BY <2>1 DEF Names
    <3>3. HowMany(up[c], {Names}) = HowMany(Tail(up[c]), {Names}) + 0
      BY <1>q, <2>1, <3>2, HowManyTail
    <3>4. HowMany(Tail(up[c]), {Names}) \in Nat
      BY <2>1, OldestRequest, HowManyType
    <3>5. NamesDue(c)' = NamesDue(c)
      BY <1>n, <2>1, <3>1, <3>3, <3>4 DEF NamesDue
    <3>6. ~AwaitsItems(c)
      BY <2>1, Waiting
    <3> QED BY <2>1, <3>5, <3>6, DueStays
  <2> QED BY <2>2, <2>3
<1>4. CASE AnswerTable(c)
  <2>1. up[c] # <<>> /\ Head(up[c]).op = "table" /\ screen'[c] = screen[c]
    BY <1>4 DEF AnswerTable, Oldest, app
  <2>2. Head(up[c]) = Table
    BY <2>1, OldestRequest DEF Requests, Table, Writes, WriteOps
  <2>3. HowMany(up[c], {Table}) = HowMany(Tail(up[c]), {Table}) + 1
    BY <1>q, <2>1, <2>2, HowManyTail
  <2>4. HowMany(Tail(up[c]), {Table}) \in Nat
    BY <2>1, OldestRequest, HowManyType
  <2>5. table[c] # "off"
    BY <2>3, <2>4 DEF NamesOnce
  <2>6. screen[c] # "loading"
    BY <2>5 DEF LoadDue
  <2> QED BY <2>1, <2>6, <1>i
<1>5. CASE Reject(c)
  <2>1. up[c] # <<>> /\ Head(up[c]).op \in WriteOps /\ screen'[c] = screen[c]
    BY <1>5 DEF Reject, app
  <2>2. 1 \in DOMAIN up[c] /\ up[c][1] = Head(up[c])
    BY <1>q, <2>1
  <2>3. ~NoWrites(up[c])
    BY <2>1, <2>2 DEF NoWrites
  <2>4. screen[c] # "loading"
    BY <2>3 DEF LoadDue, Steady
  <2> QED BY <2>1, <2>4, <1>i
<1>6. CASE LoadNothing(c) \/ LastItemNamed(c)
  <2>1. screen'[c] # "loading"
    BY <1>6 DEF LoadNothing, LastItemNamed, DataLoaded, HasDelegate, TypeOK
  <2> QED BY <2>1, <1>l
<1>7. CASE LoadItems(c)
  <2>1. events[c] # <<>> /\ Head(events[c]).type = "loaded" /\ AwaitsItems(c)
    <3>1. events[c] # <<>> /\ Head(events[c]).type = "loaded"
      BY <1>7 DEF LoadItems, Next1
    <3>2. 1 \in DOMAIN events[c] /\ events[c][1] = Head(events[c])
      BY <1>q, <3>1
    <3> QED BY <3>1, <3>2 DEF AwaitsItems
  <2>2. up[c] = <<>> /\ Tail(events[c]) = <<>> /\ table[c] = "off"
    BY <2>1, Waiting DEF Fresh
  <2>3. PICK rows \in Seq(Rows), more \in Seq(Requests), told \in Seq(Events) :
           /\ data' = [data EXCEPT ![c] = data[c] \o rows]
           /\ up' = [up EXCEPT ![c] = up[c] \o more]
           /\ events' = [events EXCEPT ![c] = Tail(events[c]) \o told]
           /\ Once(rows)
           /\ \A k \in DOMAIN rows : Head(events[c]).snap[rows[k].id] # Absent
           /\ \A k \in DOMAIN more : more[k].op \in {"watch", "names"}
           /\ \A k \in DOMAIN told : told[k].type = "named"
           /\ HowMany(more, {Names}) + HowMany(told, {[type |-> "named"]}) = 1
    BY <1>7, LoadItemsShape
  <2>4. up'[c] = more /\ events'[c] = told
    <3>1. up'[c] = <<>> \o more /\ events'[c] = <<>> \o told
      BY <2>2, <2>3 DEF TypeOK
    <3> QED BY <3>1
  <2>5. table'[c] = "off"
    BY <1>7, <2>2 DEF LoadItems
  <2>6. NamesDue(c)' = 1
    BY <2>3, <2>4 DEF NamesDue, NamesThere
  <2> QED BY <2>5, <2>6 DEF LoadDue
<1>8. CASE ItemsChildAdded(c) \/ ItemsChildRemoved(c) \/ ItemUpdated(c)
  <2>1. /\ events[c] # <<>> /\ events'[c] = Tail(events[c])
        /\ Head(events[c]).type \notin {"loaded", "named"}
        /\ up'[c] = up[c] /\ table'[c] = table[c] /\ screen'[c] = screen[c]
    BY <1>8 DEF ItemsChildAdded, ItemsChildRemoved, ItemUpdated, Next1, TypeOK
  <2>2. Head(events[c]) # NamesThere
    BY <2>1 DEF NamesThere
  <2>3. HowMany(events[c], {NamesThere}) = HowMany(Tail(events[c]), {NamesThere}) + 0
    BY <1>q, <2>1, <2>2, HowManyTail
  <2>4. HowMany(Tail(events[c]), {NamesThere}) \in Nat
    BY <2>1, OldestEvent, HowManyType
  <2>5. NamesDue(c)' = NamesDue(c)
    BY <1>n, <2>1, <2>3, <2>4 DEF NamesDue
  <2>6. ~AwaitsItems(c)
    BY <2>1, Waiting
  <2> QED BY <2>1, <2>5, <2>6, DueStays
<1>9. CASE LoadPartialItem(c) \/ PartialChildAdded(c) \/ PopupYesNoRow(c) \/ Quit(c)
  <2>1. Reset(c, "crashed") \/ Reset(c, "closed")
    BY <1>9 DEF LoadPartialItem, PartialChildAdded, PopupYesNoRow, Quit, Crash
  <2>2. screen'[c] # "loading"
    BY <2>1 DEF Reset, TypeOK
  <2> QED BY <2>2, <1>l
<1>10. CASE OpenList(c)
  <2>1. up'[c] = <<Read>> /\ table'[c] = table[c] /\ screen[c] \in {"closed", "crashed"}
    BY <1>10 DEF OpenList, TypeOK
  <2>2. table[c] = "off"
    BY <2>1 DEF LoadsFirst, Fresh
  <2>3. 1 \in DOMAIN up'[c] /\ up'[c][1].op = "read"
    BY <2>1 DEF Read
  <2>4. AwaitsItems(c)'
    BY <2>3 DEF AwaitsItems
  <2> QED BY <2>1, <2>2, <2>4 DEF LoadDue
<1>11. CASE LeaveScreen(c)
  <2>1. screen'[c] # "loading"
    BY <1>11 DEF LeaveScreen, TypeOK
  <2> QED BY <2>1, <1>l
<1>12. CASE AddNewItem(c) \/ RemoveItem(c) \/ SelectUnchecked(c) \/ SelectChecked(c)
  <2>1. screen[c] = "enabled" /\ screen'[c] = screen[c]
    BY <1>12 DEF AddNewItem, RemoveItem, SelectUnchecked, SelectChecked, Idle, app
  <2> QED BY <2>1, <1>i
<1>13. CASE PopupNo(c) \/ PopupYes(c)
  <2>1. popup[c] # NoPopup /\ screen'[c] = screen[c]
    BY <1>13 DEF PopupNo, PopupYes
  <2>2. screen[c] # "loading"
    BY <2>1 DEF LoadDue, Steady
  <2> QED BY <2>1, <2>2, <1>i
<1> QED BY <1>1, <1>2, <1>3, <1>4, <1>5, <1>6, <1>7, <1>8, <1>9, <1>10, <1>11, <1>12,
           <1>13 DEF Step, ServerStep, MainStep, UserStep

\* Every step pays, or still owes.
LEMMA DueStep ==
  TypeOK /\ TypeOK' /\ LoadingComesFirst /\ NamesComeOnce /\ ListenersSteady /\ LoadsAreDue
     /\ [Next]_vars => LoadsAreDue'
<1> SUFFICES ASSUME TypeOK, TypeOK', LoadingComesFirst, NamesComeOnce, ListenersSteady,
                    LoadsAreDue, [Next]_vars, NEW d \in Users
             PROVE  LoadDue(d)'
  BY DEF LoadsAreDue
<1>1. LoadDue(d) /\ NamesOnce(d) /\ LoadsFirst(d) /\ Steady(d)
  BY DEF LoadsAreDue, NamesComeOnce, LoadingComesFirst, ListenersSteady
<1>u. ASSUME up'[d] = up[d], events'[d] = events[d], table'[d] = table[d],
             screen'[d] = screen[d]
      PROVE  LoadDue(d)'
  BY <1>1, <1>u DEF LoadDue, AwaitsItems, NamesDue
<1>2. CASE UNCHANGED vars
  BY <1>2, <1>u DEF vars, sdk, app
<1>3. CASE Next
  <2> PICK c \in Users : Step(c)
    BY <1>3 DEF Next, Step
  <2>1. CASE Commit(c)
    BY <1>1, <2>1, DueCommit
  <2>2. CASE ~Commit(c) /\ d = c
    BY <1>1, <2>2, DueOwn
  <2>3. CASE ~Commit(c) /\ d # c
    <3>1. Untouched(d)
      BY <2>3, OthersUntouched DEF Step
    <3> QED BY <1>u, <3>1 DEF Untouched
  <2> QED BY <2>1, <2>2, <2>3
<1> QED BY <1>2, <1>3

\* While the spinner turns one read or answer that ends it is under way, and only one,
\* for any users, items and bounds.
THEOREM LoadingWillEnd == Spec => []LoadingIsOwed
<1>1. Init => LoadsAreDue
  BY DEF Init, LoadsAreDue, LoadDue
<1>2. TypeOK /\ LoadingComesFirst /\ LoadsAreDue => LoadingIsOwed
  <2> SUFFICES ASSUME TypeOK, LoadingComesFirst, LoadsAreDue,
                      NEW c \in Users, screen[c] = "loading"
               PROVE  /\ table[c] = "off"
                      /\ Cardinality({k \in DOMAIN up[c] : up[c][k].op \in {"read", "names"}})
                         + Cardinality({k \in DOMAIN events[c] :
                                           events[c][k].type \in {"loaded", "named"}}) = 1
    BY DEF LoadingIsOwed
  <2> DEFINE P == {k \in DOMAIN up[c] : up[c][k].op \in {"read", "names"}}
             Q == {k \in DOMAIN events[c] : events[c][k].type \in {"loaded", "named"}}
  <2>1. table[c] = "off" /\ (AwaitsItems(c) \/ NamesDue(c) = 1) /\ LoadsFirst(c)
    BY DEF LoadsAreDue, LoadDue, LoadingComesFirst
  <2>2. up[c] \in Seq(Requests) /\ events[c] \in Seq(Events)
    BY DEF TypeOK
  <2>3. CASE AwaitsItems(c)
    <3>1. /\ AwaitsItems(c)
          /\ \/ Len(up[c]) = 1 /\ events[c] = <<>>
             \/ up[c] = <<>> /\ Len(events[c]) = 1
      BY <2>1, <2>3 DEF LoadsFirst
    <3>2. \/ P = {1} /\ Q = {}
          \/ P = {} /\ Q = {1}
      BY <2>2, <3>1 DEF AwaitsItems
    <3> HIDE DEF P, Q
    <3>3. Cardinality({}) = 0 /\ Cardinality({1}) = 1
      BY FS_EmptySet, FS_Singleton
    <3>4. Cardinality(P) + Cardinality(Q) = 1
      BY <3>2, <3>3
    <3> QED BY <2>1, <3>4 DEF P, Q
  <2>4. CASE ~AwaitsItems(c)
    <3>1. ASSUME NEW k \in DOMAIN up[c] PROVE up[c][k].op \in {"read", "names"} <=> up[c][k] = Names
      <4>1. up[c][k] \in Requests /\ up[c][k].op # "read"
        BY <2>2, <2>4 DEF AwaitsItems
      <4> QED BY <4>1 DEF Requests, Names, Writes, WriteOps
    <3>2. ASSUME NEW k \in DOMAIN events[c]
          PROVE  events[c][k].type \in {"loaded", "named"} <=> events[c][k] = NamesThere
      <4>1. events[c][k] \in Events /\ events[c][k].type # "loaded"
        BY <2>2, <2>4 DEF AwaitsItems
      <4> QED BY <4>1 DEF Events, NamesThere
    <3>3. P = Places(up[c], {Names}) /\ Q = Places(events[c], {NamesThere})
      BY <3>1, <3>2 DEF Places
    <3> HIDE DEF P, Q
    <3>4. Cardinality(P) + Cardinality(Q) = NamesDue(c)
      BY <3>3 DEF NamesDue, HowMany
    <3> QED BY <2>1, <2>4, <3>4 DEF P, Q
  <2> QED BY <2>3, <2>4
<1> QED BY <1>1, <1>2, DueStep, TypeCorrect, LoadingFirst, NamesComeOnceHolds, SteadyHolds,
           PTL DEF Spec
=============================================================================
