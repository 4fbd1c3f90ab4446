----------------------------- MODULE SingleList -----------------------------
(***************************************************************************)
(* The screen of one shared list: SingleListManager with its Items and     *)
(* ItemWithObservers, and SingleListViewController on top of it, in the    *)
(* app of every user, over one items table on the server.                  *)
(*                                                                         *)
(* The app's own code runs on the main queue.  Between it and the server   *)
(* stands the database SDK.  Two queues per app carry everything:          *)
(*   up[c]      requests of c on their way to the server, in order: reads, *)
(*              listens, and writes.  A write in up[c] is not acknowledged *)
(*              yet, and c already sees it (Overlay).                      *)
(*   events[c]  callbacks waiting for c's main queue, in order.            *)
(* The server's answer reaches the SDK of every listening app in the step  *)
(* that produces it; that an app is told late is what events[c] expresses. *)
(***************************************************************************)
EXTENDS ItemsTable

CONSTANTS
    MaxWrites,    \* bound: writes sent by all apps together
    MaxRejects,   \* bound: writes the server refuses
    MaxOpens,     \* bound: times each user starts the app and opens the list
    MaxExits,     \* bound: times any user leaves the screen or kills the app
    Removal       \* whether anything calls RemoveItem (no screen does today)

ASSUME BoundsAreNat == /\ MaxWrites \in Nat /\ MaxRejects \in Nat
                       /\ MaxOpens \in Nat /\ MaxExits \in Nat
                       /\ Removal \in BOOLEAN

VARIABLES
    server,     \* what the server holds
    used,       \* the ids already generated
    up, events, \* the two queues of each app
    table,      \* the childAdded/childRemoved listener: "off", "asked", "on"
    live,       \* ids whose childChanged listener the server has answered
    known,      \* ids the table listener has announced and not withdrawn
    regs,       \* childChanged registrations made so far, per id
    data,       \* SingleListManager.data: the rows, in order
    screen,     \* "closed", "loading", "enabled", "left", "crashed"
    popup,      \* the row of the uncheck popup and the item it names
    lost,       \* history: ids whose row missed a change before it was watched
    gone,       \* history: rows whose item vanished before the table listener
    writes, rejects, opens, exits

sdk     == <<up, events, table, live, known, regs>>
app     == <<data, screen, popup>>
history == <<lost, gone>>
bounds  == <<writes, rejects, opens, exits>>
vars    == <<server, used, sdk, app, history, bounds>>

Requests == [op : {"read", "names", "table"}] \cup [op : {"watch"}, id : Ids] \cup Writes
Read     == [op |-> "read"]
Names    == [op |-> "names"]
Table    == [op |-> "table"]
Watch(i) == [op |-> "watch", id |-> i]

Events ==      [type : {"loaded"}, snap : [Ids -> Slot]]
          \cup [type : {"named"}]
          \cup [type : {"added"}, id : Ids, node : Node]
          \cup [type : {"removed"}, id : Ids]
          \cup [type : {"checked"}, id : Ids, value : BOOLEAN, regs : Nat]
          \cup [type : {"checked_by_id"}, id : Ids, value : Checkers, regs : Nat]

\* A row: the Item and the number of its own childChanged registration
Rows     == [id : Ids, checked : BOOLEAN, by : Checkers, reg : Nat \ {0}]
NoPopup  == [row |-> 0, id |-> NONE]
RowIds(c) == {data[c][k].id : k \in DOMAIN data[c]}

Init ==
    /\ server \in [Ids -> Complete \cup {Absent}]
    /\ used = {i \in Ids : server[i] # Absent}
    /\ up = [c \in Users |-> <<>>]
    /\ events = [c \in Users |-> <<>>]
    /\ table = [c \in Users |-> "off"]
    /\ live = [c \in Users |-> {}]
    /\ known = [c \in Users |-> {}]
    /\ regs = [c \in Users |-> [i \in Ids |-> 0]]
    /\ data = [c \in Users |-> <<>>]
    /\ screen = [c \in Users |-> "closed"]
    /\ popup = [c \in Users |-> NoPopup]
    /\ lost = [c \in Users |-> {}]
    /\ gone = [c \in Users |-> {}]
    /\ writes = 0
    /\ rejects = 0
    /\ opens = [c \in Users |-> 0]
    /\ exits = 0

-----------------------------------------------------------------------------
(***************************************************************************)
(* What the SDK of c shows of slot i, and what it raises when the server   *)
(* slot becomes n and c's requests become q.  The table listener announces *)
(* children as whole items once it is answered; a childChanged callback    *)
(* carries one field of an item that was there before and after, and       *)
(* reaches the registrations that exist when it is raised.                 *)
(***************************************************************************)
Seen(c, i, n, q) ==
    IF table[c] = "on" \/ i \in live[c] THEN Overlay(n, q, i) ELSE Absent

Added(i, n) == [type |-> "added", id |-> i, node |-> n]
Removed(i)  == [type |-> "removed", id |-> i]

FieldChanges(c, i, old, new) ==
    (IF old.checked # new.checked
       THEN <<[type |-> "checked", id |-> i, value |-> new.checked, regs |-> regs[c][i]]>>
       ELSE <<>>)
    \o
    (IF old.by # new.by
       THEN <<[type |-> "checked_by_id", id |-> i, value |-> new.by, regs |-> regs[c][i]]>>
       ELSE <<>>)

Raised(c, i, n, q) ==
    LET old == Seen(c, i, server[i], up[c])
        new == Seen(c, i, n, q)
    IN  CASE new # Absent /\ i \notin known[c] /\ table[c] = "on" -> <<Added(i, new)>>
          [] new = Absent /\ i \in known[c]                       -> <<Removed(i)>>
          [] /\ old # Absent /\ new # Absent /\ regs[c][i] > 0
             /\ i \in known[c] \/ table[c] # "on"           -> FieldChanges(c, i, old, new)
          [] OTHER -> <<>>

KnownAfter(c, i, n, q) ==
    LET new == Seen(c, i, n, q)
    IN  IF new = Absent THEN known[c] \ {i}
        ELSE IF table[c] = "on" THEN known[c] \cup {i} ELSE known[c]

\* A write of c: visible to c at once, queued for the server
Send(c, w) ==
    LET q == Append(up[c], w)
    IN  /\ writes < MaxWrites
        /\ writes' = writes + 1
        /\ up' = [up EXCEPT ![c] = q]
        /\ events' = [events EXCEPT ![c] = @ \o Raised(c, w.id, server[w.id], q)]
        /\ known' = [known EXCEPT ![c] = KnownAfter(c, w.id, server[w.id], q)]

-----------------------------------------------------------------------------
(***************************************************************************)
(* The server takes the oldest request of an app.                          *)
(***************************************************************************)
Oldest(c, op) == up[c] # <<>> /\ Head(up[c]).op = op
Answered(c)   == up' = [up EXCEPT ![c] = Tail(@)]

\* observeSingleEvent on the items, and on the users of the list
AnswerRead(c) ==
    /\ Oldest(c, "read")
    /\ Answered(c)
    /\ events' = [events EXCEPT ![c] = Append(@, [type |-> "loaded", snap |-> server])]
    /\ UNCHANGED <<server, used, table, live, known, regs, app, history, bounds>>

AnswerNames(c) ==
    /\ Oldest(c, "names")
    /\ Answered(c)
    /\ events' = [events EXCEPT ![c] = Append(@, [type |-> "named"])]
    /\ UNCHANGED <<server, used, table, live, known, regs, app, history, bounds>>

(***************************************************************************)
(* The childChanged listener of item i goes live.  It is not told about    *)
(* what changed before: a row that differs now has lost that change.  A    *)
(* table listener that waits for its own answer learns of the item.        *)
(***************************************************************************)
SameAs(r, n) == n # Absent /\ r.checked = n.checked /\ r.by = n.by
Differs(c, i, n) == \E k \in DOMAIN data[c] : data[c][k].id = i /\ ~SameAs(data[c][k], n)

AnswerWatch(c) ==
    /\ Oldest(c, "watch")
    /\ Answered(c)
    /\ LET i == Head(up[c]).id
           n == Overlay(server[i], up[c], i)
           tell == table[c] = "asked" /\ n # Absent
       IN  /\ live' = [live EXCEPT ![c] = @ \cup {i}]
           /\ known' = [known EXCEPT ![c] = IF tell THEN @ \cup {i} ELSE @]
           /\ events' = [events EXCEPT ![c] = IF tell THEN Append(@, Added(i, n)) ELSE @]
           /\ lost' = [lost EXCEPT ![c] = IF Differs(c, i, n) THEN @ \cup {i} ELSE @]
    /\ UNCHANGED <<server, used, table, regs, app, gone, bounds>>

\* The table listener goes live: it announces what it had not announced
AnswerTable(c) ==
    /\ Oldest(c, "table")
    /\ Answered(c)
    /\ LET There == {i \in Ids : Overlay(server[i], up[c], i) # Absent}
       IN  /\ \E order \in SetToSeqs(There \ known[c]) :
                 events' = [events EXCEPT ![c] = @ \o
                   [k \in DOMAIN order |->
                      Added(order[k], Overlay(server[order[k]], up[c], order[k]))]]
           /\ known' = [known EXCEPT ![c] = There]
           /\ gone' = [gone EXCEPT ![c] = RowIds(c) \ There]
    /\ table' = [table EXCEPT ![c] = "on"]
    /\ UNCHANGED <<server, used, live, regs, app, lost, bounds>>

\* A write takes effect for everybody, atomically over its fields
Commit(c) ==
    /\ up[c] # <<>> /\ Head(up[c]).op \in WriteOps
    /\ Answered(c)
    /\ LET w == Head(up[c])
           n == Apply(w, server[w.id])
       IN  /\ server' = [server EXCEPT ![w.id] = n]
           /\ events' = [d \in Users |-> events[d] \o Raised(d, w.id, n, up'[d])]
           /\ known' = [d \in Users |-> KnownAfter(d, w.id, n, up'[d])]
    /\ UNCHANGED <<used, table, live, regs, app, history, bounds>>

\* ... or is refused, and the SDK of its author takes it back
Reject(c) ==
    /\ up[c] # <<>> /\ Head(up[c]).op \in WriteOps
    /\ rejects < MaxRejects
    /\ rejects' = rejects + 1
    /\ Answered(c)
    /\ LET i == Head(up[c]).id
       IN  /\ events' = [events EXCEPT ![c] = @ \o Raised(c, i, server[i], up'[c])]
           /\ known' = [known EXCEPT ![c] = KnownAfter(c, i, server[i], up'[c])]
    /\ UNCHANGED <<server, used, table, live, regs, app, history, writes, opens, exits>>

-----------------------------------------------------------------------------
(***************************************************************************)
(* The main queue of an app: the callbacks of SingleListManager.           *)
(***************************************************************************)
Next1(c, type) == events[c] # <<>> /\ Head(events[c]).type = type
HasDelegate(c) == screen[c] \in {"loading", "enabled"}

\* The process ends: everything but the server's data is gone
Reset(c, s) ==
    /\ screen' = [screen EXCEPT ![c] = s]
    /\ up' = [up EXCEPT ![c] = <<>>]
    /\ events' = [events EXCEPT ![c] = <<>>]
    /\ table' = [table EXCEPT ![c] = "off"]
    /\ live' = [live EXCEPT ![c] = {}]
    /\ known' = [known EXCEPT ![c] = {}]
    /\ regs' = [regs EXCEPT ![c] = [i \in Ids |-> 0]]
    /\ data' = [data EXCEPT ![c] = <<>>]
    /\ popup' = [popup EXCEPT ![c] = NoPopup]
    /\ lost' = [lost EXCEPT ![c] = {}]
    /\ gone' = [gone EXCEPT ![c] = {}]

Crash(c) == Reset(c, "crashed") /\ UNCHANGED <<server, used, bounds>>

\* delegate.DataLoaded() of the view controller: the first one enables the screen
DataLoaded(c) ==
    screen' = [screen EXCEPT ![c] = IF @ = "loading" THEN "enabled" ELSE @]

\* The table listener starts; the items the SDK holds are announced from its cache
ActivateObservers(c) ==
    LET There == {i \in live[c] : Overlay(server[i], up[c], i) # Absent}
    IN  /\ table' = [table EXCEPT ![c] = "asked"]
        /\ up' = [up EXCEPT ![c] = Append(@, Table)]
        /\ known' = [known EXCEPT ![c] = There]
        /\ \E order \in SetToSeqs(There) :
              events' = [events EXCEPT ![c] = Tail(@) \o
                [k \in DOMAIN order |->
                   Added(order[k], Overlay(server[order[k]], up[c], order[k]))]]

Row(i, n, r) == [id |-> i, checked |-> n.checked, by |-> n.by, reg |-> r]

-----------------------------------------------------------------------------
(***************************************************************************)
(* Faults: handlers as plausible slips would have left them.  No behaviour *)
(* uses them; put in place of the handler, each breaks a property below.   *)
(***************************************************************************)
\* (fault: an empty snapshot ends the callback before the screen is told)
LoadNothingSilently(c) ==
    /\ Next1(c, "loaded")
    /\ \A i \in Ids : Head(events[c]).snap[i] = Absent
    /\ events' = [events EXCEPT ![c] = Tail(@)]
    /\ UNCHANGED <<server, used, up, table, live, known, regs, app, history, bounds>>

\* (fault: an empty list is shown without listeners)
LoadNothingUnobserved(c) ==
    /\ Next1(c, "loaded")
    /\ \A i \in Ids : Head(events[c]).snap[i] = Absent
    /\ IF HasDelegate(c) THEN DataLoaded(c) ELSE UNCHANGED screen
    /\ events' = [events EXCEPT ![c] = Tail(@)]
    /\ UNCHANGED <<server, used, up, table, live, known, regs, data, popup, history, bounds>>

\* (fault: no FindItemIndex check)
ItemsChildAddedTwice(c) ==
    /\ Next1(c, "added")
    /\ LET ev == Head(events[c])
           r  == regs[c][ev.id] + 1
       IN  /\ ev.node.named
           /\ regs' = [regs EXCEPT ![c][ev.id] = r]
           /\ data' = [data EXCEPT ![c] = Append(@, Row(ev.id, ev.node, r))]
    /\ events' = [events EXCEPT ![c] = Tail(@)]
    /\ UNCHANGED <<server, used, up, table, live, known, screen, popup, history, bounds>>

\* (fault: an item that was ever watched counts as listed)
ItemsChildAddedOnce(c) ==
    /\ Next1(c, "added")
    /\ LET ev == Head(events[c])
       IN  IF regs[c][ev.id] > 0
             THEN UNCHANGED <<data, regs>>
             ELSE /\ ev.node.named
                  /\ regs' = [regs EXCEPT ![c][ev.id] = 1]
                  /\ data' = [data EXCEPT ![c] = Append(@, Row(ev.id, ev.node, 1))]
    /\ events' = [events EXCEPT ![c] = Tail(@)]
    /\ UNCHANGED <<server, used, up, table, live, known, screen, popup, history, bounds>>

\* (fault: the removal of an item only reloads the screen)
ItemsChildRemovedIgnored(c) ==
    /\ Next1(c, "removed")
    /\ events' = [events EXCEPT ![c] = Tail(@)]
    /\ UNCHANGED <<server, used, up, table, live, known, regs, app, history, bounds>>

\* (fault: the row after the one found goes)
ItemsChildRemovedOffByOne(c) ==
    /\ Next1(c, "removed")
    /\ data' = [data EXCEPT ![c] =
          IF Len(@) = 2 /\ @[1].id = Head(events[c]).id THEN <<@[1]>> ELSE Tail(@)]
    /\ events' = [events EXCEPT ![c] = Tail(@)]
    /\ UNCHANGED <<server, used, up, table, live, known, regs, screen, popup, history, bounds>>

\* (fault: Item.Update ignores a checked that turns false)
ItemUpdatedToChecked(c) ==
    /\ Next1(c, "checked") \/ Next1(c, "checked_by_id")
    /\ LET ev == Head(events[c])
           New(r) == IF r.id # ev.id \/ r.reg > ev.regs THEN r
                     ELSE IF ev.type = "checked_by_id" THEN [r EXCEPT !.by = ev.value]
                     ELSE [r EXCEPT !.checked = @ \/ ev.value]
       IN  data' = [data EXCEPT ![c] = [k \in DOMAIN @ |-> New(@[k])]]
    /\ events' = [events EXCEPT ![c] = Tail(@)]
    /\ UNCHANGED <<server, used, up, table, live, known, regs, screen, popup, history, bounds>>

-----------------------------------------------------------------------------
(***************************************************************************)
(* The callback of LoadData.  Every item becomes a row and is watched, and *)
(* the names of the last one end the loading.  The names come from the     *)
(* SDK's cache when the lists screen has the list's node there, and from   *)
(* the server otherwise.  Item.Deserialize casts all four fields.          *)
(***************************************************************************)
LoadNothing(c) ==
    /\ Next1(c, "loaded")
    /\ \A i \in Ids : Head(events[c]).snap[i] = Absent
    /\ IF HasDelegate(c)
         THEN DataLoaded(c) /\ ActivateObservers(c)
         ELSE /\ events' = [events EXCEPT ![c] = Tail(@)]
              /\ UNCHANGED <<up, table, known, screen>>
    /\ UNCHANGED <<server, used, live, regs, data, popup, history, bounds>>

LoadItems(c) ==
    /\ Next1(c, "loaded")
    /\ LET snap == Head(events[c]).snap
           S    == {i \in Ids : snap[i] # Absent}
       IN  /\ S # {}
           /\ \A i \in S : snap[i].named
           /\ \E order \in SetToSeqs(S), cached \in BOOLEAN :
                LET W == [k \in DOMAIN order |-> Watch(order[k])]
                IN  /\ data' = [data EXCEPT ![c] = @ \o
                          [k \in DOMAIN order |->
                             Row(order[k], snap[order[k]], regs[c][order[k]] + 1)]]
                    /\ up' = [up EXCEPT ![c] = @ \o
                          (IF cached THEN W ELSE <<W[1], Names>> \o Tail(W))]
                    /\ events' = [events EXCEPT ![c] = Tail(@) \o
                          (IF cached THEN <<[type |-> "named"]>> ELSE <<>>)]
           /\ regs' = [regs EXCEPT ![c] = [i \in Ids |-> IF i \in S THEN @[i] + 1 ELSE @[i]]]
    /\ UNCHANGED <<server, used, table, live, known, screen, popup, history, bounds>>

LoadPartialItem(c) ==
    /\ Next1(c, "loaded")
    /\ \E i \in Ids : /\ Head(events[c]).snap[i] # Absent
                      /\ ~Named(Head(events[c]).snap[i])
    /\ Crash(c)

\* The names of the last loaded item are there
LastItemNamed(c) ==
    /\ Next1(c, "named")
    /\ IF HasDelegate(c)
         THEN DataLoaded(c) /\ ActivateObservers(c)
         ELSE /\ events' = [events EXCEPT ![c] = Tail(@)]
              /\ UNCHANGED <<up, table, known, screen>>
    /\ UNCHANGED <<server, used, live, regs, data, popup, history, bounds>>

\* A new row; the complete table view serves its childChanged listener at once
ItemsChildAdded(c) ==
    /\ Next1(c, "added")
    /\ LET ev == Head(events[c])
           i  == ev.id
           n  == Overlay(server[i], up[c], i)
       IN  IF i \in RowIds(c)
             THEN UNCHANGED <<data, regs, lost>>
             ELSE /\ ev.node.named
                  /\ regs' = [regs EXCEPT ![c][i] = @ + 1]
                  /\ data' = [data EXCEPT ![c] = Append(@, Row(i, ev.node, regs[c][i] + 1))]
                  /\ lost' = [lost EXCEPT ![c] =
                       IF SameAs(Row(i, ev.node, 1), n) THEN @ \ {i} ELSE @ \cup {i}]
    /\ events' = [events EXCEPT ![c] = Tail(@)]
    /\ UNCHANGED <<server, used, up, table, live, known, screen, popup, gone, bounds>>

PartialChildAdded(c) ==
    /\ Next1(c, "added")
    /\ Head(events[c]).id \notin RowIds(c)
    /\ ~Head(events[c]).node.named
    /\ Crash(c)

\* The first row with the id goes (FindItemIndex); the screen reloads at once
ItemsChildRemoved(c) ==
    /\ Next1(c, "removed")
    /\ LET i == Head(events[c]).id
       IN  data' = [data EXCEPT ![c] = RemoveFirstMatch(@, LAMBDA r : r.id = i)]
    /\ events' = [events EXCEPT ![c] = Tail(@)]
    /\ UNCHANGED <<server, used, up, table, live, known, regs, screen, popup, history, bounds>>

\* ItemWithObserver.Updated: one field of the rows registered when it was raised
ItemUpdated(c) ==
    /\ Next1(c, "checked") \/ Next1(c, "checked_by_id")
    /\ LET ev == Head(events[c])
           New(r) == IF r.id # ev.id \/ r.reg > ev.regs THEN r
                     ELSE IF ev.type = "checked" THEN [r EXCEPT !.checked = ev.value]
                     ELSE [r EXCEPT !.by = ev.value]
       IN  data' = [data EXCEPT ![c] = [k \in DOMAIN @ |-> New(@[k])]]
    /\ events' = [events EXCEPT ![c] = Tail(@)]
    /\ UNCHANGED <<server, used, up, table, live, known, regs, screen, popup, history, bounds>>

-----------------------------------------------------------------------------
(***************************************************************************)
(* The user.                                                               *)
(***************************************************************************)
Exit == exits < MaxExits /\ exits' = exits + 1
Idle(c) == screen[c] = "enabled" /\ popup[c] = NoPopup

\* (fault: LoadData is called a second time while it is loading)
OpenListLoadsTwice(c) ==
    /\ screen[c] \in {"closed", "crashed"}
    /\ opens[c] < MaxOpens
    /\ opens' = [opens EXCEPT ![c] = @ + 1]
    /\ screen' = [screen EXCEPT ![c] = "loading"]
    /\ up' = [up EXCEPT ![c] = <<Read, Read>>]
    /\ UNCHANGED <<server, used, events, table, live, known, regs, data, popup,
                   history, writes, rejects, exits>>

\* SingleListViewController.viewDidLoad in a fresh process
OpenList(c) ==
    /\ screen[c] \in {"closed", "crashed"}
    /\ opens[c] < MaxOpens
    /\ opens' = [opens EXCEPT ![c] = @ + 1]
    /\ screen' = [screen EXCEPT ![c] = "loading"]
    /\ up' = [up EXCEPT ![c] = <<Read>>]
    /\ UNCHANGED <<server, used, events, table, live, known, regs, data, popup,
                   history, writes, rejects, exits>>

\* Back to the lists: the weak delegate is gone, the listeners stay
LeaveScreen(c) ==
    /\ HasDelegate(c) /\ popup[c] = NoPopup
    /\ Exit
    /\ screen' = [screen EXCEPT ![c] = "left"]
    /\ UNCHANGED <<server, used, sdk, data, popup, history, writes, rejects, opens>>

\* The process is killed; requests the server has not taken are lost
Quit(c) ==
    /\ screen[c] \notin {"closed", "crashed"}
    /\ Exit
    /\ Reset(c, "closed")
    /\ UNCHANGED <<server, used, writes, rejects, opens>>

AddNewItem(c) ==
    /\ Idle(c)
    /\ \E i \in Ids \ used :
         /\ used' = used \cup {i}
         /\ Send(c, AddOf(i))
    /\ UNCHANGED <<server, table, live, regs, app, history, rejects, opens, exits>>

RemoveItem(c) ==
    /\ Removal
    /\ Idle(c)
    /\ \E k \in DOMAIN data[c] : Send(c, DelOf(data[c][k].id))
    /\ UNCHANGED <<server, used, table, live, regs, app, history, rejects, opens, exits>>

\* (fault: unchecking leaves the last checker)
ReverseCheckedKeepsName(c, r) == CheckOf(r.id, ~r.checked, c)

\* (fault: the whole item is written instead of its two fields)
ReverseCheckedRewrites(c, r) ==
    [AddOf(r.id) EXCEPT !.checked = ~r.checked, !.by = IF r.checked THEN NONE ELSE c]

ReverseCheckedOf(c, r) ==
    CheckOf(r.id, ~r.checked, IF r.checked THEN NONE ELSE c)
ReverseChecked(c, k) == Send(c, ReverseCheckedOf(c, data[c][k]))

\* didSelectRowAt: an unchecked row is checked, a checked one asks first
SelectUnchecked(c) ==
    /\ Idle(c)
    /\ \E k \in DOMAIN data[c] : ~data[c][k].checked /\ ReverseChecked(c, k)
    /\ UNCHANGED <<server, used, table, live, regs, app, history, rejects, opens, exits>>

\* (fault: the row is counted from zero)
SelectCheckedFromZero(c) ==
    /\ Idle(c)
    /\ \E k \in DOMAIN data[c] :
         /\ data[c][k].checked
         /\ popup' = [popup EXCEPT ![c] = [row |-> k - 1, id |-> data[c][k].id]]
    /\ UNCHANGED <<server, used, sdk, data, screen, history, bounds>>

SelectChecked(c) ==
    /\ Idle(c)
    /\ \E k \in DOMAIN data[c] :
         /\ data[c][k].checked
         /\ popup' = [popup EXCEPT ![c] = [row |-> k, id |-> data[c][k].id]]
    /\ UNCHANGED <<server, used, sdk, data, screen, history, bounds>>

\* The buttons of the popup; "Yes" reverses whatever the row holds by then
PopupNo(c) ==
    /\ popup[c] # NoPopup
    /\ popup' = [popup EXCEPT ![c] = NoPopup]
    /\ UNCHANGED <<server, used, sdk, data, screen, history, bounds>>

PopupYes(c) ==
    /\ popup[c] # NoPopup
    /\ popup[c].row \in DOMAIN data[c]
    /\ popup' = [popup EXCEPT ![c] = NoPopup]
    /\ ReverseChecked(c, popup[c].row)
    /\ UNCHANGED <<server, used, table, live, regs, data, screen, history, rejects, opens, exits>>

PopupYesNoRow(c) ==
    /\ popup[c] # NoPopup
    /\ popup[c].row \notin DOMAIN data[c]
    /\ Crash(c)

-----------------------------------------------------------------------------
ServerStep(c) == \/ AnswerRead(c) \/ AnswerNames(c) \/ AnswerWatch(c)
                 \/ AnswerTable(c) \/ Commit(c)
MainStep(c) ==   \/ LoadNothing(c) \/ LoadItems(c) \/ LoadPartialItem(c)
                 \/ LastItemNamed(c) \/ ItemsChildAdded(c) \/ PartialChildAdded(c)
                 \/ ItemsChildRemoved(c) \/ ItemUpdated(c)
UserStep(c) ==   \/ OpenList(c) \/ LeaveScreen(c) \/ Quit(c)
                 \/ AddNewItem(c) \/ RemoveItem(c)
                 \/ SelectUnchecked(c) \/ SelectChecked(c)
                 \/ PopupNo(c) \/ PopupYes(c) \/ PopupYesNoRow(c)

Next == \E c \in Users : ServerStep(c) \/ Reject(c) \/ MainStep(c) \/ UserStep(c)

Spec == Init /\ [][Next]_vars

(***************************************************************************)
(* The server takes what an app sends as long as the app runs, and the     *)
(* main queue is served.  Users, refusals and process ends are not fair.   *)
(***************************************************************************)
Fairness == \A c \in Users : WF_vars(ServerStep(c)) /\ WF_vars(MainStep(c))
FairSpec == Spec /\ Fairness
-----------------------------------------------------------------------------
(***************************************************************************)
(* Properties.                                                             *)
(***************************************************************************)

\* Every variable holds a value of its kind.
TypeOK ==
    /\ server \in [Ids -> Slot]
    /\ used \subseteq Ids
    /\ up \in [Users -> Seq(Requests)]
    /\ events \in [Users -> Seq(Events)]
    /\ table \in [Users -> {"off", "asked", "on"}]
    /\ live \in [Users -> SUBSET Ids]
    /\ known \in [Users -> SUBSET Ids]
    /\ regs \in [Users -> [Ids -> Nat]]
    /\ data \in [Users -> Seq(Rows)]
    /\ screen \in [Users -> {"closed", "loading", "enabled", "left", "crashed"}]
    /\ popup \in [Users -> {NoPopup} \cup [row : Nat \ {0}, id : Ids]]
    /\ lost \in [Users -> SUBSET Ids]
    /\ gone \in [Users -> SUBSET Ids]
    /\ writes \in Nat
    /\ rejects \in Nat
    /\ opens \in [Users -> Nat]
    /\ exits \in Nat

\* The one read of LoadData comes before everything else: until its callback has run
\* there is no row, no listener and no other traffic that could add a row first, so
\* LoadData may append without looking (AddLoadedItem has no FindItemIndex check).
Fresh(c)       == data[c] = <<>> /\ table[c] = "off" /\ live[c] = {} /\ known[c] = {}
AwaitsItems(c) == \/ \E k \in DOMAIN up[c] : up[c][k].op = "read"
                  \/ \E k \in DOMAIN events[c] : events[c][k].type = "loaded"
LoadsFirst(c)  ==
    /\ screen[c] \in {"closed", "crashed"} =>
          Fresh(c) /\ up[c] = <<>> /\ events[c] = <<>>
    /\ AwaitsItems(c) =>
          /\ Fresh(c) /\ screen[c] \in {"loading", "left"}
          /\ \/ Len(up[c]) = 1 /\ events[c] = <<>>
             \/ up[c] = <<>> /\ Len(events[c]) = 1
LoadingComesFirst == \A c \in Users : LoadsFirst(c)

\* No item has two rows, although LoadData, the cached announcements of
\* ActivateObservers and the announcements of the server overlap: rows are only
\* added after the FindItemIndex check of ItemsChildAdded, or before any listener.
NoDuplicateRows ==
    \A c \in Users : \A j, k \in DOMAIN data[c] :
        data[c][j].id = data[c][k].id => j = k

\* On the server an item is checked exactly if checked_by_id names somebody,
\* whatever clients toggle at the same time and whatever is refused:
\* ReverseChecked sends both fields in one updateChildValues.
CheckedHasChecker ==
    \A i \in Ids : server[i] # Absent => Coherent(server[i])

There       == {i \in Ids : server[i] # Absent}
\* Nothing is under way at c and its listeners are answered
Settled(c)  == up[c] = <<>> /\ events[c] = <<>> /\ table[c] = "on"

\* A settled screen misses no item of the server: what was added between the
\* snapshot of LoadData and the listener of ActivateObservers is announced.
EveryItemListed ==
    \A c \in Users : Settled(c) => There \subseteq RowIds(c)

\* A settled screen has a row for an item that is no more only if the item was
\* removed before the server answered the table listener (SingleListManager has
\* no childRemoved listener until then): later removals and refusals all arrive.
GhostRowsOnlyFromLoading ==
    \A c \in Users : Settled(c) => RowIds(c) \ gone[c] \subseteq There

\* The settled row of an item that was never removed shows the item's state on the
\* server, unless the item changed between the snapshot the row was made from and
\* its childChanged listener.
WatchedRowsFollowServer ==
    \A c \in Users : Settled(c) =>
        \A k \in DOMAIN data[c] :
            LET r == data[c][k]
            IN  Named(server[r.id]) /\ r.id \notin lost[c] => SameAs(r, server[r.id])

\* The force casts of Item.Deserialize (and the subscript of ReverseChecked)
\* never end the process.
NoCrash == \A c \in Users : screen[c] # "crashed"

\* Item.Deserialize takes all four fields for granted: every item LoadData or
\* ItemsChildAdded is about to turn into a row has a title and an author.
DeserializedItemsAreComplete ==
    \A c \in Users : events[c] # <<>> =>
        LET ev == Head(events[c])
        IN  /\ ev.type = "loaded" => \A i \in Ids : ev.snap[i] # Absent => Named(ev.snap[i])
            /\ ev.type = "added" => ev.id \in RowIds(c) \/ ev.node.named

\* An item that was removed never comes back with its title, in no order of
\* commits, refusals and restarts; only a fresh id, still unsent, becomes an item.
RemovedForGood ==
    [][\A i \in Ids :
          /\ i \in used /\ server[i] = Absent
          /\ \A c \in Users : \A k \in DOMAIN up[c] : up[c][k] # AddOf(i)
          => ~Named(server'[i])]_vars

\* "Do you want to ucheck it?" - "Yes": the write that follows unchecks the item
\* whose title the popup shows.
YesUnchecks ==
    [][\A c \in Users : popup[c] # NoPopup /\ writes' # writes /\ popup'[c] = NoPopup
          => up'[c] = Append(up[c], CheckOf(popup[c].id, FALSE, NONE))]_vars

\* The items, as all users share them, behave as the single table of SharedTable.
Shared == INSTANCE SharedTable WITH items <- server
SharesOneTable == Shared!TableSpec

\* While the spinner turns, exactly one read or answer that will end the loading is
\* under way, and nothing is observed yet: LoadData is never left without its callback,
\* and ActivateObservers cannot run a second time, whatever other users do meanwhile.
LoadingIsOwed ==
    \A c \in Users : screen[c] = "loading" =>
        /\ table[c] = "off"
        /\ Cardinality({k \in DOMAIN up[c] : up[c][k].op \in {"read", "names"}})
           + Cardinality({k \in DOMAIN events[c] : events[c][k].type \in {"loaded", "named"}}) = 1

\* The spinner ends: a list being loaded is shown, unless the user goes away or
\* the process ends; the last item of any snapshot, the empty one too, reports it.
LoadingEnds == \A c \in Users : screen[c] = "loading" ~> screen[c] # "loading"

\* Every item the server holds reaches every screen that stays open, without a
\* reload, or is removed again.
EveryItemArrives ==
    \A c \in Users, i \in Ids :
        screen[c] = "enabled" /\ server[i] # Absent
            ~> i \in RowIds(c) \/ server[i] = Absent \/ screen[c] # "enabled"
=============================================================================
