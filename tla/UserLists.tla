----------------------------- MODULE UserLists ------------------------------
(***************************************************************************)
(* The lists of a user: ListsManager and the lists screen above it, in     *)
(* several running apps over one tree.  Two apps may belong to one user    *)
(* (a phone and a tablet).  As in SingleList, up[a] are the requests of a  *)
(* the server has not taken and events[a] the callbacks that wait for a's  *)
(* main queue, both in order; a write in up[a] is visible to a already.    *)
(***************************************************************************)
EXTENDS ListsTable

CONSTANTS
    Apps,         \* the running apps
    MaxWrites,    \* bound: writes sent by all apps together
    MaxRejects,   \* bound: writes the server refuses
    MaxOpens,     \* bound: times each app is started
    MaxExits,     \* bound: times any app is killed
    Inviting,     \* whether invitations are accepted (not wired up today)
    Removal       \* whether anything calls RemoveList (nothing does today)

ASSUME BoundsAreNat == /\ MaxWrites \in Nat /\ MaxRejects \in Nat
                       /\ MaxOpens \in Nat /\ MaxExits \in Nat
                       /\ Inviting \in BOOLEAN /\ Removal \in BOOLEAN

VARIABLES
    server,     \* the tree on the server
    owner,      \* the user each app is logged in as
    author,     \* history: the user who generated an id, Absent before that
    up, events, \* the two queues of each app
    listener,   \* childAdded/childRemoved on users/<u>/lists: "off", "asked", "on"
    live,       \* the lists whose node the SDK listens to, for a row's observer
    data,       \* ListsManager.data: the ids of the rows, in order
    left,       \* listsCounter of LoadData
    screen,     \* "closed", "loading", "enabled", "badcast", "nolist"
    gone,       \* history: rows whose key vanished before the listener
    heard,      \* history: lists whose add the server has taken or refused
    refused,    \* history: lists a join or a removal of which was refused
    writes, rejects, opens, exits

sdk    == <<up, events, listener, live>>
app    == <<data, left, screen>>
told   == <<heard, refused>>
bounds == <<writes, rejects, opens, exits>>
vars   == <<server, owner, author, sdk, app, gone, told, bounds>>

Closed == {"closed", "badcast", "nolist"}

\* "list" and "loaded" read lists/<l>, "users" reads lists/<l>/users, "watch" is
\* the childChanged observer of a row: all of them are about the node of one list
NodeOps  == {"list", "loaded", "users", "watch"}
Requests == [op : {"keys", "listen"}] \cup [op : NodeOps, id : Lists] \cup Writes
Keys       == [op |-> "keys"]
Listen     == [op |-> "listen"]
Node(o, l) == [op |-> o, id |-> l]

Events ==      [type : {"keys"}, ids : SUBSET Lists]
          \cup [type : {"added", "removed"}, id : Lists]
          \cup [type : NodeOps, id : Lists, node : Slot]

RowIds(a) == {data[a][k] : k \in DOMAIN data[a]}

Init ==
    /\ author \in [Lists -> Users \cup {Absent}]
    /\ server = [keys   |-> [u \in Users |-> {l \in Lists : author[l] = u}],
                 lists  |-> [l \in Lists |-> IF author[l] = Absent THEN Absent
                                             ELSE {author[l]}],
                 tables |-> {l \in Lists : author[l] # Absent}]
    /\ owner \in [Apps -> Users]
    /\ up = [a \in Apps |-> <<>>]
    /\ events = [a \in Apps |-> <<>>]
    /\ listener = [a \in Apps |-> "off"]
    /\ live = [a \in Apps |-> {}]
    /\ data = [a \in Apps |-> <<>>]
    /\ left = [a \in Apps |-> 0]
    /\ screen = [a \in Apps |-> "closed"]
    /\ gone = [a \in Apps |-> {}]
    /\ heard = {l \in Lists : author[l] # Absent}
    /\ refused = {}
    /\ writes = 0
    /\ rejects = 0
    /\ opens = [a \in Apps |-> 0]
    /\ exits = 0

-----------------------------------------------------------------------------
(***************************************************************************)
(* What the listener of a has told of, and what it tells when the server   *)
(* holds s and a's requests are q: one list at a time comes or goes.       *)
(***************************************************************************)
KeysSeen(a, s, q) == IF listener[a] = "on" THEN KeysOf(s, q, owner[a]) ELSE {}

KeyEvent(t, l) == [type |-> t, id |-> l]

Raised(a, s, q, l) ==
    LET old == l \in KeysSeen(a, server, up[a])
        new == l \in KeysSeen(a, s, q)
    IN  IF new /\ ~old THEN <<KeyEvent("added", l)>>
        ELSE IF old /\ ~new THEN <<KeyEvent("removed", l)>> ELSE <<>>

\* The bound on writes, taken when the user asks for one
OneMoreWrite == writes < MaxWrites /\ writes' = writes + 1

\* A write of a: visible to a at once, queued for the server
Send(a, w) ==
    LET q == Append(up[a], w)
    IN  /\ OneMoreWrite
        /\ up' = [up EXCEPT ![a] = q]
        /\ events' = [events EXCEPT ![a] = @ \o Raised(a, server, q, w.id)]

-----------------------------------------------------------------------------
(***************************************************************************)
(* The server takes the oldest request of an app.                          *)
(***************************************************************************)
Oldest(a, op) == up[a] # <<>> /\ Head(up[a]).op = op
Answered(a)   == up' = [up EXCEPT ![a] = Tail(@)]

\* observeSingleEvent on users/<u>/lists
AnswerKeys(a) ==
    /\ Oldest(a, "keys")
    /\ Answered(a)
    /\ events' = [events EXCEPT ![a] =
         Append(@, [type |-> "keys", ids |-> KeysOf(server, up'[a], owner[a])])]
    /\ UNCHANGED <<server, owner, author, listener, live, app, gone, told, bounds>>

\* The listener goes live: it announces every key there is
AnswerListen(a) ==
    /\ Oldest(a, "listen")
    /\ Answered(a)
    /\ listener' = [listener EXCEPT ![a] = "on"]
    /\ LET K == KeysOf(server, up'[a], owner[a])
       IN  /\ \E order \in SetToSeqs(K) :
                 events' = [events EXCEPT ![a] = @ \o
                   [k \in DOMAIN order |-> KeyEvent("added", order[k])]]
           /\ gone' = [gone EXCEPT ![a] = RowIds(a) \ K]
    /\ UNCHANGED <<server, owner, author, live, app, told, bounds>>

(***************************************************************************)
(* The node of one list arrives.  The SDK sends for it once: whatever else *)
(* waits for that node is answered with it.                                *)
(***************************************************************************)
About(r, l)  == r.op \in NodeOps /\ r.id = l
NodeEvent(o, l, n) == [type |-> o, id |-> l, node |-> n]

AnswerNode(a) ==
    /\ up[a] # <<>> /\ Head(up[a]).op \in NodeOps
    /\ LET l     == Head(up[a]).id
           mine  == {k \in DOMAIN up[a] : About(up[a][k], l)}
           reads == Picked(up[a], {k \in mine : up[a][k].op # "watch"})
           q     == Picked(up[a], DOMAIN up[a] \ mine)
       IN  /\ up' = [up EXCEPT ![a] = q]
           /\ events' = [events EXCEPT ![a] = @ \o
                [k \in DOMAIN reads |-> NodeEvent(reads[k].op, l, ListOf(server, q, l))]]
           /\ live' = [live EXCEPT ![a] =
                IF Contains(up[a], Node("watch", l)) THEN @ \cup {l} ELSE @]
    /\ UNCHANGED <<server, owner, author, listener, app, gone, told, bounds>>

\* A write takes effect for everybody, all its paths at once
Commit(a) ==
    /\ up[a] # <<>> /\ Head(up[a]).op \in WriteOps
    /\ Answered(a)
    /\ LET w == Head(up[a])
       IN  /\ server' = Apply(w, server)
           /\ events' = [b \in Apps |-> events[b] \o Raised(b, Apply(w, server), up'[b], w.id)]
           /\ heard' = IF w.op = "add" THEN heard \cup {w.id} ELSE heard
    /\ UNCHANGED <<owner, author, listener, live, app, gone, refused, bounds>>

\* ... or is refused, and the SDK of its app takes it back
Reject(a) ==
    /\ up[a] # <<>> /\ Head(up[a]).op \in WriteOps
    /\ rejects < MaxRejects
    /\ rejects' = rejects + 1
    /\ Answered(a)
    /\ LET w == Head(up[a])
       IN  /\ events' = [events EXCEPT ![a] = @ \o Raised(a, server, up'[a], w.id)]
           /\ heard' = IF w.op = "add" THEN heard \cup {w.id} ELSE heard
           /\ refused' = IF w.op # "add" THEN refused \cup {w.id} ELSE refused
    /\ UNCHANGED <<server, owner, author, listener, live, app, gone, writes, opens, exits>>

-----------------------------------------------------------------------------
(***************************************************************************)
(* The main queue of an app.                                               *)
(***************************************************************************)
Next1(a, type) == events[a] # <<>> /\ Head(events[a]).type = type
Handled(a)     == events' = [events EXCEPT ![a] = Tail(@)]

\* The process ends; nothing it had is kept
Reset(a, how) ==
    /\ up' = [up EXCEPT ![a] = <<>>]
    /\ events' = [events EXCEPT ![a] = <<>>]
    /\ listener' = [listener EXCEPT ![a] = "off"]
    /\ live' = [live EXCEPT ![a] = {}]
    /\ data' = [data EXCEPT ![a] = <<>>]
    /\ left' = [left EXCEPT ![a] = 0]
    /\ screen' = [screen EXCEPT ![a] = how]
    /\ gone' = [gone EXCEPT ![a] = {}]

(***************************************************************************)
(* A read of the node of list l, from a callback whose successors are ev,  *)
(* with q already on its way.  It is answered at once if the SDK has the   *)
(* node: a row's observer keeps it, an own pending write covers it, or an  *)
(* answer about it has not been handled yet.                               *)
(***************************************************************************)
AtHand(a, l, q, ev) ==
    \/ l \in live[a]
    \/ OnList(q, l) # {}
    \/ \E k \in DOMAIN ev : ev[k].type \in NodeOps /\ ev[k].id = l

ReadNode(a, o, l, ev) ==
    IF AtHand(a, l, up[a], ev)
      THEN /\ events' = [events EXCEPT ![a] =
                Append(ev, NodeEvent(o, l, ListOf(server, up[a], l)))]
           /\ up' = up
      ELSE /\ events' = [events EXCEPT ![a] = ev]
           /\ up' = [up EXCEPT ![a] = Append(@, Node(o, l))]

\* del.DataLoaded() of the screen, and ActivateObservers
Loaded(a, q) ==
    /\ screen' = [screen EXCEPT ![a] = "enabled"]
    /\ listener' = [listener EXCEPT ![a] = "asked"]
    /\ up' = [up EXCEPT ![a] = Append(q, Listen)]

\* LoadData's first callback: no lists, or a read for each of them
LoadNoLists(a) ==
    /\ Next1(a, "keys")
    /\ Head(events[a]).ids = {}
    /\ Handled(a)
    /\ Loaded(a, up[a])
    /\ UNCHANGED <<server, owner, author, live, data, left, gone, told, bounds>>

\* (fault: the counter starts one short)
LoadListsOneShort(a) ==
    /\ Next1(a, "keys")
    /\ LET S == Head(events[a]).ids
       IN  /\ S # {}
           /\ left' = [left EXCEPT ![a] = Cardinality(S) - 1]
           /\ \E order \in SetToSeqs(S) :
                up' = [up EXCEPT ![a] = @ \o [k \in DOMAIN order |-> Node("loaded", order[k])]]
    /\ Handled(a)
    /\ UNCHANGED <<server, owner, author, listener, live, data, screen, gone, told, bounds>>

LoadLists(a) ==
    /\ Next1(a, "keys")
    /\ LET S  == Head(events[a]).ids
           At == {l \in S : AtHand(a, l, up[a], Tail(events[a]))}
       IN  /\ S # {}
           /\ left' = [left EXCEPT ![a] = Cardinality(S)]
           /\ \E now \in SetToSeqs(At), later \in SetToSeqs(S \ At) :
                /\ events' = [events EXCEPT ![a] = Tail(@) \o
                     [k \in DOMAIN now |->
                        NodeEvent("loaded", now[k], ListOf(server, up[a], now[k]))]]
                /\ up' = [up EXCEPT ![a] = @ \o
                     [k \in DOMAIN later |-> Node("loaded", later[k])]]
    /\ UNCHANGED <<server, owner, author, listener, live, data, screen, gone, told, bounds>>

\* AddListWithObserver: a row, and its observer unless the SDK has one there
Watched(a, l) ==
    IF l \in live[a] \/ Contains(up[a], Node("watch", l)) THEN up[a]
    ELSE Append(up[a], Node("watch", l))
NewRow(a, l) == data' = [data EXCEPT ![a] = Append(@, l)]

\* (fault: the last but one ends the loading)
ListLoadedEarly(a) ==
    /\ Next1(a, "loaded")
    /\ Head(events[a]).node # Absent
    /\ Handled(a)
    /\ LET l == Head(events[a]).id
       IN  /\ NewRow(a, l)
           /\ left' = [left EXCEPT ![a] = @ - 1]
           /\ IF left[a] - 1 = 1 THEN Loaded(a, Watched(a, l))
              ELSE /\ up' = [up EXCEPT ![a] = Watched(a, l)]
                   /\ UNCHANGED <<listener, screen>>
    /\ UNCHANGED <<server, owner, author, live, gone, told, bounds>>

\* LoadData's second callback, once per list; the last one ends the loading
ListLoaded(a) ==
    /\ Next1(a, "loaded")
    /\ Head(events[a]).node # Absent
    /\ Handled(a)
    /\ LET l == Head(events[a]).id
       IN  /\ NewRow(a, l)
           /\ left' = [left EXCEPT ![a] = @ - 1]
           /\ IF left[a] - 1 = 0 THEN Loaded(a, Watched(a, l))
              ELSE /\ up' = [up EXCEPT ![a] = Watched(a, l)]
                   /\ UNCHANGED <<listener, screen>>
    /\ UNCHANGED <<server, owner, author, live, gone, told, bounds>>

\* (fault: the key's row is added without looking for one)
ListsKeysChildAddedBlind(a) ==
    /\ Next1(a, "added")
    /\ ReadNode(a, "list", Head(events[a]).id, Tail(events[a]))
    /\ UNCHANGED <<server, owner, author, listener, live, app, gone, told, bounds>>

\* (fault: any row counts as the key's)
ListsKeysChildAddedAny(a) ==
    /\ Next1(a, "added")
    /\ IF data[a] # <<>> THEN Handled(a) /\ UNCHANGED up
       ELSE ReadNode(a, "list", Head(events[a]).id, Tail(events[a]))
    /\ UNCHANGED <<server, owner, author, listener, live, app, gone, told, bounds>>

ListsKeysChildAdded(a) ==
    /\ Next1(a, "added")
    /\ LET l == Head(events[a]).id
       IN  IF l \in RowIds(a) THEN Handled(a) /\ UNCHANGED up
           ELSE ReadNode(a, "list", l, Tail(events[a]))
    /\ UNCHANGED <<server, owner, author, listener, live, app, gone, told, bounds>>

\* (fault: the row keeps the value of the snapshot, not its key)
ListReadKeepsValue(a) ==
    /\ Next1(a, "list")
    /\ Head(events[a]).node # Absent
    /\ Handled(a)
    /\ NewRow(a, Head(events[a]).node)
    /\ up' = [up EXCEPT ![a] = Watched(a, Head(events[a]).id)]
    /\ UNCHANGED <<server, owner, author, listener, live, left, screen, gone, told, bounds>>

\* ... and the callback of its read, which appends without looking again
ListRead(a) ==
    /\ Next1(a, "list")
    /\ Head(events[a]).node # Absent
    /\ Handled(a)
    /\ NewRow(a, Head(events[a]).id)
    /\ up' = [up EXCEPT ![a] = Watched(a, Head(events[a]).id)]
    /\ UNCHANGED <<server, owner, author, listener, live, left, screen, gone, told, bounds>>

\* (fault: the last row goes, whichever key was removed)
ListsKeysChildRemovedLast(a) ==
    /\ Next1(a, "removed")
    /\ data' = [data EXCEPT ![a] = IF @ = <<>> THEN @ ELSE Front(@)]
    /\ Handled(a)
    /\ UNCHANGED <<server, owner, author, up, listener, live, left, screen, gone, told, bounds>>

\* The first row with the key goes (FindListIndex); its observer stays
ListsKeysChildRemoved(a) ==
    /\ Next1(a, "removed")
    /\ data' = [data EXCEPT ![a] = RemoveFirst(@, Head(events[a]).id)]
    /\ Handled(a)
    /\ UNCHANGED <<server, owner, author, up, listener, live, left, screen, gone, told, bounds>>

\* RemoveList's callback: one write for the list, its items and its users' keys
RemoveListUsersRead(a) ==
    /\ Next1(a, "users")
    /\ Head(events[a]).node # Absent
    /\ LET ev == Head(events[a])
           q  == Append(up[a], RemoveOf(ev.id, ev.node))
       IN  /\ up' = [up EXCEPT ![a] = q]
           /\ events' = [events EXCEPT ![a] = Tail(@) \o Raised(a, server, q, ev.id)]
    /\ UNCHANGED <<server, owner, author, listener, live, app, gone, told, bounds>>

\* "as! [String : Any]" on a list that is not there
NoSuchList(a) ==
    /\ events[a] # <<>>
    /\ Head(events[a]).type \in NodeOps
    /\ Head(events[a]).node = Absent
    /\ Reset(a, "badcast")
    /\ UNCHANGED <<server, owner, author, told, bounds>>

\* The guard gives up on the loading, which goes on behind an enabled screen
TimeoutGuardFired(a) ==
    /\ screen[a] = "loading"
    /\ screen' = [screen EXCEPT ![a] = "enabled"]
    /\ UNCHANGED <<server, owner, author, sdk, data, left, gone, told, bounds>>

-----------------------------------------------------------------------------
(***************************************************************************)
(* The user.                                                               *)
(***************************************************************************)
Exit == exits < MaxExits /\ exits' = exits + 1

\* ListsViewController.viewDidLoad after the login of a fresh process
OpenLists(a) ==
    /\ screen[a] \in Closed
    /\ opens[a] < MaxOpens
    /\ opens' = [opens EXCEPT ![a] = @ + 1]
    /\ screen' = [screen EXCEPT ![a] = "loading"]
    /\ up' = [up EXCEPT ![a] = <<Keys>>]
    /\ UNCHANGED <<server, owner, author, events, listener, live, data, left, gone, told,
                   writes, rejects, exits>>

\* The process is killed; requests the server has not taken are lost
Quit(a) ==
    /\ screen[a] \notin Closed
    /\ Exit
    /\ Reset(a, "closed")
    /\ UNCHANGED <<server, owner, author, told, writes, rejects, opens>>

AddNewList(a) ==
    /\ screen[a] = "enabled"
    /\ \E l \in Lists :
         /\ author[l] = Absent
         /\ author' = [author EXCEPT ![l] = owner[a]]
         /\ Send(a, AddOf(l, owner[a]))
    /\ UNCHANGED <<server, owner, listener, live, app, gone, told, rejects, opens, exits>>

\* (fault: an invitation may name any id)
AcceptAnyInvitation(a) ==
    /\ Inviting
    /\ screen[a] = "enabled"
    /\ \E l \in Lists : Send(a, JoinOf(l, owner[a]))
    /\ UNCHANGED <<server, owner, author, listener, live, app, gone, told, rejects, opens, exits>>

\* The write of AcceptInvitation; an invitation follows the add of its list
AcceptInvitation(a) ==
    /\ Inviting
    /\ screen[a] = "enabled"
    /\ \E l \in heard : Send(a, JoinOf(l, owner[a]))
    /\ UNCHANGED <<server, owner, author, listener, live, app, gone, told, rejects, opens, exits>>

\* RemoveList first reads the users of the list
RemoveList(a) ==
    /\ Removal
    /\ screen[a] = "enabled"
    /\ OneMoreWrite
    /\ \E k \in DOMAIN data[a] : ReadNode(a, "users", data[a][k], events[a])
    /\ UNCHANGED <<server, owner, author, listener, live, app, gone, told, rejects, opens, exits>>

\* didSelectRowAt on "Add new list", the row that is there while there is none:
\* GetList(0)! has nothing to unwrap.  (A row with a list opens SingleList.)
SelectNoList(a) ==
    /\ screen[a] = "enabled"
    /\ data[a] = <<>>
    /\ Reset(a, "nolist")
    /\ UNCHANGED <<server, owner, author, told, bounds>>

-----------------------------------------------------------------------------
ServerStep(a) == AnswerKeys(a) \/ AnswerListen(a) \/ AnswerNode(a) \/ Commit(a)
MainStep(a)   == \/ LoadNoLists(a) \/ LoadLists(a) \/ ListLoaded(a)
                 \/ ListsKeysChildAdded(a) \/ ListRead(a) \/ ListsKeysChildRemoved(a)
                 \/ RemoveListUsersRead(a) \/ NoSuchList(a)
UserStep(a)   == \/ OpenLists(a) \/ Quit(a) \/ AddNewList(a) \/ AcceptInvitation(a)
                 \/ RemoveList(a) \/ SelectNoList(a)

Next == \E a \in Apps :
    ServerStep(a) \/ Reject(a) \/ MainStep(a) \/ TimeoutGuardFired(a) \/ UserStep(a)

Spec == Init /\ [][Next]_vars

(***************************************************************************)
(* The server takes what an app sends as long as the app runs, and the     *)
(* main queue is served.  The guard needs no fairness to end the loading.  *)
(***************************************************************************)
Fairness == \A a \in Apps : WF_vars(ServerStep(a)) /\ WF_vars(MainStep(a))
FairSpec == Spec /\ Fairness
-----------------------------------------------------------------------------
(***************************************************************************)
(* Properties.                                                             *)
(***************************************************************************)

\* Every variable holds a value of its kind.
TypeOK ==
    /\ server \in Tree
    /\ owner \in [Apps -> Users]
    /\ author \in [Lists -> Users \cup {Absent}]
    /\ up \in [Apps -> Seq(Requests)]
    /\ events \in [Apps -> Seq(Events)]
    /\ listener \in [Apps -> {"off", "asked", "on"}]
    /\ live \in [Apps -> SUBSET Lists]
    /\ data \in [Apps -> Seq(Lists)]
    /\ left \in [Apps -> Int]
    /\ screen \in [Apps -> Closed \cup {"loading", "enabled"}]
    /\ gone \in [Apps -> SUBSET Lists]
    /\ heard \subseteq Lists
    /\ refused \subseteq Lists
    /\ writes \in Nat
    /\ rejects \in Nat
    /\ opens \in [Apps -> Nat]
    /\ exits \in Nat

\* A list has one row at most, although LoadData appends without looking,
\* ListsKeysChildAdded looks and then reads before it appends, and both may
\* overlap with the guard that enables the screen too early.  (A refused join takes
\* the key back while its read is still out, and a refused removal gives it back:
\* such a list may get two rows.)
NoDuplicateLists ==
    \A a \in Apps : \A j, k \in DOMAIN data[a] :
        data[a][j] = data[a][k] /\ data[a][j] \notin refused => j = k

\* Nothing is under way at a and its listener is answered
Settled(a) == up[a] = <<>> /\ events[a] = <<>> /\ listener[a] = "on"

\* The rows of a settled screen are the keys of its user, but for rows whose key
\* went before the listener of ActivateObservers was answered, or with a refused write:
\* what another device of the same user adds, joins or removes arrives, in any order
\* of reads and events.
RowsFollowKeys ==
    \A a \in Apps : Settled(a) =>
        /\ server.keys[owner[a]] \subseteq RowIds(a)
        /\ RowIds(a) \ (gone[a] \cup refused) \subseteq server.keys[owner[a]]

\* The three places that tie a list to its users and its items agree on the server,
\* whatever is refused, lost or done by two devices at a time: the users in a list
\* have its key, a list has its items table and a table its list.
ListsAreConnected ==
    /\ \A l \in Lists : server.lists[l] # Absent =>
          \A u \in server.lists[l] : l \in server.keys[u]
    /\ server.tables = {l \in Lists : server.lists[l] # Absent}

\* Every key of a user names a list.
KeysNameLists == \A u \in Users : \A l \in server.keys[u] : server.lists[l] # Absent

\* An id that was removed, refused or lost is never a list again: a late write of a
\* device that still shows it does not bring it back.
ListRemovedForGood ==
    [][\A l \in Lists :
          /\ author[l] # Absent /\ server.lists[l] = Absent
          /\ \A a \in Apps : \A k \in DOMAIN up[a] : up[a][k] # AddOf(l, author[l])
          => server'.lists[l] = Absent]_vars

\* listsCounter counts the lists that LoadData still waits for; at zero, and not
\* before, the rows are complete and the observers start.
CounterMatchesReads ==
    \A a \in Apps : screen[a] \notin Closed /\ ~Next1(a, "keys") =>
        left[a] = Cardinality({k \in DOMAIN up[a] : up[a][k].op = "loaded"})
                + Cardinality({k \in DOMAIN events[a] : events[a][k].type = "loaded"})

\* Nobody waits for nothing: as long as the observers were not asked for, either the keys
\* or counted nodes are still to come, never both, so that one more callback is sure to
\* end the loading; once they are asked for nothing of the loading can come any more.
LoadIsOwed ==
    \A a \in Apps : screen[a] \notin Closed =>
        LET keys == Cardinality({k \in DOMAIN up[a] : up[a][k].op = "keys"})
                    + Cardinality({k \in DOMAIN events[a] : events[a][k].type = "keys"})
        IN  IF listener[a] = "off" THEN \/ keys = 1 /\ left[a] = 0
                                        \/ keys = 0 /\ left[a] > 0
            ELSE keys = 0 /\ left[a] = 0

\* The casts of a list's node never fail: every list an app reads by its key is there.
NoBadCast == \A a \in Apps : screen[a] # "badcast"

\* The users of each list, by their keys, behave as the register of ListsRegister.
Register == INSTANCE ListsRegister WITH
    members <- [l \in Lists |-> {u \in Users : l \in server.keys[u]}]
SharesOneRegister == Register!RegisterSpec

\* The load ends without the guard's help, for no lists, one or several: the screen
\* is enabled with its observers asked for, unless the process ends.
LoadEnds == \A a \in Apps :
    screen[a] = "loading" ~> listener[a] # "off" \/ screen[a] \in Closed

\* A key that stays gets a row on every screen that stays open, whichever of the
\* load, another device and the own write brings it.
EveryListArrives ==
    \A a \in Apps, l \in Lists :
        screen[a] = "enabled" /\ l \in server.keys[owner[a]]
            ~> \/ l \in RowIds(a) \/ l \notin server.keys[owner[a]]
               \/ screen[a] \in Closed
=============================================================================
