---------------------------- MODULE Invitations ----------------------------
(***************************************************************************)
(* The invitations of one user: InvitationManager and the screen that      *)
(* lists them, wired as ListsViewController's commented-out code does      *)
(* (LoadData, then ActivateObservers).  An invitation is named by its      *)
(* list.  The server's part is                                             *)
(*   invitations   users/<u>/invitations                                   *)
(*   keys          users/<u>/lists, written by AcceptInvitation            *)
(* up and events are the queues of the user's app, as in UserLists.  The   *)
(* device is the user's: nobody else logs in on it between two log-ins.    *)
(***************************************************************************)
EXTENDS Queues

CONSTANTS
    Lists,          \* the lists the user can be invited to
    None,           \* no list
    MaxSends,       \* bound: invitations sent
    MaxRejects,     \* bound: writes of the user the server refuses
    MaxLogIns,      \* bound: times the user logs in
    MaxAnswers,     \* bound: invitations accepted or discarded
    MaxShows        \* bound: cells drawn on the invitations screen

ASSUME ListsFinite == IsFiniteSet(Lists)
ASSUME NoneIsNoList == None \notin Lists
ASSUME BoundsAreNat == /\ MaxSends \in Nat /\ MaxRejects \in Nat
                       /\ MaxLogIns \in Nat /\ MaxAnswers \in Nat /\ MaxShows \in Nat

VARIABLES
    invitations, keys,      \* the server
    sender,                 \* another user's app: "idle", "crashed", or a list
                            \* whose invitation waits for the user's id
    up, events,             \* the two queues
    listening,              \* childAdded/childRemoved: observed, data there
    rows,                   \* InvitationManager.invitations
    popup,                  \* the invitation of the popup, None without one
    session,                \* "off" (no process), "out", "in"
    accepted,               \* history: invitations the user accepted
    dropped,                \* history: discarded ones, and those with no title
    refused,                \* history: those whose accept was refused
    stray,                  \* history: lists LoadData added to a row of theirs, or
                            \* that callbacks of an earlier session may add
    sends, rejects, logIns, answers, shows

tree    == <<invitations, keys>>
app     == <<up, events, listening, rows, popup, session>>
history == <<accepted, dropped, refused, stray>>
bounds  == <<sends, rejects, logIns, answers, shows>>
vars    == <<tree, sender, app, history, bounds>>

WriteOps  == {"accept", "remove"}
Requests  == [op : {"load"}] \cup [op : {"title"} \cup WriteOps, id : Lists]
Load      == [op |-> "load"]
Req(o, l) == [op |-> o, id |-> l]

Events == [type : {"loaded"}, ids : SUBSET Lists]
     \cup [type : {"added", "removed", "acceptDone", "title"}, id : Lists]
Event(t, l) == [type |-> t, id |-> l]

RowIds == Range(rows)

Init ==
    /\ invitations \in SUBSET Lists
    /\ keys = {}
    /\ sender = "idle"
    /\ up = <<>>
    /\ events = <<>>
    /\ listening = FALSE
    /\ rows = <<>>
    /\ popup = None
    /\ session = "off"
    /\ accepted = {}
    /\ dropped = {}
    /\ refused = {}
    /\ stray = {}
    /\ sends = 0
    /\ rejects = 0
    /\ logIns = 0
    /\ answers = 0
    /\ shows = 0

-----------------------------------------------------------------------------
(***************************************************************************)
(* What the listener has told of, and tells when the server holds S and    *)
(* the app's requests are q: an own removal shows before it is taken.      *)
(***************************************************************************)
Seen(S, q) == S \ {l \in Lists : Contains(q, Req("remove", l))}

Raised(S, q, l) ==
    LET old == l \in Seen(invitations, up)
        new == l \in Seen(S, q)
    IN  IF ~listening \/ old = new THEN <<>>
        ELSE <<Event(IF new THEN "added" ELSE "removed", l)>>

\* RemoveInvitation(l), from a callback whose successors are rest: it is the current
\* user's, who is asked for when it runs and has to be there
RemoveInvitation(l, rest) ==
    /\ session = "in"
    /\ LET q == Append(up, Req("remove", l))
       IN  up' = q /\ events' = rest \o Raised(invitations, q, l)

-----------------------------------------------------------------------------
(***************************************************************************)
(* The server.                                                             *)
(***************************************************************************)
Oldest(op) == up # <<>> /\ Head(up).op = op

\* The data of the path arrives, once for the ordered query of LoadData and for the
\* listener: in which order the SDK tells the two is left to a dictionary
LoadAnswered ==
    /\ Oldest("load")
    /\ up' = Tail(up)
    /\ listening' = TRUE
    /\ LET S == Seen(invitations, Tail(up))
           load == <<[type |-> "loaded", ids |-> S]>>
       IN  \E order \in SetToSeqs(S) :
             LET added == [k \in DOMAIN order |-> Event("added", order[k])]
             IN  \E both \in {load \o added, added \o load} : events' = events \o both
    /\ UNCHANGED <<tree, sender, rows, popup, session, history, bounds>>

\* The server takes a write of the app
Commit ==
    /\ up # <<>> /\ Head(up).op \in WriteOps
    /\ up' = Tail(up)
    /\ LET w == Head(up)
       IN  IF w.op = "accept"
             THEN /\ keys' = keys \cup {w.id}
                  /\ events' = Append(events, Event("acceptDone", w.id))
                  /\ UNCHANGED invitations
             ELSE /\ invitations' = invitations \ {w.id}
                  /\ events' = events \o Raised(invitations', up', w.id)
                  /\ UNCHANGED keys
    /\ UNCHANGED <<sender, listening, rows, popup, session, history, bounds>>

\* ... or refuses it; the completion of AcceptInvitation runs all the same
Reject ==
    /\ up # <<>> /\ Head(up).op \in WriteOps
    /\ rejects < MaxRejects
    /\ rejects' = rejects + 1
    /\ up' = Tail(up)
    /\ LET w == Head(up)
       IN  IF w.op = "accept"
             THEN /\ refused' = refused \cup {w.id}
                  /\ events' = Append(events, Event("acceptDone", w.id))
             ELSE /\ events' = events \o Raised(invitations, up', w.id)
                  /\ UNCHANGED refused
    /\ UNCHANGED <<tree, sender, listening, rows, popup, session, accepted, dropped, stray,
                   sends, logIns, answers, shows>>

TitleAnswered ==
    /\ Oldest("title")
    /\ up' = Tail(up)
    /\ events' = Append(events, Event("title", Head(up).id))
    /\ UNCHANGED <<tree, sender, listening, rows, popup, session, history, bounds>>

(***************************************************************************)
(* SendInvitation, in another user's app: the id of an address is read,    *)
(* then the invitation is written.  Nobody has the address: the cast of    *)
(* the answer ends that app.                                               *)
(***************************************************************************)
SendInvitation(l) ==
    /\ sender = "idle"
    /\ sends < MaxSends
    /\ sends' = sends + 1
    /\ sender' = l
    /\ UNCHANGED <<tree, app, history, rejects, logIns, answers, shows>>

UserFound ==
    /\ sender \in Lists
    /\ invitations' = invitations \cup {sender}
    /\ events' = events \o Raised(invitations', up, sender)
    /\ sender' = "idle"
    /\ UNCHANGED <<keys, up, listening, rows, popup, session, history, bounds>>

UserUnknown ==
    /\ sender \in Lists
    /\ sender' = "crashed"
    /\ UNCHANGED <<tree, app, history, bounds>>

-----------------------------------------------------------------------------
(***************************************************************************)
(* The main queue.                                                         *)
(***************************************************************************)
Next1(type) == events # <<>> /\ Head(events).type = type

\* LoadData's callback appends without looking
Loaded ==
    /\ Next1("loaded")
    /\ LET S == Head(events).ids
       IN  /\ \E order \in SetToSeqs(S) : rows' = rows \o order
           /\ stray' = stray \cup (S \cap RowIds)
    /\ events' = Tail(events)
    /\ UNCHANGED <<tree, sender, up, listening, popup, session, accepted, dropped, refused,
                   bounds>>

\* (fault: any row counts as the invitation's)
InvitationsChildAddedAny ==
    /\ Next1("added")
    /\ rows' = IF rows # <<>> THEN rows ELSE Append(rows, Head(events).id)
    /\ events' = Tail(events)
    /\ UNCHANGED <<tree, sender, up, listening, popup, session, history, bounds>>

InvitationsChildAdded ==
    /\ Next1("added")
    /\ LET l == Head(events).id
       IN  rows' = IF l \in RowIds THEN rows ELSE Append(rows, l)
    /\ events' = Tail(events)
    /\ UNCHANGED <<tree, sender, up, listening, popup, session, history, bounds>>

\* (fault: the last row goes, whichever invitation was removed)
InvitationsChildRemovedLast ==
    /\ Next1("removed")
    /\ rows' = IF rows = <<>> THEN rows ELSE Front(rows)
    /\ events' = Tail(events)
    /\ UNCHANGED <<tree, sender, up, listening, popup, session, history, bounds>>

\* The first row of the list goes
InvitationsChildRemoved ==
    /\ Next1("removed")
    /\ rows' = RemoveFirst(rows, Head(events).id)
    /\ events' = Tail(events)
    /\ UNCHANGED <<tree, sender, up, listening, popup, session, history, bounds>>

\* (fault: the completion removes the invitation selected by now)
AcceptDoneOfPopup ==
    /\ Next1("acceptDone")
    /\ RemoveInvitation(popup, Tail(events))
    /\ UNCHANGED <<tree, sender, listening, rows, popup, session, history, bounds>>

\* The completion of AcceptInvitation
AcceptDone ==
    /\ Next1("acceptDone")
    /\ RemoveInvitation(Head(events).id, Tail(events))
    /\ UNCHANGED <<tree, sender, listening, rows, popup, session, history, bounds>>

\* GetListNameForInvitation: GetListById casts a list to [String : String], which no
\* list that AddNewList wrote is, so that there is never a title
TitleRead ==
    /\ Next1("title")
    /\ RemoveInvitation(Head(events).id, Tail(events))
    /\ dropped' = dropped \cup {Head(events).id}
    /\ UNCHANGED <<tree, sender, listening, rows, popup, session, accepted, refused, stray,
                   bounds>>

-----------------------------------------------------------------------------
(***************************************************************************)
(* The user.                                                               *)
(***************************************************************************)
LogIn ==
    /\ session # "in"
    /\ logIns < MaxLogIns
    /\ logIns' = logIns + 1
    /\ session' = "in"
    /\ up' = Append(up, Load)
    /\ UNCHANGED <<tree, sender, events, listening, rows, popup, history, sends, rejects,
                   answers, shows>>

\* The lists that the callbacks on the main queue may add to the rows
Coming == {l \in Lists : \E e \in Range(events) :
                            \/ e.type = "added" /\ e.id = l
                            \/ e.type = "loaded" /\ l \in e.ids}

\* UserLogedOut: Cleanup.  Its removal of the observers of users/<u>/invitations drops
\* LoadData's request as well; callbacks already on the main queue still run.
LogOut ==
    /\ session = "in"
    /\ session' = "out"
    /\ up' = Picked(up, {k \in DOMAIN up : up[k] # Load})
    /\ listening' = FALSE
    /\ rows' = <<>>
    /\ popup' = None
    /\ stray' = Coming
    /\ UNCHANGED <<tree, sender, events, accepted, dropped, refused, bounds>>

\* The process ends, with the requests the server has not taken
Ended ==
    /\ session' = "off"
    /\ up' = <<>>
    /\ events' = <<>>
    /\ listening' = FALSE
    /\ rows' = <<>>
    /\ popup' = None
    /\ stray' = {}
    /\ UNCHANGED <<tree, sender, accepted, dropped, refused, bounds>>

Kill == session # "off" /\ Ended

\* A completion calls RemoveInvitation after the log-out: there is no current user
NobodyRemoves ==
    /\ session = "out"
    /\ Next1("acceptDone") \/ Next1("title")
    /\ Ended

\* cellForRowAt asks for the title of a row
CellForRow ==
    /\ session = "in"
    /\ shows < MaxShows
    /\ shows' = shows + 1
    /\ \E l \in RowIds : up' = Append(up, Req("title", l))
    /\ UNCHANGED <<tree, sender, events, listening, rows, popup, session, history, sends,
                   rejects, logIns, answers>>

\* didSelectRowAt: the popup keeps the invitation
Select ==
    /\ session = "in" /\ popup = None
    /\ \E l \in RowIds : popup' = l
    /\ UNCHANGED <<tree, sender, up, events, listening, rows, session, history, bounds>>

\* One of the popup's two buttons
Answer == popup # None /\ popup' = None /\ answers < MaxAnswers /\ answers' = answers + 1

\* (fault: the invitation is removed along with the accept, not after it)
AcceptRemovesFirst ==
    /\ Answer
    /\ LET q == up \o <<Req("remove", popup), Req("accept", popup)>>
       IN  up' = q /\ events' = events \o Raised(invitations, q, popup)
    /\ accepted' = accepted \cup {popup}
    /\ UNCHANGED <<tree, sender, listening, rows, session, dropped, refused, stray, sends, rejects,
                   logIns, shows>>

AcceptInvitation ==
    /\ Answer
    /\ up' = Append(up, Req("accept", popup))
    /\ accepted' = accepted \cup {popup}
    /\ UNCHANGED <<tree, sender, events, listening, rows, session, dropped, refused, stray, sends, rejects,
                   logIns, shows>>

Discard ==
    /\ Answer
    /\ RemoveInvitation(popup, events)
    /\ dropped' = dropped \cup {popup}
    /\ UNCHANGED <<tree, sender, listening, rows, session, accepted, refused, stray, sends, rejects,
                   logIns, shows>>

-----------------------------------------------------------------------------
Next == \/ LoadAnswered \/ Commit \/ Reject \/ TitleAnswered
        \/ UserFound \/ UserUnknown \/ \E l \in Lists : SendInvitation(l)
        \/ Loaded \/ InvitationsChildAdded \/ InvitationsChildRemoved
        \/ AcceptDone \/ TitleRead
        \/ LogIn \/ LogOut \/ NobodyRemoves \/ Kill \/ CellForRow \/ Select \/ AcceptInvitation \/ Discard

Spec == Init /\ [][Next]_vars
-----------------------------------------------------------------------------
(***************************************************************************)
(* Properties.                                                             *)
(***************************************************************************)

\* Every variable holds a value of its kind.
TypeOK ==
    /\ invitations \subseteq Lists
    /\ keys \subseteq Lists
    /\ sender \in Lists \cup {"idle", "crashed"}
    /\ up \in Seq(Requests)
    /\ events \in Seq(Events)
    /\ listening \in BOOLEAN
    /\ rows \in Seq(Lists)
    /\ popup \in Lists \cup {None}
    /\ session \in {"off", "out", "in"}
    /\ accepted \subseteq Lists
    /\ dropped \subseteq Lists
    /\ refused \subseteq Lists
    /\ stray \subseteq Lists
    /\ sends \in Nat
    /\ rejects \in Nat
    /\ logIns \in Nat
    /\ answers \in Nat
    /\ shows \in Nat

Settled == session = "in" /\ listening /\ up = <<>> /\ events = <<>>

\* Nothing is under way: every invitation has a row, in whichever order the load, the
\* listener, other users and the user's own removals came.
EveryInvitationListed == Settled => invitations \subseteq RowIds

\* ... and every row is an invitation, except for those that LoadData added to a row
\* the listener had made, since a removal takes one row only, and for those of callbacks
\* that were on the main queue when Cleanup emptied the rows.
RowsAreInvitations == Settled => RowIds \ stray \subseteq invitations

\* An accepted invitation is not lost: it goes away only after its list is among the
\* user's, whenever the process ends.  (A refused accept, and a removal for want of a
\* title, do lose it.)
AcceptedIsJoined ==
    \A l \in accepted : l \notin invitations \cup dropped \cup refused => l \in keys
=============================================================================
