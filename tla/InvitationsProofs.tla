------------------------- MODULE InvitationsProofs --------------------------
(***************************************************************************)
(* Theorems about Invitations for any lists and bounds.                    *)
(***************************************************************************)
EXTENDS Invitations, QueueLemmas

(***************************************************************************)
(* Lists whose invitation may go: joined, dropped, or their accept refused *)
(* (Done).  Whatever the app knows of an invitation, it knows of a list    *)
(* that is still invited to or done (Safe).                                *)
(***************************************************************************)
Done == keys \cup dropped \cup refused
Safe == invitations \cup Done

GoodRequests == {r \in Requests : r.op = "remove" => r.id \in Done}
GoodEvents   == {e \in Events : /\ e.type = "acceptDone" => e.id \in Done
                                /\ e.type = "added" => e.id \in Safe
                                /\ e.type = "loaded" => e.ids \subseteq Safe}

Sound ==
    /\ TypeOK
    /\ up \in Seq(GoodRequests)
    /\ events \in Seq(GoodEvents)
    /\ rows \in Seq(Safe)
    /\ popup \in Safe \cup {None}
    /\ accepted \subseteq Safe

\* Invitations and answers only add to what is done and safe.
Grows == Done \subseteq Done' /\ Safe \subseteq Safe'

\* What was good stays good.
LEMMA StaysGood ==
  ASSUME Sound, Grows
  PROVE  /\ up \in Seq(GoodRequests') /\ events \in Seq(GoodEvents')
         /\ up # <<>> => /\ Head(up) \in GoodRequests /\ Head(up) \in GoodRequests'
                         /\ Tail(up) \in Seq(GoodRequests')
         /\ events # <<>> => /\ Head(events) \in GoodEvents /\ Head(events) \in GoodEvents'
                             /\ Tail(events) \in Seq(GoodEvents')
         /\ rows \in Seq(Safe') /\ popup \in Safe' \cup {None} /\ accepted \subseteq Safe'
<1>1. GoodRequests \subseteq GoodRequests' /\ GoodEvents \subseteq GoodEvents'
  BY DEF Grows, GoodRequests, GoodEvents
<1>2. up \in Seq(GoodRequests) /\ events \in Seq(GoodEvents)
  BY DEF Sound
<1>3. /\ up # <<>> => Head(up) \in GoodRequests /\ Tail(up) \in Seq(GoodRequests)
      /\ events # <<>> => Head(events) \in GoodEvents /\ Tail(events) \in Seq(GoodEvents)
  BY <1>2, HeadTailProperties
<1>4. rows \in Seq(Safe) /\ popup \in Safe \cup {None} /\ accepted \subseteq Safe
  BY DEF Sound
<1>5. Safe \subseteq Safe'
  BY DEF Grows
<1> HIDE DEF Safe
<1> QED BY <1>1, <1>2, <1>3, <1>4, <1>5

\* What the listener tells is about invitations there are.
LEMMA RaisedGood ==
  ASSUME NEW S \in SUBSET Safe', NEW q, NEW l \in Lists
  PROVE  Raised(S, q, l) \in Seq(GoodEvents')
<1>1. l \in Seen(S, q) => Event("added", l) \in GoodEvents'
  BY DEF Seen, Event, Events, GoodEvents
<1>2. Event("removed", l) \in GoodEvents'
  BY DEF Event, Events, GoodEvents
<1> QED BY <1>1, <1>2 DEF Raised

\* The types, out of what is good.
LEMMA GoodTypes ==
  ASSUME NEW q \in Seq(GoodRequests'), NEW e \in Seq(GoodEvents')
  PROVE  q \in Seq(Requests) /\ e \in Seq(Events)
BY DEF GoodRequests, GoodEvents

\* A removal of an invitation that is done.
LEMMA RemoveGood ==
  ASSUME Sound, Grows, NEW l \in Lists, l \in Done', NEW rest \in Seq(GoodEvents'),
         invitations' = invitations, RemoveInvitation(l, rest)
  PROVE  up' \in Seq(GoodRequests') /\ events' \in Seq(GoodEvents')
<1>1. Req("remove", l) \in GoodRequests'
  BY DEF Req, Requests, WriteOps, GoodRequests
<1>2. Append(up, Req("remove", l)) \in Seq(GoodRequests')
  <2>1. up \in Seq(GoodRequests')
    BY StaysGood
  <2> HIDE DEF GoodRequests
  <2> QED BY <1>1, <2>1
<1>3. invitations \subseteq Safe'
  BY DEF Safe
<1>4. Raised(invitations, Append(up, Req("remove", l)), l) \in Seq(GoodEvents')
  BY <1>3, RaisedGood
<1>5. rest \o Raised(invitations, Append(up, Req("remove", l)), l) \in Seq(GoodEvents')
  BY <1>4, ConcatProperties
<1> QED BY <1>2, <1>5 DEF RemoveInvitation

-----------------------------------------------------------------------------
(***************************************************************************)
(* The steps.                                                              *)
(***************************************************************************)
\* A sound state, from its parts.
LEMMA SoundNext ==
  ASSUME up' \in Seq(GoodRequests'), events' \in Seq(GoodEvents'), rows' \in Seq(Safe'),
         popup' \in Safe' \cup {None}, accepted' \subseteq Safe',
         /\ invitations' \subseteq Lists /\ keys' \subseteq Lists
         /\ dropped' \subseteq Lists /\ refused' \subseteq Lists /\ stray' \subseteq Lists
         /\ sender' \in Lists \cup {"idle", "crashed"} /\ listening' \in BOOLEAN
         /\ session' \in {"off", "out", "in"}
         /\ sends' \in Nat /\ rejects' \in Nat /\ logIns' \in Nat
         /\ answers' \in Nat /\ shows' \in Nat
  PROVE  Sound'
<1>1. Safe' \subseteq Lists
  BY DEF Safe, Done
<1>2. rows' \in Seq(Lists) /\ popup' \in Lists \cup {None} /\ accepted' \subseteq Lists
  BY <1>1
<1>3. up' \in Seq(Requests) /\ events' \in Seq(Events)
  BY GoodTypes
<1> QED BY <1>2, <1>3 DEF Sound, TypeOK

\* The oldest request and the oldest callback have the fields of their kinds.
LEMMA Heads ==
  ASSUME Sound
  PROVE  /\ up # <<>> /\ Head(up).op # "load" => Head(up).id \in Lists
         /\ up # <<>> /\ Head(up).op = "remove" => Head(up).id \in Done
         /\ events # <<>> /\ Head(events).type # "loaded" => Head(events).id \in Lists
         /\ events # <<>> /\ Head(events).type = "loaded" =>
               Head(events).ids \subseteq Lists /\ Head(events).ids \subseteq Safe
         /\ events # <<>> /\ Head(events).type = "acceptDone" => Head(events).id \in Done
         /\ events # <<>> /\ Head(events).type = "added" => Head(events).id \in Safe
<1>1. up # <<>> => Head(up) \in GoodRequests
  BY HeadTailProperties DEF Sound
<1>2. events # <<>> => Head(events) \in GoodEvents
  BY HeadTailProperties DEF Sound
<1> QED BY <1>1, <1>2 DEF GoodRequests, GoodEvents, Requests, Events, WriteOps

\* Every row is a list that is safe.
LEMMA RowsSafe == ASSUME Sound PROVE RowIds \subseteq Safe /\ Safe \subseteq Lists
BY DEF Sound, TypeOK, RowIds, Range, Safe, Done

\* LoadAnswered: what is told are invitations there are.
LEMMA LoadAnsweredSound == Sound /\ LoadAnswered => Sound'
<1> SUFFICES ASSUME Sound, LoadAnswered PROVE Sound'
  OBVIOUS
<1> DEFINE S     == Seen(invitations, Tail(up))
           load  == <<[type |-> "loaded", ids |-> S]>>
<1>1. Grows /\ invitations' = invitations
  BY DEF LoadAnswered, tree, history, Grows, Safe, Done
<1>2. S \subseteq invitations /\ S \subseteq Lists /\ S \subseteq Safe' /\ IsFiniteSet(S)
  BY <1>1, ListsFinite, FS_Subset DEF Seen, Safe, Sound, TypeOK
<1>3. PICK order \in SetToSeqs(S) :
        LET added == [k \in DOMAIN order |-> Event("added", order[k])]
        IN  \E both \in {load \o added, added \o load} : events' = events \o both
  BY DEF LoadAnswered
<1> DEFINE added == [k \in DOMAIN order |-> Event("added", order[k])]
<1>4. load \in Seq(GoodEvents')
  <2>1. [type |-> "loaded", ids |-> S] \in GoodEvents'
    <3> HIDE DEF S
    <3> QED BY <1>2 DEF GoodEvents, Events
  <2> HIDE DEF S
  <2> QED BY <2>1
<1>5. added \in Seq(GoodEvents')
  <2>1. order \in Seq(S) /\ DOMAIN order = 1..Len(order) /\ Len(order) \in Nat
    <3> HIDE DEF S
    <3> QED BY <1>2, <1>3, OrderLists
  <2> HIDE DEF S
  <2>2. ASSUME NEW k \in DOMAIN order PROVE Event("added", order[k]) \in GoodEvents'
    BY <1>2, <2>1 DEF Event, Events, GoodEvents
  <2>3. [k \in DOMAIN order |-> Event("added", order[k])] \in Seq(GoodEvents')
    BY <2>1, <2>2
  <2> QED BY <2>3
<1>6. events' = events \o (load \o added) \/ events' = events \o (added \o load)
  BY <1>3
<1> HIDE DEF load, added, S
<1>7. events' \in Seq(GoodEvents')
  <2>1. events \in Seq(GoodEvents')
    BY <1>1, StaysGood
  <2>2. load \o added \in Seq(GoodEvents') /\ added \o load \in Seq(GoodEvents')
    BY <1>4, <1>5, ConcatProperties
  <2> QED BY <1>6, <2>1, <2>2, ConcatProperties
<1>8. up' \in Seq(GoodRequests')
  BY <1>1, StaysGood DEF LoadAnswered, Oldest
<1>9. rows' \in Seq(Safe') /\ popup' \in Safe' \cup {None} /\ accepted' \subseteq Safe'
  BY <1>1, StaysGood DEF LoadAnswered, history
<1> QED BY <1>7, <1>8, <1>9, SoundNext DEF LoadAnswered, Sound, TypeOK, tree, history, bounds

\* Commit: a removal is of an invitation that is done.
LEMMA CommitSound == Sound /\ Commit => Sound'
<1> SUFFICES ASSUME Sound, Commit PROVE Sound'
  OBVIOUS
<1> DEFINE w == Head(up)
<1>1. up # <<>> /\ w.op \in WriteOps /\ w.id \in Lists /\ (w.op = "remove" => w.id \in Done)
  BY Heads DEF Commit, WriteOps
<1>2. /\ up' = Tail(up) /\ rows' = rows /\ popup' = popup
      /\ accepted' = accepted /\ dropped' = dropped /\ refused' = refused
  BY DEF Commit, history
<1>3. CASE w.op = "accept"
  <2>1. /\ keys' = keys \cup {w.id} /\ invitations' = invitations
        /\ events' = Append(events, Event("acceptDone", w.id))
    BY <1>3 DEF Commit
  <2> HIDE DEF w
  <2>2. Grows
    BY <1>2, <2>1 DEF Grows, Safe, Done
  <2>3. Event("acceptDone", w.id) \in GoodEvents'
    BY <1>1, <2>1 DEF Event, Events, GoodEvents, Done
  <2>4. events' \in Seq(GoodEvents')
    <3>1. events \in Seq(GoodEvents')
      BY <2>2, StaysGood
    <3> HIDE DEF GoodEvents
    <3> QED BY <2>1, <2>3, <3>1
  <2>5. up' \in Seq(GoodRequests')
    BY <1>1, <1>2, <2>2, StaysGood
  <2>6. rows' \in Seq(Safe') /\ popup' \in Safe' \cup {None} /\ accepted' \subseteq Safe'
    BY <1>2, <2>2, StaysGood
  <2> QED BY <1>1, <2>1, <2>4, <2>5, <2>6, SoundNext DEF Commit, Sound, TypeOK, history, bounds
<1>4. CASE w.op # "accept"
  <2>1. /\ invitations' = invitations \ {w.id} /\ keys' = keys
        /\ events' = events \o Raised(invitations', up', w.id)
    BY <1>4 DEF Commit
  <2>2. w.op = "remove"
    BY <1>1, <1>4 DEF WriteOps
  <2> HIDE DEF w
  <2>3. Grows
    BY <1>1, <1>2, <2>1, <2>2 DEF Grows, Safe, Done
  <2>4. Raised(invitations', up', w.id) \in Seq(GoodEvents')
    <3>1. invitations' \subseteq Safe'
      BY DEF Safe
    <3> QED BY <1>1, <3>1, RaisedGood
  <2>5. events' \in Seq(GoodEvents')
    BY <2>1, <2>3, <2>4, StaysGood, ConcatProperties
  <2>6. up' \in Seq(GoodRequests')
    BY <1>1, <1>2, <2>3, StaysGood
  <2>7. rows' \in Seq(Safe') /\ popup' \in Safe' \cup {None} /\ accepted' \subseteq Safe'
    BY <1>2, <2>3, StaysGood
  <2> QED BY <1>1, <2>1, <2>5, <2>6, <2>7, SoundNext DEF Commit, Sound, TypeOK, history, bounds
<1> QED BY <1>3, <1>4

\* Reject: a refused accept is told like one that was taken.
LEMMA RejectSound == Sound /\ Reject => Sound'
<1> SUFFICES ASSUME Sound, Reject PROVE Sound'
  OBVIOUS
<1> DEFINE w == Head(up)
<1>1. up # <<>> /\ w.id \in Lists
  BY Heads DEF Reject, WriteOps
<1>2. /\ up' = Tail(up) /\ rows' = rows /\ popup' = popup /\ invitations' = invitations
      /\ accepted' = accepted /\ dropped' = dropped /\ keys' = keys
      /\ rejects' = rejects + 1
  BY DEF Reject, tree
<1>3. refused' = IF w.op = "accept" THEN refused \cup {w.id} ELSE refused
  BY DEF Reject
<1>4. IF w.op = "accept" THEN events' = Append(events, Event("acceptDone", w.id))
                         ELSE events' = events \o Raised(invitations, up', w.id)
  BY DEF Reject
<1> HIDE DEF w
<1>5. Grows
  BY <1>2, <1>3 DEF Grows, Safe, Done
<1>6. events' \in Seq(GoodEvents')
  <2>1. events \in Seq(GoodEvents')
    BY <1>5, StaysGood
  <2>2. CASE w.op = "accept"
    <3>1. Event("acceptDone", w.id) \in GoodEvents'
      BY <1>1, <1>3, <2>2 DEF Event, Events, GoodEvents, Done
    <3> HIDE DEF GoodEvents
    <3> QED BY <1>4, <2>1, <2>2, <3>1
  <2>3. CASE w.op # "accept"
    <3>1. invitations \subseteq Safe'
      BY <1>2 DEF Safe
    <3>2. Raised(invitations, up', w.id) \in Seq(GoodEvents')
      BY <1>1, <3>1, RaisedGood
    <3> QED BY <1>4, <2>1, <2>3, <3>2, ConcatProperties
  <2> QED BY <2>2, <2>3
<1>7. up' \in Seq(GoodRequests')
  BY <1>1, <1>2, <1>5, StaysGood
<1>8. rows' \in Seq(Safe') /\ popup' \in Safe' \cup {None} /\ accepted' \subseteq Safe'
  BY <1>2, <1>5, StaysGood
<1> QED BY <1>1, <1>2, <1>3, <1>6, <1>7, <1>8, SoundNext DEF Reject, Sound, TypeOK

\* The senders, and the answer to a title.
LEMMA OthersSound ==
  ASSUME Sound,
         TitleAnswered \/ UserFound \/ UserUnknown \/ \E l \in Lists : SendInvitation(l)
  PROVE  Sound'
<1>1. CASE TitleAnswered
  <2> DEFINE w == Head(up)
  <2>1. up # <<>> /\ w.id \in Lists
    BY <1>1, Heads DEF TitleAnswered, Oldest
  <2>2. Grows
    BY <1>1 DEF TitleAnswered, tree, history, Grows, Safe, Done
  <2>3. Event("title", w.id) \in GoodEvents'
    <3> HIDE DEF w
    <3> QED BY <2>1 DEF Event, Events, GoodEvents
  <2>4. events \in Seq(GoodEvents') /\ up' \in Seq(GoodRequests')
    BY <1>1, <2>1, <2>2, StaysGood DEF TitleAnswered
  <2>5. events' = Append(events, Event("title", w.id))
    BY <1>1 DEF TitleAnswered
  <2> HIDE DEF w
  <2>6. events' \in Seq(GoodEvents')
    <3> HIDE DEF GoodEvents
    <3> QED BY <2>3, <2>4, <2>5
  <2>7. rows' \in Seq(Safe') /\ popup' \in Safe' \cup {None} /\ accepted' \subseteq Safe'
    BY <1>1, <2>2, StaysGood DEF TitleAnswered, history
  <2> QED BY <1>1, <2>4, <2>6, <2>7, SoundNext
          DEF TitleAnswered, tree, history, bounds, Sound, TypeOK
<1>2. CASE UserFound
  <2>1. Grows /\ sender \in Lists /\ invitations' \subseteq Safe'
    BY <1>2 DEF UserFound, history, Grows, Safe, Done
  <2>2. Raised(invitations', up, sender) \in Seq(GoodEvents')
    BY <2>1, RaisedGood
  <2>3. events' \in Seq(GoodEvents')
    BY <1>2, <2>1, <2>2, StaysGood, ConcatProperties DEF UserFound
  <2>4. /\ up' \in Seq(GoodRequests')
        /\ rows' \in Seq(Safe') /\ popup' \in Safe' \cup {None} /\ accepted' \subseteq Safe'
    BY <1>2, <2>1, StaysGood DEF UserFound, history
  <2> QED BY <1>2, <2>1, <2>3, <2>4, SoundNext
          DEF UserFound, history, bounds, Sound, TypeOK
<1>3. CASE UserUnknown
  <2>1. Grows
    BY <1>3 DEF UserUnknown, tree, history, Grows, Safe, Done
  <2>2. /\ up' \in Seq(GoodRequests') /\ events' \in Seq(GoodEvents')
        /\ rows' \in Seq(Safe') /\ popup' \in Safe' \cup {None} /\ accepted' \subseteq Safe'
    BY <1>3, <2>1, StaysGood DEF UserUnknown, app, history
  <2> QED BY <1>3, <2>2, SoundNext
          DEF UserUnknown, tree, app, history, bounds, Sound, TypeOK
<1>4. ASSUME NEW l \in Lists, SendInvitation(l) PROVE Sound'
  <2>1. Grows
    BY <1>4 DEF SendInvitation, tree, history, Grows, Safe, Done
  <2>2. /\ up' \in Seq(GoodRequests') /\ events' \in Seq(GoodEvents')
        /\ rows' \in Seq(Safe') /\ popup' \in Safe' \cup {None} /\ accepted' \subseteq Safe'
    BY <1>4, <2>1, StaysGood DEF SendInvitation, app, history
  <2> QED BY <1>4, <2>2, SoundNext
          DEF SendInvitation, tree, app, history, Sound, TypeOK
<1> QED BY <1>1, <1>2, <1>3, <1>4

\* The callbacks that change rows.
LEMMA RowsSound ==
  ASSUME Sound, Loaded \/ InvitationsChildAdded \/ InvitationsChildRemoved
  PROVE  Sound'
<1>1. Grows /\ Safe' = Safe
  BY DEF Loaded, InvitationsChildAdded, InvitationsChildRemoved, tree, history, Grows, Safe, Done
<1>2. /\ events # <<>> /\ events' = Tail(events) /\ up' = up /\ popup' = popup
      /\ accepted' = accepted
  BY DEF Loaded, InvitationsChildAdded, InvitationsChildRemoved, Next1, history
<1>3. /\ events' \in Seq(GoodEvents') /\ up' \in Seq(GoodRequests')
      /\ popup' \in Safe' \cup {None} /\ accepted' \subseteq Safe'
  BY <1>1, <1>2, StaysGood
<1>4. rows \in Seq(Safe)
  BY DEF Sound
<1>5. CASE Loaded
  <2> DEFINE S == Head(events).ids
  <2>1. S \subseteq Lists /\ S \subseteq Safe /\ IsFiniteSet(S)
    BY <1>2, <1>5, Heads, ListsFinite, FS_Subset DEF Loaded, Next1
  <2>2. PICK order \in SetToSeqs(S) : rows' = rows \o order
    BY <1>5 DEF Loaded
  <2>3. stray' \subseteq Lists
    BY <1>5, <2>1 DEF Loaded, Sound, TypeOK
  <2> HIDE DEF S
  <2>4. order \in Seq(S)
    BY <2>1, <2>2, OrderLists
  <2>5. rows' \in Seq(Safe)
    <3>1. order \in Seq(Safe)
      BY <2>1, <2>4
    <3> HIDE DEF Safe
    <3> QED BY <1>4, <2>2, <3>1, ConcatProperties
  <2> QED BY <1>1, <1>3, <1>5, <2>3, <2>5, SoundNext DEF Loaded, tree, bounds, Sound, TypeOK
<1>6. CASE InvitationsChildAdded
  <2>1. Head(events).id \in Safe
    BY <1>2, <1>6, Heads DEF InvitationsChildAdded, Next1
  <2>2. rows' = rows \/ rows' = Append(rows, Head(events).id)
    BY <1>6 DEF InvitationsChildAdded
  <2>3. rows' \in Seq(Safe)
    <3> HIDE DEF Safe
    <3> QED BY <1>4, <2>1, <2>2
  <2> QED BY <1>1, <1>3, <1>6, <2>3, SoundNext
          DEF InvitationsChildAdded, tree, history, bounds, Sound, TypeOK
<1>7. CASE InvitationsChildRemoved
  <2>1. rows' \in Seq(Safe)
    BY <1>4, <1>7, RemoveFirstQueue DEF InvitationsChildRemoved
  <2> QED BY <1>1, <1>3, <1>7, <2>1, SoundNext
          DEF InvitationsChildRemoved, tree, history, bounds, Sound, TypeOK
<1> QED BY <1>5, <1>6, <1>7

\* The two callbacks that remove an invitation.
LEMMA RemovalsSound ==
  ASSUME Sound, AcceptDone \/ TitleRead
  PROVE  Sound'
<1> DEFINE l == Head(events).id
<1>1. events # <<>> /\ l \in Lists /\ RemoveInvitation(l, Tail(events))
  BY Heads DEF AcceptDone, TitleRead, Next1
<1>2. /\ invitations' = invitations /\ keys' = keys /\ rows' = rows /\ popup' = popup
      /\ accepted' = accepted /\ refused' = refused
      /\ dropped' = dropped \/ dropped' = dropped \cup {l}
  BY DEF AcceptDone, TitleRead, tree, history
<1>3. Grows
  BY <1>2 DEF Grows, Safe, Done
<1>4. l \in Done'
  <2>1. CASE AcceptDone
    BY <1>3, <2>1, Heads DEF AcceptDone, Next1, Grows
  <2>2. CASE TitleRead
    BY <2>2 DEF TitleRead, Done
  <2> QED BY <2>1, <2>2
<1> HIDE DEF l
<1>5. Tail(events) \in Seq(GoodEvents')
  BY <1>1, <1>3, StaysGood
<1>6. up' \in Seq(GoodRequests') /\ events' \in Seq(GoodEvents')
  BY <1>1, <1>2, <1>3, <1>4, <1>5, RemoveGood
<1>7. rows' \in Seq(Safe') /\ popup' \in Safe' \cup {None} /\ accepted' \subseteq Safe'
  BY <1>2, <1>3, StaysGood
<1> QED BY <1>1, <1>2, <1>6, <1>7, SoundNext
        DEF AcceptDone, TitleRead, tree, history, bounds, Sound, TypeOK

\* The sessions of the user.
LEMMA SessionsSound ==
  ASSUME Sound, LogIn \/ LogOut \/ NobodyRemoves \/ Kill
  PROVE  Sound'
<1>1. Grows
  BY DEF LogIn, LogOut, NobodyRemoves, Kill, Ended, tree, history, Grows, Safe, Done
<1>2. CASE LogIn
  <2>1. Load \in GoodRequests'
    BY DEF Load, Requests, GoodRequests
  <2>2. up' \in Seq(GoodRequests')
    <3>1. up \in Seq(GoodRequests')
      BY <1>1, StaysGood
    <3> HIDE DEF GoodRequests
    <3> QED BY <1>2, <2>1, <3>1 DEF LogIn
  <2>3. /\ events' \in Seq(GoodEvents')
        /\ rows' \in Seq(Safe') /\ popup' \in Safe' \cup {None} /\ accepted' \subseteq Safe'
    BY <1>1, <1>2, StaysGood DEF LogIn, history
  <2> QED BY <1>2, <2>2, <2>3, SoundNext DEF LogIn, tree, history, Sound, TypeOK
<1>3. CASE LogOut
  <2>1. events' \in Seq(GoodEvents') /\ accepted' \subseteq Safe'
    BY <1>1, <1>3, StaysGood DEF LogOut
  <2> DEFINE K == {k \in DOMAIN up : up[k] # Load}
  <2>2. up' \in Seq(GoodRequests')
    <3>1. up \in Seq(GoodRequests') /\ up' = Picked(up, K)
      BY <1>1, <1>3, StaysGood DEF LogOut
    <3> QED BY <3>1, PickedQueue
  <2>3. stray' \subseteq Lists
    BY <1>3 DEF LogOut, Coming
  <2>4. rows' \in Seq(Safe') /\ popup' \in Safe' \cup {None}
    BY <1>3 DEF LogOut
  <2> QED BY <1>3, <2>1, <2>2, <2>3, <2>4, SoundNext DEF LogOut, tree, bounds, Sound, TypeOK
<1>4. CASE NobodyRemoves \/ Kill
  <2>1. Ended
    BY <1>4 DEF NobodyRemoves, Kill
  <2>2. /\ up' \in Seq(GoodRequests') /\ events' \in Seq(GoodEvents')
        /\ rows' \in Seq(Safe') /\ popup' \in Safe' \cup {None} /\ stray' \subseteq Lists
    BY <2>1 DEF Ended
  <2>3. accepted' \subseteq Safe'
    BY <1>1, <2>1, StaysGood DEF Ended
  <2> QED BY <2>1, <2>2, <2>3, SoundNext
          DEF Ended, tree, bounds, Sound, TypeOK
<1> QED BY <1>2, <1>3, <1>4

\* What the user does on the invitations screen.
LEMMA UserSound ==
  ASSUME Sound, CellForRow \/ Select \/ AcceptInvitation \/ Discard
  PROVE  Sound'
<1>1. Grows
  BY DEF CellForRow, Select, AcceptInvitation, Discard, tree, history, Grows, Safe, Done
<1>2. up \in Seq(GoodRequests') /\ events \in Seq(GoodEvents')
  BY <1>1, StaysGood
<1>3. ASSUME NEW o \in {"title", "accept"}, NEW l \in Lists
      PROVE  Append(up, Req(o, l)) \in Seq(GoodRequests')
  <2>1. Req(o, l) \in GoodRequests'
    BY DEF Req, Requests, WriteOps, GoodRequests
  <2> HIDE DEF GoodRequests
  <2> QED BY <1>2, <2>1
<1>4. CASE CellForRow
  <2>1. PICK l \in RowIds : up' = Append(up, Req("title", l))
    BY <1>4 DEF CellForRow
  <2>2. l \in Lists
    BY RowsSafe
  <2>3. up' \in Seq(GoodRequests')
    BY <1>3, <2>1, <2>2
  <2>4. /\ events' \in Seq(GoodEvents')
        /\ rows' \in Seq(Safe') /\ popup' \in Safe' \cup {None} /\ accepted' \subseteq Safe'
    BY <1>1, <1>4, StaysGood DEF CellForRow, history
  <2> QED BY <1>4, <2>3, <2>4, SoundNext DEF CellForRow, tree, history, Sound, TypeOK
<1>5. CASE Select
  <2>1. popup' \in Safe'
    BY <1>1, <1>5, RowsSafe DEF Select, Grows
  <2>2. /\ up' \in Seq(GoodRequests') /\ events' \in Seq(GoodEvents')
        /\ rows' \in Seq(Safe') /\ accepted' \subseteq Safe'
    BY <1>1, <1>5, StaysGood DEF Select, history
  <2> QED BY <1>5, <2>1, <2>2, SoundNext DEF Select, tree, history, bounds, Sound, TypeOK
<1>6. CASE AcceptInvitation \/ Discard
  <2>1. popup \in Safe /\ popup \in Lists /\ popup' = None /\ answers' \in Nat
    BY <1>6, RowsSafe DEF AcceptInvitation, Discard, Answer, Sound, TypeOK
  <2>2. CASE AcceptInvitation
    <3>1. up' \in Seq(GoodRequests')
      BY <1>3, <2>1, <2>2 DEF AcceptInvitation
    <3>2. accepted' \subseteq Safe'
      BY <1>1, <2>1, <2>2, StaysGood DEF AcceptInvitation, Grows
    <3>3. events' \in Seq(GoodEvents') /\ rows' \in Seq(Safe')
      BY <1>1, <2>2, StaysGood DEF AcceptInvitation
    <3>4. accepted' \subseteq Lists
      BY <2>1, <2>2 DEF AcceptInvitation, Sound, TypeOK
    <3> QED BY <2>1, <2>2, <3>1, <3>2, <3>3, SoundNext
            DEF AcceptInvitation, tree, Sound, TypeOK
  <2>3. CASE Discard
    <3>1. popup \in Done' /\ invitations' = invitations /\ dropped' \subseteq Lists
      BY <2>1, <2>3 DEF Discard, Done, tree, Sound, TypeOK
    <3>2. RemoveInvitation(popup, events)
      BY <2>3 DEF Discard
    <3>3. up' \in Seq(GoodRequests') /\ events' \in Seq(GoodEvents')
      BY <1>1, <1>2, <2>1, <3>1, <3>2, RemoveGood
    <3>4. rows' \in Seq(Safe') /\ accepted' \subseteq Safe'
      BY <1>1, <2>3, StaysGood DEF Discard
    <3> QED BY <2>1, <2>3, <3>1, <3>3, <3>4, SoundNext DEF Discard, tree, Sound, TypeOK
  <2> QED BY <1>6, <2>2, <2>3
<1> QED BY <1>4, <1>5, <1>6

-----------------------------------------------------------------------------
\* A state stays sound, whatever the server, other users, the queue or the user do.
LEMMA SoundHolds == Spec => []Sound
<1>1. Init => Sound
  <2> SUFFICES ASSUME Init PROVE Sound
    OBVIOUS
  <2>1. \A S : <<>> \in Seq(S)
    OBVIOUS
  <2> QED BY <2>1 DEF Init, Sound, TypeOK
<1>2. Sound /\ [Next]_vars => Sound'
  <2> SUFFICES ASSUME Sound, [Next]_vars PROVE Sound'
    OBVIOUS
  <2>1. CASE UNCHANGED vars
    <3>1. Grows
      BY <2>1 DEF vars, tree, history, Grows, Safe, Done
    <3>2. /\ up' \in Seq(GoodRequests') /\ events' \in Seq(GoodEvents')
          /\ rows' \in Seq(Safe') /\ popup' \in Safe' \cup {None} /\ accepted' \subseteq Safe'
      BY <2>1, <3>1, StaysGood DEF vars, app, history
    <3> QED BY <2>1, <3>2, SoundNext DEF vars, tree, app, history, bounds, Sound, TypeOK
  <2> QED BY <2>1, LoadAnsweredSound, CommitSound, RejectSound, OthersSound, RowsSound,
             RemovalsSound, SessionsSound, UserSound DEF Next
<1> QED BY <1>1, <1>2, PTL DEF Spec

\* Every variable keeps its kind of value, for any lists and bounds.
THEOREM TypeCorrect == Spec => []TypeOK
<1>1. Sound => TypeOK
  BY DEF Sound
<1> QED BY <1>1, SoundHolds, PTL

\* An accepted invitation goes away only after its list is among the user's, unless the
\* accept was refused or the invitation dropped, for any lists, sessions and losses.
THEOREM AcceptIsKept == Spec => []AcceptedIsJoined
<1>1. Sound => AcceptedIsJoined
  BY DEF Sound, Safe, Done, AcceptedIsJoined
<1> QED BY <1>1, SoundHolds, PTL

-----------------------------------------------------------------------------
(***************************************************************************)
(* The rows are the invitations.  Callbacks that are still in the queue    *)
(* will make up for the difference: for an invitation the last word is     *)
(* that it is there, for another list that it is gone, unless LoadData has *)
(* added a row for it that no removal will find (it has strayed).          *)
(***************************************************************************)
\* Callbacks that add a row for l, and those that take one away
Present(l) ==
    {x \in Events : x.type = "added" /\ x.id = l} \cup
    {x \in Events : x.type = "loaded" /\ l \in x.ids}
Gone(l) == {x \in Events : x.type = "removed" /\ x.id = l}

\* Callbacks e, on rows of R, leave a row for l; or none, unless l has strayed (T)
InView(R, T, l, e, there) ==
    IF there
      THEN /\ LastOf(e, Present(l), Gone(l))
           /\ l \in R \/ Places(e, Present(l)) # {}
      ELSE \/ l \in T
           \/ /\ LastOf(e, Gone(l), Present(l))
              /\ l \notin R \/ Places(e, Gone(l)) # {}

\* Without a listener: no rows but those of lists that have strayed
Quiet(l) == l \in stray \/ (l \notin RowIds /\ Places(events, Present(l)) = {})

OneRow(l) == \A j, k \in DOMAIN rows : rows[j] = l /\ rows[k] = l => j = k

Followed(l) ==
    /\ l \notin stray => OneRow(l)
    /\ IF listening THEN InView(RowIds, stray, l, events, l \in Seen(invitations, up))
       ELSE Quiet(l)

Following == \A l \in Lists : Followed(l)

\* Which callbacks are about l.
LEMMA AboutList ==
  ASSUME NEW l \in Lists, NEW w \in Lists
  PROVE  /\ Event("added", w) \in Present(l) <=> w = l
         /\ Event("removed", w) \in Gone(l) <=> w = l
         /\ Event("added", w) \notin Gone(l) /\ Event("removed", w) \notin Present(l)
         /\ \A t \in {"acceptDone", "title"} :
               Event(t, w) \notin Present(l) /\ Event(t, w) \notin Gone(l)
BY DEF Event, Present, Gone, Events

\* Callbacks join the queue: those that say nothing of l, and those that say one thing.
LEMMA JoinView ==
  ASSUME NEW e \in Seq(Events), NEW s \in Seq(Events), NEW l, NEW R, NEW T, NEW there
  PROVE  /\ Places(s, Present(l)) = {} /\ Places(s, Gone(l)) = {} /\ InView(R, T, l, e, there)
              => InView(R, T, l, e \o s, there)
         /\ Places(s, Present(l)) # {} /\ Places(s, Gone(l)) = {} => InView(R, T, l, e \o s, TRUE)
         /\ Places(s, Present(l)) = {} /\ Places(s, Gone(l)) # {} => InView(R, T, l, e \o s, FALSE)
<1> DEFINE P == Present(l)
           G == Gone(l)
<1>1. /\ Places(e \o s, P) = {} <=> Places(e, P) = {} /\ Places(s, P) = {}
      /\ Places(e \o s, G) = {} <=> Places(e, G) = {} /\ Places(s, G) = {}
      /\ LastOf(s, P, G) /\ (LastOf(e, P, G) \/ Places(s, P) # {}) => LastOf(e \o s, P, G)
      /\ LastOf(s, G, P) /\ (LastOf(e, G, P) \/ Places(s, G) # {}) => LastOf(e \o s, G, P)
  <2> HIDE DEF P, G
  <2> QED BY LastOfJoined
<1>2. /\ Places(s, P) = {} => LastOf(s, G, P)
      /\ Places(s, G) = {} => LastOf(s, P, G)
  BY DEF LastOf
<1> QED BY <1>1, <1>2 DEF InView

\* The oldest callback is handled, on rows R that become R2.
LEMMA HandledView ==
  ASSUME NEW e \in Seq(Events), e # <<>>, NEW l, NEW R, NEW T, NEW R2, NEW T2, NEW there,
         InView(R, T, l, e, there),
         T \subseteq T2,
         Head(e) \in Present(l) => l \in R2,
         Head(e) \in Gone(l) => l \in T2 \/ l \notin R2,
         Head(e) \notin Present(l) \cup Gone(l) => (l \in R2 <=> l \in R)
  PROVE  InView(R2, T2, l, Tail(e), there)
<1> DEFINE P == Present(l)
           G == Gone(l)
<1>1. /\ LastOf(e, P, G) => LastOf(Tail(e), P, G)
      /\ LastOf(e, P, G) /\ Head(e) \in G => Places(Tail(e), P) # {}
      /\ Places(e, P) # {} /\ Head(e) \notin P => Places(Tail(e), P) # {}
      /\ LastOf(e, G, P) => LastOf(Tail(e), G, P)
      /\ LastOf(e, G, P) /\ Head(e) \in P => Places(Tail(e), G) # {}
      /\ Places(e, G) # {} /\ Head(e) \notin G => Places(Tail(e), G) # {}
  <2> HIDE DEF P, G
  <2> QED BY LastOfTail
<1>2. CASE there
  BY <1>1, <1>2 DEF InView
<1>3. CASE ~ there
  BY <1>1, <1>3 DEF InView
<1> QED BY <1>2, <1>3

\* The listener tells of list w: the others are as before.
LEMMA RaisedView ==
  ASSUME NEW S, NEW q, NEW w \in Lists, NEW l \in Lists,
         NEW e \in Seq(Events), NEW R, NEW T, listening,
         InView(R, T, l, e, l \in Seen(invitations, up)),
         l # w => (l \in Seen(S, q) <=> l \in Seen(invitations, up))
  PROVE  InView(R, T, l, e \o Raised(S, q, w), l \in Seen(S, q))
<1> DEFINE s    == Raised(S, q, w)
           there == l \in Seen(S, q)
           was  == w \in Seen(invitations, up)
           is   == w \in Seen(S, q)
<1>1. /\ Event("added", w) \in Events /\ Event("removed", w) \in Events
      /\ s = IF was = is THEN <<>> ELSE <<Event(IF is THEN "added" ELSE "removed", w)>>
  BY DEF Raised, Event, Events
<1>2. <<>> \in Seq(Events) /\ \A X : Places(<<>>, X) = {}
  <2>1. \A A : <<>> \in Seq(A)
    OBVIOUS
  <2> QED BY <2>1, PlacesOne
<1>3. ASSUME NEW x \in Events, s = <<x>>
      PROVE  /\ s \in Seq(Events)
             /\ x \in Present(l) <=> Places(s, Present(l)) # {}
             /\ x \in Gone(l) <=> Places(s, Gone(l)) # {}
  <2>1. <<x>> \in Seq(Events)
    OBVIOUS
  <2>2. \A X : x \in X <=> Places(<<x>>, X) # {}
    BY PlacesOne
  <2> HIDE DEF s
  <2> QED BY <1>3, <2>1, <2>2
<1>4. CASE was = is
  <2>1. s = <<>>
    BY <1>1, <1>4
  <2>2. there <=> l \in Seen(invitations, up)
    BY <1>4
  <2> DEFINE old == l \in Seen(invitations, up)
  <2>3. there = old /\ InView(R, T, l, e, old)
    BY <2>2
  <2> HIDE DEF s, there, old
  <2>4. InView(R, T, l, e \o s, old)
    BY <1>2, <2>1, <2>3, JoinView
  <2> QED BY <2>3, <2>4 DEF s, there
<1>5. CASE was # is /\ is
  <2>1. s = <<Event("added", w)>>
    BY <1>1, <1>5
  <2>2. s \in Seq(Events) /\ Places(s, Gone(l)) = {} /\ (w = l <=> Places(s, Present(l)) # {})
    <3> DEFINE x == Event("added", w)
    <3>1. x \in Events /\ x \notin Gone(l) /\ (x \in Present(l) <=> w = l) /\ s = <<x>>
      BY <1>1, <2>1, AboutList
    <3> HIDE DEF s, x
    <3> QED BY <1>3, <3>1
  <2> DEFINE old == l \in Seen(invitations, up)
  <2>3. CASE w = l
    <3>1. there = TRUE
      BY <1>5, <2>3
    <3> HIDE DEF s, there
    <3>2. InView(R, T, l, e \o s, TRUE)
      BY <2>2, <2>3, JoinView
    <3> QED BY <3>1, <3>2 DEF s, there
  <2>4. CASE w # l
    <3>1. there = old /\ InView(R, T, l, e, old)
      BY <2>4
    <3> HIDE DEF s, there, old
    <3>2. InView(R, T, l, e \o s, old)
      BY <2>2, <2>4, <3>1, JoinView
    <3> QED BY <3>1, <3>2 DEF s, there
  <2> QED BY <2>3, <2>4
<1>6. CASE was # is /\ ~ is
  <2>1. s = <<Event("removed", w)>>
    BY <1>1, <1>6
  <2>2. s \in Seq(Events) /\ Places(s, Present(l)) = {} /\ (w = l <=> Places(s, Gone(l)) # {})
    <3> DEFINE x == Event("removed", w)
    <3>1. x \in Events /\ x \notin Present(l) /\ (x \in Gone(l) <=> w = l) /\ s = <<x>>
      BY <1>1, <2>1, AboutList
    <3> HIDE DEF s, x
    <3> QED BY <1>3, <3>1
  <2> DEFINE old == l \in Seen(invitations, up)
  <2>3. CASE w = l
    <3>1. there = FALSE
      BY <1>6, <2>3
    <3> HIDE DEF s, there
    <3>2. InView(R, T, l, e \o s, FALSE)
      BY <2>2, <2>3, JoinView
    <3> QED BY <3>1, <3>2 DEF s, there
  <2>4. CASE w # l
    <3>1. there = old /\ InView(R, T, l, e, old)
      BY <2>4
    <3> HIDE DEF s, there, old
    <3>2. InView(R, T, l, e \o s, old)
      BY <2>2, <2>4, <3>1, JoinView
    <3> QED BY <3>1, <3>2 DEF s, there
  <2> QED BY <2>3, <2>4
<1> QED BY <1>4, <1>5, <1>6

\* What the listener tells is a queue of callbacks.
LEMMA RaisedIsEvents ==
  ASSUME NEW S, NEW q, NEW w \in Lists
  PROVE  Raised(S, q, w) \in Seq(Events)
<1>1. Event("added", w) \in Events /\ Event("removed", w) \in Events
  BY DEF Event, Events
<1> QED BY <1>1 DEF Raised

-----------------------------------------------------------------------------
\* An own removal of l, asked for or answered, is all that changes whether l is seen.
LEMMA SeenSteps ==
  ASSUME Sound, NEW S, NEW l \in Lists
  PROVE  /\ \A r \in Requests : r # Req("remove", l)
               => (l \in Seen(S, Append(up, r)) <=> l \in Seen(S, up))
         /\ up # <<>> /\ Head(up) # Req("remove", l)
               => (l \in Seen(S, Tail(up)) <=> l \in Seen(S, up))
<1>1. up \in Seq(Requests)
  BY DEF Sound, TypeOK
<1> DEFINE x == Req("remove", l)
<1>2. /\ \A r \in Requests : r # x => (Contains(Append(up, r), x) <=> Contains(up, x))
      /\ up # <<>> /\ Head(up) # x => (Contains(Tail(up), x) <=> Contains(up, x))
  <2> HIDE DEF x
  <2>1. ASSUME NEW r \in Requests PROVE Contains(Append(up, r), x) <=> Contains(up, x) \/ x = r
    BY <1>1, ContainsSteps
  <2>2. Load \in Requests
    BY DEF Load, Requests
  <2>3. up # <<>> => (Contains(up, x) <=> Head(up) = x \/ Contains(Tail(up), x))
    BY <1>1, <2>2, ContainsSteps
  <2> QED BY <2>1, <2>3
<1> QED BY <1>2 DEF Seen

\* The removal of another list.
LEMMA OtherRequest ==
  ASSUME NEW w, NEW l
  PROVE  /\ \A o : o # "remove" \/ w # l => Req(o, w) # Req("remove", l)
         /\ \A r : r.op # "remove" \/ r.id # l => r # Req("remove", l)
BY DEF Req

\* The next state, from its parts.
LEMMA FollowedNext ==
  ASSUME NEW l \in Lists,
         l \notin stray' => \A j, k \in DOMAIN rows' : rows'[j] = l /\ rows'[k] = l => j = k,
         IF listening' THEN InView(RowIds', stray', l, events', l \in Seen(invitations', up'))
         ELSE l \in stray' \/ (l \notin RowIds' /\ Places(events', Present(l)) = {})
  PROVE  Followed(l)'
<1>1. Present(l)' = Present(l) /\ Gone(l)' = Gone(l)
  BY DEF Present, Gone, Events
<1> QED BY <1>1 DEF Followed, InView, OneRow, Quiet, Places, LastOf, Seen, RowIds

\* What is left to handle: all callbacks, or all but one that changes no row.
Left(e) == \/ e = events
           \/ /\ events # <<>> /\ e = Tail(events)
              /\ Head(events).type \in {"acceptDone", "title"}

\* Rows and what is left to handle agree with the invitations.
LEMMA LeftFollows ==
  ASSUME Sound, Following, NEW e, Left(e), NEW l \in Lists
  PROVE  /\ e \in Seq(Events)
         /\ IF listening THEN InView(RowIds, stray, l, e, l \in Seen(invitations, up))
            ELSE l \in stray \/ (l \notin RowIds /\ Places(e, Present(l)) = {})
<1>1. events \in Seq(Events)
  BY DEF Sound, TypeOK
<1>2. Followed(l)
  BY DEF Following
<1>3. CASE e = events
  BY <1>1, <1>2, <1>3 DEF Followed, Quiet
<1>4. CASE e # events
  <2>1. /\ events # <<>> /\ e = Tail(events)
        /\ Head(events).type \in {"acceptDone", "title"}
    BY <1>4 DEF Left
  <2>2. e \in Seq(Events)
    BY <1>1, <2>1
  <2>3. Head(events) \notin Present(l) /\ Head(events) \notin Gone(l)
    BY <2>1 DEF Present, Gone
  <2> DEFINE there == l \in Seen(invitations, up)
             R     == RowIds
             P     == Present(l)
  <2>4. CASE listening
    <3>1. InView(R, stray, l, events, there) = TRUE
      BY <1>2, <2>4 DEF Followed, InView
    <3> HIDE DEF there, R
    <3>2. InView(R, stray, l, Tail(events), there)
      BY <1>1, <2>1, <2>3, <3>1, HandledView
    <3> QED BY <2>1, <2>2, <2>4, <3>2 DEF there, R
  <2>5. CASE ~ listening
    <3>1. Places(events, P) = {} => Places(Tail(events), P) = {}
      <4> HIDE DEF P
      <4> QED BY <1>1, <2>1, LastOfTail
    <3> QED BY <1>2, <2>1, <2>2, <2>5, <3>1 DEF Followed, Quiet
  <2> QED BY <2>4, <2>5
<1> QED BY <1>3, <1>4

\* More callbacks, none of which is about l.
LEMMA NothingSaid ==
  ASSUME Sound, Following, NEW l \in Lists, NEW s \in Seq(Events), events' = events \o s,
         Places(s, Present(l)) = {}, Places(s, Gone(l)) = {},
         rows' = rows, stray' = stray, listening' = listening,
         l \in Seen(invitations', up') <=> l \in Seen(invitations, up)
  PROVE  Followed(l)'
<1> DEFINE there == l \in Seen(invitations, up)
           P     == Present(l)
<1>1. events \in Seq(Events) /\ Followed(l) /\ RowIds' = RowIds
  BY DEF Sound, TypeOK, Following, RowIds
<1>2. /\ l \notin stray' => \A j, k \in DOMAIN rows' : rows'[j] = l /\ rows'[k] = l => j = k
  BY <1>1 DEF Followed, OneRow
<1>3. CASE listening
  <2>1. InView(RowIds, stray, l, events, there)
    BY <1>1, <1>3 DEF Followed
  <2>2. there = (l \in Seen(invitations', up'))
    OBVIOUS
  <2>3. InView(RowIds, stray, l, events \o s, there)
    <3> HIDE DEF there
    <3> QED BY <1>1, <2>1, JoinView
  <2>4. InView(RowIds', stray', l, events', l \in Seen(invitations', up'))
    <3> HIDE DEF there
    <3> QED BY <1>1, <2>2, <2>3
  <2> QED BY <1>2, <1>3, <2>4, FollowedNext
<1>4. CASE ~ listening
  <2>1. Places(events, P) = {} => Places(events \o s, P) = {}
    <3>1. Places(s, P) = {}
      OBVIOUS
    <3> HIDE DEF P
    <3> QED BY <1>1, <3>1, LastOfJoined
  <2> QED BY <1>1, <1>2, <1>4, <2>1, FollowedNext DEF Followed, Quiet
<1> QED BY <1>3, <1>4

\* What the server holds or the app asks for changes for one list, and the listener tells.
LEMMA OneTold ==
  ASSUME Sound, Following, NEW w \in Lists, NEW e, Left(e), NEW l \in Lists,
         events' = e \o Raised(invitations', up', w),
         rows' = rows, stray' = stray, listening' = listening,
         l # w => (l \in Seen(invitations', up') <=> l \in Seen(invitations, up))
  PROVE  Followed(l)'
<1>1. e \in Seq(Events) /\ Followed(l) /\ RowIds' = RowIds
  BY LeftFollows DEF Following, RowIds
<1>2. /\ l \notin stray' => \A j, k \in DOMAIN rows' : rows'[j] = l /\ rows'[k] = l => j = k
  BY <1>1 DEF Followed, OneRow
<1>3. CASE listening
  <2>1. InView(RowIds, stray, l, e, l \in Seen(invitations, up))
    BY <1>3, LeftFollows
  <2>2. InView(RowIds, stray, l, e \o Raised(invitations', up', w), l \in Seen(invitations', up'))
    BY <1>1, <1>3, <2>1, RaisedView
  <2> QED BY <1>1, <1>2, <1>3, <2>2, FollowedNext
<1>4. CASE ~ listening
  <2>1. Raised(invitations', up', w) = <<>>
    BY <1>4 DEF Raised
  <2>2. events' = e
    BY <1>1, <2>1
  <2>3. l \in stray \/ (l \notin RowIds /\ Places(e, Present(l)) = {})
    BY <1>4, LeftFollows
  <2> QED BY <1>1, <1>2, <1>4, <2>2, <2>3, FollowedNext
<1> QED BY <1>3, <1>4

-----------------------------------------------------------------------------
(***************************************************************************)
(* The steps.                                                              *)
(***************************************************************************)
\* Requests and their answers that no row depends on.
LEMMA SilentFollows ==
  ASSUME Sound, Following,
         \/ LogIn \/ CellForRow \/ Select \/ AcceptInvitation \/ UserUnknown
         \/ \E l \in Lists : SendInvitation(l)
         \/ UNCHANGED vars
  PROVE  Following'
<1>1. /\ events' = events /\ rows' = rows /\ stray' = stray /\ listening' = listening
      /\ invitations' = invitations
  BY DEF LogIn, CellForRow, Select, AcceptInvitation, UserUnknown, SendInvitation, vars, tree, app,
         history
<1>2. up' = up \/ \E r \in Requests : r.op # "remove" /\ up' = Append(up, r)
  <2>1. CASE LogIn
    BY <2>1 DEF LogIn, Load, Requests
  <2>2. CASE CellForRow
    BY <2>2, RowsSafe DEF CellForRow, Req, Requests
  <2>3. CASE AcceptInvitation
    BY <2>3 DEF AcceptInvitation, Answer, Req, Requests, WriteOps, Sound, TypeOK
  <2>4. CASE Select \/ UserUnknown \/ UNCHANGED vars \/ \E l \in Lists : SendInvitation(l)
    BY <2>4 DEF Select, UserUnknown, SendInvitation, vars, app
  <2> QED BY <2>1, <2>2, <2>3, <2>4
<1>3. ASSUME NEW l \in Lists PROVE Followed(l)'
  <2>1. l \in Seen(invitations, up') <=> l \in Seen(invitations, up)
    BY <1>2, SeenSteps, OtherRequest
  <2>2. \A X : Places(<<>>, X) = {}
    BY PlacesOne
  <2>3. events \in Seq(Events)
    BY DEF Sound, TypeOK
  <2> DEFINE s == <<>>
  <2>4. s \in Seq(Events) /\ events' = events \o s
    BY <1>1, <2>3
  <2>5. Places(s, Present(l)) = {} /\ Places(s, Gone(l)) = {}
    BY <2>2
  <2> HIDE DEF s
  <2> QED BY <1>1, <2>1, <2>4, <2>5, NothingSaid
<1> QED BY <1>1, <1>3 DEF Following

\* The answer to a title, and the one to an accept, whether taken or refused.
LEMMA AnswerFollows ==
  ASSUME Sound, Following, NEW t \in {"acceptDone", "title"},
         up # <<>>, Head(up).op \in {"accept", "title"}, up' = Tail(up),
         events' = Append(events, Event(t, Head(up).id)),
         rows' = rows, stray' = stray, listening' = listening,
         invitations' = invitations
  PROVE  Following'
<1> DEFINE w == Head(up).id
           x == Event(t, w)
           s == <<x>>
<1>1. w \in Lists /\ events \in Seq(Events)
  BY Heads DEF Sound, TypeOK
<1>2. x \in Events
  <2> HIDE DEF w
  <2> QED BY <1>1 DEF Event, Events
<1>3. s \in Seq(Events) /\ events' = events \o s
  <2> HIDE DEF x
  <2>1. s \in Seq(Events)
    BY <1>2
  <2>2. events' = Append(events, x)
    BY DEF x
  <2> QED BY <1>1, <1>2, <2>1, <2>2, AppendIsConcat
<1>4. ASSUME NEW l \in Lists PROVE Followed(l)'
  <2>1. l \in Seen(invitations', up') <=> l \in Seen(invitations, up)
    <3>1. Head(up) # Req("remove", l)
      BY DEF Req
    <3> QED BY <3>1, SeenSteps
  <2>2. x \notin Present(l) /\ x \notin Gone(l)
    <3> HIDE DEF w
    <3> QED BY <1>1, AboutList
  <2>3. \A X : x \notin X => Places(<<x>>, X) = {}
    <3> HIDE DEF x
    <3> QED BY PlacesOne
  <2>4. Places(s, Present(l)) = {} /\ Places(s, Gone(l)) = {}
    BY <2>2, <2>3
  <2> HIDE DEF s, x
  <2> QED BY <1>3, <2>1, <2>4, NothingSaid
<1> QED BY <1>4 DEF Following

\* An own removal is asked for.
LEMMA RemoveFollows ==
  ASSUME Sound, Following, NEW w \in Lists, NEW e, Left(e), RemoveInvitation(w, e),
         rows' = rows, stray' = stray, listening' = listening,
         invitations' = invitations
  PROVE  Following'
<1>1. up' = Append(up, Req("remove", w)) /\ events' = e \o Raised(invitations', up', w)
  BY DEF RemoveInvitation
<1>2. Req("remove", w) \in Requests
  BY DEF Req, Requests, WriteOps
<1>3. ASSUME NEW l \in Lists PROVE Followed(l)'
  <2>1. l # w => (l \in Seen(invitations, up') <=> l \in Seen(invitations, up))
    BY <1>1, <1>2, SeenSteps, OtherRequest
  <2> QED BY <1>1, <2>1, OneTold
<1> QED BY <1>3 DEF Following

\* Commit: a removal that is taken changes nothing that is seen.
LEMMA CommitFollows == Sound /\ Following /\ Commit => Following'
<1> SUFFICES ASSUME Sound, Following, Commit PROVE Following'
  OBVIOUS
<1>1. /\ up # <<>> /\ Head(up).op \in WriteOps /\ Head(up).id \in Lists /\ up' = Tail(up)
      /\ rows' = rows /\ stray' = stray /\ listening' = listening
  BY Heads DEF Commit, WriteOps, history
<1>2. CASE Head(up).op = "accept"
  <2>1. invitations' = invitations /\ events' = Append(events, Event("acceptDone", Head(up).id))
    BY <1>2 DEF Commit
  <2> QED BY <1>1, <1>2, <2>1, AnswerFollows
<1>3. CASE Head(up).op # "accept"
  <2> DEFINE w == Head(up).id
  <2>1. invitations' = invitations \ {w} /\ events' = events \o Raised(invitations', up', w)
    BY <1>3 DEF Commit
  <2>2. w \in Lists
    BY <1>1
  <2>3. ASSUME NEW l \in Lists PROVE Followed(l)'
    <3>1. l # w => Head(up) # Req("remove", l)
      BY DEF Req
    <3>2. l # w => (l \in Seen(invitations', up') <=> l \in Seen(invitations', up))
      BY <1>1, <3>1, SeenSteps
    <3>3. l # w => (l \in Seen(invitations', up) <=> l \in Seen(invitations, up))
      BY <2>1 DEF Seen
    <3>4. Left(events)
      BY DEF Left
    <3> HIDE DEF w
    <3> QED BY <1>1, <2>1, <2>2, <3>2, <3>3, <3>4, OneTold
  <2> QED BY <1>1, <2>3 DEF Following
<1> QED BY <1>2, <1>3

\* Reject: a removal that is refused shows the invitation again.
LEMMA RejectFollows == Sound /\ Following /\ Reject => Following'
<1> SUFFICES ASSUME Sound, Following, Reject PROVE Following'
  OBVIOUS
<1>1. /\ up # <<>> /\ Head(up).op \in WriteOps /\ Head(up).id \in Lists /\ up' = Tail(up)
      /\ rows' = rows /\ stray' = stray /\ listening' = listening
      /\ invitations' = invitations
  BY Heads DEF Reject, WriteOps, tree
<1>2. CASE Head(up).op = "accept"
  <2>1. events' = Append(events, Event("acceptDone", Head(up).id))
    BY <1>2 DEF Reject
  <2> QED BY <1>1, <1>2, <2>1, AnswerFollows
<1>3. CASE Head(up).op # "accept"
  <2> DEFINE w == Head(up).id
  <2>1. events' = events \o Raised(invitations', up', w)
    BY <1>1, <1>3 DEF Reject
  <2>2. w \in Lists
    BY <1>1
  <2>3. ASSUME NEW l \in Lists PROVE Followed(l)'
    <3>1. l # w => Head(up) # Req("remove", l)
      BY DEF Req
    <3>2. l # w => (l \in Seen(invitations', up') <=> l \in Seen(invitations, up))
      BY <1>1, <3>1, SeenSteps
    <3>3. Left(events)
      BY DEF Left
    <3> HIDE DEF w
    <3> QED BY <1>1, <2>1, <2>2, <3>2, <3>3, OneTold
  <2> QED BY <1>1, <2>3 DEF Following
<1> QED BY <1>2, <1>3

\* The others' invitation, the answer to a title, and the removals the user's app asks for.
LEMMA OthersFollow ==
  ASSUME Sound, Following, UserFound \/ TitleAnswered \/ AcceptDone \/ TitleRead \/ Discard
  PROVE  Following'
<1>1. CASE UserFound
  <2>1. /\ sender \in Lists /\ invitations' = invitations \cup {sender} /\ up' = up
        /\ events' = events \o Raised(invitations', up', sender)
        /\ rows' = rows /\ stray' = stray /\ listening' = listening
    BY <1>1 DEF UserFound, history
  <2>2. ASSUME NEW l \in Lists PROVE Followed(l)'
    <3>1. l # sender => (l \in Seen(invitations', up') <=> l \in Seen(invitations, up))
      BY <2>1 DEF Seen
    <3>2. Left(events)
      BY DEF Left
    <3> QED BY <2>1, <3>1, <3>2, OneTold
  <2> QED BY <2>1, <2>2 DEF Following
<1>2. CASE TitleAnswered
  BY <1>2, AnswerFollows DEF TitleAnswered, Oldest, tree, history
<1>3. CASE AcceptDone
  <2>1. /\ events # <<>> /\ Head(events).type = "acceptDone"
        /\ RemoveInvitation(Head(events).id, Tail(events))
    BY <1>3 DEF AcceptDone, Next1
  <2>2. Head(events).id \in Lists /\ Left(Tail(events))
    BY <2>1, Heads DEF Left
  <2>3. /\ rows' = rows /\ stray' = stray /\ listening' = listening
        /\ invitations' = invitations
    BY <1>3 DEF AcceptDone, tree, history
  <2> QED BY <2>1, <2>2, <2>3, RemoveFollows
<1>4. CASE TitleRead
  <2>1. /\ events # <<>> /\ Head(events).type = "title"
        /\ RemoveInvitation(Head(events).id, Tail(events))
    BY <1>4 DEF TitleRead, Next1
  <2>2. Head(events).id \in Lists /\ Left(Tail(events))
    BY <2>1, Heads DEF Left
  <2>3. /\ rows' = rows /\ stray' = stray /\ listening' = listening
        /\ invitations' = invitations
    BY <1>4 DEF TitleRead, tree, history
  <2> QED BY <2>1, <2>2, <2>3, RemoveFollows
<1>5. CASE Discard
  <2>1. popup \in Lists /\ RemoveInvitation(popup, events) /\ Left(events)
    BY <1>5 DEF Discard, Answer, Left, Sound, TypeOK
  <2>2. /\ rows' = rows /\ stray' = stray /\ listening' = listening
        /\ invitations' = invitations
    BY <1>5 DEF Discard, tree
  <2> QED BY <2>1, <2>2, RemoveFollows
<1> QED BY <1>1, <1>2, <1>3, <1>4, <1>5

\* The oldest callback is handled.
LEMMA HandledFollows ==
  ASSUME Sound, Following, events # <<>>, events' = Tail(events), NEW l \in Lists,
         listening' = listening, invitations' = invitations, up' = up,
         stray \subseteq stray',
         l \notin stray' => \A j, k \in DOMAIN rows' : rows'[j] = l /\ rows'[k] = l => j = k,
         Head(events) \in Present(l) => l \in RowIds',
         Head(events) \in Gone(l) => l \in stray' \/ l \notin RowIds',
         Head(events) \notin Present(l) \cup Gone(l) => (l \in RowIds' <=> l \in RowIds)
  PROVE  Followed(l)'
<1>1. events \in Seq(Events) /\ Followed(l)
  BY DEF Sound, TypeOK, Following
<1> DEFINE there == l \in Seen(invitations, up)
           P     == Present(l)
<1>2. there = (l \in Seen(invitations', up'))
  BY DEF Seen
<1>3. CASE listening
  <2>1. InView(RowIds, stray, l, events, there)
    BY <1>1, <1>3 DEF Followed
  <2>2. InView(RowIds', stray', l, Tail(events), there)
    <3> HIDE DEF there
    <3> QED BY <1>1, <2>1, HandledView
  <2>3. InView(RowIds', stray', l, events', l \in Seen(invitations', up'))
    <3> HIDE DEF there
    <3> QED BY <1>2, <2>2
  <2> QED BY <1>3, <2>3, FollowedNext
<1>4. CASE ~ listening
  <2>1. /\ Places(events, P) = {} => Places(Tail(events), P) = {}
        /\ Places(events, P) = {} => Head(events) \notin P
    <3> HIDE DEF P
    <3> QED BY <1>1, LastOfTail, PlacesTail
  <2> QED BY <1>1, <1>4, <2>1, FollowedNext DEF Followed, Quiet
<1> QED BY <1>3, <1>4

\* Loaded: a list that had a row has strayed.
LEMMA LoadedFollows == Sound /\ Following /\ Loaded => Following'
<1> SUFFICES ASSUME Sound, Following, Loaded PROVE Following'
  OBVIOUS
<1> DEFINE S == Head(events).ids
<1>1. /\ events # <<>> /\ Head(events).type = "loaded" /\ events' = Tail(events)
      /\ listening' = listening /\ session' = session /\ invitations' = invitations /\ up' = up
      /\ stray' = stray \cup (S \cap RowIds)
  BY DEF Loaded, Next1, tree
<1>2. S \subseteq Lists /\ IsFiniteSet(S)
  BY <1>1, Heads, ListsFinite, FS_Subset
<1>3. PICK order \in SetToSeqs(S) : rows' = rows \o order
  BY DEF Loaded
<1>4. \A l \in Lists : /\ Head(events) \in Present(l) <=> l \in S
                       /\ Head(events) \notin Gone(l)
  <2>1. Head(events) \in Events
    BY <1>1 DEF Sound, TypeOK
  <2> QED BY <1>1, <2>1 DEF Present, Gone
<1> HIDE DEF S
<1>5. /\ order \in Seq(S) /\ DOMAIN order = 1..Len(order)
      /\ \A j, k \in DOMAIN order : order[j] = order[k] => j = k
      /\ \A x \in S : \E k \in DOMAIN order : order[k] = x
  BY <1>2, <1>3, OrderLists
<1>6. rows \in Seq(Lists) /\ order \in Seq(Lists)
  BY <1>2, <1>5 DEF Sound, TypeOK
<1>7. /\ DOMAIN rows = 1..Len(rows) /\ DOMAIN rows' = 1..(Len(rows) + Len(order))
      /\ Len(rows) \in Nat /\ Len(order) \in Nat
      /\ \A k \in 1..Len(rows) : rows'[k] = rows[k]
      /\ \A k \in 1..Len(order) : rows'[k + Len(rows)] = order[k]
      /\ \A k \in (DOMAIN rows') \ DOMAIN rows :
            /\ k - Len(rows) \in DOMAIN order /\ rows'[k] = order[k - Len(rows)]
            /\ k - Len(rows) \in Int /\ k \in Int
  BY <1>3, <1>5, <1>6
<1>8. RowIds' = RowIds \cup S
  <2>1. ASSUME NEW x \in S PROVE x \in RowIds'
    <3>1. PICK k \in DOMAIN order : order[k] = x
      BY <1>5
    <3>2. k \in 1..Len(order) /\ k + Len(rows) \in DOMAIN rows' /\ rows'[k + Len(rows)] = x
      BY <1>5, <1>7, <3>1
    <3> QED BY <3>2 DEF RowIds, Range
  <2>2. ASSUME NEW x \in RowIds PROVE x \in RowIds'
    <3>1. PICK k \in DOMAIN rows : rows[k] = x
      BY DEF RowIds, Range
    <3>2. k \in DOMAIN rows' /\ rows'[k] = x
      BY <1>7, <3>1
    <3> QED BY <3>2 DEF RowIds, Range
  <2>3. ASSUME NEW x \in RowIds' PROVE x \in RowIds \cup S
    <3>1. PICK k \in DOMAIN rows' : rows'[k] = x
      BY DEF RowIds, Range
    <3>2. CASE k \in DOMAIN rows
      BY <1>7, <3>1, <3>2 DEF RowIds, Range
    <3>3. CASE k \notin DOMAIN rows
      BY <1>5, <1>7, <3>1, <3>3
    <3> QED BY <3>2, <3>3
  <2> QED BY <2>1, <2>2, <2>3
<1>9. ASSUME NEW l \in Lists PROVE Followed(l)'
  <2>1. ASSUME l \notin stray', NEW j \in DOMAIN rows', NEW k \in DOMAIN rows',
               rows'[j] = l, rows'[k] = l
        PROVE  j = k
    <3>1. OneRow(l) /\ ~ (l \in S /\ l \in RowIds)
      BY <1>1, <2>1 DEF Following, Followed
    <3>2. CASE l \in S
      <4>1. j \notin DOMAIN rows /\ k \notin DOMAIN rows
        BY <1>7, <2>1, <3>1, <3>2 DEF RowIds, Range
      <4>2. j - Len(rows) = k - Len(rows)
        BY <1>5, <1>7, <2>1, <4>1
      <4> QED BY <1>7, <4>1, <4>2
    <3>3. CASE l \notin S
      <4>1. j \in DOMAIN rows /\ k \in DOMAIN rows
        BY <1>5, <1>7, <2>1, <3>3
      <4> QED BY <1>7, <2>1, <3>1, <4>1 DEF OneRow
    <3> QED BY <3>2, <3>3
  <2>2. stray \subseteq stray'
    BY <1>1
  <2>3. /\ Head(events) \in Present(l) => l \in RowIds'
        /\ Head(events) \notin Present(l) \cup Gone(l) => (l \in RowIds' <=> l \in RowIds)
        /\ Head(events) \notin Gone(l)
    BY <1>4, <1>8
  <2>4. l \notin stray' => \A j, k \in DOMAIN rows' : rows'[j] = l /\ rows'[k] = l => j = k
    BY <2>1
  <2> QED BY <1>1, <2>2, <2>3, <2>4, HandledFollows
<1> QED BY <1>1, <1>9 DEF Following

\* A row for a list that has none.
LEMMA AddedFollows == Sound /\ Following /\ InvitationsChildAdded => Following'
<1> SUFFICES ASSUME Sound, Following, InvitationsChildAdded PROVE Following'
  OBVIOUS
<1> DEFINE w == Head(events).id
<1>1. /\ events # <<>> /\ Head(events).type = "added" /\ events' = Tail(events)
      /\ listening' = listening /\ session' = session /\ invitations' = invitations /\ up' = up
      /\ stray' = stray
      /\ rows' = IF w \in RowIds THEN rows ELSE Append(rows, w)
  BY DEF InvitationsChildAdded, Next1, tree, history
<1>2. w \in Lists
  BY <1>1, Heads
<1>3. \A l \in Lists : /\ Head(events) \in Present(l) <=> w = l
                       /\ Head(events) \notin Gone(l)
  <2>1. Head(events) \in Events
    BY <1>1 DEF Sound, TypeOK
  <2> QED BY <1>1, <2>1 DEF Present, Gone
<1> HIDE DEF w
<1>4. rows \in Seq(Lists) /\ DOMAIN rows = 1..Len(rows) /\ Len(rows) \in Nat
  BY DEF Sound, TypeOK
<1>5. CASE w \in RowIds
  <2>1. rows' = rows /\ RowIds' = RowIds
    BY <1>1, <1>5 DEF RowIds
  <2>2. ASSUME NEW l \in Lists PROVE Followed(l)'
    <3>1. l \notin stray' => \A j, k \in DOMAIN rows' : rows'[j] = l /\ rows'[k] = l => j = k
      BY <1>1, <2>1 DEF Following, Followed, OneRow
    <3> QED BY <1>1, <1>3, <1>5, <2>1, <3>1, HandledFollows
  <2> QED BY <1>1, <2>2 DEF Following
<1>6. CASE w \notin RowIds
  <2>1. /\ DOMAIN rows' = 1..(Len(rows) + 1)
        /\ \A k \in 1..Len(rows) : rows'[k] = rows[k]
        /\ rows'[Len(rows) + 1] = w
    BY <1>1, <1>2, <1>4, <1>6
  <2>2. \A k \in DOMAIN rows' : k \in DOMAIN rows \/ k = Len(rows) + 1
    BY <1>4, <2>1
  <2>3. \A k \in DOMAIN rows : k \in DOMAIN rows' /\ rows'[k] = rows[k] /\ rows[k] # w
    BY <1>4, <1>6, <2>1 DEF RowIds, Range
  <2>4. Len(rows) + 1 \in DOMAIN rows'
    BY <1>4, <2>1
  <2>5. RowIds' = RowIds \cup {w}
    BY <2>1, <2>2, <2>3, <2>4 DEF RowIds, Range
  <2>6. ASSUME NEW l \in Lists PROVE Followed(l)'
    <3>1. l \notin stray' => \A j, k \in DOMAIN rows' : rows'[j] = l /\ rows'[k] = l => j = k
      <4>1. l \notin stray' => OneRow(l)
        BY <1>1 DEF Following, Followed
      <4> QED BY <2>1, <2>2, <2>3, <4>1 DEF OneRow
    <3> QED BY <1>1, <1>3, <2>5, <3>1, HandledFollows
  <2> QED BY <1>1, <2>6 DEF Following
<1> QED BY <1>5, <1>6

\* The only row of a list goes.
LEMMA RemovedFollows == Sound /\ Following /\ InvitationsChildRemoved => Following'
<1> SUFFICES ASSUME Sound, Following, InvitationsChildRemoved PROVE Following'
  OBVIOUS
<1> DEFINE w == Head(events).id
<1>1. /\ events # <<>> /\ Head(events).type = "removed" /\ events' = Tail(events)
      /\ listening' = listening /\ session' = session /\ invitations' = invitations /\ up' = up
      /\ stray' = stray
      /\ rows' = RemoveFirst(rows, w)
  BY DEF InvitationsChildRemoved, Next1, tree, history
<1>2. \A l \in Lists : /\ Head(events) \in Gone(l) <=> w = l
                       /\ Head(events) \notin Present(l)
  <2>1. Head(events) \in Events
    BY <1>1 DEF Sound, TypeOK
  <2> QED BY <1>1, <2>1 DEF Present, Gone
<1> HIDE DEF w
<1>3. rows \in Seq(Lists)
  BY DEF Sound, TypeOK
<1>4. ASSUME NEW l \in Lists PROVE Followed(l)'
  <2>1. /\ l # w => (l \in RowIds' <=> l \in RowIds)
        /\ OneRow(l) => /\ l = w => l \notin RowIds'
                        /\ \A j, k \in DOMAIN rows' : rows'[j] = l /\ rows'[k] = l => j = k
    <3> DEFINE t == RemoveFirst(rows, w)
    <3>1. /\ l # w => (l \in Range(t) <=> l \in Range(rows))
          /\ (\A j, k \in DOMAIN rows : rows[j] = l /\ rows[k] = l => j = k)
               => /\ l = w => l \notin Range(t)
                  /\ \A j, k \in DOMAIN t : t[j] = l /\ t[k] = l => j = k
      BY <1>3, RemoveFirstHolds
    <3>2. rows' = t
      BY <1>1
    <3> HIDE DEF t
    <3> QED BY <3>1, <3>2 DEF RowIds, OneRow
  <2>2. l \notin stray' => OneRow(l)
    BY <1>1 DEF Following, Followed
  <2> QED BY <1>1, <1>2, <2>1, <2>2, HandledFollows
<1> QED BY <1>1, <1>4 DEF Following

-----------------------------------------------------------------------------
\* The log-out and the end of the process leave no rows, and none to come for a list that
\* has not strayed.
LEMMA EndFollows ==
  ASSUME Sound, Following, LogOut \/ NobodyRemoves \/ Kill
  PROVE  Following'
<1>1. rows' = <<>> /\ listening' = FALSE
  BY DEF LogOut, NobodyRemoves, Kill, Ended
<1>2. DOMAIN rows' = {} /\ RowIds' = {}
  BY <1>1 DEF RowIds, Range
<1>3. ASSUME NEW l \in Lists PROVE l \in stray' \/ Places(events', Present(l)) = {}
  <2>1. CASE LogOut
    <3>1. ASSUME NEW k \in Places(events, Present(l)) PROVE l \in Coming
      <4>1. events[k] \in Range(events) /\ events[k] \in Present(l)
        BY DEF Places, Range
      <4> QED BY <4>1 DEF Coming, Present
    <3> QED BY <2>1, <3>1 DEF LogOut
  <2>2. CASE NobodyRemoves \/ Kill
    <3>1. events' = <<>>
      BY <2>2 DEF NobodyRemoves, Kill, Ended
    <3> QED BY <3>1, PlacesOne
  <2> QED BY <2>1, <2>2
<1>4. ASSUME NEW l \in Lists PROVE Followed(l)'
  BY <1>1, <1>2, <1>3, FollowedNext
<1> QED BY <1>1, <1>4 DEF Following

-----------------------------------------------------------------------------
\* Two queues joined, in either order.
LEMMA EitherOrder ==
  ASSUME NEW A, NEW q \in Seq(A), NEW r \in Seq(A)
  PROVE  /\ q \o r \in Seq(A) /\ r \o q \in Seq(A)
         /\ \A X : /\ (Places(q \o r, X) = {}) <=> (Places(q, X) = {} /\ Places(r, X) = {})
                   /\ (Places(r \o q, X) = {}) <=> (Places(q, X) = {} /\ Places(r, X) = {})
<1>1. q \o r \in Seq(A) /\ r \o q \in Seq(A)
  OBVIOUS
<1>2. ASSUME NEW X
      PROVE  /\ (Places(q \o r, X) = {}) <=> (Places(q, X) = {} /\ Places(r, X) = {})
             /\ (Places(r \o q, X) = {}) <=> (Places(q, X) = {} /\ Places(r, X) = {})
  <2>1. /\ (Places(q \o r, X) = {}) <=> (Places(q, X) = {} /\ Places(r, X) = {})
        /\ LastOf(r, X, X) /\ (LastOf(q, X, X) \/ Places(r, X) # {}) => LastOf(q \o r, X, X)
    BY LastOfJoined
  <2>2. /\ (Places(r \o q, X) = {}) <=> (Places(r, X) = {} /\ Places(q, X) = {})
        /\ LastOf(q, X, X) /\ (LastOf(r, X, X) \/ Places(q, X) # {}) => LastOf(r \o q, X, X)
    BY LastOfJoined
  <2> QED BY <2>1, <2>2
<1> QED BY <1>1, <1>2

\* What the load tells: every invitation that is seen, and of no other list.
LEMMA LoadTold ==
  ASSUME Sound, LoadAnswered
  PROVE  \E both \in Seq(Events) :
           /\ events' = events \o both
           /\ \A l \in Lists :
                /\ Places(both, Gone(l)) = {}
                /\ Places(both, Present(l)) # {} <=> l \in Seen(invitations, Tail(up))
<1> DEFINE S     == Seen(invitations, Tail(up))
           x     == [type |-> "loaded", ids |-> S]
           first == <<x>>
<1>1. S \subseteq Lists /\ IsFiniteSet(S)
  <2>1. S \subseteq Lists
    BY DEF Seen, Sound, TypeOK
  <2> HIDE DEF S
  <2> QED BY <2>1, ListsFinite, FS_Subset
<1>2. PICK order \in SetToSeqs(S) :
        LET added == [k \in DOMAIN order |-> Event("added", order[k])]
        IN  \E both \in {first \o added, added \o first} : events' = events \o both
  BY DEF LoadAnswered
<1> DEFINE added == [k \in DOMAIN order |-> Event("added", order[k])]
<1>3. events' = events \o (first \o added) \/ events' = events \o (added \o first)
  BY <1>2
<1>4. /\ x \in Events
      /\ \A l \in Lists : (x \in Present(l) <=> l \in S) /\ x \notin Gone(l)
  <2> HIDE DEF S
  <2> QED BY <1>1 DEF Events, Present, Gone
<1>5. /\ added \in Seq(Events)
      /\ \A k \in DOMAIN added : \E i \in S : i \in Lists /\ added[k] = Event("added", i)
  <2>1. order \in Seq(S) /\ DOMAIN order = 1..Len(order) /\ Len(order) \in Nat
    <3> HIDE DEF S
    <3> QED BY <1>1, <1>2, OrderLists
  <2> HIDE DEF S
  <2>2. \A k \in DOMAIN order : /\ Event("added", order[k]) \in Events
                                /\ order[k] \in S /\ order[k] \in Lists
    BY <1>1, <2>1 DEF Event, Events
  <2> HIDE DEF Events
  <2> QED BY <2>1, <2>2
<1> HIDE DEF S, x, added
<1>6. first \in Seq(Events) /\ \A X : (Places(first, X) = {}) <=> (x \notin X)
  <2>1. first \in Seq(Events)
    BY <1>4
  <2>2. \A X : (Places(first, X) = {}) <=> (x \notin X)
    BY PlacesOne
  <2> QED BY <2>1, <2>2
<1> HIDE DEF first
<1>7. PICK both : /\ events' = events \o both
                  /\ both = first \o added \/ both = added \o first
  BY <1>3
<1>8. /\ both \in Seq(Events)
      /\ \A X : (Places(both, X) = {}) <=> (Places(first, X) = {} /\ Places(added, X) = {})
  <2>1. both = first \o added \/ both = added \o first
    BY <1>7
  <2>2. added \in Seq(Events) /\ first \in Seq(Events)
    BY <1>5, <1>6
  <2>3. /\ first \o added \in Seq(Events) /\ added \o first \in Seq(Events)
        /\ \A X : /\ (Places(first \o added, X) = {})
                       <=> (Places(first, X) = {} /\ Places(added, X) = {})
                  /\ (Places(added \o first, X) = {})
                       <=> (Places(first, X) = {} /\ Places(added, X) = {})
    BY <2>2, EitherOrder
  <2> QED BY <2>1, <2>3
<1>9. ASSUME NEW l \in Lists
      PROVE  /\ Places(both, Gone(l)) = {}
             /\ Places(both, Present(l)) # {} <=> l \in S
  <2>1. /\ Places(added, Gone(l)) = {}
        /\ Places(added, Present(l)) # {} => l \in S
    BY <1>5, AboutList DEF Places
  <2> QED BY <1>4, <1>6, <1>8, <2>1
<1> QED BY <1>7, <1>8, <1>9 DEF S

\* LoadAnswered: with the listener the rows catch up, from whatever was left behind.
LEMMA LoadFollows == Sound /\ Following /\ LoadAnswered => Following'
<1> SUFFICES ASSUME Sound, Following, LoadAnswered PROVE Following'
  OBVIOUS
<1> DEFINE S == Seen(invitations, Tail(up))
<1>1. /\ up # <<>> /\ Head(up).op = "load" /\ up' = Tail(up)
      /\ listening' = TRUE /\ invitations' = invitations /\ rows' = rows /\ stray' = stray
  BY DEF LoadAnswered, Oldest, tree, history
<1>2. S \subseteq invitations /\ S = Seen(invitations', up')
  BY <1>1 DEF Seen
<1>3. PICK both \in Seq(Events) :
        /\ events' = events \o both
        /\ \A l \in Lists : /\ Places(both, Gone(l)) = {}
                            /\ Places(both, Present(l)) # {} <=> l \in S
  BY LoadTold
<1>4. events \in Seq(Events) /\ RowIds' = RowIds
  BY <1>1 DEF Sound, TypeOK, RowIds
<1>5. \A l \in Lists : l \in S <=> l \in Seen(invitations, up)
  <2>1. \A l \in Lists : Head(up) # Req("remove", l)
    BY <1>1 DEF Req
  <2> QED BY <1>1, <2>1, SeenSteps
<1> HIDE DEF S
<1>6. ASSUME NEW l \in Lists PROVE Followed(l)'
  <2> DEFINE there == l \in S
             old   == l \in Seen(invitations, up)
             P     == Present(l)
  <2>1. l \notin stray' => \A j, k \in DOMAIN rows' : rows'[j] = l /\ rows'[k] = l => j = k
    BY <1>1 DEF Following, Followed, OneRow
  <2>2. /\ Places(both, Gone(l)) = {} /\ (Places(both, P) # {} <=> there)
        /\ there = old
    BY <1>3, <1>5
  <2>3. there = (l \in Seen(invitations', up'))
    BY <1>2
  <2>4. Followed(l)
    BY DEF Following
  <2>5. Places(events \o both, P) = {} <=> Places(events, P) = {} /\ Places(both, P) = {}
    <3> HIDE DEF P
    <3> QED BY <1>3, <1>4, LastOfJoined
  <2>6. InView(RowIds, stray, l, events \o both, there)
    <3>1. CASE l \in S
      <4>1. there = TRUE /\ Places(both, P) # {}
        BY <2>2, <3>1
      <4> HIDE DEF there
      <4>2. InView(RowIds, stray, l, events \o both, TRUE)
        BY <1>3, <1>4, <2>2, <4>1, JoinView
      <4> QED BY <4>1, <4>2
    <3>2. CASE l \notin S
      <4>1. there = FALSE /\ old = FALSE /\ Places(both, P) = {}
        BY <2>2, <3>2
      <4>2. CASE listening
        <5>1. InView(RowIds, stray, l, events, old)
          BY <2>4, <4>2 DEF Followed
        <5> HIDE DEF there, old
        <5>2. InView(RowIds, stray, l, events \o both, old)
          BY <1>3, <1>4, <2>2, <4>1, <5>1, JoinView
        <5> QED BY <4>1, <5>2
      <4>3. CASE ~ listening
        <5>1. l \in stray \/ (l \notin RowIds /\ Places(events \o both, P) = {})
          BY <2>4, <2>5, <4>1, <4>3 DEF Followed, Quiet
        <5> QED BY <4>1, <5>1 DEF InView, LastOf
      <4> QED BY <4>2, <4>3
    <3> QED BY <3>1, <3>2
  <2>7. InView(RowIds', stray', l, events', l \in Seen(invitations', up'))
    <3> HIDE DEF there
    <3> QED BY <1>1, <1>3, <1>4, <2>3, <2>6
  <2> QED BY <1>1, <2>1, <2>7, FollowedNext
<1> QED BY <1>1, <1>6 DEF Following

-----------------------------------------------------------------------------
\* The rows are followed in every state.
LEMMA AlwaysFollowing == Spec => []Following
<1>1. Init => Following
  <2> SUFFICES ASSUME Init PROVE Following
    OBVIOUS
  <2>1. /\ rows = <<>> /\ events = <<>> /\ listening = FALSE
    BY DEF Init
  <2>2. DOMAIN rows = {} /\ RowIds = {}
    BY <2>1 DEF RowIds, Range
  <2>3. \A X : Places(events, X) = {}
    BY <2>1, PlacesOne
  <2> QED BY <2>1, <2>2, <2>3 DEF Following, Followed, OneRow, Quiet
<1>2. Sound /\ Following /\ [Next]_vars => Following'
  <2> SUFFICES ASSUME Sound, Following, [Next]_vars PROVE Following'
    OBVIOUS
  <2> QED BY SilentFollows, CommitFollows, RejectFollows, OthersFollow, LoadedFollows,
             AddedFollows, RemovedFollows, EndFollows, LoadFollows DEF Next
<1> QED BY <1>1, <1>2, SoundHolds, PTL DEF Spec

\* With nothing under way, what is seen is what the server holds.
LEMMA WhenSettled ==
  ASSUME Settled, Following, NEW l \in Lists
  PROVE  /\ l \in invitations => l \in RowIds
         /\ l \notin invitations => l \in stray \/ l \notin RowIds
<1>1. up = <<>> /\ events = <<>> /\ listening /\ Followed(l)
  BY DEF Settled, Following
<1>2. \A X : Places(events, X) = {}
  BY <1>1, PlacesOne
<1>3. l \in Seen(invitations, up) <=> l \in invitations
  BY <1>1, ShortContains DEF Seen
<1> QED BY <1>1, <1>2, <1>3 DEF Followed, InView

\* Nothing under way, every invitation has a row, for any lists, and any order of loads,
\* listeners, removals, refusals and sessions.
THEOREM InvitationsAreListed == Spec => []EveryInvitationListed
<1>1. Sound /\ Following => EveryInvitationListed
  BY WhenSettled DEF EveryInvitationListed, Sound, TypeOK
<1> QED BY <1>1, SoundHolds, AlwaysFollowing, PTL

\* ... and every row that has not strayed is an invitation.
THEOREM RowsAreInvited == Spec => []RowsAreInvitations
<1>1. Sound /\ Following => RowsAreInvitations
  BY WhenSettled, RowsSafe DEF RowsAreInvitations
<1> QED BY <1>1, SoundHolds, AlwaysFollowing, PTL
=============================================================================
