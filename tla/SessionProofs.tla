--------------------------- MODULE SessionProofs ----------------------------
(***************************************************************************)
(* Theorems about Session for any accounts and bounds.                     *)
(***************************************************************************)
EXTENDS Session, QueueLemmas

-----------------------------------------------------------------------------
(***************************************************************************)
(* Type correctness.  That a profile belongs to an account rests on the    *)
(* order of CreateUser: its write is sent, and is in a queue, only for     *)
(* accounts that the server has made.                                      *)
(***************************************************************************)
GoodRequests == {r \in Requests : r.op = "store" => r.id \in accounts}
GoodEvents   == {e \in Events : e.type = "created" => e.id \in accounts}

Typed == TypeOK /\ db \in Seq(GoodRequests) /\ main \in Seq(GoodEvents)

\* Accounts stay, and with them what was good.
LEMMA StaysGood ==
  ASSUME Typed, accounts \subseteq accounts'
  PROVE  /\ db \in Seq(GoodRequests') /\ main \in Seq(GoodEvents')
         /\ db # <<>> => Head(db) \in GoodRequests /\ Tail(db) \in Seq(GoodRequests')
         /\ main # <<>> => Head(main) \in GoodEvents /\ Tail(main) \in Seq(GoodEvents')
<1>1. GoodRequests \subseteq GoodRequests' /\ GoodEvents \subseteq GoodEvents'
  BY DEF GoodRequests, GoodEvents
<1>2. db \in Seq(GoodRequests) /\ main \in Seq(GoodEvents)
  BY DEF Typed
<1>3. /\ db # <<>> => Head(db) \in GoodRequests /\ Tail(db) \in Seq(GoodRequests)
      /\ main # <<>> => Head(main) \in GoodEvents /\ Tail(main) \in Seq(GoodEvents)
  BY <1>2, HeadTailProperties
<1> HIDE DEF GoodRequests, GoodEvents
<1> QED BY <1>1, <1>2, <1>3

\* A typed state, from its parts: the queues, and the rest.
RestOK ==
    /\ accounts \subseteq Accounts /\ profiles \subseteq accounts
    /\ keychain \in Accounts \cup {None} /\ ready \in BOOLEAN
    /\ auth \in Accounts \cup {None} /\ seen \in Accounts \cup {None, Never}
    /\ attempts \in Seq(Attempts)
    /\ currentUser \in Accounts \cup {None}
    /\ delegates \subseteq {"root", "login", "register"}
    /\ screen \in Screens /\ hud \in BOOLEAN
    /\ lists \in Seq(ListsScreen) /\ leaving \in Seq(DOMAIN lists)
    /\ calm \in BOOLEAN
    /\ starts \in Nat /\ presses \in Nat /\ failures \in Nat

\* A step leads to a typed state if it types the queues, and the rest.
LEMMA TypedNext ==
  ASSUME RestOK', db' \in Seq(GoodRequests'), main' \in Seq(GoodEvents')
  PROVE  Typed'
<1>1. db' \in Seq(Requests) /\ main' \in Seq(Events)
  BY DEF GoodRequests, GoodEvents
<1> QED BY <1>1 DEF Typed, TypeOK, RestOK

\* The rest of a typed state.
LEMMA TypedRest == ASSUME Typed PROVE RestOK
BY DEF Typed, TypeOK, RestOK

\* The oldest request and the oldest callback have the fields of their kinds.
LEMMA Heads ==
  ASSUME Typed
  PROVE  /\ db # <<>> => Head(db).id \in Accounts
         /\ db # <<>> /\ Head(db).op = "store" => Head(db).id \in accounts
         /\ main # <<>> /\ Head(main).type \in {"signedIn", "created", "stored", "profile"}
               => Head(main).id \in Accounts
         /\ main # <<>> /\ Head(main).type = "created" => Head(main).id \in accounts
<1>1. /\ db # <<>> => Head(db) \in GoodRequests
      /\ main # <<>> => Head(main) \in GoodEvents
  BY HeadTailProperties DEF Typed
<1> QED BY <1>1 DEF GoodRequests, GoodEvents, Requests, Events

\* Answers that are always good.
LEMMA PlainEvents ==
  /\ State \in GoodEvents' /\ Failed("loginFailed") \in GoodEvents'
  /\ Failed("registerFailed") \in GoodEvents'
  /\ \A u \in Accounts : /\ About("signedIn", u) \in GoodEvents'
                         /\ About("stored", u) \in GoodEvents'
                         /\ \A b \in BOOLEAN : Profile(u, b) \in GoodEvents'
BY DEF State, Failed, About, Profile, GoodEvents, Events

\* Some profiles that are told together.
LEMMA Profiles ==
  ASSUME NEW u \in Accounts, NEW b \in BOOLEAN, NEW n \in Int
  PROVE  [k \in 1 .. n |-> Profile(u, b)] \in Seq(GoodEvents')
<1>1. Profile(u, b) \in GoodEvents'
  BY PlainEvents
<1>2. CASE n \in Nat
  BY <1>1, <1>2
<1>3. CASE n \notin Nat
  <2>1. 1 .. n = 1 .. 0
    BY <1>3
  <2>2. [k \in 1 .. 0 |-> Profile(u, b)] \in Seq(GoodEvents')
    BY <1>1
  <2> QED BY <2>1, <2>2
<1> QED BY <1>2, <1>3

\* A read of a profile, answered at once or sent.
LEMMA GetUserByIdTyped ==
  ASSUME Typed, accounts' = accounts, NEW u \in Accounts, NEW rest \in Seq(GoodEvents'),
         GetUserById(u, rest)
  PROVE  db' \in Seq(GoodRequests') /\ main' \in Seq(GoodEvents')
<1>1. db \in Seq(GoodRequests')
  BY StaysGood
<1>2. Request("read", u) \in GoodRequests'
  BY DEF Request, Requests, GoodRequests
<1> DEFINE there == u \in profiles \/ Contains(db, Request("store", u))
<1>3. there \in BOOLEAN
  OBVIOUS
<1> HIDE DEF there
<1>4. Profile(u, there) \in GoodEvents'
  BY <1>3, PlainEvents
<1> HIDE DEF GoodRequests, GoodEvents
<1>5. Append(rest, Profile(u, there)) \in Seq(GoodEvents')
  BY <1>4
<1>6. Append(db, Request("read", u)) \in Seq(GoodRequests')
  BY <1>1, <1>2
<1> QED BY <1>1, <1>5, <1>6 DEF GetUserById, there

\* A delegate that succeeds, or fails.
LEMMA AdmitTyped ==
  ASSUME RestOK, NEW D, Admit(D) \/ Refuse(D), UNCHANGED leaving
  PROVE  /\ delegates' \subseteq {"root", "login", "register"} /\ screen' \in Screens
         /\ hud' \in BOOLEAN /\ lists' \in Seq(ListsScreen) /\ leaving' \in Seq(DOMAIN lists')
<1>1. Opened \in ListsScreen
  BY DEF Opened, ListsScreen
<1>2. lists \in Seq(ListsScreen) /\ leaving \in Seq(DOMAIN lists)
  BY DEF RestOK
<1>3. lists' = lists \/ lists' = Append(lists, Opened)
  BY DEF Admit, Refuse
<1>4. lists' \in Seq(ListsScreen) /\ DOMAIN lists \subseteq DOMAIN lists'
  <2>1. CASE lists' = lists
    BY <1>2, <2>1
  <2>2. CASE lists' = Append(lists, Opened)
    <3>1. /\ Append(lists, Opened) \in Seq(ListsScreen)
          /\ Len(Append(lists, Opened)) = Len(lists) + 1 /\ Len(lists) \in Nat
      BY <1>1, <1>2
    <3>2. DOMAIN lists = 1 .. Len(lists) /\ DOMAIN lists' = 1 .. (Len(lists) + 1)
      BY <1>2, <2>2, <3>1
    <3> QED BY <2>2, <3>1, <3>2
  <2> QED BY <1>3, <2>1, <2>2
<1>5. leaving' \in Seq(DOMAIN lists')
  BY <1>2, <1>4
<1>6. /\ delegates' \subseteq {"root", "login", "register"} /\ screen' \in Screens
      /\ hud' \in BOOLEAN
  BY DEF Admit, Refuse, RestOK, Screens
<1> QED BY <1>4, <1>5, <1>6

\* The end of the process.
LEMMA ResetTyped ==
  ASSUME Typed, NEW how \in NotRunning, Reset(how)
  PROVE  Typed'
<1>1. db' \in Seq(GoodRequests') /\ main' \in Seq(GoodEvents')
  BY DEF Reset
<1>2. RestOK'
  <2>1. \A S : <<>> \in Seq(S)
    OBVIOUS
  <2> QED BY <2>1, TypedRest DEF Reset, RestOK, server, bounds, Screens
<1> QED BY <1>1, <1>2, TypedNext

\* An attempt has an operation and an account, and may leave the others.
LEMMA AttemptTaken ==
  ASSUME Typed, NEW k \in DOMAIN attempts
  PROVE  /\ attempts[k].op \in {"signIn", "create"} /\ attempts[k].id \in Accounts
         /\ RemoveAt(attempts, k) \in Seq(Attempts)
<1>1. attempts \in Seq(Attempts) /\ k \in 1 .. Len(attempts)
  BY DEF Typed, TypeOK
<1>2. attempts[k] \in Attempts
  BY <1>1
<1>3. RemoveAt(attempts, k) \in Seq(Attempts)
  <2> HIDE DEF Attempts
  <2> QED BY <1>1, RemoveAtQueue
<1> QED BY <1>2, <1>3 DEF Attempts

\* A success: the change of state, then the answer.
LEMMA SucceedsTyped ==
  ASSUME Typed, accounts \subseteq accounts', NEW k \in DOMAIN attempts,
         NEW event \in GoodEvents', Succeeds(k, event), db' = db
  PROVE  /\ main' \in Seq(GoodEvents') /\ db' \in Seq(GoodRequests')
         /\ keychain' \in Accounts /\ auth' \in Accounts /\ attempts' \in Seq(Attempts)
<1>1. <<State, event>> \in Seq(GoodEvents')
  BY PlainEvents
<1>2. main' \in Seq(GoodEvents') /\ db' \in Seq(GoodRequests')
  BY <1>1, StaysGood, ConcatProperties DEF Succeeds
<1> QED BY <1>2, AttemptTaken DEF Succeeds

\* The answers of the SDK and the server.
LEMMA AnswersTyped == Typed /\ Answers => Typed'
<1> SUFFICES ASSUME Typed, Answers PROVE Typed'
  OBVIOUS
<1>1. RestOK
  BY TypedRest
<1>2. CASE KeychainRead
  <2>1. accounts \subseteq accounts'
    BY <1>2 DEF KeychainRead, server
  <2>2. Append(main, State) \in Seq(GoodEvents') /\ main \in Seq(GoodEvents')
    <3>1. main \in Seq(GoodEvents') /\ State \in GoodEvents'
      BY <2>1, StaysGood, PlainEvents
    <3> HIDE DEF GoodEvents
    <3> QED BY <3>1
  <2>3. main' \in Seq(GoodEvents') /\ db' \in Seq(GoodRequests')
    BY <1>2, <2>1, <2>2, StaysGood DEF KeychainRead
  <2>4. RestOK'
    BY <1>1, <1>2 DEF KeychainRead, server, manager, ui, bounds, RestOK
  <2> QED BY <2>3, <2>4, TypedNext
<1>3. CASE ReadAnswered
  <2> DEFINE r == Head(db)
             q == Picked(db, {k \in DOMAIN db : db[k] # r})
  <2>1. accounts' = accounts /\ db # <<>> /\ r.id \in Accounts
    BY <1>3, Heads DEF ReadAnswered, server
  <2>2. db' = q /\ main' = main \o [k \in 1 .. (Len(db) - Len(db')) |->
                                      Profile(r.id, r.id \in profiles)]
    BY <1>3 DEF ReadAnswered
  <2>3. db \in Seq(GoodRequests')
    BY <2>1, StaysGood
  <2>4. q \in Seq(GoodRequests')
    BY <2>3, PickedQueue
  <2>5. Len(db) - Len(db') \in Int
    <3>1. Len(db) \in Nat /\ Len(q) \in Nat
      BY <2>3, <2>4
    <3> HIDE DEF q
    <3> QED BY <2>2, <3>1
  <2>6. (r.id \in profiles) \in BOOLEAN
    OBVIOUS
  <2> HIDE DEF q, r
  <2>7. [k \in 1 .. (Len(db) - Len(db')) |-> Profile(r.id, r.id \in profiles)] \in Seq(GoodEvents')
    BY <2>1, <2>5, <2>6, Profiles
  <2>8. main' \in Seq(GoodEvents')
    BY <2>1, <2>2, <2>7, StaysGood, ConcatProperties
  <2>9. RestOK'
    BY <1>1, <1>3 DEF ReadAnswered, server, sdk, manager, ui, bounds, RestOK
  <2> QED BY <2>2, <2>4, <2>8, <2>9, TypedNext
<1>4. CASE StoreAnswered
  <2> DEFINE u == Head(db).id
  <2>1. accounts' = accounts /\ db # <<>> /\ u \in accounts /\ u \in Accounts
    BY <1>4, Heads DEF StoreAnswered
  <2>2. db' \in Seq(GoodRequests')
    BY <1>4, <2>1, StaysGood DEF StoreAnswered
  <2>3. \/ profiles' = profiles \cup {u} /\ main' = Append(main, About("stored", u))
           /\ failures' = failures
        \/ profiles' = profiles /\ main' = Append(main, Failed("registerFailed"))
           /\ failures' = failures + 1
    BY <1>4 DEF StoreAnswered, OneMoreFailure
  <2> HIDE DEF u
  <2>4. main' \in Seq(GoodEvents')
    <3>1. /\ main \in Seq(GoodEvents') /\ About("stored", u) \in GoodEvents'
          /\ Failed("registerFailed") \in GoodEvents'
      BY <2>1, StaysGood, PlainEvents
    <3> HIDE DEF GoodEvents
    <3> QED BY <2>3, <3>1
  <2>5. RestOK'
    BY <1>1, <1>4, <2>1, <2>3 DEF StoreAnswered, sdk, manager, ui, RestOK
  <2> QED BY <2>2, <2>4, <2>5, TypedNext
<1>5. ASSUME NEW k \in DOMAIN attempts, SignInAnswered(k) PROVE Typed'
  <2>1. accounts' = accounts /\ attempts[k].id \in Accounts
    BY <1>5, AttemptTaken DEF SignInAnswered, server
  <2>2. About("signedIn", attempts[k].id) \in GoodEvents'
    BY <2>1, PlainEvents
  <2>3. /\ main' \in Seq(GoodEvents') /\ db' \in Seq(GoodRequests')
        /\ keychain' \in Accounts /\ auth' \in Accounts /\ attempts' \in Seq(Attempts)
    BY <1>5, <2>1, <2>2, SucceedsTyped DEF SignInAnswered
  <2>4. RestOK'
    BY <1>1, <1>5, <2>3 DEF SignInAnswered, server, manager, ui, bounds, RestOK
  <2> QED BY <2>3, <2>4, TypedNext
<1>6. ASSUME NEW k \in DOMAIN attempts, CreateAnswered(k) PROVE Typed'
  <2>1. /\ accounts \subseteq accounts' /\ attempts[k].id \in accounts'
        /\ attempts[k].id \in Accounts /\ accounts' \subseteq Accounts
    BY <1>1, <1>6, AttemptTaken DEF CreateAnswered, RestOK
  <2>2. About("created", attempts[k].id) \in GoodEvents'
    BY <2>1 DEF About, GoodEvents, Events
  <2>3. /\ main' \in Seq(GoodEvents') /\ db' \in Seq(GoodRequests')
        /\ keychain' \in Accounts /\ auth' \in Accounts /\ attempts' \in Seq(Attempts)
    BY <1>6, <2>1, <2>2, SucceedsTyped DEF CreateAnswered
  <2>4. RestOK'
    BY <1>1, <1>6, <2>1, <2>3 DEF CreateAnswered, manager, ui, bounds, RestOK
  <2> QED BY <2>3, <2>4, TypedNext
<1>7. ASSUME NEW k \in DOMAIN attempts, AttemptFails(k) PROVE Typed'
  <2>1. /\ accounts \subseteq accounts' /\ accounts' \subseteq Accounts /\ failures' \in Nat
    BY <1>1, <1>7, AttemptTaken DEF AttemptFails, OneMoreFailure, RestOK
  <2>2. \/ main' = Append(main, Failed("loginFailed"))
        \/ main' = Append(main, Failed("registerFailed"))
    BY <1>7 DEF AttemptFails
  <2>3. main' \in Seq(GoodEvents')
    <3>1. /\ main \in Seq(GoodEvents') /\ Failed("loginFailed") \in GoodEvents'
          /\ Failed("registerFailed") \in GoodEvents'
      BY <2>1, StaysGood, PlainEvents
    <3> HIDE DEF GoodEvents
    <3> QED BY <2>2, <3>1
  <2>4. db' \in Seq(GoodRequests') /\ attempts' \in Seq(Attempts)
    BY <1>7, <2>1, StaysGood, AttemptTaken DEF AttemptFails
  <2>5. RestOK'
    BY <1>1, <1>7, <2>1, <2>4 DEF AttemptFails, sdk, manager, ui, RestOK
  <2> QED BY <2>3, <2>4, <2>5, TypedNext
<1> QED BY <1>2, <1>3, <1>4, <1>5, <1>6, <1>7 DEF Answers

\* The callbacks.
LEMMA MainTyped == Typed /\ MainStep => Typed'
<1> SUFFICES ASSUME Typed, MainStep PROVE Typed'
  OBVIOUS
<1>1. RestOK
  BY TypedRest
<1>2. CASE ProfileMissing \/ NobodyLoads
  BY <1>2, ResetTyped DEF ProfileMissing, NobodyLoads, NotRunning
<1>3. ASSUME main # <<>>, accounts' = accounts
      PROVE  Tail(main) \in Seq(GoodEvents') /\ db \in Seq(GoodRequests')
  BY <1>3, StaysGood
<1>4. CASE StateChanged
  <2>0. main # <<>> /\ accounts' = accounts /\ seen' = auth /\ (calm' \in BOOLEAN)
    BY <1>4 DEF StateChanged, Next1, server
  <2>1. CASE seen = auth \/ auth = None
    <3>1. /\ main' = Tail(main) /\ db' = db
      BY <1>4, <2>1 DEF StateChanged
    <3>2. \/ UNCHANGED <<delegates, screen, hud, lists>>
          \/ Refuse({"root", "login"})
      BY <1>4, <2>1 DEF StateChanged
    <3>3. /\ delegates' \subseteq {"root", "login", "register"} /\ screen' \in Screens
          /\ hud' \in BOOLEAN /\ lists' \in Seq(ListsScreen) /\ leaving' \in Seq(DOMAIN lists')
      BY <1>1, <1>4, <3>2, AdmitTyped DEF StateChanged, RestOK
    <3>4. RestOK'
      BY <1>1, <1>4, <2>0, <3>3 DEF StateChanged, RestOK, server, bounds
    <3> QED BY <1>3, <2>0, <3>1, <3>4, TypedNext
  <2>2. CASE seen # auth /\ auth # None
    <3>1. auth \in Accounts /\ GetUserById(auth, Tail(main))
      BY <1>1, <1>4, <2>2 DEF StateChanged, RestOK
    <3>2. db' \in Seq(GoodRequests') /\ main' \in Seq(GoodEvents')
      BY <1>3, <2>0, <3>1, GetUserByIdTyped
    <3>3. RestOK'
      BY <1>1, <1>4, <2>0, <2>2 DEF StateChanged, RestOK, server, bounds
    <3> QED BY <3>2, <3>3, TypedNext
  <2> QED BY <2>1, <2>2
<1>5. CASE SignedIn
  <2>1. main # <<>> /\ accounts' = accounts /\ Head(main).id \in Accounts
    BY <1>5, Heads DEF SignedIn, Next1, server
  <2>2. db' \in Seq(GoodRequests') /\ main' \in Seq(GoodEvents')
    BY <1>3, <1>5, <2>1, GetUserByIdTyped DEF SignedIn
  <2>3. RestOK'
    BY <1>1, <1>5 DEF SignedIn, server, sdk, manager, ui, bounds, RestOK
  <2> QED BY <2>2, <2>3, TypedNext
<1>6. CASE Created
  <2> DEFINE u == Head(main).id
             q == Picked(db, {k \in DOMAIN db : db[k] # Request("read", u)})
  <2>1. main # <<>> /\ accounts' = accounts /\ u \in Accounts /\ u \in accounts
    BY <1>6, Heads DEF Created, Next1, server
  <2>2. /\ db' = Append(q, Request("store", u))
        /\ main' = Tail(main) \o [k \in 1 .. (Len(db) - Len(q)) |-> Profile(u, TRUE)]
    BY <1>6 DEF Created
  <2>3. q \in Seq(GoodRequests') /\ Len(q) \in Nat /\ Len(db) \in Nat
    <3>1. db \in Seq(GoodRequests')
      BY <1>3, <2>1
    <3> HIDE DEF GoodRequests
    <3>2. q \in Seq(GoodRequests')
      BY <3>1, PickedQueue
    <3> HIDE DEF q
    <3> QED BY <3>1, <3>2
  <2> HIDE DEF q, u
  <2>4. Request("store", u) \in GoodRequests'
    BY <1>3, <2>1 DEF Request, Requests, GoodRequests
  <2>5. db' \in Seq(GoodRequests')
    <3> HIDE DEF GoodRequests
    <3> QED BY <2>2, <2>3, <2>4
  <2>6. [k \in 1 .. (Len(db) - Len(q)) |-> Profile(u, TRUE)] \in Seq(GoodEvents')
    <3>1. Len(db) - Len(q) \in Int
      BY <2>3
    <3> QED BY <2>1, <3>1, Profiles
  <2>7. main' \in Seq(GoodEvents')
    BY <1>3, <2>1, <2>2, <2>6, ConcatProperties
  <2>8. RestOK'
    BY <1>1, <1>6 DEF Created, server, sdk, manager, ui, bounds, RestOK
  <2> QED BY <2>5, <2>7, <2>8, TypedNext
<1>7. CASE ProfileRead \/ Stored \/ LogInFailed \/ RegistrationFailed
  <2>1. main # <<>> /\ accounts' = accounts /\ main' = Tail(main) /\ db' = db
    BY <1>7 DEF ProfileRead, Stored, LogInFailed, RegistrationFailed, Next1, server
  <2>2. currentUser' \in Accounts \cup {None}
    BY <1>1, <1>7, Heads
       DEF ProfileRead, Stored, LogInFailed, RegistrationFailed, Next1, RestOK
  <2>3. \E D : Admit(D) \/ Refuse(D)
    BY <1>7 DEF ProfileRead, Stored, LogInFailed, RegistrationFailed
  <2>4. UNCHANGED <<server, keychain, sdk, attempts, leaving, calm, bounds>>
    BY <1>7 DEF ProfileRead, Stored, LogInFailed, RegistrationFailed
  <2>5. /\ delegates' \subseteq {"root", "login", "register"} /\ screen' \in Screens
        /\ hud' \in BOOLEAN /\ lists' \in Seq(ListsScreen) /\ leaving' \in Seq(DOMAIN lists')
    BY <1>1, <2>3, <2>4, AdmitTyped
  <2>6. RestOK'
    BY <1>1, <2>2, <2>4, <2>5 DEF server, sdk, bounds, RestOK
  <2> QED BY <1>3, <2>1, <2>6, TypedNext
<1> QED BY <1>2, <1>4, <1>5, <1>6, <1>7 DEF MainStep

\* A load that ends, or a guard: a lists screen changes, and perhaps asks for the
\* dismissal of the HUD.
LEMMA ScreenTyped ==
  ASSUME Typed, NEW n \in DOMAIN lists, DataLoaded(n) \/ TimeoutGuardFired(n)
  PROVE  Typed'
<1>1. RestOK
  BY TypedRest
<1>2. lists \in Seq(ListsScreen) /\ leaving \in Seq(DOMAIN lists)
  BY <1>1 DEF RestOK
<1>3. lists[n] \in ListsScreen
  BY <1>2
<1>4. lists' \in Seq(ListsScreen) /\ DOMAIN lists' = DOMAIN lists
  <2>1. /\ [lists[n] EXCEPT !.waiting = FALSE, !.guard = FALSE] \in ListsScreen
        /\ [lists[n] EXCEPT !.guard = FALSE] \in ListsScreen
    BY <1>3 DEF ListsScreen
  <2>2. \/ lists' = [lists EXCEPT ![n] = [lists[n] EXCEPT !.waiting = FALSE, !.guard = FALSE]]
        \/ lists' = [lists EXCEPT ![n] = [lists[n] EXCEPT !.guard = FALSE]]
    BY Zenon DEF DataLoaded, TimeoutGuardFired
  <2>3. PICK r \in ListsScreen : lists' = [lists EXCEPT ![n] = r]
    BY <2>1, <2>2, Zenon
  <2> HIDE DEF ListsScreen
  <2> QED BY <1>2, <2>3
<1>5. leaving' \in Seq(DOMAIN lists')
  <2>1. leaving' = Append(leaving, n) \/ leaving' = leaving
    BY DEF DataLoaded, TimeoutGuardFired, DismisDataLoad
  <2> QED BY <1>2, <1>4, <2>1
<1>6. UNCHANGED <<server, keychain, sdk, attempts, db, main, manager, screen, hud, calm, bounds>>
  BY DEF DataLoaded, TimeoutGuardFired
<1>7. db' \in Seq(GoodRequests') /\ main' \in Seq(GoodEvents')
  BY <1>6, StaysGood DEF server
<1>8. RestOK'
  BY <1>1, <1>4, <1>5, <1>6 DEF server, sdk, manager, bounds, RestOK
<1> QED BY <1>7, <1>8, TypedNext

\* A dismissal that is over enables the screen that asked for it.
LEMMA DismissedTyped == Typed /\ Dismissed => Typed'
<1> SUFFICES ASSUME Typed, Dismissed PROVE Typed'
  OBVIOUS
<1>1. RestOK
  BY TypedRest
<1>2. lists \in Seq(ListsScreen) /\ leaving \in Seq(DOMAIN lists) /\ leaving # <<>>
  BY <1>1 DEF RestOK, Dismissed
<1> DEFINE n == Head(leaving)
<1>3. n \in DOMAIN lists /\ leaving' \in Seq(DOMAIN lists)
  BY <1>2, HeadTailProperties DEF Dismissed
<1>4. lists' = [lists EXCEPT ![n].busy = FALSE]
  BY DEF Dismissed
<1> HIDE DEF n
<1>5. lists[n] \in ListsScreen
  BY <1>2, <1>3
<1>6. lists' \in Seq(ListsScreen) /\ DOMAIN lists' = DOMAIN lists
  <2>1. [lists[n] EXCEPT !.busy = FALSE] \in ListsScreen
    BY <1>5 DEF ListsScreen
  <2>2. lists' = [lists EXCEPT ![n] = [lists[n] EXCEPT !.busy = FALSE]]
    BY <1>3, <1>4
  <2> QED BY <1>2, <1>3, <2>1, <2>2
<1>7. /\ UNCHANGED <<server, keychain, sdk, attempts, db, main, manager, screen, calm, bounds>>
      /\ hud' = FALSE
  BY DEF Dismissed
<1>8. db' \in Seq(GoodRequests') /\ main' \in Seq(GoodEvents')
  BY <1>7, StaysGood DEF server
<1>9. RestOK'
  BY <1>1, <1>3, <1>6, <1>7 DEF server, sdk, manager, bounds, RestOK
<1> QED BY <1>8, <1>9, TypedNext

\* What the user does.
LEMMA UserTyped == Typed /\ UserStep => Typed'
<1> SUFFICES ASSUME Typed, UserStep PROVE Typed'
  OBVIOUS
<1>1. RestOK
  BY TypedRest
<1>2. /\ db \in Seq(GoodRequests)
      /\ Append(main, State) \in Seq(GoodEvents) /\ main \in Seq(GoodEvents)
  <2>1. State \in GoodEvents
    BY DEF State, GoodEvents, Events
  <2>2. db \in Seq(GoodRequests) /\ main \in Seq(GoodEvents)
    BY DEF Typed
  <2> HIDE DEF GoodEvents
  <2> QED BY <2>1, <2>2
<1>3. ASSUME accounts' = accounts
      PROVE  GoodRequests' = GoodRequests /\ GoodEvents' = GoodEvents
  BY <1>3 DEF GoodRequests, GoodEvents
<1>4. CASE Start
  <2>1. accounts' = accounts /\ db' = db
    BY <1>4 DEF Start, server
  <2>2. main' \in Seq(GoodEvents')
    <3>1. State \in GoodEvents'
      BY PlainEvents
    <3> QED BY <1>4, <3>1 DEF Start
  <2>3. RestOK'
    BY <1>1, <1>4 DEF Start, server, sdk, bounds, Screens, RestOK
  <2> QED BY <1>2, <1>3, <2>1, <2>2, <2>3, TypedNext
<1>5. CASE Kill
  BY <1>5, ResetTyped DEF Kill, NotRunning
<1>6. ASSUME NEW s \in {"login", "register"}, GoTo(s) PROVE Typed'
  <2>1. accounts' = accounts /\ db' = db /\ main' = main
    BY <1>6 DEF GoTo, server
  <2>2. RestOK'
    BY <1>1, <1>6 DEF GoTo, server, sdk, manager, bounds, Screens, RestOK
  <2> QED BY <1>2, <1>3, <2>1, <2>2, TypedNext
<1>7. CASE Back
  <2>1. accounts' = accounts /\ db' = db /\ main' = main
    BY <1>7 DEF Back, server
  <2>2. RestOK'
    BY <1>1, <1>7 DEF Back, server, sdk, bounds, Screens, RestOK
  <2> QED BY <1>2, <1>3, <2>1, <2>2, TypedNext
<1>8. ASSUME NEW s \in {"login", "register"}, NEW o \in {"signIn", "create"}, Press(s, o)
      PROVE  Typed'
  <2>1. accounts' = accounts /\ db' = db /\ main' = main
    BY <1>8 DEF Press, server
  <2>2. attempts' \in Seq(Attempts)
    <3>1. PICK u \in Accounts : attempts' = Append(attempts, Request(o, u))
      BY <1>8 DEF Press
    <3>2. Request(o, u) \in Attempts
      BY DEF Request, Attempts
    <3>3. attempts \in Seq(Attempts)
      BY <1>1 DEF RestOK
    <3> HIDE DEF Attempts
    <3> QED BY <3>1, <3>2, <3>3
  <2>3. RestOK'
    BY <1>1, <1>8, <2>2 DEF Press, server, sdk, RestOK
  <2> QED BY <1>2, <1>3, <2>1, <2>3, TypedNext
<1>9. CASE LogOutPressed
  <2>1. accounts' = accounts /\ db' = db /\ (main' = main \/ main' = Append(main, State))
    BY <1>9 DEF LogOutPressed, server
  <2>2. /\ keychain' \in Accounts \cup {None} /\ auth' \in Accounts \cup {None}
        /\ failures' \in Nat
    BY <1>1, <1>9 DEF LogOutPressed, OneMoreFailure, RestOK
  <2>3. RestOK'
    BY <1>1, <1>9, <2>2 DEF LogOutPressed, server, Screens, RestOK
  <2> QED BY <1>2, <1>3, <2>1, <2>3, TypedNext
<1> QED BY <1>4, <1>5, <1>6, <1>7, <1>8, <1>9 DEF UserStep, LogInPressed, RegisterPressed

\* Every variable holds a value of its kind, in particular a profile belongs to an
\* account, for any accounts and any number of starts, presses and failures.
THEOREM TypeCorrect == Spec => []TypeOK
<1>1. Init => Typed
  <2> SUFFICES ASSUME Init PROVE Typed
    OBVIOUS
  <2>1. \A S : <<>> \in Seq(S)
    OBVIOUS
  <2> QED BY <2>1 DEF Init, Typed, TypeOK, Screens, NotRunning
<1>2. Typed /\ [Next]_vars => Typed'
  <2> SUFFICES ASSUME Typed, [Next]_vars PROVE Typed'
    OBVIOUS
  <2>1. CASE UNCHANGED vars
    <3>1. RestOK'
      BY <2>1, TypedRest DEF vars, server, sdk, manager, ui, bounds, RestOK
    <3>2. db' \in Seq(GoodRequests') /\ main' \in Seq(GoodEvents')
      BY <2>1, StaysGood DEF vars, server
    <3> QED BY <3>1, <3>2, TypedNext
  <2> QED BY <2>1, AnswersTyped, MainTyped, ScreenTyped, DismissedTyped, UserTyped
          DEF Next, Loads, Timers
<1>3. Typed => TypeOK
  BY DEF Typed
<1> QED BY <1>1, <1>2, <1>3, PTL DEF Spec

-----------------------------------------------------------------------------
(***************************************************************************)
(* One lists screen.  A delegate is the screen on top: whoever else was    *)
(* one has removed itself, or was removed when it left the stack.          *)
(***************************************************************************)
DelegatesOnTop == delegates \subseteq {screen}

\* A delegate that succeeds is on top, and leaves no delegate when its screen is left.
LEMMA AdmitOnTop ==
  ASSUME DelegatesOnTop, delegates \subseteq {"root", "login", "register"},
         Len(lists) \in Nat, NEW D, Admit(D) \/ Refuse(D)
  PROVE  /\ DelegatesOnTop'
         /\ Len(lists') > Len(lists) => screen # "lists"
<1>1. CASE delegates \cap D = {}
  <2>1. UNCHANGED <<screen, lists>> /\ delegates' \subseteq delegates
    BY <1>1 DEF Admit, Refuse
  <2> QED BY <2>1 DEF DelegatesOnTop
<1>2. CASE delegates \cap D # {}
  <2>1. screen \in D /\ screen # "lists" /\ delegates \ D = {}
    BY <1>2 DEF DelegatesOnTop
  <2>2. delegates' = {}
    BY <2>1 DEF Admit, Refuse
  <2> QED BY <2>1, <2>2 DEF DelegatesOnTop
<1> QED BY <1>1, <1>2

\* The several announcements of one login push one lists screen, for any accounts and
\* any number of starts, presses and failures, and however hurried the user is.
THEOREM OneScreenOfLists == Spec => OneListsScreen
<1>1. Init => DelegatesOnTop
  BY DEF Init, DelegatesOnTop
<1>2. TypeOK /\ DelegatesOnTop /\ [Next]_vars
        => DelegatesOnTop' /\ (Len(lists') > Len(lists) => screen # "lists")
  <2> SUFFICES ASSUME TypeOK, DelegatesOnTop, [Next]_vars
               PROVE  DelegatesOnTop' /\ (Len(lists') > Len(lists) => screen # "lists")
    OBVIOUS
  <2>1. /\ lists \in Seq(ListsScreen) /\ Len(lists) \in Nat
        /\ delegates \subseteq {"root", "login", "register"}
    BY DEF TypeOK
  <2>2. ASSUME UNCHANGED <<delegates, screen>>, Len(lists') = Len(lists)
        PROVE  DelegatesOnTop' /\ (Len(lists') > Len(lists) => screen # "lists")
    BY <2>1, <2>2 DEF DelegatesOnTop
  <2>3. CASE UNCHANGED vars \/ Answers \/ SignedIn \/ Created
    BY <2>2, <2>3 DEF vars, ui, manager, Answers, KeychainRead, ReadAnswered, StoreAnswered,
       SignInAnswered, CreateAnswered, AttemptFails, SignedIn, Created
  <2>4. CASE StateChanged \/ ProfileRead \/ Stored \/ LogInFailed \/ RegistrationFailed
    <3>1. UNCHANGED <<delegates, screen, lists>> \/ \E D : Admit(D) \/ Refuse(D)
      BY <2>4 DEF StateChanged, ProfileRead, Stored, LogInFailed, RegistrationFailed
    <3> QED BY <2>1, <2>2, <3>1, AdmitOnTop
  <2>5. ASSUME NEW how, Reset(how)
        PROVE  DelegatesOnTop' /\ (Len(lists') > Len(lists) => screen # "lists")
    <3>1. delegates' = {} /\ Len(lists') = 0
      BY <2>5 DEF Reset
    <3> QED BY <2>1, <3>1 DEF DelegatesOnTop
  <2>6. CASE Loads \/ Timers
    <3>1. UNCHANGED <<delegates, screen>>
      BY <2>6 DEF Loads, Timers, DataLoaded, TimeoutGuardFired, Dismissed, manager
    <3>2. DOMAIN lists' = DOMAIN lists
      BY <2>6 DEF Loads, Timers, DataLoaded, TimeoutGuardFired, Dismissed
    <3>3. Len(lists') = Len(lists)
      BY <2>1, <3>2
    <3> QED BY <2>2, <3>1, <3>3
  <2>7. CASE UserStep /\ ~Kill
    <3>1. lists' = lists
      BY <2>7 DEF UserStep, Start, Back, LogInPressed, RegisterPressed, Press, LogOutPressed, GoTo
    <3>2. DelegatesOnTop'
      BY <2>1, <2>7 DEF UserStep, Start, Back, LogInPressed, RegisterPressed, Press,
         LogOutPressed, GoTo, DelegatesOnTop, manager
    <3> QED BY <2>1, <3>1, <3>2
  <2> QED BY <2>3, <2>4, <2>5, <2>6, <2>7 DEF Next, MainStep, UserStep, ProfileMissing,
          NobodyLoads, Kill
<1>3. Spec => []TypeOK
  BY TypeCorrect
<1> QED BY <1>1, <1>2, <1>3, PTL DEF Spec, OneListsScreen

-----------------------------------------------------------------------------
(***************************************************************************)
(* One user.  While the listener comes in time and the user waits, the     *)
(* process is in one of these phases; each says who is signed in, who is a *)
(* delegate and what is still to come.                                     *)
(***************************************************************************)
Reading  == Request("read", auth)
Storing  == Request("store", auth)
There(b) == Profile(auth, b)
Resolved == attempts = <<>> /\ db = <<>>

\* A keychain that has not been read yet is empty
Nobody == ~ready => keychain = None /\ auth = None

\* No process
Off ==
    /\ screen \in NotRunning /\ delegates = {} /\ currentUser = None
    /\ Resolved /\ main = <<>> /\ ~ready /\ auth = None /\ seen = Never

\* The listener has not been called
Starting ==
    /\ screen = "root" /\ delegates = {"root"} /\ currentUser = None
    /\ Resolved /\ seen = Never
    /\ \/ main = <<State>> /\ auth = None /\ (ready => keychain = None)
       \/ main = <<State, State>> /\ ready /\ auth \in Accounts

\* The profile of the user of an earlier process is read
Resuming ==
    /\ screen = "root" /\ delegates = {"root"} /\ currentUser = None
    /\ attempts = <<>> /\ ready /\ auth \in Accounts /\ seen = auth
    /\ \/ db = <<Reading>> /\ main \in {<<State>>, <<>>}
       \/ /\ db = <<>>
          /\ \E b \in BOOLEAN : /\ b => auth \in profiles
                                /\ main \in {<<State, There(b)>>, <<There(b)>>}

\* The user chooses a screen, or fills in a form
Resting ==
    /\ screen \in {"root", "login", "register"} /\ delegates = {} /\ Resolved /\ Nobody
    /\ \/ main = <<>> /\ seen = auth /\ currentUser \in {None, auth}
       \/ main = <<State>> /\ auth = None /\ currentUser = None /\ seen # Never

OpOf(s)   == IF s = "login" THEN "signIn" ELSE "create"
FailOf(s) == IF s = "login" THEN "loginFailed" ELSE "registerFailed"

\* An attempt is under way, or has failed
Trying ==
    /\ screen \in {"login", "register"} /\ delegates = {screen} /\ db = <<>> /\ Nobody
    /\ seen = auth /\ currentUser \in {None, auth}
    /\ \/ main = <<>> /\ \E u \in Accounts : attempts = <<Request(OpOf(screen), u)>>
       \/ attempts = <<>> /\ main = <<Failed(FailOf(screen))>>

\* A sign-in has succeeded: the listener and the completion both read the profile
LoggingIn ==
    /\ screen = "login" /\ delegates = {"login"} /\ attempts = <<>>
    /\ ready /\ auth \in Accounts
    /\ \/ db = <<>> /\ main = <<State, About("signedIn", auth)>>
       \/ /\ seen = auth
          /\ \/ db \in {<<>>, <<Reading>>} /\ main = <<About("signedIn", auth)>>
             \/ db \in {<<Reading>>, <<Reading, Reading>>} /\ main = <<>>
             \/ /\ db = <<>>
                /\ \E b \in BOOLEAN : /\ b => auth \in profiles
                                      /\ main \in {<<There(b)>>, <<There(b), There(b)>>}

\* How the write of the profile ends
Outcomes == {Failed("registerFailed")}
       \cup {About("stored", u) : u \in profiles \cap {auth}}

\* A registration has succeeded: the listener reads the profile that is written
Registering ==
    /\ screen = "register" /\ delegates = {"register"} /\ attempts = <<>>
    /\ ready /\ auth \in Accounts
    /\ \/ db = <<>> /\ main = <<State, About("created", auth)>> /\ seen # auth
       \/ /\ seen = auth
          /\ \/ db = <<Reading>> /\ main = <<About("created", auth)>>
             \/ db = <<Storing>> /\ main = <<There(TRUE)>>
             \/ db = <<Storing>> /\ main = <<>> /\ currentUser = auth
             \/ db = <<>> /\ \E e \in Outcomes : main = <<There(TRUE), e>>
             \/ db = <<>> /\ \E e \in Outcomes : main = <<e>> /\ currentUser = auth

\* The lists are shown
OnLists ==
    /\ screen = "lists" /\ delegates = {} /\ Resolved /\ ready
    /\ auth \in profiles /\ currentUser = auth /\ seen = auth
    /\ main \in {<<>>, <<There(TRUE)>>}

InPhase == Off \/ Starting \/ Resuming \/ Resting \/ Trying \/ LoggingIn \/ Registering \/ OnLists

\* Who is signed in, and whom the listener was told, is registered
Known ==
    /\ keychain \in accounts \cup {None}
    /\ auth \in accounts \cup {None}
    /\ seen \in accounts \cup {None, Never}

Orderly == Known /\ (calm => InPhase)

\* The fields of requests and callbacks.
LEMMA Fields ==
  /\ State.type = "state"
  /\ \A t : Failed(t).type = t
  /\ \A t, u : About(t, u).type = t /\ About(t, u).id = u
  /\ \A u, b : /\ Profile(u, b).type = "profile" /\ Profile(u, b).id = u
               /\ Profile(u, b).there = b
  /\ \A o, u : Request(o, u).op = o /\ Request(o, u).id = u
BY DEF State, Failed, About, Profile, Request

\* Who is known stays so.
LEMMA KnownStays == TypeOK /\ Known /\ [Next]_vars => Known'
<1> SUFFICES ASSUME TypeOK, Known, [Next]_vars PROVE Known'
  OBVIOUS
<1>1. accounts \subseteq accounts'
  BY DEF Next, vars, Answers, MainStep, Loads, Timers, UserStep, KeychainRead, SignInAnswered,
     CreateAnswered, AttemptFails, ReadAnswered, StoreAnswered, StateChanged, SignedIn, Created,
     ProfileRead, ProfileMissing, NobodyLoads, Reset, Stored, LogInFailed, RegistrationFailed, DataLoaded,
     TimeoutGuardFired, Dismissed, Start, Kill, GoTo, Back, LogInPressed, RegisterPressed, Press,
     LogOutPressed, server
<1>2. CASE UNCHANGED <<keychain, sdk>>
  BY <1>1, <1>2 DEF Known, sdk
<1>3. CASE KeychainRead \/ StateChanged \/ LogOutPressed
  BY <1>1, <1>3 DEF Known, KeychainRead, StateChanged, LogOutPressed
<1>4. ASSUME NEW k \in DOMAIN attempts, SignInAnswered(k) \/ CreateAnswered(k) PROVE Known'
  BY <1>1, <1>4 DEF Known, SignInAnswered, CreateAnswered, Succeeds
<1>5. ASSUME NEW how, Reset(how) PROVE Known'
  BY <1>5 DEF Known, Reset, server
<1> QED BY <1>2, <1>3, <1>4, <1>5
    DEF Next, vars, Answers, MainStep, Loads, Timers, UserStep, AttemptFails, ReadAnswered,
     StoreAnswered, SignedIn, Created, ProfileRead, ProfileMissing, NobodyLoads, Stored, LogInFailed,
     RegistrationFailed, DataLoaded, TimeoutGuardFired, Dismissed, Start, Kill, GoTo, Back,
     LogInPressed, RegisterPressed, Press

\* The SDK reads the keychain.
LEMMA KeychainPhase ==
  ASSUME TypeOK, Known, InPhase, KeychainRead
  PROVE  InPhase'
<1>1. Starting \/ Resting \/ Trying
  BY DEF InPhase, KeychainRead, Off, Resuming, LoggingIn, Registering, OnLists
<1>2. /\ ready' /\ auth' = keychain /\ ~ready
      /\ UNCHANGED <<server, keychain, seen, attempts, db, manager, screen>>
  BY DEF KeychainRead, ui
<1>3. CASE keychain = None
  <2>1. main' = main /\ auth = None
    BY <1>1, <1>2, <1>3 DEF KeychainRead, Starting, Resting, Trying, Nobody
  <2>2. Starting => Starting'
    BY <1>2, <1>3, <2>1 DEF Starting, Resolved, manager
  <2>3. Resting => Resting'
    BY <1>2, <1>3, <2>1 DEF Resting, Resolved, Nobody, manager
  <2>4. Trying => Trying'
    BY <1>2, <1>3, <2>1 DEF Trying, Nobody, manager
  <2> QED BY <1>1, <2>2, <2>3, <2>4 DEF InPhase
<1>4. CASE keychain # None
  <2>1. Starting
    BY <1>1, <1>2, <1>4 DEF Resting, Trying, Nobody
  <2>2. keychain \in Accounts /\ keychain # None
    BY <1>4 DEF TypeOK
  <2>3. main = <<State>>
    BY <1>2, <2>1 DEF Starting
  <2>4. main' = <<State, State>>
    BY <1>4, <2>3, Short DEF KeychainRead
  <2>5. Starting'
    BY <1>2, <2>1, <2>2, <2>4 DEF Starting, Resolved, manager
  <2> QED BY <2>5 DEF InPhase
<1> QED BY <1>3, <1>4

\* An attempt succeeds.
LEMMA SuccessPhase ==
  ASSUME TypeOK, Known, InPhase, NEW k \in DOMAIN attempts, SignInAnswered(k) \/ CreateAnswered(k)
  PROVE  InPhase'
<1>1. attempts # <<>>
  OBVIOUS
<1>2. Trying
  BY <1>1 DEF InPhase, Off, Starting, Resuming, Resting, LoggingIn, Registering, OnLists, Resolved
<1>3. PICK u \in Accounts : attempts = <<Request(OpOf(screen), u)>>
  BY <1>1, <1>2 DEF Trying
<1>4. main = <<>> /\ db = <<>> /\ screen \in {"login", "register"} /\ delegates = {screen}
  BY <1>1, <1>2 DEF Trying
<1>5. k = 1 /\ attempts[k] = Request(OpOf(screen), u) /\ RemoveAt(attempts, k) = <<>>
  BY <1>3, Short, OneRemoved
<1>6. attempts[k].op = OpOf(screen) /\ attempts[k].id = u
  BY <1>5, Fields
<1>7. ready /\ auth' = u /\ attempts' = <<>>
  BY <1>5, <1>6 DEF SignInAnswered, CreateAnswered, Succeeds
<1>8. UNCHANGED <<ready, seen, db, manager, screen>>
  BY DEF SignInAnswered, CreateAnswered, ui
<1>9. CASE SignInAnswered(k)
  <2>1. screen = "login"
    BY <1>4, <1>6, <1>9 DEF SignInAnswered, OpOf
  <2>2. main' = <<State, About("signedIn", auth')>>
    BY <1>4, <1>6, <1>7, <1>9, Short DEF SignInAnswered, Succeeds
  <2>3. LoggingIn'
    BY <1>4, <1>7, <1>8, <2>1, <2>2 DEF LoggingIn, manager
  <2> QED BY <2>3 DEF InPhase
<1>10. CASE CreateAnswered(k)
  <2>1. screen = "register"
    BY <1>4, <1>6, <1>10 DEF CreateAnswered, OpOf
  <2>2. main' = <<State, About("created", auth')>>
    BY <1>4, <1>6, <1>7, <1>10, Short DEF CreateAnswered, Succeeds
  <2>3. seen' # auth'
    BY <1>6, <1>7, <1>8, <1>10, NotAccounts DEF Known, CreateAnswered
  <2>4. Registering'
    BY <1>4, <1>7, <1>8, <2>1, <2>2, <2>3 DEF Registering, manager
  <2> QED BY <2>4 DEF InPhase
<1> QED BY <1>9, <1>10

\* An attempt fails.
LEMMA FailurePhase ==
  ASSUME TypeOK, Known, InPhase, NEW k \in DOMAIN attempts, AttemptFails(k)
  PROVE  InPhase'
<1>1. attempts # <<>>
  OBVIOUS
<1>2. Trying
  BY <1>1 DEF InPhase, Off, Starting, Resuming, Resting, LoggingIn, Registering, OnLists, Resolved
<1>3. PICK u \in Accounts : attempts = <<Request(OpOf(screen), u)>>
  BY <1>1, <1>2 DEF Trying
<1>4. main = <<>> /\ screen \in {"login", "register"}
  BY <1>1, <1>2 DEF Trying
<1>5. /\ attempts[k] = Request(OpOf(screen), u) /\ RemoveAt(attempts, k) = <<>>
  BY <1>3, Short, OneRemoved
<1>6. attempts[k].op = OpOf(screen)
  BY <1>5, Fields
<1>7. main' = <<Failed(FailOf(screen))>> /\ attempts' = <<>>
  <2>1. main' = Append(main, Failed(IF attempts[k].op = "signIn" THEN "loginFailed"
                                    ELSE "registerFailed"))
    BY DEF AttemptFails
  <2>2. (IF attempts[k].op = "signIn" THEN "loginFailed" ELSE "registerFailed") = FailOf(screen)
    BY <1>4, <1>6 DEF OpOf, FailOf
  <2>3. main' = <<Failed(FailOf(screen))>>
    BY <1>4, <2>1, <2>2, Short
  <2> QED BY <1>5, <2>3 DEF AttemptFails
<1>8. UNCHANGED <<keychain, sdk, db, manager, screen>>
  BY DEF AttemptFails, ui
<1>9. Trying'
  BY <1>2, <1>7, <1>8 DEF Trying, Nobody, sdk, manager
<1> QED BY <1>9 DEF InPhase

\* The profile is read; every read under way is of it.
LEMMA ReadPhase ==
  ASSUME TypeOK, InPhase, ReadAnswered
  PROVE  InPhase'
<1> DEFINE b == auth \in profiles
<1>1. /\ db # <<>> /\ Head(db).op = "read"
      /\ UNCHANGED <<server, sdk, attempts, manager, screen>>
  BY DEF ReadAnswered, ui
<1>2. b \in BOOLEAN /\ (b => auth \in profiles)
  OBVIOUS
<1>3. main = <<About("signedIn", auth)>> \/ main = <<About("created", auth)>> => FALSE
  <2>1. SUFFICES ASSUME NEW t \in {"signedIn", "created"}, main = <<About(t, auth)>> PROVE FALSE
    OBVIOUS
  <2>2. 1 \in DOMAIN main /\ main[1] = About(t, auth)
    BY <2>1, Short
  <2> QED BY <2>1, <2>2, Fields DEF ReadAnswered, RoundTrip
<1>4. Head(<<Storing>>).op # "read"
  BY Fields, Short DEF Storing
<1>5. CASE db = <<Reading>>
  <2>1. Head(db) = Reading /\ Reading.id = auth /\ Len(db) = 1
    BY <1>5, Short, Fields DEF Reading
  <2>2. db' = <<>> /\ Len(db') = 0
    <3>1. {k \in DOMAIN db : db[k] # Head(db)} = {}
      BY <1>5, <2>1, Short
    <3>2. db' = Picked(db, {})
      BY <3>1 DEF ReadAnswered
    <3> QED BY <3>2, NonePicked, EmptySeq
  <2>3. main' = main \o <<Profile(auth, b)>>
    <3>1. main' = main \o [k \in 1 .. (Len(db) - Len(db')) |-> Profile(auth, b)]
      BY <2>1 DEF ReadAnswered
    <3>2. Len(db) - Len(db') = 1
      BY <2>1, <2>2
    <3> QED BY <3>1, <3>2, ShortAlike
  <2>4. Resuming \/ LoggingIn
    BY <1>1, <1>3, <1>4, <1>5 DEF InPhase, Off, Starting, Resting, Trying, Registering, OnLists,
       Resolved
  <2>5. CASE Resuming
    <3>1. main' \in {<<State, Profile(auth, b)>>, <<Profile(auth, b)>>}
      <4>1. main = <<State>> \/ main = <<>>
        BY <1>1, <2>5 DEF Resuming
      <4>2. main = <<State>> => main' = <<State, Profile(auth, b)>>
        BY <2>3, PairMade
      <4>3. main = <<>> => main' = <<Profile(auth, b)>>
        BY <2>3, Short
      <4> QED BY <4>1, <4>2, <4>3
    <3> HIDE DEF b
    <3>2. Resuming'
      BY <1>1, <1>2, <2>2, <2>5, <3>1 DEF Resuming, There, sdk, server, manager
    <3> QED BY <3>2 DEF InPhase
  <2>6. CASE LoggingIn
    <3>1. main = <<>>
      BY <1>1, <1>3, <1>5, <2>6 DEF LoggingIn
    <3>2. main' = <<Profile(auth, b)>>
      BY <2>3, <3>1, Short
    <3>3. seen = auth
      BY <1>1, <2>6 DEF LoggingIn
    <3> HIDE DEF b
    <3>4. LoggingIn'
      BY <1>1, <1>2, <2>2, <2>6, <3>2, <3>3 DEF LoggingIn, There, sdk, server, manager
    <3> QED BY <3>4 DEF InPhase
  <2> QED BY <2>4, <2>5, <2>6
<1>6. CASE db # <<Reading>>
  <2>1. LoggingIn /\ db = <<Reading, Reading>> /\ main = <<>> /\ seen = auth
    BY <1>1, <1>3, <1>4, <1>6 DEF InPhase, Off, Starting, Resuming, Resting, Trying, LoggingIn,
       Registering, OnLists, Resolved
  <2>2. Head(db) = Reading /\ Reading.id = auth /\ Len(db) = 2
    BY <2>1, Short, Fields DEF Reading
  <2>3. db' = <<>> /\ Len(db') = 0
    <3>1. {k \in DOMAIN db : db[k] # Head(db)} = {}
      BY <2>1, <2>2, Short
    <3>2. db' = Picked(db, {})
      BY <3>1 DEF ReadAnswered
    <3> QED BY <3>2, NonePicked, EmptySeq
  <2>4. main' = <<Profile(auth, b), Profile(auth, b)>>
    <3>1. main' = main \o [k \in 1 .. (Len(db) - Len(db')) |-> Profile(auth, b)]
      BY <2>2 DEF ReadAnswered
    <3>2. Len(db) - Len(db') = 2
      BY <2>2, <2>3
    <3> QED BY <2>1, <3>1, <3>2, ShortAlike, Short
  <2> HIDE DEF b
  <2>5. LoggingIn'
    BY <1>1, <1>2, <2>1, <2>3, <2>4 DEF LoggingIn, There, sdk, server, manager
  <2> QED BY <2>5 DEF InPhase
<1> QED BY <1>5, <1>6

\* The profile is stored, or is not.
LEMMA StorePhase ==
  ASSUME TypeOK, InPhase, StoreAnswered
  PROVE  InPhase'
<1>1. /\ db # <<>> /\ Head(db).op = "store" /\ db' = Tail(db)
      /\ profiles \subseteq profiles'
      /\ UNCHANGED <<sdk, attempts, manager, screen>>
  BY DEF StoreAnswered, ui
<1>2. Registering /\ db = <<Storing>>
  <2>1. db # <<Reading>> /\ db # <<Reading, Reading>>
    BY <1>1, Short, Fields DEF Reading
  <2> QED BY <1>1, <2>1 DEF InPhase, Off, Starting, Resuming, Resting, Trying, LoggingIn,
          Registering, OnLists, Resolved
<1>3. /\ seen = auth
      /\ \/ main = <<There(TRUE)>>
         \/ main = <<>> /\ currentUser = auth
  <2>1. <<Storing>> # <<Reading>> /\ <<Storing>> # <<>>
    BY Fields, Short DEF Reading, Storing
  <2> QED BY <1>2, <2>1 DEF Registering
<1>4. Head(db).id = auth /\ db' = <<>>
  BY <1>1, <1>2, Short, Fields DEF Storing
<1>5. PICK e \in Outcomes' : main' = Append(main, e)
  <2>1. CASE profiles' = profiles \cup {auth} /\ main' = Append(main, About("stored", auth))
    <3>1. About("stored", auth) \in Outcomes'
      BY <1>1, <2>1 DEF Outcomes, sdk
    <3> QED BY <2>1, <3>1
  <2>2. CASE main' = Append(main, Failed("registerFailed"))
    BY <2>2 DEF Outcomes
  <2> QED BY <1>4, <2>1, <2>2 DEF StoreAnswered
<1>6. \/ main' = <<There(TRUE), e>>
      \/ main' = <<e>> /\ currentUser = auth
  <2>1. main = <<There(TRUE)>> => main' = <<There(TRUE), e>>
    BY <1>5, PairMade
  <2>2. main = <<>> => main' = <<e>>
    BY <1>5, Short
  <2> QED BY <1>3, <2>1, <2>2
<1>7. There(TRUE)' = There(TRUE)
  BY <1>1 DEF There, sdk
<1>8. Registering'
  BY <1>1, <1>2, <1>3, <1>4, <1>6, <1>7 DEF Registering, sdk, manager
<1> QED BY <1>8 DEF InPhase

\* A profile that nothing at hand tells is read.
LEMMA ReadSent ==
  ASSUME NEW u, NEW rest, GetUserById(u, rest), ~ Contains(db, Request("store", u)),
         \A k \in DOMAIN rest : rest[k].type # "profile"
  PROVE  main' = rest /\ db' = Append(db, Request("read", u))
BY DEF GetUserById

\* The oldest callback, where a phase writes the queue out.
LEMMA Oldest ==
  /\ Head(<<State>>).type = "state" /\ \A x : Head(<<State, x>>).type = "state"
  /\ \A t : Head(<<Failed(t)>>).type = t
  /\ \A t : Head(<<About(t, auth)>>).type = t
  /\ \A b : /\ Head(<<There(b)>>).type = "profile"
            /\ \A x : Head(<<There(b), x>>).type = "profile"
<1>1. \A a : Head(<<a>>) = a
  BY Short
<1>2. \A a, b : Head(<<a, b>>) = a
  BY Short
<1>3. \A b : There(b).type = "profile"
  BY Fields DEF There
<1> HIDE DEF There
<1>4. /\ Head(<<State>>) = State /\ \A x : Head(<<State, x>>) = State
      /\ \A t : Head(<<Failed(t)>>) = Failed(t)
      /\ \A t : Head(<<About(t, auth)>>) = About(t, auth)
      /\ \A b : Head(<<There(b)>>) = There(b) /\ \A x : Head(<<There(b), x>>) = There(b)
  BY <1>1, <1>2, Zenon
<1> QED BY <1>3, <1>4, Fields

\* The listener: nobody is signed in, or the profile is read, or nothing is new.
LEMMA ListenerPhase ==
  ASSUME TypeOK, InPhase, StateChanged, calm'
  PROVE  InPhase'
<1>1. /\ main # <<>> /\ Head(main).type = "state" /\ seen' = auth
      /\ ready \/ keychain = None
      /\ UNCHANGED <<server, keychain, ready, auth, attempts, currentUser>>
  BY DEF StateChanged, Next1
<1>2. Reading' = Reading /\ \A b : There(b)' = There(b)
  BY <1>1 DEF Reading, There
<1>3. ASSUME seen = auth
      PROVE  main' = Tail(main) /\ UNCHANGED <<db, delegates, screen>>
  BY <1>3 DEF StateChanged
<1>4. ASSUME seen # auth, auth = None, delegates \subseteq {"root", "login"}
      PROVE  main' = Tail(main) /\ db' = db /\ delegates' = {} /\ screen' = screen
  BY <1>4 DEF StateChanged, Refuse
<1>5. ASSUME seen # auth, auth \in Accounts, db = <<>>, NEW e, main = <<State, e>>,
             e.type # "profile"
      PROVE  main' = <<e>> /\ db' = <<Reading>> /\ UNCHANGED <<delegates, screen>>
  <2>1. GetUserById(auth, <<e>>) /\ UNCHANGED <<delegates, screen>>
    BY <1>5, Short, NotAccounts DEF StateChanged
  <2>2. /\ ~ Contains(db, Request("store", auth))
        /\ \A k \in DOMAIN <<e>> : <<e>>[k].type # "profile"
    <3>1. DOMAIN <<e>> = {1} /\ <<e>>[1] = e
      BY Short
    <3> QED BY <1>5, <3>1, ShortContains
  <2>3. main' = <<e>> /\ db' = Append(<<>>, Reading)
    BY <1>5, <2>1, <2>2, ReadSent DEF Reading
  <2> QED BY <2>1, <2>3, Short
<1>6. CASE Starting
  <2>1. CASE main = <<State>> /\ auth = None
    <3>1. seen # auth /\ delegates \subseteq {"root", "login"}
      BY <1>6, <2>1, NotAccounts DEF Starting
    <3>2. main' = <<>> /\ db' = db /\ delegates' = {} /\ screen' = screen
      BY <1>4, <2>1, <3>1, Short
    <3>3. Resting'
      BY <1>1, <1>6, <2>1, <3>2 DEF Starting, Resting, Resolved, Nobody
    <3> QED BY <3>3 DEF InPhase
  <2>2. CASE main = <<State, State>> /\ ready /\ auth \in Accounts
    <3>1. seen # auth /\ db = <<>> /\ State.type # "profile"
      BY <1>6, <2>2, NotAccounts, Fields DEF Starting, Resolved
    <3>2. main' = <<State>> /\ db' = <<Reading>> /\ UNCHANGED <<delegates, screen>>
      BY <1>5, <2>2, <3>1
    <3>3. Resuming'
      BY <1>1, <1>2, <1>6, <2>2, <3>2 DEF Starting, Resuming, Resolved
    <3> QED BY <3>3 DEF InPhase
  <2> QED BY <1>6, <2>1, <2>2 DEF Starting
<1>7. CASE Resuming
  <2>1. main' = Tail(main) /\ UNCHANGED <<db, delegates, screen>>
    BY <1>3, <1>7 DEF Resuming
  <2>2. CASE db = <<Reading>>
    <3>1. main = <<State>>
      BY <1>1, <1>7, <2>2, Short DEF Resuming
    <3>2. main' = <<>>
      BY <2>1, <3>1, Short
    <3>3. Resuming'
      BY <1>1, <1>2, <1>7, <2>1, <2>2, <3>2 DEF Resuming
    <3> QED BY <3>3 DEF InPhase
  <2>3. CASE db # <<Reading>>
    <3>1. PICK b \in BOOLEAN : /\ b => auth \in profiles
                               /\ main \in {<<State, There(b)>>, <<There(b)>>}
      BY <1>7, <2>3 DEF Resuming
    <3>2. main = <<State, There(b)>>
      BY <1>1, <3>1, Oldest
    <3>3. main' = <<There(b)>> /\ db' = <<>>
      BY <1>7, <2>1, <2>3, <3>2, Short DEF Resuming
    <3>4. Resuming'
      BY <1>1, <1>2, <1>7, <2>1, <3>1, <3>3 DEF Resuming, server
    <3> QED BY <3>4 DEF InPhase
  <2> QED BY <2>2, <2>3
<1>8. CASE Resting
  <2>1. main = <<State>> /\ auth = None /\ currentUser = None /\ delegates = {}
    BY <1>1, <1>8 DEF Resting
  <2>2. main' = <<>> /\ db' = db /\ delegates' = {} /\ screen' = screen
    BY <1>3, <1>4, <2>1, Short
  <2>3. Resting'
    BY <1>1, <1>8, <2>1, <2>2 DEF Resting, Resolved, Nobody
  <2> QED BY <2>3 DEF InPhase
<1>9. CASE LoggingIn
  <2> DEFINE e == About("signedIn", auth)
  <2>1. e.type = "signedIn"
    BY Fields
  <2>4. main = <<State, e>> /\ db = <<>>
    BY <1>1, <1>9, Oldest DEF LoggingIn
  <2>5. main' = <<e>> /\ db' \in {<<>>, <<Reading>>} /\ UNCHANGED <<delegates, screen>>
    <3>1. Tail(main) = <<e>>
      BY <2>4, Short
    <3>2. seen # auth => main' = <<e>> /\ db' = <<Reading>> /\ UNCHANGED <<delegates, screen>>
      <4> HIDE DEF e
      <4> QED BY <1>5, <1>9, <2>1, <2>4 DEF LoggingIn
    <3> QED BY <1>3, <2>4, <3>1, <3>2
  <2>6. LoggingIn'
    BY <1>1, <1>2, <1>9, <2>5 DEF LoggingIn
  <2> QED BY <2>6 DEF InPhase
<1>10. CASE Registering
  <2> DEFINE e == About("created", auth)
  <2>1. e.type = "created"
    BY Fields
  <2>2. \A x \in Outcomes : Head(<<x>>).type # "state"
    BY Oldest DEF Outcomes
  <2>3. main = <<State, e>> /\ db = <<>> /\ seen # auth
    BY <1>1, <1>10, <2>2, Oldest DEF Registering
  <2>5. main' = <<e>> /\ db' = <<Reading>> /\ UNCHANGED <<delegates, screen>>
    BY <1>5, <1>10, <2>1, <2>3 DEF Registering
  <2>6. Registering'
    BY <1>1, <1>2, <1>10, <2>5 DEF Registering
  <2> QED BY <2>6 DEF InPhase
<1>11. ~ Off /\ ~ Trying /\ ~ OnLists
  <2>1. FailOf(screen) # "state"
    BY DEF FailOf
  <2> QED BY <1>1, <2>1, Oldest DEF Off, Trying, OnLists
<1> QED BY <1>6, <1>7, <1>8, <1>9, <1>10, <1>11 DEF InPhase

\* The phases in which each kind of callback is the oldest.
LEMMA OldestPhase ==
  ASSUME InPhase, main # <<>>
  PROVE  /\ Head(main).type = "signedIn"
              => LoggingIn /\ main = <<About("signedIn", auth)>>
         /\ Head(main).type = "created"
              => Registering /\ main = <<About("created", auth)>> /\ db = <<Reading>>
         /\ Head(main).type = "stored"
              => /\ Registering /\ main = <<About("stored", auth)>>
                 /\ auth \in profiles /\ db = <<>>
         /\ Head(main).type = "profile" => Resuming \/ LoggingIn \/ Registering \/ OnLists
         /\ Head(main).type = "loginFailed" => Trying /\ attempts = <<>> /\ screen = "login"
         /\ Head(main).type = "registerFailed"
              => \/ Trying /\ attempts = <<>> /\ screen = "register"
                 \/ Registering /\ db = <<>> /\ currentUser = auth
<1> DEFINE t == Head(main).type
<1>1. CASE Off \/ Starting
  BY <1>1, Oldest DEF Off, Starting
<1>2. CASE Resuming
  BY <1>2, Oldest DEF Resuming
<1>3. CASE Resting
  BY <1>3, Oldest DEF Resting
<1>4. CASE Trying
  BY <1>4, Oldest DEF Trying, FailOf
<1>5. CASE LoggingIn
  BY <1>5, Oldest DEF LoggingIn
<1>6. CASE Registering
  <2>1. \A x \in Outcomes :
           \/ Head(<<x>>).type = "registerFailed"
           \/ /\ Head(<<x>>).type = "stored" /\ x = About("stored", auth)
              /\ auth \in profiles
    BY Oldest DEF Outcomes
  <2>2. \A x \in Outcomes : main = <<x>> /\ Head(main).type = "stored"
                              => main = <<About("stored", auth)>> /\ auth \in profiles
    BY <2>1
  <2>3. ASSUME t \notin {"state", "created", "profile"}
        PROVE  db = <<>> /\ currentUser = auth /\ \E x \in Outcomes : main = <<x>>
    <3>1. \A x : main # <<State, x>>
      BY <2>3, Oldest
    <3>2. \A x : main # <<There(TRUE), x>>
      <4>1. \A x : Head(<<There(TRUE), x>>).type = "profile"
        BY Oldest
      <4> QED BY <2>3, <4>1
    <3>3. main # <<About("created", auth)>> /\ main # <<There(TRUE)>>
      BY <2>3, Oldest
    <3> QED BY <1>6, <3>1, <3>2, <3>3 DEF Registering
  <2>4. ASSUME t = "created"
        PROVE  main = <<About("created", auth)>> /\ db = <<Reading>>
    BY <1>6, <2>1, <2>4, Oldest DEF Registering
  <2> QED BY <1>6, <2>1, <2>2, <2>3, <2>4
<1>7. CASE OnLists
  BY <1>7, Oldest DEF OnLists
<1> QED BY <1>1, <1>2, <1>3, <1>4, <1>5, <1>6, <1>7 DEF InPhase

\* The completion of a login reads the profile, perhaps again.
LEMMA SignedInPhase ==
  ASSUME TypeOK, InPhase, SignedIn
  PROVE  InPhase'
<1>1. /\ main # <<>> /\ Head(main).type = "signedIn"
      /\ GetUserById(Head(main).id, Tail(main))
      /\ UNCHANGED <<server, sdk, attempts, manager, screen>>
  BY DEF SignedIn, Next1, ui
<1>2. LoggingIn /\ main = <<About("signedIn", auth)>>
  BY <1>1, OldestPhase
<1>3. seen = auth /\ db \in {<<>>, <<Reading>>}
  <2>1. main # <<State, About("signedIn", auth)>> /\ main # <<>>
    BY <1>1, Oldest
  <2>2. \A b : main # <<There(b)>> /\ main # <<There(b), There(b)>>
    BY <1>1, Oldest
  <2> QED BY <1>2, <2>1, <2>2 DEF LoggingIn
<1>4. Head(main).id = auth /\ Tail(main) = <<>>
  BY <1>2, Short, Fields
<1>5. GetUserById(auth, <<>>)
  BY <1>1, <1>4
<1>6. ~ Contains(db, Storing)
  <2>1. Storing # Reading
    BY Fields DEF Reading, Storing
  <2>2. ~ Contains(<<>>, Storing) /\ ~ Contains(<<Reading>>, Storing)
    BY <2>1, ShortContains
  <2> QED BY <1>3, <2>2
<1>7. main' = <<>> /\ db' = Append(db, Reading)
  BY <1>5, <1>6, ReadSent DEF Reading, Storing
<1>8. db' \in {<<Reading>>, <<Reading, Reading>>}
  BY <1>3, <1>7, Short
<1>9. Reading' = Reading
  BY <1>1 DEF Reading, sdk
<1>10. LoggingIn'
  BY <1>1, <1>2, <1>3, <1>7, <1>8, <1>9 DEF LoggingIn, sdk, manager
<1> QED BY <1>10 DEF InPhase

\* The completion of a registration writes the profile, which answers the read.
LEMMA CreatedPhase ==
  ASSUME TypeOK, InPhase, Created
  PROVE  InPhase'
<1>1. /\ main # <<>> /\ Head(main).type = "created"
      /\ UNCHANGED <<server, sdk, attempts, manager, screen>>
  BY DEF Created, Next1, ui
<1>2. Registering /\ main = <<About("created", auth)>> /\ db = <<Reading>>
  BY <1>1, OldestPhase
<1>3. Head(main).id = auth /\ Tail(main) = <<>>
  BY <1>2, Short, Fields
<1> DEFINE q == Picked(db, {k \in DOMAIN db : db[k] # Reading})
<1>4. /\ db' = Append(q, Storing)
      /\ main' = <<>> \o [k \in 1 .. (Len(db) - Len(q)) |-> There(TRUE)]
  BY <1>3 DEF Created, Reading, Storing, There
<1>5. q = <<>> /\ Len(db) - Len(q) = 1
  <2>1. {k \in DOMAIN db : db[k] # Reading} = {}
    BY <1>2, Short
  <2>2. q = <<>>
    BY <2>1, NonePicked
  <2>3. Len(db) = 1 /\ Len(<<>>) = 0
    BY <1>2, Short
  <2> QED BY <2>2, <2>3
<1> HIDE DEF q
<1>6. db' = <<Storing>>
  BY <1>4, <1>5, Short
<1>7. main' = <<There(TRUE)>>
  <2>1. main' = <<>> \o [k \in 1 .. 1 |-> There(TRUE)]
    BY <1>4, <1>5
  <2> QED BY <2>1, ShortAlike, Short
<1>8. seen = auth
  <2>1. <<About("created", auth)>> # <<State, About("created", auth)>>
    BY <1>1, <1>2, Oldest
  <2> QED BY <1>2, <2>1 DEF Registering
<1>9. Storing' = Storing /\ There(TRUE)' = There(TRUE)
  BY <1>1 DEF Storing, There, sdk
<1>10. Registering'
  BY <1>1, <1>2, <1>6, <1>7, <1>8, <1>9 DEF Registering, sdk, manager
<1> QED BY <1>10 DEF InPhase

\* A profile is there: a log in and an automatic log in are admitted.
LEMMA ProfilePhase ==
  ASSUME TypeOK, InPhase, ProfileRead
  PROVE  InPhase'
<1>1. /\ main # <<>> /\ Head(main).type = "profile" /\ Head(main).there
      /\ main' = Tail(main) /\ currentUser' = Head(main).id
      /\ Admit({"root", "login"})
      /\ UNCHANGED <<server, sdk, attempts, db>>
  BY DEF ProfileRead, Next1
<1>2. \A b : There(b)' = There(b)
  BY <1>1 DEF There, sdk
<1>3. Storing' = Storing
  BY <1>1 DEF Storing, sdk
<1>4. ASSUME NEW b, main = <<There(b)>>
      PROVE  b /\ main' = <<>> /\ currentUser' = auth
  BY <1>1, <1>4, Short, Fields DEF There
<1>5. ASSUME NEW b, NEW e, main = <<There(b), e>>
      PROVE  b /\ main' = <<e>> /\ currentUser' = auth
  BY <1>1, <1>5, Short, Fields DEF There
<1>6. CASE Resuming \/ LoggingIn
  <2>1. /\ db = <<>> /\ attempts = <<>> /\ ready /\ seen = auth
        /\ \E b \in BOOLEAN : /\ b => auth \in profiles
                              /\ main \in {<<There(b)>>, <<There(b), There(b)>>}
    <3>1. /\ \A x : main # <<State, x>>
          /\ main # <<State>> /\ main # <<About("signedIn", auth)>>
      BY <1>1, Oldest
    <3> QED BY <1>1, <1>6, <3>1 DEF Resuming, LoggingIn
  <2>2. PICK b \in BOOLEAN : /\ b => auth \in profiles
                             /\ main \in {<<There(b)>>, <<There(b), There(b)>>}
    BY <2>1
  <2>3. b /\ main' \in {<<>>, <<There(b)>>} /\ currentUser' = auth
    BY <1>4, <1>5, <2>2
  <2>4. b = TRUE
    BY <2>3
  <2>5. delegates' = {} /\ screen' = "lists"
    BY <1>1, <1>6 DEF Admit, Resuming, LoggingIn
  <2>6. OnLists'
    BY <1>1, <1>2, <2>1, <2>2, <2>3, <2>4, <2>5 DEF OnLists, Resolved, sdk, server
  <2> QED BY <2>6 DEF InPhase
<1>7. CASE Registering
  <2>1. UNCHANGED <<delegates, screen>>
    BY <1>1, <1>7 DEF Admit, Registering
  <2>2. \/ db = <<Storing>> /\ main = <<There(TRUE)>>
        \/ db = <<>> /\ \E e \in Outcomes : main = <<There(TRUE), e>>
    <3>1. /\ \A x : main # <<State, x>>
          /\ main # <<About("created", auth)>>
      BY <1>1, Oldest
    <3>2. \A x \in Outcomes : main # <<x>>
      BY <1>1, Oldest DEF Outcomes
    <3> QED BY <1>1, <1>7, <3>1, <3>2 DEF Registering
  <2>3. Outcomes' = Outcomes
    BY <1>1 DEF Outcomes, sdk, server
  <2>4. \/ db = <<Storing>> /\ main' = <<>>
        \/ db = <<>> /\ \E e \in Outcomes : main' = <<e>>
    BY <1>4, <1>5, <2>2
  <2>5. currentUser' = auth /\ seen = auth
    BY <1>1, <1>4, <1>5, <1>7, <2>2, Oldest DEF Registering
  <2>6. Registering'
    BY <1>1, <1>3, <1>7, <2>1, <2>3, <2>4, <2>5 DEF Registering, sdk
  <2> QED BY <2>6 DEF InPhase
<1>8. CASE OnLists
  <2>1. main' = <<>> /\ currentUser' = auth
    BY <1>1, <1>4, <1>8 DEF OnLists
  <2>2. UNCHANGED <<delegates, screen>>
    BY <1>1, <1>8 DEF Admit, OnLists
  <2>3. OnLists'
    BY <1>1, <1>8, <2>1, <2>2 DEF OnLists, Resolved, sdk, server
  <2> QED BY <2>3 DEF InPhase
<1> QED BY <1>1, <1>6, <1>7, <1>8, OldestPhase

\* A registration that has ended is admitted, or the user may try again; so after a
\* log in that failed.
LEMMA EndedPhase ==
  ASSUME TypeOK, InPhase, Stored \/ LogInFailed \/ RegistrationFailed
  PROVE  InPhase'
<1>1. /\ main # <<>> /\ main' = Tail(main)
      /\ UNCHANGED <<server, keychain, sdk, attempts, db>>
  BY DEF Stored, LogInFailed, RegistrationFailed, Next1
<1>2. CASE Stored
  <2>1. /\ Head(main).type = "stored" /\ currentUser' = Head(main).id
        /\ Admit({"root", "login", "register"})
    BY <1>2 DEF Stored, Next1
  <2>2. Registering /\ main = <<About("stored", auth)>> /\ auth \in profiles /\ db = <<>>
    BY <1>1, <2>1, OldestPhase
  <2>3. main' = <<>> /\ currentUser' = auth
    BY <1>1, <2>1, <2>2, Short, Fields
  <2>4. delegates' = {} /\ screen' = "lists"
    BY <2>1, <2>2 DEF Admit, Registering
  <2>5. seen = auth
    <3>1. <<About("stored", auth)>> # <<State, About("created", auth)>>
      BY Oldest
    <3> QED BY <2>2, <3>1 DEF Registering
  <2>6. OnLists'
    BY <1>1, <2>2, <2>3, <2>4, <2>5 DEF OnLists, Registering, Resolved, sdk, server
  <2> QED BY <2>6 DEF InPhase
<1>3. CASE LogInFailed \/ RegistrationFailed
  <2>1. /\ currentUser' = currentUser /\ screen' = screen
        /\ \/ Head(main).type = "loginFailed" /\ Refuse({"root", "login"})
           \/ Head(main).type = "registerFailed" /\ Refuse({"register"})
    BY <1>3 DEF LogInFailed, RegistrationFailed, Next1, Refuse
  <2>2. CASE Trying /\ attempts = <<>>
    <3>1. delegates' = {}
      BY <1>1, <2>1, <2>2, Oldest DEF Refuse, Trying, FailOf
    <3>2. main' = <<>>
      BY <1>1, <2>2, Short DEF Trying
    <3>3. Resting'
      BY <1>1, <2>1, <2>2, <3>1, <3>2 DEF Trying, Resting, Resolved, Nobody, sdk
    <3> QED BY <3>3 DEF InPhase
  <2>3. CASE Registering /\ db = <<>> /\ currentUser = auth /\ Head(main).type = "registerFailed"
    <3>1. delegates' = {}
      BY <2>1, <2>3 DEF Refuse, Registering
    <3>2. seen = auth /\ \E x \in Outcomes : main = <<x>>
      <4>1. /\ \A x : main # <<State, x>> /\ main # <<There(TRUE), x>>
            /\ main # <<About("created", auth)>> /\ main # <<There(TRUE)>>
        BY <2>3, Oldest
      <4> QED BY <1>1, <2>3, <4>1 DEF Registering
    <3>3. main' = <<>>
      BY <1>1, <3>2, Short
    <3>4. Resting'
      BY <1>1, <2>1, <2>3, <3>1, <3>2, <3>3 DEF Registering, Resting, Resolved, Nobody, sdk
    <3> QED BY <3>4 DEF InPhase
  <2> QED BY <1>1, <2>1, <2>2, <2>3, OldestPhase
<1> QED BY <1>2, <1>3

\* The process ends.
LEMMA ResetPhase ==
  ASSUME NEW how \in NotRunning, Reset(how)
  PROVE  InPhase'
BY DEF Reset, NotRunning, InPhase, Off, Resolved

\* The user starts the program, waits, chooses a screen, fills in a form or logs out.
LEMMA UserPhase ==
  ASSUME TypeOK, InPhase, UserStep, calm', ~ Kill
  PROVE  InPhase'
<1>1. \A x, y : <<x>> # <<>> /\ <<x, y>> # <<>>
  BY Short
<1>2. CASE Start
  <2>1. Off
    BY <1>2 DEF InPhase, Start, NotRunning, Starting, Resuming, Resting, Trying, LoggingIn,
       Registering, OnLists
  <2>2. Starting'
    BY <1>2, <2>1 DEF Start, Off, Starting, Resolved, sdk
  <2> QED BY <2>2 DEF InPhase
<1>3. ASSUME main = <<>>, delegates = {}, screen \in {"root", "login", "register"}
      PROVE  /\ Resting /\ seen = auth /\ currentUser \in {None, auth}
  BY <1>1, <1>3 DEF InPhase, Off, Starting, Resuming, Resting, Trying, LoggingIn, Registering,
     OnLists, NotRunning
<1>4. InPhase /\ screen \in {"root", "login", "register"} => delegates \subseteq {screen}
  BY DEF InPhase, Off, Starting, Resuming, Resting, Trying, LoggingIn, Registering, OnLists,
     NotRunning
<1>5. ASSUME NEW s \in {"login", "register"}, GoTo(s) PROVE InPhase'
  <2>1. Resting /\ main = <<>> /\ seen = auth /\ currentUser \in {None, auth}
    BY <1>3, <1>4, <1>5 DEF GoTo, Idle
  <2>2. Resting'
    BY <1>5, <2>1 DEF GoTo, Resting, Resolved, Nobody, sdk, manager
  <2> QED BY <2>2 DEF InPhase
<1>6. CASE Back
  <2>1. main = <<>> /\ screen \in {"login", "register"} /\ screen \notin delegates
    BY <1>6 DEF Back, Idle
  <2>2. delegates = {}
    BY <1>4, <2>1
  <2>3. Resting /\ seen = auth /\ currentUser \in {None, auth}
    BY <1>3, <2>1, <2>2
  <2>4. Resting'
    BY <1>6, <2>1, <2>2, <2>3 DEF Back, Resting, Resolved, Nobody, sdk
  <2> QED BY <2>4 DEF InPhase
<1>7. ASSUME NEW s \in {"login", "register"}, NEW o, o = OpOf(s), Press(s, o) PROVE InPhase'
  <2>1. main = <<>> /\ screen = s /\ s \notin delegates
    BY <1>7 DEF Press, Idle
  <2>2. delegates = {}
    BY <1>4, <2>1
  <2>3. Resting /\ seen = auth /\ currentUser \in {None, auth}
    BY <1>3, <2>1, <2>2
  <2>4. PICK u \in Accounts : attempts' = Append(attempts, Request(o, u))
    BY <1>7 DEF Press
  <2>5. attempts' = <<Request(OpOf(s), u)>>
    BY <1>7, <2>3, <2>4, Short DEF Resting, Resolved
  <2>6. Trying'
    BY <1>7, <2>1, <2>2, <2>3, <2>5 DEF Press, Resting, Resolved, Trying, Nobody, sdk
  <2> QED BY <2>6 DEF InPhase
<1>8. CASE LogOutPressed
  <2>1. main = <<>> /\ screen = "lists" /\ ready
    BY <1>8 DEF LogOutPressed, Idle
  <2>2. OnLists
    BY <2>1 DEF InPhase, Off, Starting, Resuming, Resting, Trying, LoggingIn, Registering,
       NotRunning
  <2>3. auth \in Accounts /\ auth # None /\ seen # Never
    BY <2>2, NotAccounts DEF TypeOK, OnLists
  <2>4. /\ screen' = "root" /\ delegates' = {} /\ currentUser' = None
        /\ UNCHANGED <<ready, seen, attempts, db>>
    BY <1>8, <2>2 DEF LogOutPressed, OnLists
  <2>5. \/ auth' = None /\ main' = <<State>>
        \/ auth' = auth /\ main' = <<>>
    BY <1>8, <2>1, <2>3, Short DEF LogOutPressed
  <2>6. Resting'
    BY <2>1, <2>2, <2>3, <2>4, <2>5 DEF OnLists, Resting, Resolved, Nobody
  <2> QED BY <2>6 DEF InPhase
<1> QED BY <1>2, <1>5, <1>6, <1>7, <1>8 DEF UserStep, LogInPressed, RegisterPressed, OpOf

\* Loads and timers touch none of it.
LEMMA PhaseUntouched ==
  ASSUME InPhase,
         UNCHANGED <<server, keychain, sdk, attempts, db, main, manager, screen>>
  PROVE  InPhase'
<1>1. Off => Off'
  BY DEF Off, Resolved, sdk, manager
<1>2. Starting => Starting'
  BY DEF Starting, Resolved, sdk, manager
<1>3. Resuming => Resuming'
  BY DEF Resuming, Reading, There, sdk, manager, server
<1>4. Resting => Resting'
  BY DEF Resting, Resolved, Nobody, sdk, manager
<1>5. Trying => Trying'
  BY DEF Trying, Nobody, sdk, manager
<1>6. LoggingIn => LoggingIn'
  BY DEF LoggingIn, Reading, There, sdk, manager, server
<1>7. Registering => Registering'
  BY DEF Registering, Reading, Storing, There, Outcomes, sdk, manager, server
<1>8. OnLists => OnLists'
  BY DEF OnLists, Resolved, There, sdk, manager, server
<1> QED BY <1>1, <1>2, <1>3, <1>4, <1>5, <1>6, <1>7, <1>8 DEF InPhase

\* Every step stays in order.
LEMMA OrderlyStays == TypeOK /\ Orderly /\ [Next]_vars => Orderly'
<1> SUFFICES ASSUME TypeOK, Orderly, [Next]_vars PROVE Orderly'
  OBVIOUS
<1>1. Known'
  BY KnownStays DEF Orderly
<1>2. ASSUME NEW how \in NotRunning, Reset(how) PROVE InPhase'
  BY <1>2, ResetPhase
<1>3. CASE Kill \/ ProfileMissing \/ NobodyLoads
  BY <1>1, <1>2, <1>3 DEF Orderly, Kill, ProfileMissing, NobodyLoads, NotRunning
<1>4. CASE ~ Kill /\ ~ ProfileMissing /\ ~ NobodyLoads
  <2>1. calm' => calm
    BY <1>4 DEF Next, vars, Answers, MainStep, Loads, Timers, UserStep, KeychainRead,
       SignInAnswered, CreateAnswered, AttemptFails, ReadAnswered, StoreAnswered, StateChanged,
       SignedIn, Created, ProfileRead, Stored, LogInFailed, RegistrationFailed, DataLoaded,
       TimeoutGuardFired, Dismissed, Start, GoTo, Back, LogInPressed, RegisterPressed, Press,
       LogOutPressed
  <2>2. SUFFICES ASSUME calm' PROVE InPhase'
    BY <1>1 DEF Orderly
  <2>3. InPhase /\ Known
    BY <2>1, <2>2 DEF Orderly
  <2>4. CASE Answers
    BY <2>3, <2>4, KeychainPhase, SuccessPhase, FailurePhase, ReadPhase, StorePhase DEF Answers
  <2>5. CASE MainStep
    BY <1>4, <2>2, <2>3, <2>5, ListenerPhase, SignedInPhase, CreatedPhase, ProfilePhase, EndedPhase
       DEF MainStep
  <2>6. CASE Loads \/ Timers \/ UNCHANGED vars
    BY <2>3, <2>6, PhaseUntouched
       DEF Loads, Timers, DataLoaded, TimeoutGuardFired, Dismissed, vars, ui
  <2>7. CASE UserStep
    BY <1>4, <2>2, <2>3, <2>7, UserPhase
  <2> QED BY <2>4, <2>5, <2>6, <2>7 DEF Next
<1> QED BY <1>3, <1>4

\* ... and so the logins are orderly in every state.
LEMMA AlwaysOrderly == Spec => []Orderly
<1>1. Init => Orderly
  BY DEF Init, Orderly, Known, InPhase, Off, Resolved, NotRunning
<1> QED BY <1>1, TypeCorrect, OrderlyStays, PTL DEF Spec

\* On the lists screen AuthManager and Auth have one user, who is registered and has a
\* stored profile, for any accounts and any number of starts, presses and failures.
THEOREM ListsAreOfOneUser == Spec => []ListsOfOneUser
<1>1. TypeOK /\ Orderly => ListsOfOneUser
  <2> SUFFICES ASSUME Orderly, calm, screen = "lists" PROVE currentUser = auth /\ auth \in profiles
    BY DEF ListsOfOneUser
  <2>1. OnLists
    BY DEF Orderly, InPhase, Off, Starting, Resuming, Resting, Trying, LoggingIn, Registering,
       NotRunning
  <2> QED BY <2>1 DEF OnLists
<1> QED BY <1>1, TypeCorrect, AlwaysOrderly, PTL

-----------------------------------------------------------------------------
(***************************************************************************)
(* Nobody waits for nothing.  Only the lists screen on top has a load or a *)
(* guard; what is being dismissed is dismissed for it, and nothing is      *)
(* while a delegate is registered; so the HUD that it waits for is its own *)
(* until it is enabled.                                                    *)
(***************************************************************************)
Top         == Len(lists)
Working(n)  == lists[n].waiting \/ lists[n].guard
Ending      == lists[Top].guard \/ leaving # <<>>

Owed ==
    /\ delegates # {} \/ screen \in NotRunning => leaving = <<>>
    /\ \A n \in DOMAIN lists : Working(n) => screen = "lists" /\ n = Top
    /\ screen = "lists" =>
          /\ lists # <<>>
          /\ \A k \in DOMAIN leaving : leaving[k] = Top
          /\ hud \/ lists[Top].busy => Ending
          /\ lists[Top].busy => hud
    /\ screen # "lists" /\ hud => delegates # {} \/ leaving # <<>>
CalmOwed == calm => Owed

\* Who is on the lists is no delegate; delegates are screens before the lists.
LEMMA OnTheLists ==
  ASSUME InPhase
  PROVE  /\ screen = "lists" => delegates = {} /\ OnLists
         /\ screen \in NotRunning => delegates = {}
BY DEF InPhase, Off, Starting, Resuming, Resting, Trying, LoggingIn, Registering, OnLists,
       NotRunning

\* What only concerns the server and the queues.
LEMMA OwedUntouched ==
  ASSUME Owed, UNCHANGED <<delegates, ui>>
  PROVE  Owed'
BY DEF Owed, ui, Top, Working, Ending

\* A delegate is admitted: its lists screen is the new top.
LEMMA OwedAdmit ==
  ASSUME TypeOK, InPhase, Owed, NEW D, Admit(D), leaving' = leaving
  PROVE  Owed'
<1>1. CASE delegates \cap D = {}
  <2>1. UNCHANGED <<delegates, ui>>
    BY <1>1 DEF Admit, ui
  <2> QED BY <2>1, OwedUntouched
<1>2. CASE delegates \cap D # {}
  <2>1. /\ delegates # {} /\ screen # "lists" /\ leaving' = <<>>
        /\ screen' = "lists" /\ hud' = TRUE /\ lists' = Append(lists, Opened)
    BY <1>2, OnTheLists DEF Admit, Owed
  <2>2. lists \in Seq(ListsScreen) /\ Opened \in ListsScreen
    BY DEF TypeOK, Opened, ListsScreen
  <2>3. /\ Top' = Len(lists) + 1 /\ lists'[Top'] = Opened /\ lists' # <<>>
        /\ \A n \in DOMAIN lists' : n = Top' \/ (n \in DOMAIN lists /\ lists'[n] = lists[n])
    <3> HIDE DEF Opened, ListsScreen
    <3> QED BY <2>1, <2>2 DEF Top
  <2>4. \A n \in DOMAIN lists' : Working(n)' => n = Top'
    BY <2>1, <2>3 DEF Owed, Working
  <2>5. Ending'
    BY <2>3 DEF Ending, Opened
  <2>6. "lists" \notin NotRunning
    BY DEF NotRunning
  <2> QED BY <2>1, <2>3, <2>4, <2>5, <2>6 DEF Owed
<1> QED BY <1>1, <1>2

\* A delegate is refused: it takes its HUD with it.
LEMMA OwedRefuse ==
  ASSUME InPhase, Owed, NEW D, Refuse(D), leaving' = leaving
  PROVE  Owed'
<1>1. CASE delegates \cap D = {}
  <2>1. UNCHANGED <<delegates, ui>>
    BY <1>1 DEF Refuse, ui
  <2> QED BY <2>1, OwedUntouched
<1>2. CASE delegates \cap D # {}
  <2>1. screen # "lists" /\ screen' = screen /\ lists' = lists /\ hud' = FALSE
        /\ leaving = <<>>
    BY <1>2, OnTheLists DEF Refuse, Owed
  <2> QED BY <2>1 DEF Owed, Working, Top
<1> QED BY <1>1, <1>2

\* The data, or the guard, of the lists screen on top: the HUD is there to be dismissed
\* unless the screen is enabled.
LEMMA OwedLoad ==
  ASSUME TypeOK, InPhase, Owed, NEW n \in DOMAIN lists, DataLoaded(n) \/ TimeoutGuardFired(n)
  PROVE  Owed'
<1>1. screen = "lists" /\ n = Top /\ delegates = {}
  <2>1. Working(n)
    BY DEF DataLoaded, TimeoutGuardFired, Working
  <2> QED BY <2>1, OnTheLists DEF Owed
<1>2. lists \in Seq(ListsScreen) /\ leaving \in Seq(DOMAIN lists) /\ lists[n] \in ListsScreen
  BY DEF TypeOK
<1>3. PICK r \in ListsScreen :
         /\ lists' = [lists EXCEPT ![n] = r]
         /\ r.busy = lists[n].busy /\ r.guard = FALSE
  <2>1. CASE DataLoaded(n)
    <3> DEFINE r == [lists[n] EXCEPT !.waiting = FALSE, !.guard = FALSE]
    <3>1. r \in ListsScreen /\ r.busy = lists[n].busy /\ r.guard = FALSE
      BY <1>2 DEF ListsScreen
    <3>2. lists' = [lists EXCEPT ![n] = r]
      BY <2>1, Zenon DEF DataLoaded
    <3> HIDE DEF r
    <3> QED BY <3>1, <3>2
  <2>2. CASE TimeoutGuardFired(n)
    <3> DEFINE r == [lists[n] EXCEPT !.guard = FALSE]
    <3>1. r \in ListsScreen /\ r.busy = lists[n].busy /\ r.guard = FALSE
      BY <1>2 DEF ListsScreen
    <3>2. lists' = [lists EXCEPT ![n] = r]
      BY <2>2, Zenon DEF TimeoutGuardFired
    <3> HIDE DEF r
    <3> QED BY <3>1, <3>2
  <2> QED BY <2>1, <2>2
<1>4. /\ UNCHANGED <<delegates, screen, hud>>
      /\ leaving' = IF hud THEN Append(leaving, n) ELSE leaving
  BY DEF DataLoaded, TimeoutGuardFired, DismisDataLoad, manager
<1>5. /\ Top' = Top /\ DOMAIN lists' = DOMAIN lists /\ lists'[n] = r
      /\ \A m \in DOMAIN lists : m # n => lists'[m] = lists[m]
      /\ lists # <<>> /\ lists' # <<>>
  <2> HIDE DEF ListsScreen
  <2> QED BY <1>2, <1>3 DEF Top
<1>6. \A m \in DOMAIN lists' : Working(m)' => m = Top'
  BY <1>1, <1>5 DEF Owed, Working
<1>7. leaving' \in Seq(DOMAIN lists) /\ \A k \in DOMAIN leaving' : leaving'[k] = Top'
  <2>1. \A k \in DOMAIN leaving : leaving[k] = Top
    BY <1>1 DEF Owed
  <2>2. CASE hud
    <3>1. leaving' = Append(leaving, n)
      BY <1>4, <2>2
    <3>2. Append(leaving, n) \in Seq(DOMAIN lists)
      BY <1>2
    <3>3. \A k \in DOMAIN Append(leaving, n) : Append(leaving, n)[k] = n
      BY <1>1, <1>2, <2>1
    <3> QED BY <1>1, <1>5, <3>1, <3>2, <3>3
  <2>3. CASE ~hud
    BY <1>2, <1>4, <1>5, <2>1, <2>3
  <2> QED BY <2>2, <2>3
<1>8. hud => leaving' # <<>>
  BY <1>2, <1>4
<1>9. lists'[Top'].busy => hud
  BY <1>1, <1>3, <1>5 DEF Owed
<1>10. "lists" \notin NotRunning
  BY DEF NotRunning
<1> QED BY <1>1, <1>4, <1>5, <1>6, <1>7, <1>8, <1>9, <1>10 DEF Owed, Ending

\* The dismissal is over: on the lists it enables the screen on top.
LEMMA OwedDismissed ==
  ASSUME TypeOK, InPhase, Owed, Dismissed
  PROVE  Owed'
<1> DEFINE n == Head(leaving)
<1>1. /\ leaving # <<>> /\ leaving' = Tail(leaving) /\ hud' = FALSE
      /\ lists' = [lists EXCEPT ![n].busy = FALSE] /\ UNCHANGED <<delegates, screen>>
  BY DEF Dismissed, manager
<1>2. /\ lists \in Seq(ListsScreen) /\ leaving \in Seq(DOMAIN lists)
      /\ n \in DOMAIN lists /\ n = leaving[1] /\ 1 \in DOMAIN leaving
  BY <1>1 DEF TypeOK
<1>3. delegates = {} /\ screen \notin NotRunning
  BY <1>1 DEF Owed
<1> HIDE DEF n
<1>4. PICK r \in ListsScreen :
         /\ lists' = [lists EXCEPT ![n] = r] /\ r.busy = FALSE
         /\ r.waiting = lists[n].waiting /\ r.guard = lists[n].guard
  <2> DEFINE r == [lists[n] EXCEPT !.busy = FALSE]
  <2>1. lists[n] \in ListsScreen
    BY <1>2
  <2>2. /\ r \in ListsScreen /\ r.busy = FALSE
        /\ r.waiting = lists[n].waiting /\ r.guard = lists[n].guard
    BY <2>1 DEF ListsScreen
  <2>3. lists' = [lists EXCEPT ![n] = r]
    BY <1>1, Zenon
  <2> HIDE DEF r
  <2> QED BY <2>2, <2>3
<1>5. /\ Top' = Top /\ DOMAIN lists' = DOMAIN lists /\ lists'[n] = r
      /\ \A m \in DOMAIN lists : m # n => lists'[m] = lists[m]
      /\ lists # <<>> /\ lists' # <<>>
  <2> HIDE DEF ListsScreen
  <2> QED BY <1>2, <1>4 DEF Top
<1>6. \A m \in DOMAIN lists' : Working(m)' => screen' = "lists" /\ m = Top'
  BY <1>1, <1>4, <1>5 DEF Owed, Working
<1>7. ASSUME screen = "lists"
      PROVE  /\ \A k \in DOMAIN leaving' : leaving'[k] = Top'
             /\ ~lists'[Top'].busy
  <2>1. \A k \in DOMAIN leaving : leaving[k] = Top
    BY <1>7 DEF Owed
  <2>2. \A k \in DOMAIN leaving' : k + 1 \in DOMAIN leaving /\ leaving'[k] = leaving[k + 1]
    BY <1>1, <1>2
  <2>3. n = Top
    BY <1>2, <2>1
  <2> QED BY <1>4, <1>5, <2>1, <2>2, <2>3
<1> QED BY <1>1, <1>3, <1>5, <1>6, <1>7 DEF Owed

\* What the user does, other than a kill.
LEMMA OwedUser ==
  ASSUME TypeOK, InPhase, Owed, UserStep, ~Kill, calm'
  PROVE  Owed'
<1>1. "root" \notin NotRunning /\ "login" \notin NotRunning /\ "register" \notin NotRunning
      /\ "lists" \notin NotRunning
  BY DEF NotRunning
<1>2. CASE Start
  <2>1. /\ screen \in NotRunning /\ screen' = "root" /\ delegates' = {"root"}
        /\ lists' = lists /\ leaving' = leaving
    BY <1>2 DEF Start
  <2>2. leaving = <<>> /\ \A n \in DOMAIN lists : ~Working(n)
    BY <1>1, <2>1 DEF Owed
  <2> QED BY <1>1, <2>1, <2>2 DEF Owed, Working, Top
<1>3. CASE Back \/ \E s \in {"login", "register"} : GoTo(s)
  <2>1. /\ screen \in {"root", "login", "register"} /\ screen' \in {"root", "login", "register"}
        /\ delegates' = delegates /\ UNCHANGED <<hud, lists, leaving>>
    BY <1>3 DEF Back, GoTo, manager
  <2> QED BY <1>1, <2>1 DEF Owed, Working, Top
<1>4. ASSUME NEW s \in {"login", "register"}, NEW o, Press(s, o) PROVE Owed'
  <2>1. /\ screen = s /\ screen' = s /\ leaving = <<>> /\ leaving' = <<>>
        /\ delegates' # {} /\ lists' = lists
    BY <1>4 DEF Press
  <2> QED BY <2>1 DEF Owed, Working, Top
<1>5. CASE LogOutPressed
  <2>1. /\ screen = "lists" /\ screen' = "root" /\ UNCHANGED <<hud, lists, leaving>>
        /\ delegates' = delegates \ {"login", "register"}
        /\ ~Last(lists).waiting /\ ~Last(lists).guard
    BY <1>5 DEF LogOutPressed
  <2>2. delegates = {} /\ Last(lists) = lists[Top]
    BY <2>1, OnTheLists DEF Last, Top
  <2>3. \A n \in DOMAIN lists : ~Working(n)
    BY <2>1, <2>2 DEF Owed, Working
  <2>4. hud => leaving # <<>>
    BY <2>1, <2>2 DEF Owed, Ending
  <2> QED BY <1>1, <2>1, <2>2, <2>3, <2>4 DEF Owed, Working, Top
<1> QED BY <1>2, <1>3, <1>4, <1>5 DEF UserStep, LogInPressed, RegisterPressed

\* A process that has ended owes nothing.
LEMMA OwedReset ==
  ASSUME NEW how \in NotRunning, Reset(how)
  PROVE  Owed'
<1>1. how # "lists"
  BY DEF NotRunning
<1> QED BY <1>1 DEF Owed, Reset, Working, Top

\* Every step of a calm process pays, or still owes.
LEMMA OwedStays == TypeOK /\ Orderly /\ CalmOwed /\ [Next]_vars => CalmOwed'
<1> SUFFICES ASSUME TypeOK, Orderly, CalmOwed, [Next]_vars, calm' PROVE Owed'
  BY DEF CalmOwed
<1>1. CASE Kill \/ ProfileMissing \/ NobodyLoads
  BY <1>1, OwedReset DEF Kill, ProfileMissing, NobodyLoads, NotRunning
<1>2. CASE ~ Kill /\ ~ ProfileMissing /\ ~ NobodyLoads
  <2>1. calm
    BY <1>2 DEF Next, vars, Answers, MainStep, Loads, Timers, UserStep, KeychainRead,
       SignInAnswered, CreateAnswered, AttemptFails, ReadAnswered, StoreAnswered, StateChanged,
       SignedIn, Created, ProfileRead, Stored, LogInFailed, RegistrationFailed, DataLoaded,
       TimeoutGuardFired, Dismissed, Start, GoTo, Back, LogInPressed, RegisterPressed, Press,
       LogOutPressed
  <2>2. InPhase /\ Owed
    BY <2>1 DEF Orderly, CalmOwed
  <2>3. CASE Answers \/ SignedIn \/ Created \/ UNCHANGED vars
    BY <2>2, <2>3, OwedUntouched
       DEF Answers, KeychainRead, SignInAnswered, CreateAnswered, AttemptFails, ReadAnswered,
           StoreAnswered, SignedIn, Created, vars, manager
  <2>4. CASE ProfileRead \/ Stored
    BY <2>2, <2>4, OwedAdmit DEF ProfileRead, Stored
  <2>5. CASE LogInFailed \/ RegistrationFailed
    BY <2>2, <2>5, OwedRefuse DEF LogInFailed, RegistrationFailed
  <2>6. CASE StateChanged
    <3>1. leaving' = leaving
      BY <2>6 DEF StateChanged
    <3>2. UNCHANGED <<delegates, ui>> \/ Refuse({"root", "login"})
      BY <2>6 DEF StateChanged, ui
    <3> QED BY <2>2, <3>1, <3>2, OwedUntouched, OwedRefuse
  <2>7. CASE Loads \/ Timers
    BY <2>2, <2>7, OwedLoad, OwedDismissed DEF Loads, Timers
  <2>8. CASE UserStep
    BY <1>2, <2>2, <2>8, OwedUser
  <2> QED BY <1>2, <2>3, <2>4, <2>5, <2>6, <2>7, <2>8 DEF Next, MainStep
<1> QED BY <1>1, <1>2

\* Init owes nothing.
LEMMA AlwaysOwed == Spec => []CalmOwed
<1>1. Init => CalmOwed
  BY DEF Init, CalmOwed, Owed, Working, Top
<1> QED BY <1>1, TypeCorrect, AlwaysOrderly, OwedStays, PTL DEF Spec

\* The HUD is up only as long as something will take it away: the guard or a dismissal,
\* or a delegate that an answer under way will reach.
THEOREM HudWillGo == Spec => []HudIsOwed
<1>1. TypeOK /\ Orderly /\ CalmOwed => HudIsOwed
  <2> SUFFICES ASSUME Orderly, CalmOwed, calm, hud, leaving = <<>>
               PROVE  \/ screen = "lists" /\ Last(lists).guard
                      \/ delegates # {} /\ (attempts # <<>> \/ db # <<>> \/ main # <<>>)
    BY DEF HudIsOwed
  <2>1. InPhase /\ Owed
    BY DEF Orderly, CalmOwed
  <2>2. CASE screen = "lists"
    BY <2>1, <2>2 DEF Owed, Ending, Last, Top
  <2>3. CASE screen # "lists"
    <3>1. delegates # {}
      BY <2>1, <2>3 DEF Owed
    <3>2. Starting \/ Resuming \/ Trying \/ LoggingIn \/ Registering
      BY <2>1, <3>1 DEF InPhase, Off, Resting, OnLists
    <3>3. \A x, y : <<x>> # <<>> /\ <<x, y>> # <<>>
      BY Short
    <3> QED BY <3>1, <3>2, <3>3 DEF Starting, Resuming, Trying, LoggingIn, Registering
  <2> QED BY <2>2, <2>3
<1> QED BY <1>1, TypeCorrect, AlwaysOrderly, AlwaysOwed, PTL

\* A lists screen in progress has its HUD, and its guard or its dismissal, until it is
\* enabled, for any number of logins, users and lists screens of the process.
THEOREM ListsWillEnable == Spec => []EnablingIsOwed
<1>1. TypeOK /\ CalmOwed => EnablingIsOwed
  <2> SUFFICES ASSUME TypeOK, Owed, screen = "lists", Last(lists).busy
               PROVE  hud /\ (Last(lists).guard \/ Contains(leaving, Len(lists)))
    BY DEF CalmOwed, EnablingIsOwed
  <2>1. /\ hud /\ (lists[Top].guard \/ leaving # <<>>)
        /\ \A k \in DOMAIN leaving : leaving[k] = Top
    BY DEF Owed, Ending, Last, Top
  <2>2. leaving # <<>> => \E k \in DOMAIN leaving : leaving[k] = Len(lists)
    <3>1. leaving \in Seq(DOMAIN lists)
      BY DEF TypeOK
    <3>2. leaving # <<>> => 1 \in DOMAIN leaving
      BY <3>1
    <3> QED BY <2>1, <3>2 DEF Top
  <2>3. (\E k \in DOMAIN leaving : leaving[k] = Len(lists)) => Contains(leaving, Len(lists))
    BY DEF Contains
  <2> QED BY <2>1, <2>2, <2>3 DEF Last, Top
<1> QED BY <1>1, TypeCorrect, AlwaysOwed, PTL
=============================================================================
