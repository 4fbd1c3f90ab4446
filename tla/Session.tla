------------------------------ MODULE Session -------------------------------
(***************************************************************************)
(* Who is logged in: AuthManager, the screens that start and end a session *)
(* (root, log in, register, lists), the HUD they share and the timeout     *)
(* guard of the lists screen, in one process at a time on one device.      *)
(* Accounts and profiles are kept by the server, the signed-in account by  *)
(* the keychain of the device; everything else ends with the process.      *)
(*   attempts  sign-ins and registrations sent; answered in any order      *)
(*   db        requests for users/<u>; taken in order                      *)
(*   main      callbacks that wait for the main queue; run in order        *)
(***************************************************************************)
EXTENDS Queues

CONSTANTS
    Accounts,       \* what can be registered: an address and its user id
    None,           \* no account
    Never,          \* what the state listener saw before its first call
    MaxStarts,      \* bound: starts of the process
    MaxPresses,     \* bound: presses of Log In and Register
    MaxFailures     \* bound: attempts, writes and sign-outs that fail

ASSUME NotAccounts == None \notin Accounts /\ Never \notin Accounts /\ None # Never
ASSUME BoundsAreNat == MaxStarts \in Nat /\ MaxPresses \in Nat /\ MaxFailures \in Nat

VARIABLES
    accounts,       \* the server: registered accounts
    profiles,       \* the server: accounts with users/<u>
    keychain,       \* the device: the signed-in account
    ready,          \* the SDK has read the keychain
    auth,           \* Auth.currentUser
    seen,           \* the account the state listener was last called with
    attempts, db, main,
    currentUser,    \* AuthManager.currentUser
    delegates,      \* AuthManager.delegates, by screen
    screen,         \* the top of the navigation stack
    hud,            \* whether SVProgressHUD is visible
    lists,          \* the lists screens this process has opened, oldest first
    leaving,        \* dismiss(withDelay: 0.6) calls under way, by lists screen
    calm,           \* history of the process: the first call of the listener came in
                    \* time, and the user waited for attempts and loads to end
    starts, presses, failures

server  == <<accounts, profiles>>
sdk     == <<ready, auth, seen>>
manager == <<currentUser, delegates>>
ui      == <<screen, hud, lists, leaving>>
bounds  == <<starts, presses, failures>>
vars    == <<server, keychain, sdk, attempts, db, main, manager, ui, calm, bounds>>

NotRunning == {"off", "crashed"}
Screens    == NotRunning \cup {"root", "login", "register", "lists"}

\* A lists screen: loadingInProgress, LoadData unanswered, loadingGuard.isActive.
\* The guard and the screen hold each other, so a screen that was left lives on.
ListsScreen == [busy : BOOLEAN, waiting : BOOLEAN, guard : BOOLEAN]
Opened      == [busy |-> TRUE, waiting |-> TRUE, guard |-> TRUE]

Attempts == [op : {"signIn", "create"}, id : Accounts]
Requests == [op : {"read", "store"}, id : Accounts]
Events   == [type : {"state", "loginFailed", "registerFailed"}]
       \cup [type : {"signedIn", "created", "stored"}, id : Accounts]
       \cup [type : {"profile"}, id : Accounts, there : BOOLEAN]

State         == [type |-> "state"]
Failed(t)     == [type |-> t]
About(t, u)   == [type |-> t, id |-> u]
Profile(u, b) == [type |-> "profile", id |-> u, there |-> b]
Request(o, u) == [op |-> o, id |-> u]

Init ==
    /\ accounts \in SUBSET Accounts
    /\ profiles = accounts
    /\ keychain \in accounts \cup {None}
    /\ ready = FALSE
    /\ auth = None
    /\ seen = Never
    /\ attempts = <<>>
    /\ db = <<>>
    /\ main = <<>>
    /\ currentUser = None
    /\ delegates = {}
    /\ screen = "off"
    /\ hud = FALSE
    /\ lists = <<>>
    /\ leaving = <<>>
    /\ calm = TRUE
    /\ starts = 0
    /\ presses = 0
    /\ failures = 0

OneMoreFailure == failures < MaxFailures /\ failures' = failures + 1

-----------------------------------------------------------------------------
(***************************************************************************)
(* The SDK and the server.                                                 *)
(***************************************************************************)

\* The SDK reads the keychain on a queue of its own, behind which its other
\* work waits: the first call of the state listener may come too early.
KeychainRead ==
    /\ screen \notin NotRunning
    /\ ~ready
    /\ ready' = TRUE
    /\ auth' = keychain
    /\ main' = IF keychain = None THEN main ELSE Append(main, State)
    /\ UNCHANGED <<server, keychain, seen, attempts, db, manager, ui, calm, bounds>>

\* signIn or createUser succeeds: the change of state is told before the answer
Succeeds(k, event) ==
    /\ ready
    /\ keychain' = attempts[k].id
    /\ auth' = attempts[k].id
    /\ attempts' = RemoveAt(attempts, k)
    /\ main' = main \o <<State, event>>

SignInAnswered(k) ==
    /\ attempts[k].op = "signIn"
    /\ attempts[k].id \in accounts
    /\ Succeeds(k, About("signedIn", attempts[k].id))
    /\ UNCHANGED <<server, ready, seen, db, manager, ui, calm, bounds>>

CreateAnswered(k) ==
    /\ attempts[k].op = "create"
    /\ attempts[k].id \notin accounts
    /\ accounts' = accounts \cup {attempts[k].id}
    /\ Succeeds(k, About("created", attempts[k].id))
    /\ UNCHANGED <<profiles, ready, seen, db, manager, ui, calm, bounds>>

\* (fault: CreateUser does not look at the error)
AttemptFailsUnnoticed(k) ==
    /\ ready
    /\ LET a == attempts[k]
       IN  /\ IF (a.op = "create") = (a.id \in accounts)
                THEN UNCHANGED failures
                ELSE OneMoreFailure
           /\ main' = Append(main, IF a.op = "signIn" THEN Failed("loginFailed")
                                   ELSE About("created", a.id))
    /\ attempts' = RemoveAt(attempts, k)
    /\ UNCHANGED <<server, keychain, sdk, db, manager, ui, calm, starts, presses>>

\* An unknown or a taken address fails, and anything may; an account may be
\* created although its answer is lost
AttemptFails(k) ==
    /\ ready
    /\ LET a == attempts[k]
       IN  /\ IF (a.op = "create") = (a.id \in accounts)
                THEN UNCHANGED <<accounts, failures>>
                ELSE /\ OneMoreFailure
                     /\ \/ accounts' = accounts
                        \/ a.op = "create" /\ accounts' = accounts \cup {a.id}
           /\ main' = Append(main, Failed(IF a.op = "signIn" THEN "loginFailed"
                                          ELSE "registerFailed"))
    /\ attempts' = RemoveAt(attempts, k)
    /\ UNCHANGED <<profiles, keychain, sdk, db, manager, ui, calm, starts, presses>>

\* A round trip takes longer than the two callbacks of a success, which are queued
\* one behind the other
RoundTrip == \A k \in DOMAIN main : main[k].type \notin {"signedIn", "created"}

\* observeSingleEvent on users/<u>: an answer serves every read of the profile
ReadAnswered ==
    /\ RoundTrip
    /\ db # <<>> /\ Head(db).op = "read"
    /\ LET r == Head(db)
       IN  /\ db' = Picked(db, {k \in DOMAIN db : db[k] # r})
           /\ main' = main \o [k \in 1 .. (Len(db) - Len(db')) |->
                                 Profile(r.id, r.id \in profiles)]
    /\ UNCHANGED <<server, keychain, sdk, attempts, manager, ui, calm, bounds>>

\* setValue on users/<u> is taken, or refused
StoreAnswered ==
    /\ RoundTrip
    /\ db # <<>> /\ Head(db).op = "store"
    /\ db' = Tail(db)
    /\ \/ /\ profiles' = profiles \cup {Head(db).id}
          /\ main' = Append(main, About("stored", Head(db).id))
          /\ UNCHANGED failures
       \/ /\ OneMoreFailure
          /\ main' = Append(main, Failed("registerFailed"))
          /\ UNCHANGED profiles
    /\ UNCHANGED <<accounts, keychain, sdk, attempts, manager, ui, calm, starts, presses>>

-----------------------------------------------------------------------------
(***************************************************************************)
(* The main queue.                                                         *)
(***************************************************************************)
Next1(type) == main # <<>> /\ Head(main).type = type

\* GetUserById, from a callback whose successors are rest: an own pending write or
\* an answer not handled yet serves it, or it is sent
GetUserById(u, rest) ==
    LET at == Contains(db, Request("store", u))
           \/ \E k \in DOMAIN rest : rest[k].type = "profile" /\ rest[k].id = u
    IN  IF at
          THEN /\ main' = Append(rest,
                    Profile(u, u \in profiles \/ Contains(db, Request("store", u))))
               /\ db' = db
          ELSE /\ main' = rest
               /\ db' = Append(db, Request("read", u))

\* (fault: a delegate that succeeds stays a delegate)
AdmitKeepsDelegate(D) ==
    IF delegates \cap D = {}
      THEN UNCHANGED <<delegates, screen, hud, lists>>
      ELSE /\ auth # None
           /\ delegates' = delegates
           /\ screen' = "lists"
           /\ hud' = TRUE
           /\ lists' = Append(lists, Opened)

\* A delegate that succeeds dismisses its HUD, removes itself and performs the
\* segue; the lists screen shows the HUD again and loads the lists of Auth's user
Admit(D) ==
    IF delegates \cap D = {}
      THEN UNCHANGED <<delegates, screen, hud, lists>>
      ELSE /\ auth # None
           /\ delegates' = delegates \ D
           /\ screen' = "lists"
           /\ hud' = TRUE
           /\ lists' = Append(lists, Opened)

\* (fault: a delegate that fails leaves its HUD)
RefuseLeavesHud(D) ==
    /\ delegates' = delegates \ D
    /\ UNCHANGED <<screen, hud, lists>>

\* A delegate that fails dismisses its HUD and removes itself
Refuse(D) ==
    /\ delegates' = delegates \ D
    /\ hud' = IF delegates \cap D = {} THEN hud ELSE FALSE
    /\ UNCHANGED <<screen, lists>>

\* The listener of TryAutoLogIn, which is never removed; the SDK calls it when the
\* account is another than before
StateChanged ==
    /\ Next1("state")
    /\ seen' = auth
    /\ IF seen = auth
         THEN /\ main' = Tail(main)
              /\ UNCHANGED <<db, delegates, screen, hud, lists>>
         ELSE IF auth = None
           THEN /\ main' = Tail(main)
                /\ Refuse({"root", "login"})
                /\ UNCHANGED db
           ELSE /\ GetUserById(auth, Tail(main))
                /\ UNCHANGED <<delegates, screen, hud, lists>>
    /\ calm' = (calm /\ (ready \/ keychain = None))
    /\ UNCHANGED <<server, keychain, ready, auth, attempts, currentUser, leaving, bounds>>

\* The completions of LogIn and CreateUser
SignedIn ==
    /\ Next1("signedIn")
    /\ GetUserById(Head(main).id, Tail(main))
    /\ UNCHANGED <<server, keychain, sdk, attempts, manager, ui, calm, bounds>>

\* The write shows at once to reads of the profile that are under way
Created ==
    /\ Next1("created")
    /\ LET u == Head(main).id
           q == Picked(db, {k \in DOMAIN db : db[k] # Request("read", u)})
       IN  /\ db' = Append(q, Request("store", u))
           /\ main' = Tail(main) \o [k \in 1 .. (Len(db) - Len(q)) |-> Profile(u, TRUE)]
    /\ UNCHANGED <<server, keychain, sdk, attempts, manager, ui, calm, bounds>>

\* (fault: RegisterViewController takes UserLogedIn as well)
ProfileReadAdmitsAll ==
    /\ Next1("profile")
    /\ Head(main).there
    /\ main' = Tail(main)
    /\ currentUser' = Head(main).id
    /\ Admit({"root", "login", "register"})
    /\ UNCHANGED <<server, keychain, sdk, attempts, db, leaving, calm, bounds>>

\* The callback of GetUserById; RegisterViewController takes no UserLogedIn
ProfileRead ==
    /\ Next1("profile")
    /\ Head(main).there
    /\ main' = Tail(main)
    /\ currentUser' = Head(main).id
    /\ Admit({"root", "login"})
    /\ UNCHANGED <<server, keychain, sdk, attempts, db, leaving, calm, bounds>>

\* The process ends: nothing but the keychain is kept
Reset(how) ==
    /\ ready' = FALSE
    /\ auth' = None
    /\ seen' = Never
    /\ attempts' = <<>>
    /\ db' = <<>>
    /\ main' = <<>>
    /\ currentUser' = None
    /\ delegates' = {}
    /\ screen' = how
    /\ hud' = FALSE
    /\ lists' = <<>>
    /\ leaving' = <<>>
    /\ calm' = TRUE
    /\ UNCHANGED <<server, keychain, bounds>>

\* "as! [String : Any]" on a profile that is not there
ProfileMissing ==
    /\ Next1("profile")
    /\ ~Head(main).there
    /\ Reset("crashed")

\* CreateUser's profile is stored: UserRegistered, then UserLogedIn
Stored ==
    /\ Next1("stored")
    /\ main' = Tail(main)
    /\ currentUser' = Head(main).id
    /\ Admit({"root", "login", "register"})
    /\ UNCHANGED <<server, keychain, sdk, attempts, db, leaving, calm, bounds>>

\* A login is about to be announced to a delegate
Admitting == \/ Next1("profile") /\ Head(main).there /\ delegates \cap {"root", "login"} # {}
             \/ Next1("stored") /\ delegates # {}

\* UserListsDbRef unwraps Auth's user by force, who has logged out
NobodyLoads ==
    /\ Admitting
    /\ auth = None
    /\ Reset("crashed")

LogInFailed ==
    /\ Next1("loginFailed")
    /\ main' = Tail(main)
    /\ Refuse({"root", "login"})
    /\ UNCHANGED <<server, keychain, sdk, attempts, db, currentUser, leaving, calm, bounds>>

RegistrationFailed ==
    /\ Next1("registerFailed")
    /\ main' = Tail(main)
    /\ Refuse({"register"})
    /\ UNCHANGED <<server, keychain, sdk, attempts, db, currentUser, leaving, calm, bounds>>

-----------------------------------------------------------------------------
(***************************************************************************)
(* The lists screens of the process: the answer of LoadData, the guard,    *)
(* and the HUD, which is one for all of them.                              *)
(***************************************************************************)
DismisDataLoad(n) == leaving' = IF hud THEN Append(leaving, n) ELSE leaving

DataLoaded(n) ==
    /\ lists[n].waiting
    /\ lists' = [lists EXCEPT ![n].waiting = FALSE, ![n].guard = FALSE]
    /\ DismisDataLoad(n)
    /\ UNCHANGED <<server, keychain, sdk, attempts, db, main, manager, screen, hud,
                   calm, bounds>>

\* (fault: the guard gives up without ending the load)
TimeoutGuardFiredSilently(n) ==
    /\ lists[n].guard
    /\ lists' = [lists EXCEPT ![n].guard = FALSE]
    /\ UNCHANGED <<server, keychain, sdk, attempts, db, main, manager, screen, hud, leaving,
                   calm, bounds>>

TimeoutGuardFired(n) ==
    /\ lists[n].guard
    /\ lists' = [lists EXCEPT ![n].guard = FALSE]
    /\ DismisDataLoad(n)
    /\ UNCHANGED <<server, keychain, sdk, attempts, db, main, manager, screen, hud,
                   calm, bounds>>

\* 0.6 s later the HUD is gone and the completion enables the screen that asked
Dismissed ==
    /\ leaving # <<>>
    /\ leaving' = Tail(leaving)
    /\ hud' = FALSE
    /\ lists' = [lists EXCEPT ![Head(leaving)].busy = FALSE]
    /\ UNCHANGED <<server, keychain, sdk, attempts, db, main, manager, screen, calm, bounds>>

-----------------------------------------------------------------------------
(***************************************************************************)
(* The user, who acts when no callback waits.                              *)
(***************************************************************************)
Idle == main = <<>>

Start ==
    /\ screen \in NotRunning
    /\ starts < MaxStarts
    /\ starts' = starts + 1
    /\ screen' = "root"
    /\ hud' = TRUE
    /\ delegates' = {"root"}
    /\ main' = <<State>>
    /\ UNCHANGED <<server, keychain, sdk, attempts, db, currentUser, lists, leaving, calm,
                   presses, failures>>

Kill ==
    /\ screen \notin NotRunning
    /\ Reset("off")

\* The buttons of the root screen are enabled once it has removed itself
GoTo(s) ==
    /\ Idle
    /\ screen = "root" /\ "root" \notin delegates
    /\ s \in {"login", "register"}
    /\ screen' = s
    /\ UNCHANGED <<server, keychain, sdk, attempts, db, main, manager, hud, lists, leaving,
                   calm, bounds>>

\* The screen is deallocated, which takes it out of the (weak) delegates
Back ==
    /\ Idle
    /\ screen \in {"login", "register"}
    /\ screen' = "root"
    /\ delegates' = delegates \ {screen}
    /\ calm' = (calm /\ screen \notin delegates)
    /\ UNCHANGED <<server, keychain, sdk, attempts, db, main, currentUser, hud, lists, leaving,
                   bounds>>

\* LogInPressed and RegisterPressed; nothing keeps the user from pressing again
Press(s, o) ==
    /\ Idle
    /\ screen = s
    /\ leaving = <<>>
    /\ presses < MaxPresses
    /\ presses' = presses + 1
    /\ hud' = TRUE
    /\ delegates' = delegates \cup {s}
    /\ \E u \in Accounts : attempts' = Append(attempts, Request(o, u))
    /\ calm' = (calm /\ s \notin delegates)
    /\ UNCHANGED <<server, keychain, sdk, db, main, currentUser, screen, lists, leaving,
                   starts, failures>>

LogInPressed    == Press("login", "signIn")
RegisterPressed == Press("register", "create")

\* signOut may fail, which is printed
LogOutPressed ==
    /\ Idle
    /\ ready
    /\ screen = "lists"
    /\ \/ /\ keychain' = None
          /\ auth' = None
          /\ main' = IF auth = None THEN main ELSE Append(main, State)
          /\ UNCHANGED failures
       \/ /\ OneMoreFailure
          /\ UNCHANGED <<keychain, auth, main>>
    /\ currentUser' = None
    /\ delegates' = delegates \ {"login", "register"}
    /\ screen' = "root"
    /\ calm' = (calm /\ ~Last(lists).waiting /\ ~Last(lists).guard)
    /\ UNCHANGED <<server, ready, seen, attempts, db, hud, lists, leaving, starts, presses>>

-----------------------------------------------------------------------------
Answers  == \/ KeychainRead \/ ReadAnswered \/ StoreAnswered
            \/ \E k \in DOMAIN attempts :
                  SignInAnswered(k) \/ CreateAnswered(k) \/ AttemptFails(k)
MainStep == \/ StateChanged \/ SignedIn \/ Created \/ ProfileRead \/ ProfileMissing
            \/ Stored \/ NobodyLoads \/ LogInFailed \/ RegistrationFailed
Loads    == \E n \in DOMAIN lists : DataLoaded(n)
Timers   == Dismissed \/ \E n \in DOMAIN lists : TimeoutGuardFired(n)
UserStep == \/ Start \/ Kill \/ Back \/ LogInPressed \/ RegisterPressed \/ LogOutPressed
            \/ \E s \in {"login", "register"} : GoTo(s)

Next == Answers \/ MainStep \/ Loads \/ Timers \/ UserStep

Spec == Init /\ [][Next]_vars

(***************************************************************************)
(* Requests are answered, one way or the other, the main queue is served   *)
(* and timers go off.  LoadData may never be answered, and a user need not *)
(* do anything.                                                            *)
(***************************************************************************)
Fairness == WF_vars(Answers) /\ WF_vars(MainStep) /\ WF_vars(Timers)
FairSpec == Spec /\ Fairness
-----------------------------------------------------------------------------
(***************************************************************************)
(* Properties.                                                             *)
(***************************************************************************)

\* Every variable holds a value of its kind.
TypeOK ==
    /\ accounts \subseteq Accounts
    /\ profiles \subseteq accounts
    /\ keychain \in Accounts \cup {None}
    /\ ready \in BOOLEAN
    /\ auth \in Accounts \cup {None}
    /\ seen \in Accounts \cup {None, Never}
    /\ attempts \in Seq(Attempts)
    /\ db \in Seq(Requests)
    /\ main \in Seq(Events)
    /\ currentUser \in Accounts \cup {None}
    /\ delegates \subseteq {"root", "login", "register"}
    /\ screen \in Screens
    /\ hud \in BOOLEAN
    /\ lists \in Seq(ListsScreen)
    /\ leaving \in Seq(DOMAIN lists)
    /\ calm \in BOOLEAN
    /\ starts \in Nat
    /\ presses \in Nat
    /\ failures \in Nat

\* AddNewList and AddNewItem write the id of Auth's user with the name of currentUser:
\* on the lists screen both are one registered account with a stored profile, however
\* the two announcements of a login, an earlier session and failures interleave.
ListsOfOneUser ==
    calm /\ screen = "lists" =>
        /\ currentUser = auth
        /\ auth \in profiles

\* The several announcements of one login, by the listener and by the completion, push
\* one lists screen.
OneListsScreen == [][Len(lists') > Len(lists) => screen # "lists"]_vars

\* GetUserById casts the profile without a question: whoever signs in has one, so that
\* each answer holds it.
ProfileIsThere == Next1("profile") => Head(main).there

\* LoadData unwraps Auth's user by force: a login is announced while its user is signed
\* in, and not by a read that the log-out has overtaken.
SomebodyIsSignedIn == Admitting => auth # None

\* Nobody waits for nothing.  While the HUD is up, on the lists the guard is still to
\* fire or the HUD is being dismissed; elsewhere a delegate that would dismiss it is
\* registered and an answer for it is under way.
HudIsOwed ==
    calm /\ hud =>
        \/ leaving # <<>>
        \/ screen = "lists" /\ Last(lists).guard
        \/ delegates # {} /\ (attempts # <<>> \/ db # <<>> \/ main # <<>>)

\* A lists screen that is not enabled yet will be: DismisDataLoad finds the HUD it
\* looks for, whoever showed it, and either the guard or the data will call it, or the
\* completion of its dismissal is under way for this very screen.
EnablingIsOwed ==
    calm /\ screen = "lists" /\ Last(lists).busy =>
        hud /\ (Last(lists).guard \/ Contains(leaving, Len(lists)))

\* The HUD goes away, on every screen: each start, attempt and load comes to its end.
HudEnds == hud /\ calm ~> ~hud \/ ~calm

\* A lists screen is enabled in the end, by its data or by its guard, although the HUD
\* that both look for is shared.
ListsEnabled ==
    screen = "lists" /\ Last(lists).busy /\ calm
        ~> screen # "lists" \/ ~Last(lists).busy \/ ~calm
=============================================================================
