# SharedList in TLA+

A specification of SharedList, an iOS app in which several users keep shopping
lists together over the Firebase realtime database: what it does, model-checked
with TLC on small instances, and the central invariants proved with TLAPS for
every number of users, items and operations. Paths below are relative to
`src/SharedList/`.

## 1. The system

The app's own code is about 2,100 lines of Swift. Everything it keeps lives in the
database, as one JSON tree:

    users/<u>/{name, email, lists/<l>: true, invitations/<l>}
    lists/<l>/{title, owner_id, items_id: <X>, users/<u>: name}
    items/<X>/{list_id, items/<i>/{title, checked, author_id, checked_by_id}}

A view controller owns a manager, the manager reads the tree, listens to it and
keeps an array of rows; the controller hears of changes by delegate calls and
reloads its table. Nothing is written to the rows directly: a write goes to the
database and comes back as an event, at once (the SDK applies pending writes to what
it shows) or after the server took it. All app code runs on the main queue; the SDK
works on a queue of its own and posts callbacks to the main queue in order.

| part | state | operations | talks to |
|---|---|---|---|
| **Single list** `Managers/SingleListManager.swift`, `Model/Item.swift`, `Utilities/FrbChangedObserver.swift`, `Managers/ObserversHandler.swift` | `data` (rows, each an Item with its childChanged observer), `observerActive` | LoadData, AddNewItem, RemoveItem, ReverseChecked; callbacks ItemsChildAdded, ItemsChildRemoved, ItemWithObserver.Updated | database; delegate calls to the screen |
| **Single list screen** `Controller/SingleListViewController.swift` | `dataLoading`, enabled or not, the popup | viewDidLoad, selecting a row, popup buttons, adding | manager |
| **Lists** `Managers/ListsManager.swift`, `Model/List.swift`, `Controller/ListsViewController.swift` | `data` (rows), `observerActive`; `loadingInProgress`, `selectedListIndex` | LoadData, AddNewList, RemoveList, ListsKeysChildAdded/Removed | database; opens a single list |
| **Loading timeout** `Utilities/TimeoutGuard.swift` | `isActive`, `timer` | Activate, Refresh, Deactivate, firing | lists screen |
| **Invitations** `Managers/ProposalManger.swift` | `invitations`, `observersHandler` | LoadData, SendInvitation, AcceptInvitation, RemoveInvitation, child callbacks | database, ListsManager.GetListById, AuthManager |
| **Authentication** `Managers/AuthManager.swift`, log-in and register screens | `currentUser`, delegates, the SDK's signed-in user | TryAutoLogIn, CreateUser, LogIn, LogOut | Firebase Auth, database |
| **Wiring** `Managers/FirebaseManager.swift`, `Managers/FirebaseUtilities.swift`, `AppDelegate.swift` | none | factories and paths | all |
| **Database SDK** `Pods/FirebaseDatabase` (vendored) | pending writes, cached nodes, registrations | listen, single read, update, events | server |

There are no tests and no documents. What makes the code hard:

- *several apps at once* over one tree, without transactions: a write is computed from
  a row that may be out of date by the time the server takes it;
- *load, then listen*: a snapshot is read, names are read, and only then do the
  listeners start; what happens in between is nobody's event;
- *the same item from several sources*: snapshot, cached announcement, server
  announcement, own pending write, own refused write;
- *process ends*: the app enables no persistence, so what was not sent is lost;
- *row numbers* kept across events (popup, `selectedListIndex`);
- *force casts* that turn an unexpected tree into the end of the process.

What makes each part correct:

- *Single list*: no item in two rows; after quiescence rows and server agree (section
  4 says exactly how far); `checked` and `checked_by_id` agree; a removed item stays
  removed; the load ends; every item arrives; no cast fails.
- *Lists*: the same for the rows; a user's key names an existing list, a list's users
  have its key, `items/<X>/list_id` points back; the spinner ends once, by the answer
  or the guard.
- *Invitations*: an accepted invitation adds the list before it goes; the rows are the
  invitations, apart from rows that loading doubles or a callback of an earlier session makes.
- *Authentication*: on the lists `currentUser` is the signed-in user; one lists screen per
  login, and only while somebody is signed in; the HUD goes.

## 2. Modules

| module | content |
|---|---|
| `ItemsTable` | the table `items/<X>/items`: slots, the three writes (`AddOf`, `DelOf`, `CheckOf`), `Apply` (server) and `Overlay` (pending writes over server data) |
| `SingleList` | one list: server, SDK part and main queue of every app, the screen, the user; EXTENDS `ItemsTable` |
| `SharedTable` | abstract specification: one table with atomic AddItem, RemoveItem, CheckItem, UncheckItem |
| `ListsTable` | the tree of keys, lists and items tables: the writes `AddOf`, `JoinOf`, `RemoveOf`, `Apply`, and what a client sees with its pending writes (`KeysOf`, `ListOf`) |
| `UserLists` | the lists of all users on several devices: `ListsManager`, the lists screen above it, the accept of an invitation; EXTENDS `ListsTable` |
| `ListsRegister` | abstract specification: the members of each list, with atomic CreateList, JoinList, RemoveList |
| `Invitations` | the invitations of one user: `InvitationManager`, the invitations screen, other users who invite |
| `Session` | who is logged in: `AuthManager`, its delegates, the root, log-in, register and lists screens, the HUD, the timeout guard |
| `Queues` | picking entries out of a queue (helpers; no code) |
| `MCSingleList`, `MCUserLists`, `MCInvitations` | the modules for TLC, with their symmetries (`Session` needs none) |
| `SingleListProofs`, `SharedTableProofs`, `RowsProofs` | theorems about `SingleList`: the screen, the refinement of `SharedTable`, the rows of a settled screen, what may end the process, what a load waits for |
| `UserListsProofs`, `ListsRowsProofs` | theorems about `UserLists`: the database and the load, the rows |
| `InvitationsProofs`, `SessionProofs` | theorems about the modules of these names |
| `QueueLemmas` | facts about queues, orders and counting that the last four cite |

How they divide the system: a list's items (`SingleList`) hang on a list's node, which `UserLists`
creates and deletes; `UserLists` is opened by a login (`OpenLists`), which is `Session`'s subject;
`AcceptInvitation` is in `UserLists`, where it writes a key, and in `Invitations`, where it is followed by the
removal of the invitation. The components share the database and nothing else, so each module keeps
the part of the tree its component writes, and takes from the neighbours what they may do
to it (`heard`: an invitation is of a list whose add was answered; `DataLoaded(n)`: the load of a lists
screen ends at any time, or never). `Session` joins five classes because they share one HUD and one set
of delegates.

### How `SingleList` corresponds to the code

`server` is the table; title and author of an item are only written together and never
change, so `named` stands for both. `up[c]` holds the requests of app *c* the server has
not taken, in order; a write in it is visible to *c* through `Overlay`. `events[c]` holds
the callbacks posted to the main queue, in order. `data[c]` is `SingleListManager.data`;
`screen[c]` joins `dataLoading`, the enabled state and the life of the weak `delegate`.
`table[c]`, `live[c]`, `known[c]` and `regs[c]` are the SDK's registrations: the listener on
the table (`asked` until its first answer), the items whose childChanged listener is
answered, the children announced so far, and how many childChanged registrations an item
has had (a row has the number of its own, because a callback only reaches the
registrations that existed when it was raised).

| action | code |
|---|---|
| `OpenList`, `LeaveScreen`, `Quit` | `viewDidLoad` calling `LoadData`; the controller goes and the weak delegate with it; the process ends |
| `LoadNothing`, `LoadItems`, `LoadPartialItem` | the callback of `LoadData` on an empty table, on complete items, on an item a cast of `Deserialize` fails for |
| `LastItemNamed` | the `LoadUserNames` callback of the last loaded item: `DataLoaded`, `ActivateObservers` |
| `ItemsChildAdded`, `PartialChildAdded`, `ItemsChildRemoved`, `ItemUpdated` | the observer callbacks; `PartialChildAdded` is the failing cast |
| `AddNewItem`, `RemoveItem`, `SelectUnchecked`, `SelectChecked`, `PopupYes`, `PopupNo`, `PopupYesNoRow` | the user, each with the write it sends; the last is the failing subscript of `ReverseChecked` |
| `AnswerRead`, `AnswerNames`, `AnswerWatch`, `AnswerTable` | the server answers a single read or a listener |
| `Commit`, `Reject` | the server takes a write or refuses it |

Abstractions, and why they keep the behaviours:

- *Delivery.* A commit raises the events of all listening apps in the step itself. Being
  told late is `events[c]`, and being heard late is `up[c]`; a delay on the SDK's own queue
  changes neither order. The acknowledgement of a write and the data of it reach the author
  together: the author's view is the same before and after, because its own write covers it.
- *Names.* Only the names read of the *last* item loaded changes state (it ends loading).
  It is answered by the server, or at once from the SDK's cache when the lists screen
  observes the list's node: `LoadItems` has both (`cached`). Other names reads only set texts
  and reload the table. A names read begun by ItemChanged cannot end the loading early: it is
  the same query as the reads of the loaded items, registered after them.
- *Texts and layout.* Titles, names, the reload of the table view, the HUD's 0.6 s delay and
  the details button are left out. A reload shows `data` as it is, so the row a user taps is
  a row of `data` as of that moment.
- *Order.* Announcements of one batch come in key order, dictionary iteration in any order;
  the model takes any order in both.
- *Reads are never refused*: the app passes no cancel block and would hear nothing.

The database server and iOS are external: `Apply` and `Reset` model them from how the
app uses them. `lost` and `gone` are history variables: they record what the
listeners could not see, and no action reads them.

### How `UserLists` corresponds to the code

`server` is a record of three maps: `keys[u]` is `users/<u>/lists`, `lists[l]` the `users` dictionary of `lists/<l>`
(the rest of the node is written with it and never changes), `tables` the lists named by an
`items/<X>/list_id`. The ids of a list and its items table are generated together; `l` is both.
`up`, `events`, `data`, `screen` are as in `SingleList`; `owner[a]` is the user of a device, `left[a]` the `listsCounter`
of `LoadData`, `live[a]` the lists whose node the SDK keeps because a row observes it.

| action | code |
|---|---|
| `OpenLists`, `Quit` | `viewDidLoad` / `InitiateDataLoad` of a fresh process; the process ends |
| `LoadNoLists`, `LoadLists`, `ListLoaded` | the callbacks of `LoadData`: no lists, the reads of the lists, one list (the last one: `DataLoaded`, `ActivateObservers`) |
| `ListsKeysChildAdded`, `ListRead`, `ListsKeysChildRemoved` | the key listeners, and the read behind the first |
| `AddNewList`, `AcceptInvitation`, `RemoveList`, `RemoveListUsersRead` | the writes; the removal first reads the list's users |
| `NoSuchList`, `SelectNoList` | the casts of a node that is not there; `GetList(0)!` of the row "Add new list" |
| `TimeoutGuardFired` | the screen is enabled while the load goes on |
| `AnswerKeys`, `AnswerListen`, `AnswerNode`, `Commit`, `Reject` | the server; one answer about a node serves every read and observer of it that waits |

A read is answered without the server when the SDK has the node (`AtHand`): that is where
`ListRead` overtakes answers, and why `LoadLists` splits the keys. Ids come from `childByAutoId` and are never
generated twice (`author`). `heard`, `refused`, `gone` and `author` are history variables.

### How `Invitations` corresponds to the code

Nothing creates an `InvitationManager` today; the module wires it as the commented-out lines of
`Controller/ListsViewController.swift` (38-48) do: `LogIn` is their `LoadData` followed by `ActivateObservers`, `LogOut` is `UserLogedOut`,
which reaches `Cleanup`: it empties the rows and removes the observers, and with them the request of `LoadData`. Callbacks
that the SDK has posted to the main queue are not recalled; they run on the manager, which lives on, and add to the emptied rows, possibly
in the next session. `Coming` are the lists they may add, which `stray` keeps. `RemoveInvitation` asks for the current user when it
runs: the completion of an accept or of a title that comes after the log-out unwraps nobody by force and ends the process
(`NobodyRemoves`). The device is one user's; another user who logs in between is not modelled (section 6). `LoadAnswered` is the arrival of `users/<u>/invitations`: it serves the ordered query of `LoadData`
and the listener, two views of one place that the SDK tells in the order of a dictionary - the
model takes both orders. `SendInvitation`, `UserFound`, `UserUnknown` are the other users. `TitleRead` always ends in
`RemoveInvitation`: `GetListById` casts the node of a list to `[String : String]`, and every list has a dictionary in `users`.

### How `Session` corresponds to the code

`accounts` and `profiles` are on the server, `keychain` on the device; the rest ends with the process. `main` is the
main queue, `attempts` the sign-ins and registrations on their way (answered in any order), `db` the
requests for `users/<u>` (in order). `delegates` is a set, as `MulticastDelegate` holds weak references.

| action | code |
|---|---|
| `Start`, `Kill`, `GoTo`, `Back`, `LogInPressed`, `RegisterPressed`, `LogOutPressed` | the user; `Start` is the root's `viewDidLoad` with `TryAutoLogIn` |
| `KeychainRead`, `SignInAnswered`, `CreateAnswered`, `AttemptFails` | the auth SDK: a change of account is told to the state listener before the completion |
| `ReadAnswered`, `StoreAnswered` | the server answers `GetUserById`, and `setValue` of `CreateUser` |
| `StateChanged`, `SignedIn`, `Created`, `Stored`, `ProfileRead`, `ProfileMissing`, `NobodyLoads`, `LogInFailed`, `RegistrationFailed` | the closures of `AuthManager`, with the delegate calls they make (`Admit`, `Refuse`); the new lists screen loads the lists of the SDK's user, and `NobodyLoads` is the failing unwrap when there is none |
| `DataLoaded`, `TimeoutGuardFired`, `Dismissed` | the lists screen, its guard, the completion of `dismiss(withDelay: 0.6)` |

Assumptions of this module:

- *Idle user.* A user acts when the main queue is empty, and presses Log In or Register when no
  dismissal of 0.6 s is under way. `RoundTrip`: no network answer falls between the two
  consecutive main-queue blocks of a successful sign-in.
- *Calm.* `calm` is a history variable: the first call of the state listener came when the keychain had
  been read (or holds nobody), and the user did not press again, go back or log out while an
  attempt or a load was running. `ListsOfOneUser`, `HudEnds`, `ListsEnabled` and their safety halves are stated for calm processes. They do
  not hold for the others, and the reasons are listed as hazards: a late keychain leaves the
  root screen in front of a signed-in account, and a dismissal that belongs to a left screen takes
  the HUD of the next one, and a profile read that outlives its session sets `currentUser` again after
  the log-out, which run `SessionLogOut` follows to its end. `OneListsScreen` and `TypeOK` hold without it.
- *HUD.* A dismissal without delay takes effect before the next screen shows the HUD again; the
  fade of 0.15 s is part of the dismissal. A screen that was left lives on, as guard and screen
  refer to each other, and its guard can still fire.
- *Refresh* of the guard restarts the timer, which without clocks is no change. On the lists
  screen "Log Out" stands where the back button would be.

## 3. Runs

A behaviour ends when the bounds are used up, so deadlock checking is off.

| run | bounds | checks |
|---|---|---|
| `SingleListRaces` | 2 users, 1 id; 3 writes, 1 reject, 1 open, 0 exits; removal | types, rows against server under races and one refusal, coherent fields, refinement of `SharedTable` |
| `SingleListRestarts` | 2, 1; 2, 1, 2, 1; removal | loading comes first, a kill and a new start with writes on the way, a refusal; which rows have no item |
| `SingleListLive` | 2, 1; 2, 0, 1, 1; no removal | the app as its screens are today: no failing cast; `LoadingEnds`, `EveryItemArrives` under fairness, with loads that a kill cuts off |
| `SingleListLoads` | 1, 2; 2, 1, 2, 1; removal | several rows: each event finds its own; `LoadingIsOwed`, `LoadingEnds` and `EveryItemArrives` for several items, two loads, removals and a refusal |
| `SingleListPopup` | 2, 1; 2, 0, 1, 0; no removal | finding: `YesUnchecks` |
| `SingleListPartial` | 2, 1; 2, 0, 1, 0; removal | finding: `DeserializedItemsAreComplete` |
| `UserListsRaces` | 2 users, 2 devices, 2 ids; 2 writes, 2 rejects, 1 open, 1 exit; removal and invitations | rows and counter under races, a load always has its next callback, the tree stays connected, removed lists stay removed |
| `UserListsLive` | 2, 2, 2; 1, 0, 1, 1; invitations, no removal | no failing cast, keys name lists, refinement of `ListsRegister`, liveness |
| `Invitations` | 2 lists; 1 sending, 1 reject, 2 log-ins, 1 answer, 1 cell | rows against invitations, accepted ones are joined |
| `Session` | 2 accounts; 2 starts, 2 presses, 1 failure | users, delegates, HUD, guard; liveness |
| `SessionProfile` | 2 accounts; 2 starts, 2 presses, 0 failures | finding: `ProfileIsThere` |
| `SessionLogOut` | 1 account; 1 start, 2 presses, 0 failures | finding: `SomebodyIsSignedIn` |

Why the bounds are enough. Users interact only through the server, so two show every
pair of roles (author and observer), and a third would only repeat the observer's; in
`UserLists` the two devices may belong to one user or to two. The rules of one item or list never
read another one; ids meet only in the order of rows, of announcements and in counters, for which
two are enough. Initially the server holds any table of complete items, any set of lists, any
invitations, so "before" needs no writes. Three writes are an add, a toggle and a removal, or
two concurrent toggles and a third against them; two opens and one exit are a kill and a
restart with everything still on its way. In `Invitations` one list is invited to anew while the
other is answered; a second log-in shows what the first one left behind. In `Session` two starts
show what a kill leaves in keychain and server, two presses a failed attempt and a second one, or two
users one after the other. Each bound is in the guard of the actions it counts; the queues are
bounded through them.

Fairness: `WF(ServerStep(c))` and `WF(MainStep(c))` for each app, in `Session` also the timers. The main queue is
served while the process runs (each callback is short and never blocks), the connection
retries until the server takes a request, and a scheduled timer fires. There is no fairness on the
user, refusals, process ends, nor on the load behind a lists screen in `Session`: there the
guard has to do it. Symmetry is used in the runs without liveness properties only.

What is proved for all bounds is checked by the run that comes closest to breaking it, not by each; a
liveness property, which is not proved, by each run that has its fairness and adds users, items or restarts.

## 4. What the checks show

*It holds:*

- `NoDuplicateRows` - no item has two rows, in any overlap of loading, announcements and
  removals. `LoadingComesFirst` is why LoadData may append without looking: until its callback
  ran there is no row, no listener and no other traffic.
- `EveryItemListed`, `EveryItemArrives` - load-then-listen loses no item: the childAdded listener
  announces everything present, and FindItemIndex drops what is there.
- `GhostRowsOnlyFromLoading` - a settled row without an item comes only from a removal
  before the table listener was answered. That window is real (`gone`): there is no
  childRemoved listener in it, so such a row stays until the list is opened again.
- `WatchedRowsFollowServer` - a settled row agrees with the server unless the item changed
  between the snapshot the row came from and its own listener (`lost`), the other window
  of load-then-listen. In particular out-of-order overlays and refusals do not leave a
  wrong row.
- `CheckedHasChecker`, `SharesOneTable` - toggles are atomic over both fields; the shared table
  behaves as the abstract one, step by step.
- `RemovedForGood` - no late write brings a removed item back as a complete one.
- `NoCrash` - with today's screens (no removal, no refused write) no cast or subscript fails.
  Rows never go there, so it is the casts that are put to the test; the subscript fails only after a removal (`PopupYesNoRow`).
- `LoadingEnds` - the spinner ends, for the empty list and for several items. `LoadingIsOwed` is its safety half:
  nobody waits for nothing. While the spinner turns exactly one read or answer of the load is under way, so it ends, and
  ends once: `ActivateObservers` never runs twice.

- `NoDuplicateLists`, `RowsFollowKeys`, `EveryListArrives` - a list has one row and a settled screen shows its user's keys, although
  `ListsKeysChildAdded` checks before its read and appends after it. This rests on the SDK: an answer about a node serves all
  who wait for it in their order, and a key announced twice has been taken back in between. Two exceptions are
  exact: a key removed before the listener was answered leaves its row (`gone`), as in `SingleList`; and a
  refused accept or removal, whose key goes and may come back while a read of the list is out (`refused`): such a list may get two rows.
- `CounterMatchesReads`, `LoadEnds` - `listsCounter` is the number of reads outstanding at every moment, so the load ends once.
  `LoadIsOwed` - before the observers are asked for, the keys or counted nodes are still to come, never both; afterwards neither.
- `ListsAreConnected`, `ListRemovedForGood` - the three places that make a list are always written, joined and removed together.
- `NoBadCast`, `KeysNameLists`, `SharesOneRegister` - as long as nothing is removed or refused. `RemoveList` takes
  the keys of the users that `lists/<l>/users` names, and `AcceptInvitation` never writes that dictionary: with a removal everybody who ever
  accepted keeps a key without a list, and their next `LoadData` ends in the cast; nothing calls `RemoveList` today.
- `EveryInvitationListed`, `RowsAreInvitations` - settled rows are the invitations, except that `LoadData` may add a second row for one the
  listener listed first, of which a removal takes one only, and that a callback still on the main queue at a log-out may
  bring a row back that the new session knows nothing of (`stray` has both; a list is in it by name, and every other list is exact).
- `AcceptedIsJoined` - an accepted invitation survives every kill until its list is joined; a refused accept
  loses it, because the completion does not look at the error.
- `ListsOfOneUser`, `OneListsScreen` - on the lists screen `currentUser` and the SDK's user, from which `AddNewList` takes name and id, are
  one account with a stored profile, although a login is announced by the listener and by its completion. It
  is `RegisterViewController`'s not taking `UserLogedIn` that keeps a registration from being admitted before its profile is written.
- `HudEnds`, `ListsEnabled` - the spinner goes on every screen, and a lists screen is enabled, by its data or by its guard.
  `HudIsOwed`, `EnablingIsOwed` - their safety halves: while the HUD is up somebody is left who will take it away, and a lists screen that
  is not enabled finds the HUD without which `DismisDataLoad` would do nothing, with its guard or its own dismissal still to come.

*It does not hold (findings):*

- `YesUnchecks`: "Do you want to ucheck it?" - Yes - may check the item, or another one. The popup
  keeps a row number and ReverseChecked negates what the row holds then.
- `DeserializedItemsAreComplete`: a toggle taken after a removal leaves an item of two
  fields; whoever is told of it, or opens the list later, crashes in `Item.Deserialize`. No
  screen calls `RemoveItem` today (`Removal` switches it).
- `ProfileIsThere`: an account whose registration was cut off before its profile was written is signed
  in by every later start, and the cast in `GetUserById` ends the process each time.
- `SomebodyIsSignedIn`: a login is announced twice, each time behind a profile read of its own. A user who logs out
  and presses Log In again before the second read is answered has the log-in screen as a delegate: the late answer opens a lists
  screen, which unwraps a signed-in user by force when there is none.

Every property of a passing run has a mutant, a handler as a plausible slip would have
left it (definitions marked "fault"), under which TLC finds it violated.

## 5. What is proved

All theorems are for every value of the constants, from the named assumptions of the modules.

`SingleListProofs` and `SharedTableProofs` prove for all values of the constants, from the assumptions of
`ItemsTable` (`Ids` finite, `NONE` no user, `Absent` no node) and `BoundsAreNat`:

- `TypeCorrect`: `Spec => []TypeOK`. Most of the work are lemmas about the queues and overlays:
  what `Overlay`, `Raised` and `KnownAfter` return, that `SetToSeqs` of a finite set is a
  set of sequences over it and lists all of it, and that appending to a queue keeps its type.
- `LoadingFirst`: `Spec => []LoadingComesFirst`. `LoadsFirst(c)` is inductive as it stands once it says that a
  closed app has empty queues, and that the read is *alone*: the only request and no
  callback, or the only callback and no request. The alternative "some read is somewhere
  in the queue" is not inductive, since a commit could append a callback in front of it.
  The lemmas `OwnStep` and `OthersUntouched` split a step into the app that takes it and the
  others, which it only reaches with events their (absent) listeners would raise.
- `RowsAreUnique`: `Spec => []NoDuplicateRows`. Relative to `LoadingComesFirst` the invariant is inductive: rows are
  added after the check of `ItemsChildAdded`, or by `LoadItems` to an empty `data`, in an order that
  lists every id once.
- `CheckedNamesChecker`: `Spec => []CheckedHasChecker`, with the strengthening `FieldsAgree`: besides the server's items every
  pending write of every app is coherent. Rows need not be, between the two callbacks of one toggle;
  the proof does not need it because `ReverseCheckedOf` computes both fields from one.

- `ImplementsTable`: `Spec => SharesOneTable`, the refinement of `SharedTable` under the mapping of its table to
  `server`. Only `Commit` changes `server`, and what it commits is a step of the table if a toggle
  has its two fields agree (`FieldsAgree`) and an add finds its slot empty. The second is no
  property of one step: the add waits in `up[c]` while other apps write. The strengthening
  `OneTable` says that an id not generated yet is *known* to no app - no row, no callback that
  could become one, no write under way - and that an add under way is of an empty slot, is its
  author's first write of the item, and is known to the author only. The lemma `SecretOwn` is its core:
  no step of an app that knows nothing of an empty slot makes it learn of it, because rows come from
  callbacks, callbacks from the server's table and from own writes, and own writes from rows.
- `RemovedStaysRemoved`: `Spec => RemovedForGood`. By the same invariant every add under way is the write of
  `AddNewItem` for its id; so where none is under way for an empty slot, the write that reaches it
  is a removal or a toggle, and a toggle names nothing.

`RowsProofs`, from the same assumptions, is about settled screens, what may end the process and what a load waits for:

- `EveryItemIsListed`: `Spec => []EveryItemListed`, and `GhostsComeFromLoading`: `Spec => []GhostRowsOnlyFromLoading`. The invariant
  `RowsFollow` compares the callbacks still to be handled with `known`, the SDK's record of what it has announced. `InView`: once the
  listener is answered the known items are those the app sees through its pending writes. `InStep`: the *last* announcement or
  withdrawal of an item under way agrees with `known`, whatever comes before it; where none is left the row agrees with `known`,
  up to `gone`. Rows and server are compared nowhere else, so a step of another app matters by what it raises only (`RaisedIs`).

- `NeverCrashes`: `Spec => []NoCrash`, for `~Removal` and `MaxRejects = 0`: what the screens call today, with a server that refuses
  nothing. (With a removal the run `SingleListPartial` shows the partial item that would be deserialised.) The
  invariant `NothingBreaks` says that an item an app knows of - by a row, a callback under way or a write in its queue - is *firm*:
  the server holds it with its title, or the add is still in the app's own queue (`FirmIds`). Then every overlay shows it with a title
  (`OverlayNamed`), so announcements are whole and none is withdrawn (`RaisedCalm`), and rows, and with them the row a popup counts on,
  never disappear (`Intact`). It rests on `OneTable`, which lets the server take the add before any other write of its item
  (`CommitWrites`), and on `InView`, by which a known item is one the app sees. TLC checked `NothingBreaks` on two users before the proof.

- `WatchedRowsAreRight`: `Spec => []WatchedRowsFollowServer`, without hypotheses: it holds with removals, refusals and restarts. Every field of a
  row is traced from the snapshot or announcement that brought it through the registrations that change it, in two invariants.
  *Steady* is about the listeners: a row has the latest registration of its item, no callback under way is for a registration that
  does not exist yet or of an item not heard of, the listener of a row is asked for ahead of the table's, and until the table's
  is asked for there is no popup and no write. *Tracked* is about each row: it missed a change (`lost`); or its item is
  dead for good (generated, without a title, and no add of it under way anywhere); or a callback under way withdraws it; or its
  listener is still to come, and the step that answers it records in `lost` what the row missed; or it is watched, and the callbacks under way for its registration
  lead from its fields to those the app sees through its pending writes. The last is stated with `Leads`: of each
  field the *last* callback under way has the value the app sees, or there is none and the row has it. When nothing is under way only *lost*,
  *dead* and *watched* are left, and the third says that row and server agree. The lemmas `TrackedCarry` and `TrackedChange` carry
  it over the steps that raise nothing and those that change an item; `TrackedOwn` has one step per action of the app.

- `LoadingWillEnd`: `Spec => []LoadingIsOwed`. `LoadDue` says that the read or its answer is alone in the queues, as
  in `LoadsFirst`, or that the names read of the last item, or its answer, is there once and the table listener is not asked for. It is
  inductive with the invariants `LoadsFirst`, `NamesOnce` and *Steady* before it: other apps only add callbacks of listeners,
  and each callback of the load sends the next request or enables the screen.

`UserListsProofs` (from `ListsFinite`, `AbsentIsNothing`, `BoundsAreNat`):

- `TypeCorrect`: `Spec => []TypeOK`. What `AnswerNode` and `Raised` append to the queues has its type by `PickedQueue` of `QueueLemmas`.
- `ListsStayConnected`: `Spec => []ListsAreConnected`. Inductive relative to `TypeOK`, because each of the three writes touches the
  places it must in one step (`ApplyConnects`, one step per write and place); it needs no order of the writes.
- `RemovedForGood`: `Spec => ListRemovedForGood`. Not a matter of one step: the add of a list waits in a queue. The strengthening
  `AddsAreOwn` says that every add under way is the one of its id's author; so once that is not under way, no write makes the id a list.
- `KeysAlwaysName`: under `~Removal` and `MaxRejects = 0`, `Spec => []KeysNameLists`. The strengthening `Kept` adds `OnlyNew` (a write under
  way adds a list or joins one that was heard of, each for one user) and `HeardIsThere` (a list heard of is on the server and somebody has its key).
- `RegisterImplemented`: under the same two assumptions and by the same invariant, `Spec => SharesOneRegister`: the refinement of
  `ListsRegister`, every commit being a step of the register and every other action a stutter.

- `CounterIsExact`: `Spec => []CounterMatchesReads`. The requests under way and their answers are counted together (`Tally`), so an
  answer that passes from one queue to the other changes nothing. `Loads` adds what makes the counting start right: keys are
  asked for once, with no row and no read out; the listener is asked for once, when the counter has reached zero; and no key is
  told of before the listener is answered.
- `ObserversWillStart`: `Spec => []LoadIsOwed`, by the same invariant. Its last part says that a load without a listener still expects the keys or
  a counted node: the keys of nobody's lists ask for the listener at once, any others leave a counter above zero, and only the
  node that takes it to zero ends the wait.

`ListsRowsProofs`, from the same assumptions, takes five steps, each an invariant of its own that the next one uses:

1. *Born.* A list is added once, by the app that generated its id, before any other write to it; whoever writes to it adds it or knows it was
   heard of. It follows that a list is *lost* to an app for good when a write of it was refused, its removal is under way there, or the
   server had it and has it no more.
2. *Fine.* Everything an app asks for, is told of or shows is a key that it sees or a list lost to it.
3. *Brought.* No invariant but a lemma over all actions: what one step tells an app about a list is what its key's change raises, or
   says nothing of the key, and brings no node of a list that is not a key of the app.
4. *Once.* Of a list that is not lost: announcements and reads under way are at most one together, and so are reads and rows; of
   one that was not refused, arriving nodes and rows are. This is where "look for the row, then read, then append" is right.
5. *Heeds.* Once the listener is answered, the last word under way about a key is the truth, and what came before it leads to a row or takes the row back.

They prove

- `CastsNeverFail`: under `~Removal` and `MaxRejects = 0`, `Spec => []NoBadCast`, from *Fine* and `Kept`: a list that is a key is there, and nothing is lost. The
  hypotheses are those of the app today; with a removal `NoBadCast` is false.
- `RowsAreDistinct`: `Spec => []NoDuplicateLists`, from *Once*, without hypotheses.
- `RowsAreTheKeys`: `Spec => []RowsFollowKeys`, from *Heeds* when both queues are empty, without hypotheses. The proof is where
  refusals had to be recorded for removals too: a refused removal gives a key back whose row may be gone, or still there.

`InvitationsProofs` (from `ListsFinite`, `NoneIsNoList`, `BoundsAreNat`): `TypeCorrect`, and `AcceptIsKept`: `Spec => []AcceptedIsJoined`. The
strengthening `Sound` has two sets: the lists whose invitation may go (`Done`: joined, dropped or refused) and the lists the app
may know of (`Safe`: still invited to, or done). A removal under way and an `acceptDone` callback are of a list in `Done`; rows,
popup and announcements are in `Safe`. Both sets only grow, which is what a step of one queue needs to know of the others.
`InvitationsAreListed` and `RowsAreInvited` (`EveryInvitationListed`, `RowsAreInvitations`) rest on `Following`: while the app listens, the last
callback about an invitation tells what the app sees on the server through its pending removals, and a list that has not strayed has
one row at most; while it does not listen, only strayed lists have rows, loads or announcements under way. That clause asks nothing of the
session, since callbacks outlive it: it is why `LogOut` has to put all of `Coming` into `stray`, not just the lists of a load.

`SessionProofs` (from `NotAccounts`, `BoundsAreNat`):

- `TypeCorrect`: `Spec => []TypeOK`. That a profile belongs to an account is part of it, and needs that writes of a profile are
  under way, and creations reported, for accounts only.
- `OneScreenOfLists`: `Spec => OneListsScreen`, for hurried users too, since a delegate is always the screen on top (`DelegatesOnTop`).
- `ListsAreOfOneUser`: `Spec => []ListsOfOneUser`. A calm process is in one of eight phases (`InPhase`: off,
  starting, resuming an account, resting, trying, logging in, registering, on the lists), each naming the exact contents of `main`, `db` and
  `attempts` that it allows; every action leads from a phase to a phase, or ends `calm`. `Known` adds that keychain, SDK and
  listener only ever name registered accounts.
- `HudWillGo` and `ListsWillEnable`: `Spec => []HudIsOwed` and `Spec => []EnablingIsOwed`. In a phase of an attempt the answer under way is read off the
  contents of the queues. For the lists the invariant `Owed` adds who shares the HUD: of all lists screens of the process, left ones too,
  only the top one may have a load or a guard, the dismissals under way are for it, and none is under way while a
  delegate is registered. So the HUD up on the lists is the top screen's own until that screen is enabled.

Only model-checked: the liveness properties (fairness and ENABLED are out of the prover's reach; the safety halves
of those about loads, HUD and screens are the theorems `LoadingWillEnd`, `ObserversWillStart`, `HudWillGo`, `ListsWillEnable`) and the four
findings. Every invariant and every other action property or refinement that a passing run checks is also proved.

## 6. Not modelled

- *Two managers of one list or one user in a process*: leaving a list and opening it again, or a second
  login after a log-out, as far as rows and listeners go. Each `ItemWithObserver` and its `ChangedObserver` hold each
  other, so the first manager stays alive and its listeners share the SDK's views with the
  second one's; `Deactivate` would remove both. `SingleList` can after `LeaveScreen` only be killed, `UserLists` is one
  login per process; `Session` does have several lists screens in a process, without their rows.
- *Another user who logs in on the device* in `Invitations`: the manager outlives the session, so the completions
  of the first user would remove from the second one's path, and rows of the first would show to the second. The
  module is about one user, who may log out and in again; `Session` has several accounts, without their invitations.
- *The removal of a whole list while somebody has it open* (`SingleList` has a fixed table): no screen calls `RemoveList`.
- *Selecting the row "Add new list"* ends the process (`SelectNoList`); it is modelled so that the other properties are
  checked with it, and no run says that it does not happen.
- *Factories, paths, `AppDelegate`* have no state of their own; the template's leftovers under `SharedList/` and the layout
  constraint are not the app's. Of the vendored SDKs only what the app relies on is modelled, and only in the
  actions named above; `leveldb`, `nanopb` and the other pods serve features the app does not turn on.
