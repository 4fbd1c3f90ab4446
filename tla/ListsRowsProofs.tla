-------------------------- MODULE ListsRowsProofs ---------------------------
(***************************************************************************)
(* Theorems about the rows of the lists screen of UserLists, for any       *)
(* users, apps, lists and bounds: what an app asks for, is told of and     *)
(* shows is a key of its user or a list that is lost; a list is read once  *)
(* and has one row; and the rows of a settled screen are the keys.         *)
(***************************************************************************)
EXTENDS UserListsProofs

-----------------------------------------------------------------------------
(***************************************************************************)
(* The writes under way to one list, in their order: what is visible of    *)
(* the list and its key depends on them alone.                             *)
(***************************************************************************)
WritesTo(l)  == {w \in Writes : w.id = l}
AddsOf(l)    == {w \in WritesTo(l) : w.op = "add"}
OthersOf(l)  == WritesTo(l) \ AddsOf(l)
RemovesOf(l) == {w \in WritesTo(l) : w.op = "remove"}
KeyOf(u, l)  == {w \in WritesTo(l) : u \in w.users}

Before(q, X, Y) == \A i \in Places(q, X), j \in Places(q, Y) : i < j

SameWrites(q, p, l) ==
    /\ \A X \in SUBSET WritesTo(l) :
          HowMany(p, X) = HowMany(q, X) /\ (Places(p, X) = {} <=> Places(q, X) = {})
    /\ \A X, Y \in SUBSET WritesTo(l) : Before(q, X, Y) => Before(p, X, Y)
    /\ \A s, u : HasKey(s, p, u, l) <=> HasKey(s, q, u, l)

\* The writes of p to l are those of q, at other places but in their order.
Moved(q, p, l, f) ==
    /\ f \in [Places(q, WritesTo(l)) -> Places(p, WritesTo(l))]
    /\ \A i \in Places(q, WritesTo(l)) : p[f[i]] = q[i]
    /\ \A i, j \in Places(q, WritesTo(l)) : i < j => f[i] < f[j]
    /\ \A k \in Places(p, WritesTo(l)) : \E i \in Places(q, WritesTo(l)) : f[i] = k

\* The writes that set a key, by their places.
LEMMA KeyPlaces ==
  ASSUME NEW q \in Seq(Requests), NEW u, NEW l
  PROVE  OnKey(q, u, l) = Places(q, KeyOf(u, l))
<1>1. \A k \in DOMAIN q : q[k] \in Requests
  OBVIOUS
<1>2. \A r \in Requests : r.op \in WriteOps => r \in Writes
  BY RequestForms
<1>3. \A w \in Writes : w.op \in WriteOps
  BY DEF Writes
<1> QED BY <1>1, <1>2, <1>3 DEF OnKey, Places, KeyOf, WritesTo

\* Places that move without changing their order show the same writes.
LEMMA MovedSame ==
  ASSUME NEW q \in Seq(Requests), NEW p \in Seq(Requests), NEW l, NEW f, Moved(q, p, l, f)
  PROVE  SameWrites(q, p, l)
<1> DEFINE W == WritesTo(l)
<1>1. /\ f \in [Places(q, W) -> Places(p, W)]
      /\ \A i \in Places(q, W) : p[f[i]] = q[i]
      /\ \A i, j \in Places(q, W) : i < j => f[i] < f[j]
      /\ \A k \in Places(p, W) : \E i \in Places(q, W) : f[i] = k
  BY DEF Moved
<1>2. /\ Places(q, W) \in SUBSET (1 .. Len(q)) /\ Len(q) \in Nat
      /\ Places(p, W) \in SUBSET (1 .. Len(p)) /\ Len(p) \in Nat
  BY DEF Places
<1>3. ASSUME NEW X \in SUBSET W
      PROVE  /\ Places(q, X) \in SUBSET Places(q, W) /\ Places(p, X) \in SUBSET Places(p, W)
             /\ \A i \in Places(q, X) : f[i] \in Places(p, X)
             /\ \A k \in Places(p, X) : \E i \in Places(q, X) : f[i] = k
  <2>1. Places(q, X) \in SUBSET Places(q, W) /\ Places(p, X) \in SUBSET Places(p, W)
    BY DEF Places
  <2>2. ASSUME NEW i \in Places(q, X) PROVE f[i] \in Places(p, X)
    <3>1. i \in Places(q, W) /\ q[i] \in X
      BY <2>1 DEF Places
    <3>2. f[i] \in Places(p, W) /\ p[f[i]] \in X
      BY <1>1, <3>1
    <3> QED BY <3>2 DEF Places
  <2>3. ASSUME NEW k \in Places(p, X) PROVE \E i \in Places(q, X) : f[i] = k
    <3>1. k \in Places(p, W) /\ p[k] \in X
      BY <2>1 DEF Places
    <3>2. PICK i \in Places(q, W) : f[i] = k
      BY <1>1, <3>1
    <3>3. i \in DOMAIN q /\ q[i] \in X
      BY <1>1, <3>1, <3>2 DEF Places
    <3> QED BY <3>2, <3>3 DEF Places
  <2> QED BY <2>1, <2>2, <2>3
<1> HIDE DEF W
<1>4. ASSUME NEW X \in SUBSET W
      PROVE  HowMany(p, X) = HowMany(q, X) /\ (Places(p, X) = {} <=> Places(q, X) = {})
  <2> DEFINE S == Places(q, X)
             T == Places(p, X)
             g == [i \in S |-> f[i]]
  <2>1. IsFiniteSet(S)
    BY HowManyType
  <2>2. g \in [S -> T] /\ \A t \in T : \E x \in S : g[x] = t
    BY <1>3
  <2>3. \A x, y \in S : g[x] = g[y] => x = y
    <3> SUFFICES ASSUME NEW x \in S, NEW y \in S, f[x] = f[y] PROVE x = y
      OBVIOUS
    <3>1. x \in Places(q, W) /\ y \in Places(q, W)
      BY <1>3
    <3>2. x \in Nat /\ y \in Nat /\ f[x] \in Nat
      BY <1>1, <1>2, <3>1
    <3>3. ~(x < y) /\ ~(y < x)
      BY <1>1, <3>1, <3>2
    <3> QED BY <3>2, <3>3
  <2>4. S = {} <=> T = {}
    BY <1>3
  <2> HIDE DEF S, T, g
  <2>5. Cardinality(T) = Cardinality(S)
    BY <2>1, <2>2, <2>3, SameNumber
  <2> QED BY <2>4, <2>5 DEF S, T, HowMany
<1>5. ASSUME NEW X \in SUBSET W, NEW Y \in SUBSET W, Before(q, X, Y) PROVE Before(p, X, Y)
  <2> SUFFICES ASSUME NEW i \in Places(p, X), NEW j \in Places(p, Y) PROVE i < j
    BY DEF Before
  <2>1. PICK m \in Places(q, X) : f[m] = i
    BY <1>3
  <2>2. PICK n \in Places(q, Y) : f[n] = j
    BY <1>3
  <2>3. m < n /\ m \in Places(q, W) /\ n \in Places(q, W)
    BY <1>3, <1>5 DEF Before
  <2> QED BY <1>1, <2>1, <2>2, <2>3
<1>6. ASSUME NEW s, NEW u PROVE HasKey(s, p, u, l) <=> HasKey(s, q, u, l)
  <2> DEFINE S == Places(q, KeyOf(u, l))
             T == Places(p, KeyOf(u, l))
  <2>1. OnKey(q, u, l) = S /\ OnKey(p, u, l) = T
    BY KeyPlaces
  <2>2. KeyOf(u, l) \in SUBSET W
    BY DEF KeyOf, W
  <2>3. /\ S \in SUBSET Places(q, W) /\ T \in SUBSET Places(p, W)
        /\ \A i \in S : f[i] \in T
        /\ \A k \in T : \E i \in S : f[i] = k
    BY <1>3, <2>2
  <2>4. /\ HasKey(s, q, u, l) = IF S = {} THEN l \in s.keys[u] ELSE q[Max(S)].op # "remove"
        /\ HasKey(s, p, u, l) = IF T = {} THEN l \in s.keys[u] ELSE p[Max(T)].op # "remove"
    BY <2>1 DEF HasKey
  <2> HIDE DEF S, T
  <2>5. CASE S = {}
    <3>1. T = {}
      BY <2>3, <2>5
    <3>2. (HasKey(s, q, u, l) <=> l \in s.keys[u]) /\ (HasKey(s, p, u, l) <=> l \in s.keys[u])
      BY <2>1, <2>5, <3>1, Zenon DEF HasKey
    <3> QED BY <3>2
  <2>6. CASE S # {}
    <3>1. S \in SUBSET (1 .. Len(q)) /\ T \in SUBSET Nat
      BY <1>2, <2>3
    <3>2. Max(S) \in S /\ \A j \in S : j <= Max(S)
      BY <1>2, <2>6, <3>1, MaxExists
    <3>3. f[Max(S)] \in T /\ Max(S) \in Places(q, W)
      BY <2>3, <3>2
    <3>4. ASSUME NEW k \in T PROVE k <= f[Max(S)]
      <4>1. PICK i \in S : f[i] = k
        BY <2>3
      <4>2. i \in Nat /\ Max(S) \in Nat /\ i <= Max(S) /\ i \in Places(q, W)
        <5>1. i \in 1 .. Len(q) /\ Max(S) \in 1 .. Len(q) /\ i <= Max(S)
          BY <3>1, <3>2
        <5>2. i \in Places(q, W)
          BY <2>3
        <5> QED BY <5>1, <5>2
      <4>3. k \in Nat /\ f[Max(S)] \in Nat
        BY <3>1, <3>3
      <4>4. CASE i = Max(S)
        BY <4>1, <4>3, <4>4
      <4>5. CASE i < Max(S)
        <5>1. f[i] < f[Max(S)]
          BY <1>1, <3>3, <4>2, <4>5
        <5> QED BY <4>1, <4>3, <5>1
      <4> QED BY <4>2, <4>4, <4>5
    <3>5. Max(T) = f[Max(S)]
      BY <3>1, <3>3, <3>4, MaxIs
    <3>6. p[f[Max(S)]] = q[Max(S)]
      BY <1>1, <3>3
    <3> QED BY <2>4, <2>6, <3>3, <3>5, <3>6
  <2> QED BY <2>5, <2>6
<1> QED BY <1>4, <1>5, <1>6 DEF SameWrites, W

LEMMA SameItself == ASSUME NEW q, NEW l PROVE SameWrites(q, q, l)
BY DEF SameWrites

\* Requests other than writes to l join a queue, or leave it from the front.
LEMMA SameJoined ==
  ASSUME NEW q \in Seq(Requests), NEW r \in Seq(Requests), NEW l,
         \A x \in Entries(r) : x \notin WritesTo(l)
  PROVE  SameWrites(q, q \o r, l)
<1> DEFINE p == q \o r
           W == WritesTo(l)
           f == [i \in Places(q, W) |-> i]
<1>1. /\ p \in Seq(Requests) /\ Len(q) \in Nat /\ Len(r) \in Nat
      /\ DOMAIN q = 1 .. Len(q) /\ DOMAIN r = 1 .. Len(r) /\ DOMAIN p = 1 .. (Len(q) + Len(r))
      /\ \A k \in 1 .. Len(q) : p[k] = q[k]
      /\ \A k \in 1 .. Len(r) : p[k + Len(q)] = r[k]
  OBVIOUS
<1>2. \A k \in DOMAIN r : r[k] \notin W
  BY DEF Entries
<1> HIDE DEF p, W
<1>3. ASSUME NEW k \in Places(p, W) PROVE k \in Places(q, W)
  <2>1. k \in 1 .. (Len(q) + Len(r)) /\ p[k] \in W
    BY <1>1 DEF Places
  <2>2. CASE k <= Len(q)
    BY <1>1, <2>1, <2>2 DEF Places
  <2>3. CASE ~(k <= Len(q))
    <3>1. k - Len(q) \in 1 .. Len(r) /\ (k - Len(q)) + Len(q) = k
      BY <1>1, <2>1, <2>3
    <3>2. p[k] = r[k - Len(q)]
      BY <1>1, <3>1
    <3> QED BY <1>1, <1>2, <2>1, <3>1, <3>2
  <2> QED BY <2>2, <2>3
<1>4. \A i \in Places(q, W) : i \in Places(p, W) /\ p[i] = q[i]
  BY <1>1 DEF Places
<1>5. Moved(q, p, l, f)
  BY <1>3, <1>4 DEF Moved, W
<1> QED BY <1>1, <1>5, MovedSame DEF p

LEMMA SameAppended ==
  ASSUME NEW q \in Seq(Requests), NEW x \in Requests, NEW l, x \notin WritesTo(l)
  PROVE  SameWrites(q, Append(q, x), l)
<1> DEFINE one == <<x>>
<1>1. one \in Seq(Requests) /\ Append(q, x) = q \o one /\ \A y \in Entries(one) : y = x
  BY AppendIsConcat DEF Entries
<1> HIDE DEF one
<1> QED BY <1>1, SameJoined

LEMMA SameTail ==
  ASSUME NEW q \in Seq(Requests), q # <<>>, NEW l, Head(q) \notin WritesTo(l)
  PROVE  SameWrites(q, Tail(q), l)
<1> DEFINE p == Tail(q)
           W == WritesTo(l)
           f == [i \in Places(q, W) |-> i - 1]
<1>1. /\ p \in Seq(Requests) /\ Len(q) \in Nat /\ DOMAIN q = 1 .. Len(q) /\ Head(q) = q[1]
      /\ DOMAIN p = 1 .. (Len(q) - 1)
      /\ \A k \in 1 .. (Len(q) - 1) : p[k] = q[k + 1]
  BY HeadTailProperties
<1>2. /\ \A k \in Places(p, W) : k \in Nat \ {0} /\ k + 1 \in Places(q, W)
      /\ \A k \in Places(q, W) : k \in Nat \ {0} /\ (k # 1 => k - 1 \in Places(p, W))
      /\ 1 \in Places(q, W) <=> Head(q) \in W
  BY PlacesTail
<1> HIDE DEF p
<1>3. f \in [Places(q, W) -> Places(p, W)]
  BY <1>2
<1>4. ASSUME NEW i \in Places(q, W) PROVE p[f[i]] = q[i]
  <2>1. f[i] = i - 1 /\ i - 1 \in DOMAIN p /\ i \in Nat
    BY <1>2 DEF Places
  <2>2. p[i - 1] = q[(i - 1) + 1] /\ (i - 1) + 1 = i
    BY <1>1, <2>1
  <2> QED BY <2>1, <2>2
<1>5. \A i, j \in Places(q, W) : i < j => f[i] < f[j]
  BY <1>2
<1>6. ASSUME NEW k \in Places(p, W) PROVE \E i \in Places(q, W) : f[i] = k
  <2>1. k + 1 \in Places(q, W) /\ k \in Nat /\ (k + 1) - 1 = k
    BY <1>2
  <2> QED BY <2>1
<1>7. Moved(q, p, l, f)
  BY <1>3, <1>4, <1>5, <1>6 DEF Moved
<1> QED BY <1>1, <1>7, MovedSame DEF p

\* What is picked from a queue, the writes to l with it.
LEMMA SamePicked ==
  ASSUME NEW q \in Seq(Requests), NEW K \in SUBSET DOMAIN q, NEW l,
         Places(q, WritesTo(l)) \subseteq K
  PROVE  SameWrites(q, Picked(q, K), l)
<1> DEFINE p == Picked(q, K)
           W == WritesTo(l)
           c == Cardinality(K)
           f == [k \in Places(q, W) |-> CHOOSE i \in 1 .. c : Place(K, i) = k]
<1>1. K \in SUBSET (1 .. Len(q)) /\ Len(q) \in Nat
  OBVIOUS
<1>2. /\ \A i \in 1 .. c : Place(K, i) \in K
      /\ \A k \in K : \E i \in 1 .. c : Place(K, i) = k
      /\ \A i, j \in 1 .. c : Place(K, i) = Place(K, j) => i = j
  BY <1>1, PlaceExists
<1>3. \A i, j \in 1 .. c : i < j => Place(K, i) < Place(K, j)
  BY <1>1, PlaceGrows
<1>4. DOMAIN p = 1 .. c /\ \A i \in 1 .. c : p[i] = q[Place(K, i)]
  BY DEF Picked
<1>5. p \in Seq(Requests)
  <2>1. p \in Seq({q[k] : k \in K})
    BY PickedQueue
  <2>2. {q[k] : k \in K} \subseteq Requests
    OBVIOUS
  <2> HIDE DEF p
  <2> QED BY <2>1, <2>2
<1>6. c \in Nat
  BY <1>1, PlacesFinite
<1> HIDE DEF p, c
<1>7. \A k \in Places(q, W) : f[k] \in 1 .. c /\ Place(K, f[k]) = k
  BY <1>2
<1>8. \A k \in Places(q, W) : f[k] \in Places(p, W) /\ p[f[k]] = q[k]
  BY <1>4, <1>7 DEF Places
<1>9. f \in [Places(q, W) -> Places(p, W)]
  BY <1>8
<1>10. ASSUME NEW k \in Places(p, W) PROVE \E i \in Places(q, W) : f[i] = k
  <2>1. k \in 1 .. c /\ q[Place(K, k)] \in W /\ Place(K, k) \in DOMAIN q
    BY <1>2, <1>4 DEF Places
  <2>2. Place(K, k) \in Places(q, W)
    BY <2>1 DEF Places
  <2>3. f[Place(K, k)] = k
    BY <1>2, <1>7, <2>1, <2>2
  <2> QED BY <2>2, <2>3
<1>11. ASSUME NEW i \in Places(q, W), NEW j \in Places(q, W), i < j PROVE f[i] < f[j]
  <2>1. /\ f[i] \in 1 .. c /\ f[j] \in 1 .. c /\ Place(K, f[i]) = i /\ Place(K, f[j]) = j
        /\ i \in Nat /\ j \in Nat
    BY <1>7 DEF Places
  <2> HIDE DEF f
  <2>2. f[i] \in Nat /\ f[j] \in Nat /\ f[i] # f[j]
    BY <1>6, <1>11, <2>1
  <2>3. ~(f[j] < f[i])
    BY <1>3, <1>11, <2>1
  <2> QED BY <2>2, <2>3
<1> HIDE DEF f
<1>12. Moved(q, p, l, f)
  BY <1>8, <1>9, <1>10, <1>11 DEF Moved
<1> QED BY <1>5, <1>12, MovedSame DEF p

-----------------------------------------------------------------------------
(***************************************************************************)
(* How a step changes the writes under way, and what the server holds.     *)
(***************************************************************************)
\* The process of b ends: nothing is left of its queues and rows.
Ended(b) == /\ up'[b] = <<>> /\ events'[b] = <<>> /\ data'[b] = <<>>
            /\ listener'[b] = "off"

\* b sends a write to l, or the server takes or refuses the oldest of its requests, one to l.
Sends(b, l) == \E w \in WritesTo(l) :
    /\ up'[b] = Append(up[b], w)
    /\ \/ AddNewList(b) /\ w = AddOf(l, owner[b]) /\ author[l] = Absent /\ author'[l] = owner[b]
       \/ AcceptInvitation(b) /\ w = JoinOf(l, owner[b]) /\ l \in heard
       \/ RemoveListUsersRead(b) /\ w.op = "remove" /\ l = Head(events[b]).id

Serves(b, l) ==
    /\ up[b] # <<>> /\ Head(up[b]) \in WritesTo(l) /\ up'[b] = Tail(up[b])
    /\ Commit(b) \/ Reject(b)

\* A read is no write.
LEMMA NoWrites ==
  ASSUME NEW l
  PROVE  /\ Keys \in Requests /\ Keys \notin WritesTo(l)
         /\ Listen \in Requests /\ Listen \notin WritesTo(l)
         /\ \A o \in NodeOps, m \in Lists :
               Node(o, m) \in Requests /\ Node(o, m) \notin WritesTo(l)
         /\ \A r \in Requests : r.op \notin WriteOps => r \notin WritesTo(l)
<1>1. \A w \in WritesTo(l) : w.op \in WriteOps
  BY DEF WritesTo, Writes
<1>2. Keys \in Requests /\ Keys.op \notin WriteOps
  BY DEF Keys, Requests, WriteOps
<1>3. Listen \in Requests /\ Listen.op \notin WriteOps
  BY DEF Listen, Requests, WriteOps
<1>4. ASSUME NEW o \in NodeOps, NEW m \in Lists
      PROVE  Node(o, m) \in Requests /\ Node(o, m).op \notin WriteOps
  BY DEF Node, Requests, NodeOps, WriteOps
<1> QED BY <1>1, <1>2, <1>3, <1>4

\* Reads join a queue one at a time.
LEMMA SameRead ==
  ASSUME NEW q \in Seq(Requests), NEW l, NEW x,
         x = Listen \/ \E o \in NodeOps, m \in Lists : x = Node(o, m)
  PROVE  SameWrites(q, Append(q, x), l) /\ Append(q, x) \in Seq(Requests)
<1>1. x \in Requests /\ x \notin WritesTo(l)
  BY NoWrites
<1> HIDE DEF Requests
<1> QED BY <1>1, SameAppended

LEMMA SameTwice ==
  ASSUME NEW q, NEW p, NEW r, NEW l, SameWrites(q, p, l), SameWrites(p, r, l)
  PROVE  SameWrites(q, r, l)
<1> USE DEF SameWrites
<1>1. \A X \in SUBSET WritesTo(l) :
          HowMany(r, X) = HowMany(q, X) /\ (Places(r, X) = {} <=> Places(q, X) = {})
  OBVIOUS
<1>2. \A X, Y \in SUBSET WritesTo(l) : Before(q, X, Y) => Before(r, X, Y)
  OBVIOUS
<1>3. \A s, u : HasKey(s, r, u, l) <=> HasKey(s, q, u, l)
  OBVIOUS
<1> QED BY <1>1, <1>2, <1>3

\* The steps of b itself that are no writes.
LEMMA WritesServer ==
  ASSUME TypeOK, NEW b \in Apps, NEW l \in Lists,
         AnswerKeys(b) \/ AnswerListen(b) \/ AnswerNode(b)
  PROVE  SameWrites(up[b], up'[b], l)
<1>1. up[b] \in Seq(Requests)
  BY DEF TypeOK
<1>2. CASE AnswerKeys(b) \/ AnswerListen(b)
  <2>1. /\ up[b] # <<>> /\ up'[b] = Tail(up[b]) /\ Head(up[b]) \in Requests
        /\ Head(up[b]).op \in {"keys", "listen"}
    BY <1>2, OldestRequest DEF AnswerKeys, AnswerListen, Oldest, Answered, TypeOK
  <2>2. Head(up[b]) \notin WritesTo(l)
    BY <2>1, NoWrites DEF WriteOps
  <2> QED BY <1>1, <2>1, <2>2, SameTail
<1>3. CASE AnswerNode(b)
  <2> DEFINE mine == {k \in DOMAIN up[b] : About(up[b][k], Head(up[b]).id)}
             K == DOMAIN up[b] \ mine
  <2>1. up'[b] = Picked(up[b], K)
    BY <1>3 DEF AnswerNode, TypeOK
  <2>2. Places(up[b], WritesTo(l)) \subseteq K
    BY DEF Places, WritesTo, Writes, WriteOps, About, NodeOps
  <2>3. K \in SUBSET DOMAIN up[b]
    OBVIOUS
  <2> HIDE DEF K
  <2> QED BY <1>1, <2>1, <2>2, <2>3, SamePicked
<1> QED BY <1>2, <1>3

\* Which writes to l an app has under way changes only when it sends one or one is served.
LEMMA WritesMain ==
  ASSUME TypeOK, NEW b \in Apps, NEW l \in Lists,
         \/ LoadNoLists(b) \/ LoadLists(b) \/ ListLoaded(b) \/ ListRead(b)
         \/ ListsKeysChildAdded(b) \/ ListsKeysChildRemoved(b) \/ RemoveList(b)
         \/ TimeoutGuardFired(b)
  PROVE  SameWrites(up[b], up'[b], l)
<1>1. up[b] \in Seq(Requests)
  BY DEF TypeOK
<1>2. CASE LoadNoLists(b)
  <2>1. up'[b] = Append(up[b], Listen)
    BY <1>2 DEF LoadNoLists, Loaded, TypeOK
  <2> QED BY <1>1, <2>1, SameRead
<1>3. CASE LoadLists(b)
  <2> DEFINE S == Head(events[b]).ids
                    \ {m \in Head(events[b]).ids : AtHand(b, m, up[b], Tail(events[b]))}
  <2>1. PICK order \in SetToSeqs(S) :
          up'[b] = up[b] \o [k \in DOMAIN order |-> Node("loaded", order[k])]
    BY <1>3 DEF LoadLists, TypeOK
  <2> DEFINE r == [k \in DOMAIN order |-> Node("loaded", order[k])]
             Y == {}
  <2>2. S \in SUBSET Lists /\ Y \in SUBSET Lists
    BY <1>3, OldestEvent DEF LoadLists, Next1
  <2>3. EntryEach(r, order, Requests, Y, Y)
    <3>1. \A m \in Lists : Node("loaded", m) \in Requests
      BY NoWrites DEF NodeOps
    <3> QED BY <3>1 DEF EntryEach
  <2>4. \A x \in Entries(r) : \E m : x = Node("loaded", m)
    BY DEF Entries
  <2>5. up'[b] = up[b] \o r
    BY <2>1
  <2> HIDE DEF S, r, Y
  <2>6. r \in Seq(Requests)
    BY <2>2, <2>3, Listed
  <2>7. \A x \in Entries(r) : x \notin WritesTo(l)
    BY <2>4 DEF Node, WritesTo, Writes, WriteOps
  <2> QED BY <1>1, <2>5, <2>6, <2>7, SameJoined
<1>4. CASE ListLoaded(b) \/ ListRead(b)
  <2> DEFINE w == Node("watch", Head(events[b]).id)
             p == Watched(b, Head(events[b]).id)
  <2>1. up'[b] = p \/ up'[b] = Append(p, Listen)
    BY <1>4 DEF ListLoaded, ListRead, Loaded, TypeOK
  <2>2. Head(events[b]).id \in Lists
    BY <1>4, OldestEvent DEF ListLoaded, ListRead, Next1, NodeOps
  <2>3. p = up[b] \/ p = Append(up[b], w)
    BY DEF Watched
  <2>4. \E o \in NodeOps, m \in Lists : w = Node(o, m)
    BY <2>2 DEF NodeOps
  <2> HIDE DEF p, w
  <2>5. SameWrites(up[b], p, l) /\ p \in Seq(Requests)
    <3>1. SameWrites(up[b], Append(up[b], w), l) /\ Append(up[b], w) \in Seq(Requests)
      BY <1>1, <2>4, SameRead
    <3> QED BY <1>1, <2>3, <3>1, SameItself
  <2>6. SameWrites(p, Append(p, Listen), l)
    BY <2>5, SameRead
  <2> QED BY <2>1, <2>5, <2>6, SameTwice
<1>5. CASE ListsKeysChildAdded(b)
  <2>1. events[b] # <<>> /\ Head(events[b]).id \in Lists
    BY <1>5, OldestEvent DEF ListsKeysChildAdded, Next1
  <2>2. up' = up \/ up' = [up EXCEPT ![b] = Append(up[b], Node("list", Head(events[b]).id))]
    BY <1>5 DEF ListsKeysChildAdded, ReadNode
  <2>3. up'[b] = up[b] \/ up'[b] = Append(up[b], Node("list", Head(events[b]).id))
    BY <2>2 DEF TypeOK
  <2>4. "list" \in NodeOps
    BY DEF NodeOps
  <2> QED BY <1>1, <2>1, <2>3, <2>4, SameRead, SameItself
<1>6. CASE ListsKeysChildRemoved(b) \/ TimeoutGuardFired(b)
  <2>1. up' = up
    BY <1>6 DEF ListsKeysChildRemoved, TimeoutGuardFired, sdk
  <2> QED BY <2>1, SameItself
<1>7. CASE RemoveList(b)
  <2>1. PICK k \in DOMAIN data[b] : ReadNode(b, "users", data[b][k], events[b])
    BY <1>7 DEF RemoveList
  <2>2. data[b][k] \in Lists /\ "users" \in NodeOps
    BY <2>1 DEF TypeOK, NodeOps
  <2>3. up' = up \/ up' = [up EXCEPT ![b] = Append(up[b], Node("users", data[b][k]))]
    BY <2>1 DEF ReadNode
  <2>4. up'[b] = up[b] \/ up'[b] = Append(up[b], Node("users", data[b][k]))
    BY <2>3 DEF TypeOK
  <2> QED BY <1>1, <2>2, <2>4, SameRead, SameItself
<1> QED BY <1>2, <1>3, <1>4, <1>5, <1>6, <1>7

\* b sends a write.
LEMMA WritesSent ==
  ASSUME TypeOK, NEW b \in Apps, NEW l \in Lists,
         AddNewList(b) \/ AcceptInvitation(b) \/ RemoveListUsersRead(b)
  PROVE  SameWrites(up[b], up'[b], l) \/ Sends(b, l)
<1>1. up[b] \in Seq(Requests)
  BY DEF TypeOK
<1>2. ASSUME NEW w \in Writes, up'[b] = Append(up[b], w), w.id # l
      PROVE  SameWrites(up[b], up'[b], l)
  <2>1. w \in Requests /\ w \notin WritesTo(l)
    BY <1>2 DEF Requests, WritesTo
  <2> HIDE DEF Requests
  <2> QED BY <1>1, <1>2, <2>1, SameAppended
<1>3. CASE AddNewList(b)
  <2>1. PICK m \in Lists : /\ author[m] = Absent /\ author' = [author EXCEPT ![m] = owner[b]]
                           /\ Send(b, AddOf(m, owner[b]))
    BY <1>3 DEF AddNewList
  <2>2. PICK w : w = AddOf(m, owner[b])
    OBVIOUS
  <2>3. w \in Writes /\ w.id = m
    BY <2>2 DEF AddOf, Writes, WriteOps, TypeOK
  <2>4. up'[b] = Append(up[b], w) /\ author'[m] = owner[b]
    BY <2>1, <2>2 DEF Send, TypeOK
  <2>5. CASE m = l
    BY <1>3, <2>1, <2>2, <2>3, <2>4, <2>5 DEF Sends, WritesTo
  <2> QED BY <1>2, <2>3, <2>4, <2>5
<1>4. CASE AcceptInvitation(b)
  <2>1. PICK m \in heard : Send(b, JoinOf(m, owner[b]))
    BY <1>4 DEF AcceptInvitation
  <2>2. PICK w : w = JoinOf(m, owner[b])
    OBVIOUS
  <2>3. w \in Writes /\ w.id = m
    BY <2>2 DEF JoinOf, Writes, WriteOps, TypeOK
  <2>4. up'[b] = Append(up[b], w)
    BY <2>1, <2>2 DEF Send, TypeOK
  <2>5. CASE m = l
    BY <1>4, <2>1, <2>2, <2>3, <2>4, <2>5 DEF Sends, WritesTo
  <2> QED BY <1>2, <2>3, <2>4, <2>5
<1>5. CASE RemoveListUsersRead(b)
  <2>1. PICK w : w = RemoveOf(Head(events[b]).id, Head(events[b]).node)
    OBVIOUS
  <2>2. /\ Head(events[b]).id \in Lists /\ Head(events[b]).node \in SUBSET Users
        /\ up'[b] = Append(up[b], w)
    BY <1>5, <2>1, OldestEvent DEF RemoveListUsersRead, Next1, NodeOps, Slot, TypeOK
  <2>3. w \in Writes /\ w.id = Head(events[b]).id /\ w.op = "remove"
    BY <2>1, <2>2 DEF RemoveOf, Writes, WriteOps
  <2>4. CASE Head(events[b]).id = l
    BY <1>5, <2>2, <2>3, <2>4 DEF Sends, WritesTo
  <2> QED BY <1>2, <2>2, <2>3, <2>4
<1> QED BY <1>3, <1>4, <1>5

LEMMA WritesServed ==
  ASSUME TypeOK, NEW b \in Apps, NEW l \in Lists, Commit(b) \/ Reject(b)
  PROVE  SameWrites(up[b], up'[b], l) \/ Serves(b, l)
<1>1. up[b] \in Seq(Requests) /\ up[b] # <<>> /\ up'[b] = Tail(up[b])
  BY DEF Commit, Reject, Answered, TypeOK
<1>2. CASE Head(up[b]) \in WritesTo(l)
  BY <1>1, <1>2 DEF Serves
<1>3. CASE Head(up[b]) \notin WritesTo(l)
  BY <1>1, <1>3, SameTail
<1> QED BY <1>2, <1>3

\* A write of another app leaves the requests of b alone.
LEMMA OthersWrites ==
  ASSUME TypeOK, NEW a \in Apps, NEW b \in Apps, b # a,
         \/ ServerStep(a) \/ Reject(a) \/ MainStep(a) \/ TimeoutGuardFired(a) \/ UserStep(a)
  PROVE  up'[b] = up[b]
<1>1. CASE Commit(a)
  BY <1>1 DEF Commit, Answered, TypeOK
<1> QED BY <1>1, OthersKept DEF ServerStep

LEMMA WritesStep ==
  ASSUME TypeOK, AllLoad, [Next]_vars, NEW b \in Apps, NEW l \in Lists
  PROVE  Ended(b) \/ SameWrites(up[b], up'[b], l) \/ Sends(b, l) \/ Serves(b, l)
<1>1. CASE up'[b] = up[b]
  BY <1>1, SameItself
<1>2. CASE UNCHANGED vars
  BY <1>1, <1>2 DEF vars, sdk
<1>3. ASSUME NEW a \in Apps, b # a,
             \/ ServerStep(a) \/ Reject(a) \/ MainStep(a) \/ TimeoutGuardFired(a) \/ UserStep(a)
      PROVE  SameWrites(up[b], up'[b], l)
  <2>1. up'[b] = up[b]
    BY <1>3, OthersWrites
  <2> QED BY <2>1, SameItself
<1>4. CASE ServerStep(b) \/ Reject(b)
  BY <1>4, WritesServer, WritesServed DEF ServerStep
<1>5. CASE NoSuchList(b) \/ Quit(b) \/ SelectNoList(b)
  BY <1>5 DEF NoSuchList, Quit, SelectNoList, Reset, Ended, TypeOK
<1>6. CASE MainStep(b) \/ TimeoutGuardFired(b)
  BY <1>5, <1>6, WritesMain, WritesSent DEF MainStep
<1>7. CASE OpenLists(b)
  <2>1. up[b] = <<>> /\ up'[b] = <<Keys>>
    BY <1>7 DEF OpenLists, AllLoad, Loads, TypeOK
  <2>2. <<>> \in Seq(Requests) /\ Keys \in Requests /\ Keys \notin WritesTo(l)
    BY NoWrites
  <2>3. Append(<<>>, Keys) = <<Keys>>
    OBVIOUS
  <2>4. SameWrites(<<>>, Append(<<>>, Keys), l)
    <3> HIDE DEF Requests, Keys
    <3> QED BY <2>2, SameAppended
  <2> QED BY <2>1, <2>3, <2>4
<1>8. CASE UserStep(b)
  BY <1>5, <1>7, <1>8, WritesMain, WritesSent DEF UserStep
<1> QED BY <1>2, <1>3, <1>4, <1>6, <1>8 DEF Next

\* What the server, and the history of its answers, say of a list.
Untouched(l) ==
    /\ server'.lists[l] = server.lists[l]
    /\ \A u \in Users : l \in server'.keys[u] <=> l \in server.keys[u]
    /\ l \in heard' <=> l \in heard
    /\ l \in refused' <=> l \in refused

\* The server changes at l only when it serves a write to l.
LEMMA Touched ==
  ASSUME TypeOK, [Next]_vars, NEW l \in Lists
  PROVE  Untouched(l) \/ \E a \in Apps : Serves(a, l)
<1>1. ASSUME server' = server, told' = told PROVE Untouched(l)
  BY <1>1 DEF Untouched, told
<1>2. CASE UNCHANGED vars
  BY <1>1, <1>2 DEF vars
<1>3. ASSUME NEW a \in Apps, AnswerKeys(a) \/ AnswerListen(a) \/ AnswerNode(a)
      PROVE  server' = server /\ told' = told
  BY <1>3 DEF AnswerKeys, AnswerListen, AnswerNode
<1>4. ASSUME NEW a \in Apps, MainStep(a) \/ TimeoutGuardFired(a)
      PROVE  server' = server /\ told' = told
  BY <1>4 DEF MainStep, LoadNoLists, LoadLists, ListLoaded, ListsKeysChildAdded, ListRead,
     ListsKeysChildRemoved, RemoveListUsersRead, NoSuchList, TimeoutGuardFired
<1>5. ASSUME NEW a \in Apps, UserStep(a)
      PROVE  server' = server /\ told' = told
  BY <1>5 DEF UserStep, OpenLists, Quit, AddNewList, AcceptInvitation, RemoveList, SelectNoList
<1>6. ASSUME NEW a \in Apps, Commit(a) \/ Reject(a)
      PROVE  Untouched(l) \/ Serves(a, l)
  <2> DEFINE w == Head(up[a])
  <2>1. /\ w \in Writes /\ up[a] # <<>> /\ up'[a] = Tail(up[a])
        /\ server' = Apply(w, server) \/ server' = server
        /\ \A m : m # w.id => (m \in heard' <=> m \in heard) /\ (m \in refused' <=> m \in refused)
    BY <1>6, OldestRequest DEF Commit, Reject, Answered, TypeOK
  <2> HIDE DEF w
  <2>2. CASE w.id = l
    BY <1>6, <2>1, <2>2 DEF Serves, WritesTo, w
  <2>3. CASE w.id # l
    <3>1. /\ w.id \in Lists /\ w.users \in SUBSET Users /\ w.op \in WriteOps
          /\ server.lists \in [Lists -> Slot] /\ server.keys \in [Users -> SUBSET Lists]
      BY <2>1 DEF Writes, TypeOK, Tree
    <3>2. Apply(w, server).lists[l] = server.lists[l]
      BY <2>3, <3>1 DEF Apply, WriteOps
    <3>3. \A u \in Users : l \in Apply(w, server).keys[u] <=> l \in server.keys[u]
      BY <2>3, <3>1 DEF Apply
    <3> QED BY <2>1, <2>3, <3>2, <3>3 DEF Untouched
  <2> QED BY <2>2, <2>3
<1> QED BY <1>1, <1>2, <1>3, <1>4, <1>5, <1>6 DEF Next, ServerStep

\* ... and how the write to it changes that.
LEMMA Served ==
  ASSUME TypeOK, NEW a \in Apps, NEW l \in Lists, Serves(a, l)
  PROVE  LET w == Head(up[a]) IN
         /\ w \in WritesTo(l) /\ w.op \in WriteOps /\ w.users \in SUBSET Users
         /\ author' = author
         /\ l \in heard' <=> l \in heard \/ w.op = "add"
         /\ Reject(a) => /\ server' = server
                         /\ l \in refused' <=> l \in refused \/ w.op # "add"
         /\ Commit(a) => /\ refused' = refused
                         /\ w.op = "add" => server'.lists[l] # Absent
                         /\ w.op = "join" => server'.lists[l] = server.lists[l]
                         /\ w.op = "remove" => server'.lists[l] = Absent
                         /\ \A u \in Users : l \in server'.keys[u] <=>
                              IF u \notin w.users THEN l \in server.keys[u] ELSE w.op # "remove"
<1> DEFINE w == Head(up[a])
<1>1. w \in Writes /\ w.id = l /\ w \in WritesTo(l)
  BY DEF Serves, WritesTo
<1>2. /\ author' = author
      /\ heard' = IF w.op = "add" THEN heard \cup {w.id} ELSE heard
      /\ Reject(a) => server' = server /\ refused' = IF w.op # "add" THEN refused \cup {w.id}
                                                     ELSE refused
      /\ Commit(a) => server' = Apply(w, server) /\ refused' = refused
  BY DEF Serves, Commit, Reject
<1> HIDE DEF w
<1>3. /\ w.op \in WriteOps /\ w.users \in SUBSET Users /\ w.users # Absent
      /\ server.lists \in [Lists -> Slot] /\ server.keys \in [Users -> SUBSET Lists]
  BY <1>1, AbsentIsNothing DEF Writes, TypeOK, Tree
<1>4. ASSUME Commit(a)
      PROVE  /\ w.op = "add" => server'.lists[l] # Absent
             /\ w.op = "join" => server'.lists[l] = server.lists[l]
             /\ w.op = "remove" => server'.lists[l] = Absent
  BY <1>1, <1>2, <1>3, <1>4 DEF Apply
<1>5. ASSUME Commit(a), NEW u \in Users
      PROVE  l \in server'.keys[u] <=>
                IF u \notin w.users THEN l \in server.keys[u] ELSE w.op # "remove"
  BY <1>1, <1>2, <1>3, <1>5 DEF Apply
<1> QED BY <1>1, <1>2, <1>3, <1>4, <1>5 DEF w

-----------------------------------------------------------------------------
(***************************************************************************)
(* A list is added once, by the app that generated its id, before anything *)
(* else is written to it: whoever writes to it has added it, or knows that *)
(* the server has heard of it.                                             *)
(***************************************************************************)
Adding(b, l)   == Places(up[b], AddsOf(l)) # {}
Removing(b, l) == Places(up[b], RemovesOf(l)) # {}
Writing(b, l)  == Places(up[b], WritesTo(l)) # {}

Unheard(l) ==
    /\ author[l] = Absent => l \notin heard
    /\ l \notin heard => /\ server.lists[l] = Absent /\ l \notin refused
                         /\ \A u \in Users : l \notin server.keys[u]

Ordered(b, l) ==
    /\ HowMany(up[b], AddsOf(l)) <= 1
    /\ Before(up[b], AddsOf(l), OthersOf(l))
    /\ Adding(b, l) => /\ author[l] # Absent /\ l \notin heard
                       /\ \A c \in Apps : Adding(c, l) => c = b
    /\ Writing(b, l) => l \in heard \/ Adding(b, l)

BornOf(l) == Unheard(l) /\ \A b \in Apps : Ordered(b, l)
AllBorn   == \A l \in Lists : BornOf(l)

\* One entry more, one less.
LEMMA PlacesAppended ==
  ASSUME NEW A, NEW q \in Seq(A), NEW x \in A, NEW X
  PROVE  /\ Places(Append(q, x), X) = Places(q, X) \cup (IF x \in X THEN {Len(q) + 1} ELSE {})
         /\ \A k \in Places(q, X) : k \in Nat /\ k < Len(q) + 1
         /\ Len(q) \in Nat
<1> DEFINE p == Append(q, x)
<1>1. /\ Len(q) \in Nat /\ DOMAIN q = 1 .. Len(q) /\ DOMAIN p = 1 .. (Len(q) + 1)
      /\ \A k \in 1 .. Len(q) : p[k] = q[k]
      /\ p[Len(q) + 1] = x
  BY AppendProperties
<1>2. \A k : k \in 1 .. (Len(q) + 1) <=> k \in 1 .. Len(q) \/ k = Len(q) + 1
  BY <1>1
<1> HIDE DEF p
<1>3. \A k : k \in Places(p, X) <=> k \in Places(q, X) \/ (k = Len(q) + 1 /\ x \in X)
  BY <1>1, <1>2 DEF Places
<1>4. \A k \in Places(q, X) : k \in Nat /\ k < Len(q) + 1
  BY <1>1 DEF Places
<1> QED BY <1>1, <1>3, <1>4 DEF p

\* The order of two kinds of writes survives the service of the oldest.
LEMMA BeforeTail ==
  ASSUME NEW A, NEW q \in Seq(A), q # <<>>, NEW X, NEW Y, Before(q, X, Y)
  PROVE  /\ Before(Tail(q), X, Y)
         /\ Head(q) \in Y => Places(q, X) = {}
         /\ Places(q, X) = {} => Places(Tail(q), X) = {}
         /\ Places(Tail(q), X) # {} => Places(q, X) # {}
         /\ Places(q, X) # {} /\ Head(q) \notin X => Places(Tail(q), X) # {}
<1>1. /\ \A k \in Places(Tail(q), X) : k \in Nat \ {0} /\ k + 1 \in Places(q, X)
      /\ \A k \in Places(q, X) : k \in Nat \ {0} /\ (k # 1 => k - 1 \in Places(Tail(q), X))
      /\ 1 \in Places(q, X) <=> Head(q) \in X
  BY PlacesTail
<1>2. /\ \A k \in Places(Tail(q), Y) : k \in Nat \ {0} /\ k + 1 \in Places(q, Y)
      /\ 1 \in Places(q, Y) <=> Head(q) \in Y
  BY PlacesTail
<1>3. Before(Tail(q), X, Y)
  <2> SUFFICES ASSUME NEW i \in Places(Tail(q), X), NEW j \in Places(Tail(q), Y) PROVE i < j
    BY DEF Before
  <2>1. i + 1 < j + 1 /\ i \in Nat /\ j \in Nat
    BY <1>1, <1>2 DEF Before
  <2> QED BY <2>1
<1>4. ASSUME Head(q) \in Y PROVE Places(q, X) = {}
  BY <1>1, <1>2, <1>4 DEF Before
<1> QED BY <1>1, <1>3, <1>4

\* The server takes or refuses a write to l: it has heard of l, and nobody adds it.
LEMMA BornServed ==
  ASSUME TypeOK, TypeOK', [Next]_vars, NEW l \in Lists, BornOf(l), NEW a \in Apps, Serves(a, l)
  PROVE  /\ l \in heard'
         /\ \A b \in Apps : ~Adding(b, l)'
         /\ Head(up[a]).op # "add" => l \in heard /\ \A b \in Apps : ~Adding(b, l)
         /\ BornOf(l)'
<1> DEFINE w == Head(up[a])
<1>1. /\ w \in WritesTo(l) /\ author' = author
      /\ l \in heard' <=> l \in heard \/ w.op = "add"
  BY Served
<1>2. /\ up[a] \in Seq(Requests) /\ up[a] # <<>> /\ up'[a] = Tail(up[a])
      /\ \A b \in Apps : b # a => up'[b] = up[b]
  <2>1. \A b \in Apps : b # a => up'[b] = up[b]
    BY OthersWrites DEF Serves, ServerStep
  <2> QED BY <2>1 DEF Serves, TypeOK
<1>3. Places(up[a], WritesTo(l)) # {}
  BY <1>1, <1>2, PlacesTail
<1>4. w.op = "add" <=> w \in AddsOf(l)
  BY <1>1 DEF AddsOf
<1>5. w.op # "add" <=> w \in OthersOf(l)
  BY <1>1, <1>4 DEF OthersOf
<1> HIDE DEF w
<1>6. /\ Ordered(a, l) /\ Before(up[a], AddsOf(l), OthersOf(l)) /\ HowMany(up[a], AddsOf(l)) <= 1
      /\ \A b \in Apps : Ordered(b, l)
  BY DEF BornOf, Ordered
<1>7. ASSUME w.op = "add" PROVE ~Adding(a, l)' /\ \A b \in Apps : b # a => ~Adding(b, l)
  <2>1. HowMany(up[a], AddsOf(l)) = HowMany(Tail(up[a]), AddsOf(l)) + 1
    BY <1>2, <1>4, <1>7, HowManyTail DEF w
  <2>2. Tail(up[a]) \in Seq(Requests)
    BY <1>2
  <2>3. HowMany(Tail(up[a]), AddsOf(l)) = 0
    <3>1. HowMany(Tail(up[a]), AddsOf(l)) \in Nat
      BY <2>2, HowManyType
    <3> QED BY <1>6, <2>1, <3>1
  <2>4. Places(Tail(up[a]), AddsOf(l)) = {}
    BY <2>2, <2>3, HowManyType DEF Places
  <2>5. Adding(a, l)
    BY <1>2, <1>4, <1>7, PlacesTail DEF Adding, w
  <2> QED BY <1>2, <1>6, <2>4, <2>5 DEF Adding, Ordered
<1>8. ASSUME w.op # "add"
      PROVE  l \in heard /\ \A b \in Apps : ~Adding(b, l)
  <2>1. ~Adding(a, l)
    BY <1>2, <1>5, <1>6, <1>8, BeforeTail DEF Adding, w
  <2>2. l \in heard
    BY <1>3, <1>6, <2>1 DEF Ordered, Writing
  <2> QED BY <1>6, <2>2 DEF Ordered
<1>9. l \in heard'
  BY <1>1, <1>8
<1>10. ASSUME NEW b \in Apps PROVE ~Adding(b, l)'
  <2>1. CASE w.op = "add"
    BY <1>2, <1>7, <2>1 DEF Adding
  <2>2. CASE w.op # "add"
    <3>1. ~Adding(b, l)
      BY <1>8, <2>2
    <3>2. Places(Tail(up[a]), AddsOf(l)) # {} => Places(up[a], AddsOf(l)) # {}
      BY <1>2, <1>6, BeforeTail
    <3> QED BY <1>2, <3>1, <3>2 DEF Adding
  <2> QED BY <2>1, <2>2
<1>11. ASSUME NEW b \in Apps PROVE Ordered(b, l)'
  <2>1. HowMany(up'[b], AddsOf(l)) <= 1
    <3>1. up'[b] \in Seq(Requests)
      BY DEF TypeOK
    <3>2. Places(up'[b], AddsOf(l)) = {}
      BY <1>10 DEF Adding
    <3>3. HowMany(up'[b], AddsOf(l)) = 0
      BY <3>1, <3>2, HowManyType DEF Places
    <3> QED BY <3>3
  <2>2. Before(up'[b], AddsOf(l), OthersOf(l))
    BY <1>10 DEF Adding, Before
  <2> QED BY <1>9, <1>10, <2>1, <2>2 DEF Ordered, Writing, Adding
<1>12. Unheard(l)'
  <2>1. author[l] # Absent
    <3>1. CASE w.op = "add"
      <4>1. Adding(a, l)
        BY <1>2, <1>4, <3>1, PlacesTail DEF Adding, w
      <4> QED BY <1>6, <4>1 DEF Ordered
    <3>2. CASE w.op # "add"
      BY <1>8, <3>2 DEF BornOf, Unheard
    <3> QED BY <3>1, <3>2
  <2> QED BY <1>1, <1>9, <2>1 DEF Unheard
<1> QED BY <1>8, <1>9, <1>10, <1>11, <1>12 DEF BornOf, w

-----------------------------------------------------------------------------
\* The kinds of writes to l.
LEMMA WriteKinds ==
  ASSUME NEW l
  PROVE  /\ AddsOf(l) \in SUBSET WritesTo(l) /\ OthersOf(l) \in SUBSET WritesTo(l)
         /\ RemovesOf(l) \in SUBSET WritesTo(l) /\ WritesTo(l) \in SUBSET WritesTo(l)
         /\ \A w \in WritesTo(l) : /\ w \in AddsOf(l) <=> w.op = "add"
                                   /\ w \in OthersOf(l) <=> w.op # "add"
                                   /\ w \in RemovesOf(l) <=> w.op = "remove"
                                   /\ w \in Requests /\ w \in Writes /\ w.id = l
         /\ \A u : KeyOf(u, l) \in SUBSET WritesTo(l)
BY DEF AddsOf, OthersOf, RemovesOf, WritesTo, Requests, KeyOf

LEMMA NothingQueued == ASSUME NEW X PROVE Places(<<>>, X) = {} /\ HowMany(<<>>, X) = 0
<1>1. Places(<<>>, X) = {}
  BY DEF Places
<1> QED BY <1>1, FS_EmptySet DEF HowMany

\* A list stays unheard of while nobody touches it.
LEMMA UnheardKept ==
  ASSUME TypeOK, [Next]_vars, NEW l \in Lists, Unheard(l), Untouched(l)
  PROVE  Unheard(l)'
<1>1. author'[l] = Absent => author[l] = Absent
  BY AuthorKept
<1> QED BY <1>1 DEF Unheard, Untouched

\* b sends a write to l.
LEMMA BornSent ==
  ASSUME TypeOK, TypeOK', [Next]_vars, NEW l \in Lists, BornOf(l), Untouched(l),
         NEW b \in Apps, Sends(b, l),
         RemoveListUsersRead(b) /\ l = Head(events[b]).id => l \in heard \/ Adding(b, l)
  PROVE  BornOf(l)'
<1>1. PICK w \in WritesTo(l) :
         /\ up'[b] = Append(up[b], w)
         /\ \/ AddNewList(b) /\ w = AddOf(l, owner[b]) /\ author[l] = Absent
                             /\ author'[l] = owner[b]
            \/ AcceptInvitation(b) /\ w = JoinOf(l, owner[b]) /\ l \in heard
            \/ RemoveListUsersRead(b) /\ w.op = "remove" /\ l = Head(events[b]).id
  BY DEF Sends
<1>2. /\ up[b] \in Seq(Requests) /\ w \in Requests
      /\ w \in AddsOf(l) <=> w.op = "add"
      /\ w \in OthersOf(l) <=> w.op # "add"
  BY WriteKinds DEF TypeOK
<1>3. ASSUME NEW c \in Apps, c # b PROVE up'[c] = up[c]
  BY <1>1, <1>3, OthersWrites DEF MainStep, UserStep
<1>4. Unheard(l)' /\ (l \in heard' <=> l \in heard)
  BY UnheardKept DEF BornOf, Untouched
<1>5. author[l] # Absent => author'[l] # Absent
  BY AuthorKept
<1>6. \A c \in Apps : Ordered(c, l)
  BY DEF BornOf
<1>7. \A X : Places(up'[b], X) = Places(up[b], X) \cup (IF w \in X THEN {Len(up[b]) + 1} ELSE {})
  BY <1>1, <1>2, PlacesAppended
<1>8. \A X : \A k \in Places(up[b], X) : k < Len(up[b]) + 1
  BY <1>2, PlacesAppended
<1>9. Places(up[b], AddsOf(l)) \subseteq Places(up[b], WritesTo(l))
  BY WriteKinds DEF Places
<1>10. Places(up[b], OthersOf(l)) \subseteq Places(up[b], WritesTo(l))
  BY WriteKinds DEF Places
<1>11. CASE w.op = "add"
  <2>1. author[l] = Absent /\ author'[l] # Absent
    <3>1. owner[b] \in Users
      BY DEF TypeOK
    <3>2. author[l] = Absent /\ author'[l] = owner[b]
      BY <1>1, <1>11 DEF JoinOf
    <3> QED BY <3>1, <3>2, AbsentIsNothing
  <2>2. l \notin heard /\ \A c \in Apps : ~Adding(c, l) /\ ~Writing(c, l)
    BY <1>6, <2>1 DEF BornOf, Unheard, Ordered
  <2>3. \A c \in Apps : c # b => ~Adding(c, l)' /\ ~Writing(c, l)'
    BY <1>3, <2>2 DEF Adding, Writing
  <2>4. ASSUME NEW c \in Apps, c # b PROVE Ordered(c, l)'
    <3>1. HowMany(up'[c], AddsOf(l)) <= 1 /\ Before(up'[c], AddsOf(l), OthersOf(l))
      BY <1>3, <1>6, <2>4 DEF Ordered
    <3> QED BY <2>3, <2>4, <3>1 DEF Ordered
  <2>5. Adding(b, l)'
    BY <1>2, <1>7, <1>11 DEF Adding
  <2>6. HowMany(up'[b], AddsOf(l)) <= 1
    <3>1. Places(up[b], AddsOf(l)) = {}
      BY <2>2 DEF Adding
    <3>2. HowMany(up[b], AddsOf(l)) = 0
      BY <1>2, <3>1, HowManyType DEF Places
    <3>3. HowMany(up'[b], AddsOf(l)) = HowMany(up[b], AddsOf(l)) + 1
      BY <1>1, <1>2, <1>11, HowManyAppend
    <3> QED BY <3>2, <3>3
  <2>7. Before(up'[b], AddsOf(l), OthersOf(l))
    <3>1. Places(up[b], OthersOf(l)) = {}
      BY <1>10, <2>2 DEF Writing
    <3>2. Places(up'[b], OthersOf(l)) = {}
      BY <1>2, <1>7, <1>11, <3>1
    <3> QED BY <3>2 DEF Before
  <2>8. Ordered(b, l)'
    BY <1>4, <2>1, <2>2, <2>3, <2>5, <2>6, <2>7 DEF Ordered
  <2> QED BY <1>4, <2>4, <2>8 DEF BornOf
<1>12. CASE w.op # "add"
  <2>1. l \in heard \/ Adding(b, l)
    BY <1>1, <1>12 DEF AddOf
  <2>2. Places(up'[b], AddsOf(l)) = Places(up[b], AddsOf(l))
    BY <1>2, <1>7, <1>12
  <2>3. \A c \in Apps : Adding(c, l)' <=> Adding(c, l)
    BY <1>3, <2>2 DEF Adding
  <2>4. ASSUME NEW c \in Apps, c # b PROVE Ordered(c, l)'
    <3>1. up'[c] = up[c]
      BY <1>3, <2>4
    <3>2. HowMany(up'[c], AddsOf(l)) <= 1 /\ Before(up'[c], AddsOf(l), OthersOf(l))
          /\ (Writing(c, l)' => Writing(c, l))
      BY <1>6, <3>1 DEF Ordered, Writing
    <3>3. Ordered(c, l)
      BY <1>6
    <3> QED BY <1>4, <1>5, <2>3, <3>2, <3>3 DEF Ordered
  <2>5. HowMany(up'[b], AddsOf(l)) <= 1
    BY <1>6, <2>2 DEF HowMany, Ordered
  <2>6. Before(up'[b], AddsOf(l), OthersOf(l))
    <3> SUFFICES ASSUME NEW i \in Places(up'[b], AddsOf(l)),
                        NEW j \in Places(up'[b], OthersOf(l)) PROVE i < j
      BY DEF Before
    <3>1. i \in Places(up[b], AddsOf(l)) /\ i < Len(up[b]) + 1
      BY <1>8, <2>2
    <3>2. j \in Places(up[b], OthersOf(l)) \/ j = Len(up[b]) + 1
      BY <1>7
    <3>3. Before(up[b], AddsOf(l), OthersOf(l))
      BY <1>6 DEF Ordered
    <3> QED BY <3>1, <3>2, <3>3 DEF Before
  <2>7. Ordered(b, l)'
    <3>1. Ordered(b, l)
      BY <1>6
    <3> QED BY <1>4, <1>5, <2>1, <2>3, <2>5, <2>6, <3>1 DEF Ordered
  <2> QED BY <1>4, <2>4, <2>7 DEF BornOf
<1> QED BY <1>11, <1>12

\* Nobody sends or serves one: at most a process ends.
LEMMA BornMoved ==
  ASSUME TypeOK, TypeOK', [Next]_vars, NEW l \in Lists, BornOf(l), Untouched(l),
         \A b \in Apps : Ended(b) \/ SameWrites(up[b], up'[b], l)
  PROVE  BornOf(l)'
<1>1. Unheard(l)' /\ (l \in heard' <=> l \in heard)
  BY UnheardKept DEF BornOf, Untouched
<1>2. author[l] # Absent => author'[l] # Absent
  BY AuthorKept
<1>3. ASSUME NEW b \in Apps
      PROVE  /\ Adding(b, l)' => Adding(b, l)
             /\ ~Ended(b) => (Adding(b, l) => Adding(b, l)')
             /\ Writing(b, l)' => Writing(b, l) /\ ~Ended(b)
  <2>1. CASE Ended(b)
    <3>1. up'[b] = <<>>
      BY <2>1 DEF Ended
    <3> QED BY <2>1, <3>1 DEF Adding, Writing, Places
  <2>2. CASE SameWrites(up[b], up'[b], l) /\ ~Ended(b)
    BY <2>2, WriteKinds DEF SameWrites, Adding, Writing
  <2> QED BY <2>1, <2>2
<1>4. ASSUME NEW b \in Apps PROVE Ordered(b, l)'
  <2>1. Ordered(b, l)
    BY DEF BornOf
  <2>2. HowMany(up'[b], AddsOf(l)) <= 1 /\ Before(up'[b], AddsOf(l), OthersOf(l))
    <3>1. CASE Ended(b)
      <4>1. up'[b] = <<>>
        BY <3>1 DEF Ended
      <4>2. Places(<<>>, AddsOf(l)) = {} /\ HowMany(<<>>, AddsOf(l)) = 0
        BY NothingQueued
      <4> QED BY <4>1, <4>2 DEF Before
    <3>2. CASE SameWrites(up[b], up'[b], l)
      BY <2>1, <3>2, WriteKinds DEF SameWrites, Ordered
    <3> QED BY <3>1, <3>2
  <2> QED BY <1>1, <1>2, <1>3, <2>1, <2>2 DEF Ordered
<1> QED BY <1>1, <1>4 DEF BornOf

\* How a list comes to be is kept by every step.
LEMMA BornStep ==
  ASSUME TypeOK, TypeOK', AllLoad, [Next]_vars, NEW l \in Lists, BornOf(l),
         \A b \in Apps : RemoveListUsersRead(b) /\ l = Head(events[b]).id
                            => l \in heard \/ Adding(b, l)
  PROVE  BornOf(l)'
<1>1. CASE \E a \in Apps : Serves(a, l)
  BY <1>1, BornServed
<1>2. CASE Untouched(l) /\ \A a \in Apps : ~Serves(a, l)
  <2>1. CASE \E b \in Apps : Sends(b, l)
    BY <1>2, <2>1, BornSent
  <2>2. CASE \A b \in Apps : ~Sends(b, l)
    <3>1. \A b \in Apps : Ended(b) \/ SameWrites(up[b], up'[b], l)
      BY <1>2, <2>2, WritesStep
    <3> QED BY <1>2, <3>1, BornMoved
  <2> QED BY <2>1, <2>2
<1> QED BY <1>1, <1>2, Touched

LEMMA BornInit == Init => AllBorn
<1> SUFFICES ASSUME Init, NEW l \in Lists PROVE BornOf(l)
  BY DEF AllBorn
<1>1. /\ author \in [Lists -> Users \cup {Absent}]
      /\ \A u \in Users : server.keys[u] = {m \in Lists : author[m] = u}
      /\ server.lists[l] = IF author[l] = Absent THEN Absent ELSE {author[l]}
      /\ heard = {m \in Lists : author[m] # Absent} /\ refused = {}
  BY DEF Init
<1>2. Unheard(l)
  BY <1>1, AbsentIsNothing DEF Unheard
<1>3. ASSUME NEW b \in Apps PROVE Ordered(b, l)
  <2>1. up[b] = <<>>
    BY DEF Init
  <2>2. \A X : Places(up[b], X) = {} /\ HowMany(up[b], X) = 0
    BY <2>1, NothingQueued
  <2> QED BY <2>2 DEF Ordered, Before, Adding, Writing
<1> QED BY <1>2, <1>3 DEF BornOf

-----------------------------------------------------------------------------
(***************************************************************************)
(* A list is lost to b once a write to it was refused, a removal of it is  *)
(* under way from b, or the server has heard of it and has it no more.     *)
(* What b is told of, asks for or shows is a key of its user, or lost.     *)
(***************************************************************************)
Has(b, l)   == HasKey(server, up[b], owner[b], l)
Lost(b, l)  == l \in refused \/ Removing(b, l) \/ (l \in heard /\ server.lists[l] = Absent)
Right(b, l) == Has(b, l) \/ Lost(b, l)

\* A write at the end of a queue, and at its front.
LEMMA HasAppended ==
  ASSUME NEW q \in Seq(Requests), NEW l, NEW w \in WritesTo(l), NEW u, NEW s
  PROVE  HasKey(s, Append(q, w), u, l) <=>
            IF u \in w.users THEN w.op # "remove" ELSE HasKey(s, q, u, l)
<1> DEFINE p == Append(q, w)
           P == Places(q, KeyOf(u, l))
           R == Places(p, KeyOf(u, l))
           n == Len(q) + 1
<1>1. w \in Requests /\ (w \in KeyOf(u, l) <=> u \in w.users)
  BY WriteKinds DEF KeyOf
<1>2. p \in Seq(Requests) /\ p[n] = w /\ Len(q) \in Nat /\ \A k \in 1 .. Len(q) : p[k] = q[k]
  BY <1>1, AppendProperties
<1>3. /\ R = P \cup (IF w \in KeyOf(u, l) THEN {n} ELSE {})
      /\ \A k \in P : k \in Nat /\ k < n
  BY <1>1, PlacesAppended
<1>4. /\ HasKey(s, q, u, l) = IF P = {} THEN l \in s.keys[u] ELSE q[Max(P)].op # "remove"
      /\ HasKey(s, p, u, l) = IF R = {} THEN l \in s.keys[u] ELSE p[Max(R)].op # "remove"
  <2>1. OnKey(q, u, l) = P /\ OnKey(p, u, l) = R
    BY <1>2, KeyPlaces
  <2> QED BY <2>1 DEF HasKey
<1>5. P \in SUBSET (1 .. Len(q))
  BY DEF Places
<1> HIDE DEF p, P, R, n
<1>6. CASE u \in w.users
  <2>1. n \in R /\ R \in SUBSET Nat /\ \A k \in R : k <= n
    BY <1>1, <1>2, <1>3, <1>6 DEF n
  <2>2. Max(R) = n
    BY <2>1, MaxIs
  <2> QED BY <1>2, <1>4, <1>6, <2>1, <2>2 DEF p
<1>7. CASE u \notin w.users
  <2>1. R = P
    BY <1>1, <1>3, <1>7
  <2>2. P # {} => Max(P) \in 1 .. Len(q)
    BY <1>2, <1>5, MaxExists
  <2>3. P # {} => p[Max(P)] = q[Max(P)]
    BY <1>2, <2>2
  <2>4. (HasKey(s, p, u, l) <=> HasKey(s, q, u, l))
    BY <1>4, <2>1, <2>3
  <2> QED BY <1>7, <2>4 DEF p
<1> QED BY <1>6, <1>7

\* After the oldest write to l is taken another one still decides on the key, or that
\* one did if it was of u's key, and now the server does.
LEMMA HasTail ==
  ASSUME NEW q \in Seq(Requests), q # <<>>, NEW l, Head(q) \in WritesTo(l), NEW u
  PROVE  \/ \A s, t : HasKey(s, Tail(q), u, l) <=> HasKey(t, q, u, l)
         \/ /\ \A s : HasKey(s, Tail(q), u, l) <=> l \in s.keys[u]
            /\ \A t : HasKey(t, q, u, l) <=>
                  IF u \in Head(q).users THEN Head(q).op # "remove" ELSE l \in t.keys[u]
<1> DEFINE p == Tail(q)
           P == Places(q, KeyOf(u, l))
           R == Places(p, KeyOf(u, l))
<1>1. Head(q) \in KeyOf(u, l) <=> u \in Head(q).users
  BY DEF KeyOf
<1>2. /\ p \in Seq(Requests) /\ Len(q) \in Nat /\ Head(q) = q[1] /\ DOMAIN q = 1 .. Len(q)
      /\ \A k \in 1 .. (Len(q) - 1) : p[k] = q[k + 1]
      /\ DOMAIN p = 1 .. (Len(q) - 1)
  BY HeadTailProperties
<1>3. /\ \A k \in R : k \in Nat \ {0} /\ k + 1 \in P
      /\ \A k \in P : k \in Nat \ {0} /\ (k # 1 => k - 1 \in R)
      /\ 1 \in P <=> Head(q) \in KeyOf(u, l)
  BY PlacesTail
<1>4. ASSUME NEW s
      PROVE  /\ HasKey(s, q, u, l) = IF P = {} THEN l \in s.keys[u] ELSE q[Max(P)].op # "remove"
             /\ HasKey(s, p, u, l) = IF R = {} THEN l \in s.keys[u] ELSE p[Max(R)].op # "remove"
  <2>1. OnKey(q, u, l) = P /\ OnKey(p, u, l) = R
    BY <1>2, KeyPlaces
  <2> QED BY <2>1 DEF HasKey
<1>5. P \in SUBSET (1 .. Len(q)) /\ R \in SUBSET (1 .. (Len(q) - 1))
  BY <1>2 DEF Places
<1> HIDE DEF p, P, R
<1>6. CASE R = {}
  <2>1. P = IF u \in Head(q).users THEN {1} ELSE {}
    <3>1. \A k \in P : k = 1
      BY <1>3, <1>6
    <3> QED BY <1>1, <1>3, <3>1
  <2>2. P # {} => Max(P) = 1
    <3>1. {1} \in SUBSET Nat /\ 1 \in {1} /\ \A j \in {1} : j <= 1
      OBVIOUS
    <3>2. Max({1}) = 1
      BY <3>1, MaxIs
    <3> QED BY <2>1, <3>2
  <2>3. \A s : HasKey(s, p, u, l) <=> l \in s.keys[u]
    BY <1>4, <1>6
  <2>4. ASSUME NEW t
        PROVE  HasKey(t, q, u, l) <=>
                  IF u \in Head(q).users THEN Head(q).op # "remove" ELSE l \in t.keys[u]
    <3>1. CASE u \in Head(q).users
      BY <1>2, <1>4, <2>1, <2>2, <3>1
    <3>2. CASE u \notin Head(q).users
      BY <1>4, <2>1, <3>2
    <3> QED BY <3>1, <3>2
  <2> QED BY <2>3, <2>4 DEF p
<1>7. CASE R # {}
  <2>1. Len(q) - 1 \in Nat
    <3>1. Len(q) # 0
      BY EmptySeq
    <3> QED BY <1>2, <3>1
  <2>2. Max(R) \in R /\ \A j \in R : j <= Max(R)
    BY <1>5, <1>7, <2>1, MaxExists
  <2>3. Max(R) + 1 \in P /\ \A k \in P : k <= Max(R) + 1
    <3>1. Max(R) + 1 \in P /\ Max(R) \in Nat
      BY <1>3, <2>2
    <3>2. ASSUME NEW k \in P PROVE k <= Max(R) + 1
      <4>1. k \in Nat /\ (k = 1 \/ k - 1 <= Max(R))
        BY <1>3, <2>2
      <4> QED BY <3>1, <4>1
    <3> QED BY <3>1, <3>2
  <2>4. Max(P) = Max(R) + 1
    <3>1. PICK m : m = Max(R) + 1
      OBVIOUS
    <3>2. P \in SUBSET Nat /\ m \in P /\ \A k \in P : k <= m
      BY <1>5, <2>3, <3>1
    <3>3. Max(P) = m
      BY <3>2, MaxIs
    <3> QED BY <3>1, <3>3
  <2>5. q[Max(P)] = p[Max(R)]
    BY <1>2, <1>5, <2>2, <2>4
  <2> QED BY <1>4, <1>7, <2>3, <2>5 DEF p
<1> QED BY <1>6, <1>7

\* What the server says of a key counts only where no own write does.
LEMMA HasFrom ==
  ASSUME NEW q, NEW l, NEW u, NEW s, NEW t
  PROVE  /\ (l \in s.keys[u] => l \in t.keys[u]) /\ HasKey(s, q, u, l) => HasKey(t, q, u, l)
         /\ (l \in s.keys[u] <=> l \in t.keys[u])
              => (HasKey(s, q, u, l) <=> HasKey(t, q, u, l))
BY DEF HasKey

\* The server takes or refuses a write to l.
LEMMA RightServed ==
  ASSUME TypeOK, TypeOK', [Next]_vars, NEW l \in Lists, BornOf(l), NEW a \in Apps, Serves(a, l),
         NEW b \in Apps
  PROVE  /\ Lost(b, l) => Lost(b, l)'
         /\ Right(b, l) => Right(b, l)'
<1> DEFINE w == Head(up[a])
<1>1. /\ w \in WritesTo(l) /\ w.op \in WriteOps
      /\ Reject(a) => /\ server' = server
                      /\ l \in refused' <=> l \in refused \/ w.op # "add"
      /\ Commit(a) => /\ refused' = refused
                      /\ w.op = "join" => server'.lists[l] = server.lists[l]
                      /\ w.op = "remove" => server'.lists[l] = Absent
                      /\ \A u \in Users : l \in server'.keys[u] <=>
                           IF u \notin w.users THEN l \in server.keys[u] ELSE w.op # "remove"
      /\ Commit(a) \/ Reject(a)
  BY Served DEF Serves
<1>2. /\ up[a] \in Seq(Requests) /\ up[a] # <<>> /\ up'[a] = Tail(up[a])
      /\ \A c \in Apps : c # a => up'[c] = up[c]
  <2>1. \A c \in Apps : c # a => up'[c] = up[c]
    BY OthersWrites DEF Serves, ServerStep
  <2> QED BY <2>1 DEF Serves, TypeOK
<1>3. l \in heard' /\ (w.op # "add" => l \in heard)
  BY BornServed
<1>4. w.op = "add" => l \notin heard /\ server.lists[l] = Absent
  <2>1. w.op = "add" => Adding(a, l)
    <3>1. w.op = "add" => w \in AddsOf(l)
      BY <1>1, WriteKinds
    <3> QED BY <1>2, <3>1, PlacesTail DEF Adding
  <2> QED BY <2>1 DEF BornOf, Ordered, Unheard
<1>5. owner' = owner /\ owner[b] \in Users
  BY OwnerKept DEF TypeOK
<1>6. w \in RemovesOf(l) <=> w.op = "remove"
  BY <1>1, WriteKinds
<1>7. w.op = "remove" => Lost(b, l)'
  BY <1>1, <1>3 DEF Lost
<1>8. Reject(a) => Lost(b, l)'
  BY <1>1, <1>3, <1>4 DEF Lost
<1>9. ASSUME Lost(b, l) PROVE Lost(b, l)'
  <2>1. CASE l \in refused
    BY <1>1, <2>1 DEF Lost
  <2>2. CASE Removing(b, l)
    <3>1. CASE b # a
      BY <1>2, <2>2, <3>1 DEF Lost, Removing
    <3>2. CASE b = a /\ w \notin RemovesOf(l)
      <4>1. Before(up[a], RemovesOf(l), {})
        BY DEF Before, Places
      <4>2. Places(Tail(up[a]), RemovesOf(l)) # {}
        BY <1>2, <2>2, <3>2, <4>1, BeforeTail DEF Removing
      <4> QED BY <1>2, <3>2, <4>2 DEF Lost, Removing
    <3> QED BY <1>6, <1>7, <3>1, <3>2
  <2>3. CASE l \in heard /\ server.lists[l] = Absent
    BY <1>1, <1>3, <1>4, <1>7, <2>3 DEF Lost, WriteOps
  <2> QED BY <1>9, <2>1, <2>2, <2>3 DEF Lost
<1>10. ASSUME Has(b, l), Commit(a), w.op # "remove" PROVE Has(b, l)'
  <2>1. /\ Has(b, l)' <=> HasKey(server', up'[b], owner[b], l)
        /\ Has(b, l) <=> HasKey(server, up[b], owner[b], l)
    BY <1>5 DEF Has
  <2>2. l \in server.keys[owner[b]] \/ owner[b] \in w.users => l \in server'.keys[owner[b]]
    BY <1>1, <1>5, <1>10
  <2>3. CASE b # a
    <3>1. HasKey(server', up[b], owner[b], l)
      BY <1>10, <2>1, <2>2, HasFrom
    <3> QED BY <1>2, <2>1, <2>3, <3>1
  <2>4. CASE b = a
    <3>1. \/ \A s, t : HasKey(s, Tail(up[b]), owner[b], l) <=> HasKey(t, up[b], owner[b], l)
          \/ /\ \A s : HasKey(s, Tail(up[b]), owner[b], l) <=> l \in s.keys[owner[b]]
             /\ \A t : HasKey(t, up[b], owner[b], l) <=>
                  IF owner[b] \in w.users THEN w.op # "remove" ELSE l \in t.keys[owner[b]]
      BY <1>1, <1>2, <2>4, HasTail
    <3> QED BY <1>2, <1>10, <2>1, <2>2, <2>4, <3>1
  <2> QED BY <2>3, <2>4
<1> QED BY <1>1, <1>7, <1>8, <1>9, <1>10 DEF Right

\* A lost list stays lost, and a right view of a list right, while the process runs.
LEMMA RightStep ==
  ASSUME TypeOK, TypeOK', AllLoad, [Next]_vars, NEW l \in Lists, BornOf(l),
         NEW b \in Apps, ~Ended(b)
  PROVE  /\ Lost(b, l) => Lost(b, l)'
         /\ Right(b, l) => Right(b, l)'
<1>1. CASE \E a \in Apps : Serves(a, l)
  BY <1>1, RightServed
<1>2. ASSUME Untouched(l), Removing(b, l) => Removing(b, l)', Has(b, l) => Right(b, l)'
      PROVE  /\ Lost(b, l) => Lost(b, l)'
             /\ Right(b, l) => Right(b, l)'
  BY <1>2 DEF Untouched, Lost, Right
<1>3. owner' = owner /\ owner[b] \in Users
  BY OwnerKept DEF TypeOK
<1>4. CASE Untouched(l) /\ SameWrites(up[b], up'[b], l)
  <2>1. Removing(b, l) => Removing(b, l)'
    BY <1>4, WriteKinds DEF Removing, SameWrites
  <2>2. HasKey(server', up'[b], owner[b], l) <=> HasKey(server', up[b], owner[b], l)
    BY <1>4 DEF SameWrites
  <2>3. HasKey(server, up[b], owner[b], l) => HasKey(server', up[b], owner[b], l)
    BY <1>3, <1>4, HasFrom DEF Untouched
  <2> QED BY <1>2, <1>3, <1>4, <2>1, <2>2, <2>3 DEF Has, Right
<1>5. CASE Untouched(l) /\ Sends(b, l)
  <2>1. PICK w \in WritesTo(l) :
           /\ up'[b] = Append(up[b], w)
           /\ w = AddOf(l, owner[b]) \/ w = JoinOf(l, owner[b]) \/ w.op = "remove"
    BY <1>5 DEF Sends
  <2>2. up[b] \in Seq(Requests) /\ w \in Requests
    BY WriteKinds DEF TypeOK
  <2>3. /\ Places(up'[b], RemovesOf(l)) = Places(up[b], RemovesOf(l))
                \cup (IF w \in RemovesOf(l) THEN {Len(up[b]) + 1} ELSE {})
    BY <2>1, <2>2, PlacesAppended
  <2>4. CASE w.op = "remove"
    <3>1. Removing(b, l)'
      BY <2>3, <2>4, WriteKinds DEF Removing
    <3> QED BY <3>1 DEF Lost, Right
  <2>5. CASE owner[b] \in w.users /\ w.op # "remove"
    <3>1. HasKey(server', up'[b], owner[b], l)
      BY <2>1, <2>2, <2>5, HasAppended
    <3> QED BY <1>2, <1>3, <1>5, <2>3, <3>1 DEF Has, Right, Removing
  <2> QED BY <2>1, <2>4, <2>5 DEF AddOf, JoinOf
<1> QED BY <1>1, <1>4, <1>5, Touched, WritesStep

\* Where a client sees no node, a removal waits, or the server has no list to add to.
LEMMA NodeGone ==
  ASSUME NEW q \in Seq(Requests), NEW l, NEW s, ListOf(s, q, l) = Absent
  PROVE  \/ Places(q, RemovesOf(l)) # {}
         \/ s.lists[l] = Absent /\ Places(q, AddsOf(l)) = {}
<1> DEFINE P == OnList(q, l)
<1>1. \A k \in P : k \in DOMAIN q /\ q[k] \in WritesTo(l)
                   /\ (q[k].op = "add" \/ q[k].op = "remove")
  <2>1. \A k \in DOMAIN q : q[k].op \in {"add", "remove"} => q[k] \in Writes
    BY RequestForms DEF WriteOps
  <2> QED BY <2>1 DEF OnList, WritesTo
<1>2. CASE P = {}
  <2>1. s.lists[l] = Absent
    BY <1>2 DEF ListOf
  <2>2. \A k \in DOMAIN q : q[k] \notin AddsOf(l)
    BY <1>2 DEF OnList, AddsOf, WritesTo
  <2> QED BY <2>1, <2>2 DEF Places
<1>3. CASE P # {}
  <2>1. P \in SUBSET (1 .. Len(q)) /\ Len(q) \in Nat
    BY DEF OnList
  <2>2. Max(P) \in P
    BY <1>3, <2>1, MaxExists
  <2>3. PICK w : w = q[Max(P)]
    OBVIOUS
  <2>4. w \in WritesTo(l) /\ (w.op = "add" \/ w.op = "remove") /\ Max(P) \in DOMAIN q
    BY <1>1, <2>2, <2>3
  <2>5. ListOf(s, q, l) = IF w.op = "add" THEN w.users ELSE Absent
    BY <1>3, <2>3 DEF ListOf
  <2>6. w.users # Absent
    BY <2>4, AbsentIsNothing DEF WritesTo, Writes
  <2>7. w \in RemovesOf(l)
    BY <2>4, <2>5, <2>6, WriteKinds
  <2> QED BY <2>3, <2>4, <2>7 DEF Places
<1> QED BY <1>2, <1>3

\* What is right is known, and only what is lost has no node.
LEMMA RightKnown ==
  ASSUME TypeOK, NEW b \in Apps, NEW l \in Lists, BornOf(l), Right(b, l)
  PROVE  /\ l \in heard \/ Adding(b, l)
         /\ ListOf(server, up[b], l) = Absent => Lost(b, l)
<1>1. up[b] \in Seq(Requests) /\ owner[b] \in Users
  BY DEF TypeOK
<1>2. Ordered(b, l) /\ Unheard(l)
  BY DEF BornOf
<1>3. \A X \in SUBSET WritesTo(l) : Places(up[b], X) # {} => Writing(b, l)
  BY DEF Writing, Places
<1>4. l \in heard \/ Adding(b, l)
  <2>1. CASE Has(b, l)
    <3>1. CASE Places(up[b], KeyOf(owner[b], l)) = {}
      <4>1. OnKey(up[b], owner[b], l) = {}
        BY <1>1, <3>1, KeyPlaces
      <4>2. l \in server.keys[owner[b]]
        BY <2>1, <4>1 DEF Has, HasKey
      <4> QED BY <1>1, <1>2, <4>2 DEF Unheard
    <3>2. CASE Places(up[b], KeyOf(owner[b], l)) # {}
      BY <1>2, <1>3, <3>2, WriteKinds DEF Ordered
    <3> QED BY <3>1, <3>2
  <2>2. CASE Lost(b, l)
    BY <1>2, <1>3, <2>2, WriteKinds DEF Lost, Removing, Ordered, Unheard
  <2> QED BY <2>1, <2>2 DEF Right
<1>5. ASSUME ListOf(server, up[b], l) = Absent PROVE Lost(b, l)
  BY <1>1, <1>4, <1>5, NodeGone DEF Lost, Removing, Adding
<1> QED BY <1>4, <1>5

-----------------------------------------------------------------------------
(***************************************************************************)
(* Whatever an app asks for, is told of or shows is right.                 *)
(***************************************************************************)
FineRequest(b, r) == r.op \in NodeOps => Right(b, r.id)

FineEvent(b, e) ==
    /\ e.type = "keys" => \A l \in e.ids : Right(b, l)
    /\ e.type = "added" => Right(b, e.id)
    /\ e.type = "removed" => Lost(b, e.id)
    /\ e.type \in NodeOps => /\ Right(b, e.id)
                             /\ e.node = Absent => Lost(b, e.id)

Fine(b) ==
    /\ \A r \in Entries(up[b]) : FineRequest(b, r)
    /\ \A e \in Entries(events[b]) : FineEvent(b, e)
    /\ \A l \in Entries(data[b]) : Right(b, l)

AllFine == \A b \in Apps : Fine(b)

\* A step, with what holds before and after it.
Running == /\ TypeOK /\ TypeOK' /\ AllLoad /\ AllBorn /\ AllBorn' /\ [Next]_vars

\* The keys that an app sees, before and after a step.
LEMMA RunningKeys ==
  ASSUME Running, NEW b \in Apps, NEW l \in Lists
  PROVE  /\ owner' = owner /\ up[b] \in Seq(Requests) /\ up'[b] \in Seq(Requests)
         /\ l \in KeysOf(server, up[b], owner[b]) <=> Has(b, l)
         /\ l \in KeysOf(server', up'[b], owner[b]) <=> Has(b, l)'
         /\ Right(b, l) /\ ListOf(server, up[b], l) = Absent => Lost(b, l)
         /\ ~Ended(b) => (Lost(b, l) => Lost(b, l)') /\ (Right(b, l) => Right(b, l)')
<1>1. owner' = owner
  BY OwnerKept DEF Running
<1>2. /\ TypeOK /\ TypeOK' /\ AllLoad /\ BornOf(l) /\ [Next]_vars
  BY DEF Running, AllBorn
<1>3. up[b] \in Seq(Requests) /\ up'[b] \in Seq(Requests)
  BY <1>2 DEF TypeOK
<1>4. l \in KeysOf(server, up[b], owner[b]) <=> Has(b, l)
  BY DEF KeysOf, Has
<1>5. l \in KeysOf(server', up'[b], owner[b]) <=> Has(b, l)'
  BY <1>1 DEF KeysOf, Has
<1>6. Right(b, l) /\ ListOf(server, up[b], l) = Absent => Lost(b, l)
  BY <1>2, RightKnown
<1>7. ~Ended(b) => (Lost(b, l) => Lost(b, l)') /\ (Right(b, l) => Right(b, l)')
  BY <1>2, RightStep
<1> QED BY <1>1, <1>3, <1>4, <1>5, <1>6, <1>7

\* Whatever is told of a key is right.
LEMMA RunningRaised ==
  ASSUME Running, NEW b \in Apps, ~Ended(b), NEW l \in Lists
  PROVE  /\ Raised(b, server', up'[b], l) \in Seq(Events)
         /\ \A e \in Entries(Raised(b, server', up'[b], l)) : FineEvent(b, e)'
<1> DEFINE s == Raised(b, server', up'[b], l)
<1>1. /\ l \in KeysOf(server, up[b], owner[b]) <=> Has(b, l)
      /\ l \in KeysOf(server', up'[b], owner[b]) <=> Has(b, l)'
      /\ Right(b, l) => Right(b, l)'
  BY RunningKeys
<1>2. PICK e : e = KeyEvent("added", l)
  OBVIOUS
<1>3. PICK d : d = KeyEvent("removed", l)
  OBVIOUS
<1>4. \/ s = <<>>
      \/ s = <<e>> /\ Has(b, l)'
      \/ s = <<d>> /\ Has(b, l) /\ ~Has(b, l)'
  BY <1>1, <1>2, <1>3 DEF Raised, KeysSeen
<1>5. Has(b, l)' => FineEvent(b, e)'
  BY <1>2 DEF FineEvent, KeyEvent, Right, NodeOps
<1>6. Has(b, l) /\ ~Has(b, l)' => FineEvent(b, d)'
  BY <1>1, <1>3 DEF FineEvent, KeyEvent, Right, NodeOps
<1>7. Entries(<<e>>) = {e} /\ Entries(<<d>>) = {d} /\ Entries(<<>>) = {}
  BY DEF Entries
<1>8. s \in Seq(Events)
  BY RaisedNext DEF Running
<1> HIDE DEF s
<1>9. \A x \in Entries(s) : FineEvent(b, x)'
  BY <1>4, <1>5, <1>6, <1>7
<1> QED BY <1>8, <1>9 DEF s

\* What a step brings to the queues and the rows of b.
FineStep(b) ==
    /\ \A r \in Entries(up'[b]) : r \in Entries(up[b]) \/ FineRequest(b, r)'
    /\ \A e \in Entries(events'[b]) : e \in Entries(events[b]) \/ FineEvent(b, e)'
    /\ \A l \in Entries(data'[b]) : l \in Entries(data[b]) \/ Right(b, l)'

\* It is enough to look at what a step adds: FineStep keeps Fine.
LEMMA FineNext ==
  ASSUME Running, NEW b \in Apps, ~Ended(b), Fine(b), FineStep(b)
  PROVE  Fine(b)'
<1>1. \A l \in Lists : (Lost(b, l) => Lost(b, l)') /\ (Right(b, l) => Right(b, l)')
  BY RunningKeys
<1>2. /\ \A r \in Entries(up[b]) : r \in Requests
      /\ \A e \in Entries(events[b]) : e \in Events
      /\ \A l \in Entries(data[b]) : l \in Lists
  BY DEF Running, TypeOK, Entries
<1>3. ASSUME NEW r \in Entries(up[b]), FineRequest(b, r) PROVE FineRequest(b, r)'
  <2>1. r.op \in NodeOps => r.id \in Lists
    BY <1>2, RequestForms
  <2> QED BY <1>1, <1>3, <2>1 DEF FineRequest
<1>4. ASSUME NEW e \in Entries(events[b]), FineEvent(b, e) PROVE FineEvent(b, e)'
  <2>1. /\ e.type \in NodeOps \cup {"added", "removed"} => e.id \in Lists
        /\ e.type = "keys" => \A l \in e.ids : l \in Lists
    BY <1>2, EventForms
  <2> QED BY <1>1, <1>4, <2>1 DEF FineEvent
<1>5. \A r \in Entries(up'[b]) : FineRequest(b, r)'
  BY <1>3 DEF Fine, FineStep
<1>6. \A e \in Entries(events'[b]) : FineEvent(b, e)'
  BY <1>4 DEF Fine, FineStep
<1>7. \A l \in Entries(data'[b]) : Right(b, l)'
  BY <1>1, <1>2 DEF Fine, FineStep
<1> QED BY <1>5, <1>6, <1>7 DEF Fine, FineStep, Entries

\* An event about one list.
LEMMA FineEntry ==
  ASSUME NEW b \in Apps, NEW l, NEW e, e.id = l,
         e.type = "added" \/ (e.type \in NodeOps /\ (e.node = Absent => Lost(b, l)'))
  PROVE  Right(b, l)' => FineEvent(b, e)'
BY DEF FineEvent, NodeOps

\* The answers of the server.
LEMMA FineAnswerKeys ==
  ASSUME Running, NEW b \in Apps, ~Ended(b), Fine(b), AnswerKeys(b)
  PROVE  FineStep(b)
<1> DEFINE K == KeysOf(server, up'[b], owner[b])
<1>1. PICK e : e = [type |-> "keys", ids |-> K]
  OBVIOUS
<1>2. /\ up[b] # <<>> /\ up'[b] = Tail(up[b]) /\ events'[b] = Append(events[b], e)
      /\ data' = data /\ screen' = screen /\ server' = server
  BY <1>1 DEF AnswerKeys, Oldest, Answered, app, Running, TypeOK
<1>3. \A l \in K : l \in Lists /\ Right(b, l)'
  <2>1. \A l \in K : l \in Lists /\ l \in KeysOf(server', up'[b], owner[b])
    BY <1>2 DEF KeysOf
  <2> QED BY <2>1, RunningKeys DEF Right
<1>4. e \in Events /\ e.type = "keys" /\ e.ids = K
  BY <1>1 DEF Events, KeysOf
<1> HIDE DEF K
<1>5. FineEvent(b, e)'
  <2>1. \A l \in e.ids : Right(b, l)'
    BY <1>3, <1>4
  <2> QED BY <1>4, <2>1 DEF FineEvent, NodeOps
<1>6. Entries(events'[b]) = Entries(events[b]) \cup {e}
  BY <1>2, <1>4, EntriesOfQueues, EntriesAppended DEF Running
<1>7. Entries(up'[b]) \subseteq Entries(up[b])
  BY <1>2, EntriesOfQueues DEF Running
<1> QED BY <1>2, <1>5, <1>6, <1>7 DEF FineStep, Fine

\* The actions one by one.
LEMMA FineAnswerListen ==
  ASSUME Running, NEW b \in Apps, ~Ended(b), Fine(b), AnswerListen(b)
  PROVE  FineStep(b)
<1> DEFINE K == KeysOf(server, up'[b], owner[b])
<1>1. /\ up[b] # <<>> /\ up'[b] = Tail(up[b])
      /\ data' = data /\ screen' = screen /\ server' = server
  BY DEF AnswerListen, Oldest, Answered, app, Running, TypeOK
<1>2. PICK order \in SetToSeqs(K) :
         events'[b] = events[b] \o [k \in DOMAIN order |-> KeyEvent("added", order[k])]
  BY DEF AnswerListen, Running, TypeOK
<1> DEFINE s == [k \in DOMAIN order |-> KeyEvent("added", order[k])]
           Y == {}
<1>3. K \in SUBSET Lists /\ IsFiniteSet(K)
  BY ListsFinite, FS_Subset DEF KeysOf
<1>4. \A l \in K : l \in Lists /\ Right(b, l)'
  <2>1. \A l \in K : l \in Lists /\ l \in KeysOf(server', up'[b], owner[b])
    BY <1>1 DEF KeysOf
  <2> QED BY <2>1, RunningKeys DEF Right
<1> HIDE DEF K
<1>5. order \in Seq(K)
  BY <1>3, OrderLists
<1>6. EntryEach(s, order, Events, Y, Y)
  <2>1. \A l \in Lists : KeyEvent("added", l) \in Events
    BY DEF KeyEvent, Events
  <2> QED BY <2>1 DEF EntryEach, KeyEvent
<1>7. Y \in SUBSET Lists
  OBVIOUS
<1>8. \A x \in Entries(s) : FineEvent(b, x)'
  <2>1. \A k \in DOMAIN order : order[k] \in K
    BY <1>5
  <2> SUFFICES ASSUME NEW x \in Entries(s) PROVE FineEvent(b, x)'
    OBVIOUS
  <2>2. PICK l \in K : x = KeyEvent("added", l)
    BY <2>1 DEF Entries
  <2>3. x.type = "added" /\ x.id = l
    BY <2>2 DEF KeyEvent
  <2> QED BY <1>4, <2>3, FineEntry
<1>9. events'[b] = events[b] \o s
  BY <1>2
<1> HIDE DEF s, Y
<1>10. s \in Seq(Events)
  BY <1>3, <1>6, <1>7, Listed
<1>11. Entries(events'[b]) = Entries(events[b]) \cup Entries(s)
  BY <1>9, <1>10, EntriesOfQueues, EntriesJoined DEF Running
<1>12. Entries(up'[b]) \subseteq Entries(up[b])
  BY <1>1, EntriesOfQueues DEF Running
<1> QED BY <1>1, <1>8, <1>11, <1>12 DEF FineStep, Fine

LEMMA FineAnswerNode ==
  ASSUME Running, NEW b \in Apps, ~Ended(b), Fine(b), AnswerNode(b)
  PROVE  FineStep(b)
<1>1. PICK l : l = Head(up[b]).id
  OBVIOUS
<1> DEFINE mine  == {k \in DOMAIN up[b] : About(up[b][k], l)}
           R     == {k \in mine : up[b][k].op # "watch"}
           rest  == DOMAIN up[b] \ mine
           reads == Picked(up[b], R)
           q     == Picked(up[b], rest)
<1>2. PICK n : n = ListOf(server, q, l)
  OBVIOUS
<1> DEFINE s     == [k \in DOMAIN reads |-> NodeEvent(reads[k].op, l, n)]
<1>3. /\ up[b] # <<>> /\ Head(up[b]).op \in NodeOps
      /\ up[b] \in Seq(Requests) /\ events[b] \in Seq(Events)
      /\ up'[b] = q /\ events'[b] = events[b] \o s /\ server' = server
      /\ data' = data /\ screen' = screen
  <2>1. /\ up' = [up EXCEPT ![b] = q] /\ server' = server /\ app' = app
        /\ up[b] # <<>> /\ Head(up[b]).op \in NodeOps
    BY <1>1 DEF AnswerNode
  <2>2. events' = [events EXCEPT ![b] = @ \o s]
    BY <1>1, <1>2, Zenon DEF AnswerNode
  <2> HIDE DEF q, s
  <2> QED BY <2>1, <2>2 DEF Running, TypeOK, app
<1>4. l \in Lists /\ Head(up[b]) \in Entries(up[b])
  BY <1>1, <1>3, OldestRequest, EntriesOfQueues DEF Running
<1>5. Right(b, l)
  BY <1>1, <1>3, <1>4 DEF Fine, FineRequest
<1>6. Right(b, l)'
  BY <1>4, <1>5, RunningKeys
<1>7. n = Absent => Lost(b, l)'
  <2>1. BornOf(l) /\ TypeOK /\ AnswerNode(b) /\ heard' = heard /\ server' = server
    BY <1>4 DEF Running, AllBorn, AnswerNode, told
  <2>2. SameWrites(up[b], up'[b], l)
    BY <1>4, <2>1, WritesServer
  <2>3. l \in heard \/ Adding(b, l)
    BY <1>4, <1>5, <2>1, RightKnown
  <2>4. l \in heard' \/ Adding(b, l)'
    BY <2>1, <2>2, <2>3, WriteKinds DEF SameWrites, Adding
  <2>5. up'[b] \in Seq(Requests)
    BY <1>4, RunningKeys
  <2> QED BY <1>3, <1>2, <2>1, <2>4, <2>5, NodeGone DEF Lost, Removing, Adding
<1>8. n \in Slot
  <2>1. q \in Seq(Requests)
    BY <1>3, EntriesOfQueues DEF Running, TypeOK
  <2> HIDE DEF q
  <2> QED BY <1>4, <1>2, <2>1, ListOfType DEF Running, TypeOK
<1>9. reads \in Seq({up[b][k] : k \in R}) /\ q \in Seq({up[b][k] : k \in rest})
  <2>1. R \in SUBSET DOMAIN up[b] /\ rest \in SUBSET DOMAIN up[b]
    OBVIOUS
  <2> HIDE DEF R, rest
  <2> QED BY <1>3, <2>1, PickedQueue
<1>10. \A k \in DOMAIN reads : reads[k].op \in NodeOps
  <2>1. \A k \in R : up[b][k].op \in NodeOps
    BY DEF About
  <2> HIDE DEF reads, R
  <2> QED BY <1>9, <2>1
<1>11. Entries(up'[b]) \subseteq Entries(up[b])
  <2>1. \A x \in Entries(q) : x \in {up[b][k] : k \in rest}
    <3> HIDE DEF q, rest
    <3> QED BY <1>9 DEF Entries
  <2> QED BY <1>3, <2>1 DEF Entries
<1> HIDE DEF reads, q
<1>12. \A x \in Entries(s) : FineEvent(b, x)'
  <2> SUFFICES ASSUME NEW x \in Entries(s) PROVE FineEvent(b, x)'
    OBVIOUS
  <2>1. PICK o \in NodeOps : x = NodeEvent(o, l, n)
    BY <1>10 DEF Entries
  <2>2. x.id = l /\ x.type \in NodeOps /\ x.node = n
    BY <2>1 DEF NodeEvent
  <2> QED BY <1>6, <1>7, <2>2, FineEntry
<1>13. s \in Seq(Events)
  <2>1. \A k \in DOMAIN reads : NodeEvent(reads[k].op, l, n) \in Events
    BY <1>4, <1>8, <1>10 DEF NodeEvent, Events
  <2>2. DOMAIN reads = 1 .. Len(reads) /\ Len(reads) \in Nat
    BY <1>9
  <2> QED BY <2>1, <2>2
<1> HIDE DEF s
<1>14. Entries(events'[b]) = Entries(events[b]) \cup Entries(s)
  BY <1>3, <1>13, EntriesJoined
<1> QED BY <1>3, <1>11, <1>12, <1>14 DEF FineStep, Fine

\* A write: what is told of a key.
LEMMA FineTold ==
  ASSUME Running, NEW b \in Apps, ~Ended(b), Fine(b), NEW l \in Lists,
         events'[b] = events[b] \o Raised(b, server', up'[b], l),
         data'[b] = data[b],
         \A r \in Entries(up'[b]) : r \in Entries(up[b]) \/ FineRequest(b, r)'
  PROVE  FineStep(b)
<1> DEFINE s == Raised(b, server', up'[b], l)
<1>1. s \in Seq(Events) /\ events[b] \in Seq(Events) /\ \A e \in Entries(s) : FineEvent(b, e)'
  BY RunningRaised DEF Running, TypeOK
<1> HIDE DEF s
<1>2. Entries(events'[b]) = Entries(events[b]) \cup Entries(s)
  BY <1>1, EntriesJoined DEF s
<1> QED BY <1>1, <1>2 DEF FineStep

LEMMA FineCommit ==
  ASSUME Running, NEW a \in Apps, Commit(a), NEW b \in Apps, ~Ended(b), Fine(b)
  PROVE  FineStep(b)
<1> DEFINE l == Head(up[a]).id
<1>1. /\ up[a] # <<>> /\ Head(up[a]).op \in WriteOps /\ up' = [up EXCEPT ![a] = Tail(@)]
      /\ data' = data /\ screen' = screen
      /\ events'[b] = events[b] \o Raised(b, server', up'[b], l)
  BY DEF Commit, Answered, app
<1>2. l \in Lists
  BY <1>1, OldestRequest DEF Writes, Running
<1>3. Entries(up'[b]) \subseteq Entries(up[b])
  <2>1. up'[b] = up[b] \/ (b = a /\ up'[b] = Tail(up[b]))
    BY <1>1 DEF Running, TypeOK
  <2> QED BY <1>1, <2>1, EntriesOfQueues DEF Running
<1> HIDE DEF l
<1> QED BY <1>1, <1>2, <1>3, FineTold

LEMMA FineSend ==
  ASSUME Running, NEW b \in Apps, ~Ended(b), Fine(b), NEW w \in Writes, Send(b, w),
         server' = server, data' = data, screen' = screen
  PROVE  FineStep(b)
<1>1. w \in Requests /\ w.id \in Lists /\ w.op \notin NodeOps
  BY DEF Requests, Writes, WriteOps, NodeOps
<1>2. up'[b] = Append(up[b], w) /\ events'[b] = events[b] \o Raised(b, server', up'[b], w.id)
  BY DEF Send, Running, TypeOK
<1>3. Entries(up'[b]) = Entries(up[b]) \cup {w}
  BY <1>1, <1>2, EntriesOfQueues, EntriesAppended DEF Running
<1>4. FineRequest(b, w)'
  BY <1>1 DEF FineRequest
<1> QED BY <1>1, <1>2, <1>3, <1>4, FineTold

\* The node of a list that is seen is asked for, or told of at once.
LEMMA FineReadNode ==
  ASSUME Running, NEW b \in Apps, ~Ended(b), Fine(b), NEW l \in Lists, Right(b, l),
         NEW o \in NodeOps, NEW ev \in Seq(Events), Entries(ev) \subseteq Entries(events[b]),
         ReadNode(b, o, l, ev), data' = data
  PROVE  FineStep(b)
<1>1. PICK n : n = ListOf(server, up[b], l)
  OBVIOUS
<1>2. PICK e : e = NodeEvent(o, l, n)
  OBVIOUS
<1>3. PICK r : r = Node(o, l)
  OBVIOUS
<1>4. Right(b, l)' /\ (n = Absent => Lost(b, l)')
  BY <1>1, RunningKeys
<1>5. up[b] \in Seq(Requests) /\ n \in Slot
  <2>1. up[b] \in Seq(Requests) /\ server \in Tree
    BY DEF Running, TypeOK
  <2> QED BY <1>1, <2>1, ListOfType
<1>6. e \in Events /\ e.id = l /\ e.type = o /\ e.node = n
  BY <1>5, <1>2 DEF NodeEvent, Events
<1>7. r \in Requests /\ r.id = l
  BY <1>3 DEF Node, Requests
<1>8. FineEvent(b, e)' /\ FineRequest(b, r)'
  <2>1. FineEvent(b, e)'
    BY <1>4, <1>6, FineEntry
  <2>2. FineRequest(b, r)'
    BY <1>4, <1>7 DEF FineRequest
  <2> QED BY <2>1, <2>2
<1>9. \/ up'[b] = up[b] /\ events'[b] = Append(ev, e)
      \/ up'[b] = Append(up[b], r) /\ events'[b] = ev
  BY <1>1, <1>3, <1>2 DEF ReadNode, Running, TypeOK
<1>10. /\ Entries(Append(ev, e)) = Entries(ev) \cup {e}
      /\ Entries(Append(up[b], r)) = Entries(up[b]) \cup {r}
  BY <1>5, <1>6, <1>7, EntriesAppended
<1> QED BY <1>8, <1>9, <1>10 DEF FineStep, Fine

\* The oldest callback of an app is fine.
LEMMA FineOldest ==
  ASSUME Running, NEW b \in Apps, Fine(b), events[b] # <<>>
  PROVE  /\ FineEvent(b, Head(events[b]))
         /\ Tail(events[b]) \in Seq(Events)
         /\ Entries(Tail(events[b])) \subseteq Entries(events[b])
         /\ Head(events[b]).type \in NodeOps \cup {"added", "removed"}
              => Head(events[b]).id \in Lists
         /\ Head(events[b]).type = "keys" => Head(events[b]).ids \in SUBSET Lists
<1>1. FineEvent(b, Head(events[b]))
  BY EntriesOfQueues DEF Fine, Running
<1>2. /\ Tail(events[b]) \in Seq(Events)
      /\ Entries(Tail(events[b])) \subseteq Entries(events[b])
  BY EntriesOfQueues DEF Running
<1> QED BY <1>1, <1>2, OldestEvent DEF Running

LEMMA FineChildAdded ==
  ASSUME Running, NEW b \in Apps, ~Ended(b), Fine(b), ListsKeysChildAdded(b)
  PROVE  FineStep(b)
<1>1. PICK l : l = Head(events[b]).id
  OBVIOUS
<1>2. events[b] # <<>> /\ Head(events[b]).type = "added" /\ data' = data /\ screen' = screen
  BY DEF ListsKeysChildAdded, Next1, app
<1>3. l \in Lists /\ Right(b, l)
  BY <1>1, <1>2, FineOldest DEF FineEvent
<1>4. /\ Tail(events[b]) \in Seq(Events)
      /\ Entries(Tail(events[b])) \subseteq Entries(events[b])
  BY <1>2, FineOldest
<1>5. CASE up' = up /\ events' = [events EXCEPT ![b] = Tail(@)]
  <2>1. up'[b] = up[b] /\ events'[b] = Tail(events[b])
    BY <1>5 DEF Running, TypeOK
  <2> QED BY <1>2, <1>4, <2>1 DEF FineStep, Fine
<1>6. CASE ReadNode(b, "list", l, Tail(events[b]))
  BY <1>2, <1>3, <1>4, <1>6, FineReadNode DEF NodeOps
<1>7. \/ up' = up /\ events' = [events EXCEPT ![b] = Tail(@)]
      \/ ReadNode(b, "list", l, Tail(events[b]))
  BY <1>1 DEF ListsKeysChildAdded, Handled
<1> QED BY <1>5, <1>6, <1>7

\* A row and its observer; the loading may end with it.
LEMMA FineNewRow ==
  ASSUME Running, NEW b \in Apps, ~Ended(b), Fine(b), ListLoaded(b) \/ ListRead(b)
  PROVE  FineStep(b)
<1>1. PICK l : l = Head(events[b]).id
  OBVIOUS
<1>2. PICK w : w = Node("watch", l)
  OBVIOUS
<1> DEFINE p == Watched(b, l)
<1>3. /\ events[b] # <<>> /\ Head(events[b]).type \in {"list", "loaded"}
      /\ events'[b] = Tail(events[b]) /\ data'[b] = Append(data[b], l)
      /\ up'[b] = p \/ up'[b] = Append(p, Listen)
      /\ screen'[b] = screen[b] \/ screen'[b] = "enabled"
  <2>1. CASE ListLoaded(b)
    <3>1. /\ Next1(b, "loaded") /\ Handled(b) /\ NewRow(b, l)
          /\ \/ Loaded(b, p)
             \/ up' = [up EXCEPT ![b] = p] /\ screen' = screen
      BY <1>1, <2>1 DEF ListLoaded
    <3> HIDE DEF p
    <3> QED BY <3>1 DEF Next1, Handled, NewRow, Loaded, Running, TypeOK
  <2>2. CASE ListRead(b)
    <3>1. /\ Next1(b, "list") /\ Handled(b) /\ NewRow(b, l)
          /\ up' = [up EXCEPT ![b] = p] /\ screen' = screen
      BY <1>1, <2>2 DEF ListRead
    <3> HIDE DEF p
    <3> QED BY <3>1 DEF Next1, Handled, NewRow, Running, TypeOK
  <2> QED BY <2>1, <2>2
<1>4. l \in Lists /\ Right(b, l)
  BY <1>1, <1>3, FineOldest DEF FineEvent, NodeOps
<1>5. Right(b, l)'
  BY <1>4, RunningKeys
<1>6. Entries(Tail(events[b])) \subseteq Entries(events[b])
  BY <1>3, FineOldest
<1>7. Entries(data'[b]) = Entries(data[b]) \cup {l}
  BY <1>3, <1>4, EntriesOfQueues, EntriesAppended DEF Running
<1>8. w \in Requests /\ w.id = l /\ Listen \in Requests /\ Listen.op = "listen"
  BY <1>4, <1>2 DEF Node, Requests, NodeOps, Listen
<1>9. up[b] \in Seq(Requests) /\ (p = up[b] \/ p = Append(up[b], w))
  BY <1>2 DEF Watched, Running, TypeOK
<1> HIDE DEF p
<1>10. p \in Seq(Requests) /\ Entries(p) \subseteq Entries(up[b]) \cup {w}
  <2>1. Append(up[b], w) \in Seq(Requests) /\ Entries(Append(up[b], w)) = Entries(up[b]) \cup {w}
    BY <1>8, <1>9, EntriesAppended
  <2> QED BY <1>9, <2>1
<1>11. Entries(Append(p, Listen)) = Entries(p) \cup {Listen}
  BY <1>8, <1>10, EntriesAppended
<1>12. \A r \in Entries(up'[b]) : r \in Entries(up[b]) \/ r = w \/ r = Listen
  BY <1>3, <1>10, <1>11
<1>13. FineRequest(b, w)'
  BY <1>5, <1>8 DEF FineRequest
<1>14. \A r : r = Listen => FineRequest(b, r)'
  BY <1>8 DEF FineRequest, NodeOps
<1>15. \A r \in Entries(up'[b]) : r \in Entries(up[b]) \/ FineRequest(b, r)'
  BY <1>12, <1>13, <1>14
<1> QED BY <1>3, <1>5, <1>6, <1>7, <1>15 DEF FineStep

LEMMA FineNoLists ==
  ASSUME Running, NEW b \in Apps, ~Ended(b), Fine(b), LoadNoLists(b)
  PROVE  FineStep(b)
<1>1. /\ events[b] # <<>> /\ events'[b] = Tail(events[b])
      /\ up'[b] = Append(up[b], Listen) /\ data' = data /\ screen'[b] = "enabled"
  BY DEF LoadNoLists, Next1, Handled, Loaded, Running, TypeOK
<1>2. Listen \in Requests /\ \A r : r = Listen => FineRequest(b, r)'
  BY DEF Requests, Listen, FineRequest, NodeOps
<1>3. Entries(up'[b]) = Entries(up[b]) \cup {Listen}
  BY <1>1, <1>2, EntriesOfQueues, EntriesAppended DEF Running
<1>4. Entries(events'[b]) \subseteq Entries(events[b])
  BY <1>1, FineOldest
<1> QED BY <1>1, <1>2, <1>3, <1>4 DEF FineStep

LEMMA FineLoadLists ==
  ASSUME Running, NEW b \in Apps, ~Ended(b), Fine(b), LoadLists(b)
  PROVE  FineStep(b)
<1> DEFINE S    == Head(events[b]).ids
           At   == {l \in S : AtHand(b, l, up[b], Tail(events[b]))}
           Away == S \ At
           Y    == {}
<1>1. PICK now \in SetToSeqs(At), later \in SetToSeqs(Away) :
         /\ events' = [events EXCEPT ![b] = Tail(@) \o
              [k \in DOMAIN now |-> NodeEvent("loaded", now[k], ListOf(server, up[b], now[k]))]]
         /\ up' = [up EXCEPT ![b] = @ \o [k \in DOMAIN later |-> Node("loaded", later[k])]]
  BY DEF LoadLists
<1>2. /\ events[b] # <<>> /\ Head(events[b]).type = "keys"
      /\ data' = data /\ screen' = screen
  BY DEF LoadLists, Next1
<1>3. /\ At \in SUBSET Lists /\ Away \in SUBSET Lists /\ IsFiniteSet(At) /\ IsFiniteSet(Away)
      /\ \A l \in S : l \in Lists /\ Right(b, l) /\ Right(b, l)'
                      /\ (ListOf(server, up[b], l) = Absent => Lost(b, l)')
  <2>1. S \in SUBSET Lists /\ \A l \in S : Right(b, l)
    BY <1>2, FineOldest DEF FineEvent
  <2>2. \A l \in S : Right(b, l)' /\ (ListOf(server, up[b], l) = Absent => Lost(b, l)')
    BY <2>1, RunningKeys
  <2> QED BY <2>1, <2>2, ListsFinite, FS_Subset
<1> DEFINE s == [k \in DOMAIN now |-> NodeEvent("loaded", now[k], ListOf(server, up[b], now[k]))]
           r == [k \in DOMAIN later |-> Node("loaded", later[k])]
<1>4. events'[b] = Tail(events[b]) \o s /\ up'[b] = up[b] \o r
  BY <1>1 DEF Running, TypeOK
<1>5. now \in Seq(At) /\ later \in Seq(Away)
  <2> HIDE DEF At, Away
  <2> QED BY <1>1, <1>3, OrderLists
<1>6. \A k \in DOMAIN now : now[k] \in S
  BY <1>5
<1>7. \A k \in DOMAIN later : later[k] \in S
  BY <1>5
<1>8. s \in Seq(Events)
  <2>1. up[b] \in Seq(Requests) /\ server \in Tree
    BY DEF Running, TypeOK
  <2>2. \A l \in Lists : NodeEvent("loaded", l, ListOf(server, up[b], l)) \in Events
    BY <2>1, ListOfType DEF NodeEvent, Events, NodeOps
  <2>3. EntryEach(s, now, Events, Y, Y)
    BY <2>2 DEF EntryEach
  <2>4. Y \in SUBSET Lists
    OBVIOUS
  <2> HIDE DEF s, At, Y
  <2> QED BY <1>3, <2>3, <2>4, Listed
<1>9. r \in Seq(Requests)
  <2>1. \A l \in Lists : Node("loaded", l) \in Requests
    BY DEF Node, Requests, NodeOps
  <2>2. EntryEach(r, later, Requests, Y, Y)
    BY <2>1 DEF EntryEach
  <2>3. Y \in SUBSET Lists
    OBVIOUS
  <2> HIDE DEF r, Away, Y
  <2> QED BY <1>3, <2>2, <2>3, Listed
<1>10. ASSUME NEW x \in Entries(s) PROVE FineEvent(b, x)'
  <2>1. PICK k \in DOMAIN now :
           x = NodeEvent("loaded", now[k], ListOf(server, up[b], now[k]))
    BY DEF Entries
  <2>2. PICK l \in S : x = NodeEvent("loaded", l, ListOf(server, up[b], l))
    BY <1>6, <2>1
  <2>3. x.id = l /\ x.type \in NodeOps /\ (x.node = Absent => Lost(b, l)')
    BY <1>3, <2>2 DEF NodeEvent, NodeOps
  <2> HIDE DEF S
  <2> QED BY <1>3, <2>3, FineEntry
<1>11. ASSUME NEW x \in Entries(r) PROVE FineRequest(b, x)'
  <2>1. PICK k \in DOMAIN later : x = Node("loaded", later[k])
    BY DEF Entries
  <2>2. PICK l \in S : x = Node("loaded", l)
    BY <1>7, <2>1
  <2>3. x.id = l
    BY <2>2 DEF Node
  <2> HIDE DEF S
  <2> QED BY <1>3, <2>3 DEF FineRequest
<1> HIDE DEF s, r
<1>12. /\ Entries(events'[b]) = Entries(Tail(events[b])) \cup Entries(s)
       /\ Entries(Tail(events[b])) \subseteq Entries(events[b])
  <2>1. /\ Tail(events[b]) \in Seq(Events)
        /\ Entries(Tail(events[b])) \subseteq Entries(events[b])
    BY <1>2, FineOldest
  <2>2. \A q \in Seq(Events) : Entries(q \o s) = Entries(q) \cup Entries(s)
    BY <1>8, EntriesJoined
  <2> QED BY <1>4, <2>1, <2>2
<1>13. Entries(up'[b]) = Entries(up[b]) \cup Entries(r)
  BY <1>4, <1>9, EntriesJoined, EntriesOfQueues DEF Running
<1> QED BY <1>2, <1>10, <1>11, <1>12, <1>13 DEF FineStep, Fine

LEMMA FineUser ==
  ASSUME Running, NEW b \in Apps, ~Ended(b), Fine(b), UserStep(b) \/ TimeoutGuardFired(b)
  PROVE  FineStep(b)
<1>1. CASE OpenLists(b)
  <2>1. /\ screen[b] \in Closed /\ up'[b] = <<Keys>> /\ screen'[b] = "loading"
        /\ events' = events /\ data' = data
    BY <1>1 DEF OpenLists, Running, TypeOK
  <2>2. FineRequest(b, Keys)'
    BY DEF FineRequest, Keys, NodeOps
  <2>3. \A r \in Entries(up'[b]) : r = Keys
    BY <2>1 DEF Entries
  <2> QED BY <2>1, <2>2, <2>3 DEF FineStep
<1>2. CASE Quit(b) \/ SelectNoList(b)
  BY <1>2 DEF Quit, SelectNoList, Reset, Ended, Running, TypeOK
<1>3. CASE AddNewList(b)
  <2>1. PICK l \in Lists : Send(b, AddOf(l, owner[b]))
    BY <1>3 DEF AddNewList
  <2>2. AddOf(l, owner[b]) \in Writes
    BY DEF AddOf, Writes, WriteOps, Running, TypeOK
  <2>3. server' = server /\ data' = data /\ screen' = screen
    BY <1>3 DEF AddNewList, app
  <2> QED BY <2>1, <2>2, <2>3, FineSend
<1>4. CASE AcceptInvitation(b)
  <2>1. PICK l \in heard : Send(b, JoinOf(l, owner[b]))
    BY <1>4 DEF AcceptInvitation
  <2>2. JoinOf(l, owner[b]) \in Writes
    BY DEF JoinOf, Writes, WriteOps, Running, TypeOK
  <2>3. server' = server /\ data' = data /\ screen' = screen
    BY <1>4 DEF AcceptInvitation, app
  <2> QED BY <2>1, <2>2, <2>3, FineSend
<1>5. CASE RemoveList(b)
  <2>1. PICK k \in DOMAIN data[b] : ReadNode(b, "users", data[b][k], events[b])
    BY <1>5 DEF RemoveList
  <2>2. /\ data[b][k] \in Lists /\ data[b][k] \in Entries(data[b])
        /\ events[b] \in Seq(Events) /\ data' = data
    BY <1>5, <2>1 DEF RemoveList, app, Running, TypeOK, Entries
  <2>3. Right(b, data[b][k]) /\ "users" \in NodeOps
    BY <2>2 DEF Fine, NodeOps
  <2> QED BY <2>1, <2>2, <2>3, FineReadNode
<1>6. CASE TimeoutGuardFired(b)
  <2>1. up' = up /\ events' = events /\ data' = data /\ screen'[b] = "enabled"
    BY <1>6 DEF TimeoutGuardFired, sdk, Running, TypeOK
  <2> QED BY <2>1 DEF FineStep
<1> QED BY <1>1, <1>2, <1>3, <1>4, <1>5, <1>6 DEF UserStep

\* The other callbacks: a key went, a list's users arrived.
LEMMA FineChildRemoved ==
  ASSUME Running, NEW b \in Apps, ~Ended(b), Fine(b), ListsKeysChildRemoved(b)
  PROVE  FineStep(b)
<1>1. /\ events[b] # <<>> /\ events'[b] = Tail(events[b]) /\ up' = up
      /\ data'[b] = RemoveFirst(data[b], Head(events[b]).id) /\ data[b] \in Seq(Lists)
  BY DEF ListsKeysChildRemoved, Next1, Handled, Running, TypeOK
<1>2. Entries(Tail(events[b])) \subseteq Entries(events[b])
  BY <1>1, FineOldest
<1>3. Entries(data'[b]) \subseteq Entries(data[b])
  BY <1>1, RemoveFirstQueue DEF Entries
<1> QED BY <1>1, <1>2, <1>3 DEF FineStep

LEMMA FineUsersRead ==
  ASSUME Running, NEW b \in Apps, ~Ended(b), Fine(b), RemoveListUsersRead(b)
  PROVE  FineStep(b)
<1>1. PICK w : w = RemoveOf(Head(events[b]).id, Head(events[b]).node)
  OBVIOUS
<1>2. PICK l : l = Head(events[b]).id
  OBVIOUS
<1>3. /\ events[b] # <<>> /\ l \in Lists /\ Head(events[b]).node \in SUBSET Users
      /\ server' = server /\ data' = data /\ up'[b] = Append(up[b], w)
      /\ events'[b] = Tail(events[b]) \o Raised(b, server', up'[b], l)
  BY <1>1, <1>2, OldestEvent DEF RemoveListUsersRead, Next1, NodeOps, Slot, Running, TypeOK, app
<1>4. w \in Requests /\ w.op \notin NodeOps
  BY <1>1, <1>2, <1>3 DEF RemoveOf, Requests, Writes, WriteOps, NodeOps
<1>5. Entries(up'[b]) = Entries(up[b]) \cup {w} /\ FineRequest(b, w)'
  <2>1. Entries(up'[b]) = Entries(up[b]) \cup {w}
    BY <1>3, <1>4, EntriesAppended, EntriesOfQueues DEF Running
  <2> QED BY <1>4, <2>1 DEF FineRequest
<1>6. Tail(events[b]) \in Seq(Events) /\ Entries(Tail(events[b])) \subseteq Entries(events[b])
  BY <1>3, FineOldest
<1> DEFINE s == Raised(b, server', up'[b], l)
<1>7. s \in Seq(Events) /\ \A e \in Entries(s) : FineEvent(b, e)'
  BY <1>3, RunningRaised
<1> HIDE DEF s
<1>8. Entries(events'[b]) = Entries(Tail(events[b])) \cup Entries(s)
  <2>1. events'[b] = Tail(events[b]) \o s
    BY <1>3 DEF s
  <2>2. \A q \in Seq(Events) : Entries(q \o s) = Entries(q) \cup Entries(s)
    BY <1>7, EntriesJoined
  <2> QED BY <1>6, <2>1, <2>2
<1> QED BY <1>3, <1>5, <1>6, <1>7, <1>8 DEF FineStep

LEMMA FineReject ==
  ASSUME Running, NEW b \in Apps, ~Ended(b), Fine(b), Reject(b)
  PROVE  FineStep(b)
<1> DEFINE l == Head(up[b]).id
<1>1. /\ up[b] # <<>> /\ Head(up[b]).op \in WriteOps /\ up'[b] = Tail(up[b])
      /\ data' = data /\ server' = server
      /\ events'[b] = events[b] \o Raised(b, server', up'[b], l)
  BY DEF Reject, Answered, app, Running, TypeOK
<1>2. l \in Lists
  BY <1>1, OldestRequest DEF Writes, Running
<1>3. Entries(up'[b]) \subseteq Entries(up[b])
  BY <1>1, EntriesOfQueues DEF Running
<1> HIDE DEF l
<1> QED BY <1>1, <1>2, <1>3, FineTold

\* Every step of any app keeps Fine, ...
LEMMA FineKept ==
  ASSUME Running, NEW b \in Apps, Fine(b)
  PROVE  Fine(b)'
<1>1. CASE Ended(b)
  BY <1>1, EntriesNone DEF Ended, Fine
<1>2. CASE ~Ended(b)
  <2>1. ASSUME up'[b] = up[b], events'[b] = events[b], data'[b] = data[b]
        PROVE  FineStep(b)
    BY <2>1 DEF FineStep
  <2>2. ASSUME UNCHANGED vars PROVE FineStep(b)
    BY <2>1, <2>2 DEF vars, sdk, app
  <2>3. ASSUME NEW a \in Apps, b # a,
               \/ AnswerKeys(a) \/ AnswerListen(a) \/ AnswerNode(a) \/ Reject(a) \/ MainStep(a)
               \/ TimeoutGuardFired(a) \/ UserStep(a)
        PROVE  FineStep(b)
    BY <2>1, <2>3, OthersKept DEF Running, AppKept
  <2>4. ASSUME NEW a \in Apps, Commit(a) PROVE FineStep(b)
    BY <1>2, <2>4, FineCommit
  <2>5. ASSUME AnswerKeys(b) \/ AnswerListen(b) \/ AnswerNode(b) \/ Reject(b) PROVE FineStep(b)
    BY <1>2, <2>5, FineAnswerKeys, FineAnswerListen, FineAnswerNode, FineReject
  <2>6. ~NoSuchList(b)
    BY <1>2 DEF NoSuchList, Reset, Ended, Running, TypeOK
  <2>7. ASSUME MainStep(b) PROVE FineStep(b)
    BY <1>2, <2>6, <2>7, FineNoLists, FineLoadLists, FineNewRow, FineChildAdded, FineChildRemoved,
       FineUsersRead DEF MainStep
  <2>8. ASSUME UserStep(b) \/ TimeoutGuardFired(b) PROVE FineStep(b)
    BY <1>2, <2>8, FineUser
  <2>9. FineStep(b)
    <3>1. [Next]_vars
      BY DEF Running
    <3> QED BY <2>2, <2>3, <2>4, <2>5, <2>7, <2>8, <3>1 DEF Next, ServerStep
  <2> QED BY <1>2, <2>9, FineNext
<1> QED BY <1>1, <1>2

\* Before a removal is sent, the server has heard of the list.
LEMMA AllBornStep ==
  ASSUME TypeOK, TypeOK', AllLoad, AllBorn, AllFine, [Next]_vars
  PROVE  AllBorn'
<1> SUFFICES ASSUME NEW l \in Lists PROVE BornOf(l)'
  BY DEF AllBorn
<1>1. BornOf(l)
  BY DEF AllBorn
<1>2. ASSUME NEW b \in Apps, RemoveListUsersRead(b), l = Head(events[b]).id
      PROVE  l \in heard \/ Adding(b, l)
  <2>1. events[b] # <<>> /\ Head(events[b]).type = "users"
    BY <1>2 DEF RemoveListUsersRead, Next1
  <2>2. Head(events[b]) \in Entries(events[b])
    BY <2>1, EntriesOfQueues
  <2>3. Right(b, l)
    BY <1>2, <2>1, <2>2 DEF AllFine, Fine, FineEvent, NodeOps
  <2> QED BY <1>1, <2>3, RightKnown
<1> QED BY <1>1, <1>2, BornStep

\* ... and so it holds in every state.
LEMMA AlwaysFine == Spec => [](AllBorn /\ AllFine)
<1>1. Init => AllBorn /\ AllFine
  <2> SUFFICES ASSUME Init, NEW b \in Apps PROVE Fine(b)
    BY BornInit DEF AllFine
  <2>1. up[b] = <<>> /\ events[b] = <<>> /\ data[b] = <<>>
    BY DEF Init
  <2> QED BY <2>1, EntriesNone DEF Fine
<1>2. TypeOK /\ TypeOK' /\ AllLoad /\ AllBorn /\ AllFine /\ [Next]_vars => AllBorn' /\ AllFine'
  <2> SUFFICES ASSUME TypeOK, TypeOK', AllLoad, AllBorn, AllFine, [Next]_vars
               PROVE  AllBorn' /\ AllFine'
    OBVIOUS
  <2>1. AllBorn'
    BY AllBornStep
  <2>2. Running
    BY <2>1 DEF Running
  <2> QED BY <2>1, <2>2, FineKept DEF AllFine
<1> QED BY <1>1, <1>2, TypeCorrect, AlwaysLoads, PTL DEF Spec

-----------------------------------------------------------------------------
(***************************************************************************)
(* Without refusals and removals nothing is lost.                          *)
(***************************************************************************)

\* Nothing but a cast of a node that is not there ends an app badly.
LEMMA CastsFail ==
  ASSUME TypeOK, [Next]_vars, NEW b \in Apps, screen'[b] = "badcast", screen[b] # "badcast"
  PROVE  NoSuchList(b)
<1>1. CASE UNCHANGED vars
  BY <1>1 DEF vars, app
<1>2. ASSUME NEW a \in Apps, ServerStep(a) \/ Reject(a) PROVE FALSE
  BY <1>2 DEF ServerStep, AnswerKeys, AnswerListen, AnswerNode, Commit, Reject, app
<1>3. ASSUME NEW a \in Apps, MainStep(a) \/ TimeoutGuardFired(a), ~NoSuchList(a) PROVE FALSE
  BY <1>3 DEF MainStep, LoadNoLists, LoadLists, ListLoaded, Loaded, ListsKeysChildAdded, ListRead,
     ListsKeysChildRemoved, RemoveListUsersRead, TimeoutGuardFired, app, TypeOK
<1>4. ASSUME NEW a \in Apps, UserStep(a) PROVE FALSE
  <2>1. screen'[b] = screen[b] \/ screen'[b] \in {"loading", "closed", "nolist"}
    BY <1>4 DEF UserStep, OpenLists, Quit, AddNewList, AcceptInvitation, RemoveList, SelectNoList,
       Reset, app, TypeOK
  <2> QED BY <2>1
<1>5. ASSUME NEW a \in Apps, NoSuchList(a), a # b PROVE FALSE
  BY <1>5 DEF NoSuchList, Reset, TypeOK
<1> QED BY <1>1, <1>2, <1>3, <1>4, <1>5 DEF Next

Unrefused == refused = {}

\* Without refusals nothing is ever refused, ...
LEMMA NeverRefused ==
  ASSUME MaxRejects = 0
  PROVE  Spec => []Unrefused
<1>1. Init => Unrefused
  BY DEF Init, Unrefused
<1>2. TypeOK /\ Unrefused /\ [Next]_vars => Unrefused'
  <2> SUFFICES ASSUME TypeOK, Unrefused, [Next]_vars PROVE Unrefused'
    OBVIOUS
  <2>1. \A a \in Apps : ~Reject(a)
    BY DEF Reject, TypeOK
  <2>2. ASSUME NEW a \in Apps, ServerStep(a) PROVE Unrefused'
    BY <2>2 DEF ServerStep, AnswerKeys, AnswerListen, AnswerNode, Commit, told, Unrefused
  <2>3. ASSUME NEW a \in Apps, MainStep(a) \/ TimeoutGuardFired(a) PROVE Unrefused'
    BY <2>3 DEF MainStep, LoadNoLists, LoadLists, ListLoaded, ListsKeysChildAdded, ListRead,
       ListsKeysChildRemoved, RemoveListUsersRead, NoSuchList, TimeoutGuardFired, told, Unrefused
  <2>4. ASSUME NEW a \in Apps, UserStep(a) PROVE Unrefused'
    BY <2>4 DEF UserStep, OpenLists, Quit, AddNewList, AcceptInvitation, RemoveList,
       SelectNoList, told, Unrefused
  <2>5. CASE UNCHANGED vars
    BY <2>5 DEF vars, told, Unrefused
  <2> QED BY <2>1, <2>2, <2>3, <2>4, <2>5 DEF Next
<1> QED BY <1>1, <1>2, TypeCorrect, PTL DEF Spec

\* ... and with the keys naming lists, nothing is lost.
LEMMA NothingLost ==
  ASSUME TypeOK, Kept, Unrefused, NEW b \in Apps, NEW l \in Lists
  PROVE  ~Lost(b, l)
<1>1. ~Removing(b, l)
  <2>1. up[b] \in Seq(Requests) /\ \A r \in Entries(up[b]) : r.op # "remove"
    BY DEF TypeOK, Kept, OnlyNew
  <2> QED BY <2>1 DEF Removing, Places, RemovesOf, WritesTo, Entries
<1>2. l \in heard => server.lists[l] # Absent
  BY DEF Kept, HeardIsThere
<1> QED BY <1>1, <1>2 DEF Lost, Unrefused

\* The casts of a list's node never fail: as long as nothing removes a list and no write
\* is refused, every list that an app asks for by its key, on any of the four ways to
\* its node, is there when the answer is handled.
THEOREM CastsNeverFail ==
  ASSUME ~Removal, MaxRejects = 0
  PROVE  Spec => []NoBadCast
<1>1. Init => NoBadCast
  BY DEF Init, NoBadCast
<1>2. TypeOK /\ Kept /\ Unrefused /\ AllFine /\ NoBadCast /\ [Next]_vars => NoBadCast'
  <2> SUFFICES ASSUME TypeOK, Kept, Unrefused, AllFine, NoBadCast, [Next]_vars, NEW b \in Apps
               PROVE  screen'[b] # "badcast"
    BY DEF NoBadCast
  <2>1. screen[b] # "badcast"
    BY DEF NoBadCast
  <2>2. ASSUME NoSuchList(b) PROVE FALSE
    <3>1. /\ events[b] # <<>> /\ Head(events[b]).type \in NodeOps
          /\ Head(events[b]).node = Absent
      BY <2>2 DEF NoSuchList
    <3>2. Head(events[b]) \in Entries(events[b]) /\ Head(events[b]).id \in Lists
      BY <3>1, EntriesOfQueues, OldestEvent
    <3>3. Lost(b, Head(events[b]).id)
      BY <3>1, <3>2 DEF AllFine, Fine, FineEvent
    <3> QED BY <3>2, <3>3, NothingLost
  <2> QED BY <2>1, <2>2, CastsFail
<1> QED BY <1>1, <1>2, TypeCorrect, KeptHolds, NeverRefused, AlwaysFine, PTL DEF Spec

-----------------------------------------------------------------------------
(***************************************************************************)
(* What a step tells an app of a list: of its key, where it changes, and   *)
(* of its node, which is there only for a key that is not lost.            *)
(***************************************************************************)
NewKey(l)  == {KeyEvent("added", l)}
OldKey(l)  == {KeyEvent("removed", l)}
NodeHere(l) == [type : {"list", "loaded"}, id : {l}, node : SUBSET Users]

Quiet(b, l, s) == \A e \in Entries(s) :
    /\ e \notin NewKey(l) /\ e \notin OldKey(l)
    /\ e \in NodeHere(l) => l \in refused \/ (Has(b, l) /\ ~Lost(b, l))

HasKept(b, l) == Has(b, l)' <=> Has(b, l)

\* The callbacks s join, when none or the oldest is handled.
Brings(b, s) == /\ s \in Seq(Events)
                /\ \/ events'[b] = events[b] \o s
                   \/ events[b] # <<>> /\ events'[b] = Tail(events[b]) \o s

\* A node that is removed, or never made, is not seen.
LEMMA GoneNode ==
  ASSUME NEW q \in Seq(Requests), NEW l, NEW s, Before(q, AddsOf(l), OthersOf(l)),
         \/ Places(q, RemovesOf(l)) # {}
         \/ s.lists[l] = Absent /\ Places(q, AddsOf(l)) = {}
  PROVE  ListOf(s, q, l) = Absent
<1> DEFINE P == OnList(q, l)
<1>1. \A k \in P : k \in DOMAIN q /\ q[k] \in WritesTo(l)
                   /\ (q[k].op = "add" \/ q[k].op = "remove")
  <2>1. \A k \in DOMAIN q : q[k].op \in {"add", "remove"} => q[k] \in Writes
    BY RequestForms DEF WriteOps
  <2> QED BY <2>1 DEF OnList, WritesTo
<1>2. Places(q, RemovesOf(l)) \subseteq P
  BY DEF Places, RemovesOf, WritesTo, OnList
<1>3. CASE P = {}
  BY <1>2, <1>3 DEF ListOf
<1>4. CASE P # {}
  <2>1. P \in SUBSET (1 .. Len(q)) /\ Len(q) \in Nat
    BY DEF OnList
  <2>2. Max(P) \in P /\ \A j \in P : j <= Max(P)
    BY <1>4, <2>1, MaxExists
  <2>3. PICK w : w = q[Max(P)]
    OBVIOUS
  <2>4. w \in WritesTo(l) /\ (w.op = "add" \/ w.op = "remove") /\ Max(P) \in DOMAIN q
    BY <1>1, <2>2, <2>3
  <2>5. ListOf(s, q, l) = IF w.op = "add" THEN w.users ELSE Absent
    BY <1>4, <2>3 DEF ListOf
  <2>6. ASSUME w.op = "add" PROVE FALSE
    <3>1. Max(P) \in Places(q, AddsOf(l))
      BY <2>3, <2>4, <2>6 DEF Places, AddsOf
    <3>2. PICK r \in Places(q, RemovesOf(l)) : r \in Places(q, OthersOf(l))
      BY <3>1, WriteKinds DEF Places, RemovesOf, OthersOf, AddsOf
    <3>3. Max(P) < r /\ r <= Max(P)
      BY <1>2, <2>2, <3>1, <3>2 DEF Before
    <3>4. Max(P) \in Nat /\ r \in Nat
      BY <1>2, <2>1, <2>2, <3>2
    <3> QED BY <3>3, <3>4
  <2> QED BY <2>5, <2>6
<1> QED BY <1>3, <1>4

\* b sees no node of a list that is lost, unless a refusal lost it.
LEMMA LostNode ==
  ASSUME TypeOK, NEW b \in Apps, NEW l \in Lists, BornOf(l), NEW q \in Seq(Requests),
         SameWrites(up[b], q, l), Lost(b, l), l \notin refused
  PROVE  ListOf(server, q, l) = Absent
<1>1. Ordered(b, l)
  BY DEF BornOf
<1>2. Removing(b, l) \/ (server.lists[l] = Absent /\ ~Adding(b, l))
  BY <1>1 DEF Lost, Ordered
<1>3. Before(q, AddsOf(l), OthersOf(l))
  BY <1>1, WriteKinds DEF SameWrites, Ordered
<1>4. \/ Places(q, RemovesOf(l)) # {}
      \/ server.lists[l] = Absent /\ Places(q, AddsOf(l)) = {}
  BY <1>2, WriteKinds DEF SameWrites, Removing, Adding
<1> QED BY <1>3, <1>4, GoneNode

\* A callback with a node that b asked for.
LEMMA QuietNode ==
  ASSUME Running, NEW b \in Apps, NEW l \in Lists, NEW m \in Lists, Right(b, m),
         NEW q \in Seq(Requests), SameWrites(up[b], q, m), NEW o \in NodeOps, NEW e,
         e = NodeEvent(o, m, ListOf(server, q, m))
  PROVE  /\ e \notin NewKey(l) /\ e \notin OldKey(l)
         /\ e \in NodeHere(l) => l \in refused \/ (Has(b, l) /\ ~Lost(b, l))
<1>1. e.type \notin {"added", "removed"}
  BY DEF NodeEvent, NodeOps
<1>2. ASSUME e \in NodeHere(l) PROVE m = l /\ ListOf(server, q, m) # Absent
  BY <1>2, AbsentIsNothing DEF NodeHere, NodeEvent
<1>3. TypeOK /\ BornOf(m)
  BY DEF Running, AllBorn
<1> QED BY <1>1, <1>2, <1>3, LostNode DEF NewKey, OldKey, KeyEvent, Right

\* A callback of a key is about that key.
LEMMA QuietRaised ==
  ASSUME NEW b, NEW s, NEW q, NEW m, NEW l, m # l
  PROVE  Quiet(b, l, Raised(b, s, q, m))
<1>1. \A e \in Entries(Raised(b, s, q, m)) : e = KeyEvent("added", m) \/ e = KeyEvent("removed", m)
  BY DEF Raised, Entries
<1> QED BY <1>1 DEF Quiet, NewKey, OldKey, NodeHere, KeyEvent

\* The key of l stays what it is where no write to l is sent, taken or refused.
LEMMA HasSame ==
  ASSUME Running, NEW b \in Apps, NEW l \in Lists, SameWrites(up[b], up'[b], l),
         \A u \in Users : l \in server'.keys[u] <=> l \in server.keys[u]
  PROVE  HasKept(b, l)
<1>1. owner' = owner /\ owner[b] \in Users
  BY OwnerKept DEF Running, TypeOK
<1>2. HasKey(server', up'[b], owner[b], l) <=> HasKey(server', up[b], owner[b], l)
  BY DEF SameWrites
<1>3. HasKey(server', up[b], owner[b], l) <=> HasKey(server, up[b], owner[b], l)
  BY <1>1, HasFrom
<1> QED BY <1>1, <1>2, <1>3 DEF HasKept, Has

\* Callbacks that tell nothing of l.
LEMMA QuietNone ==
  ASSUME NEW b, NEW l
  PROVE  Quiet(b, l, <<>>) /\ <<>> \in Seq(Events) /\ \A q \in Seq(Events) : q \o <<>> = q
<1>1. Quiet(b, l, <<>>)
  BY EntriesNone DEF Quiet
<1> QED BY <1>1

\* One callback that announces no key.
LEMMA QuietOne ==
  ASSUME NEW b, NEW l, NEW e \in Events, e \notin NewKey(l), e \notin OldKey(l),
         e \in NodeHere(l) => l \in refused \/ (Has(b, l) /\ ~Lost(b, l))
  PROVE  /\ Quiet(b, l, <<e>>) /\ <<e>> \in Seq(Events)
         /\ \A q \in Seq(Events) : Append(q, e) = q \o <<e>>
<1>1. \A x \in Entries(<<e>>) : x = e
  BY DEF Entries
<1>2. Quiet(b, l, <<e>>)
  BY <1>1 DEF Quiet
<1>3. <<e>> \in Seq(Events)
  <2> HIDE DEF Events
  <2> QED OBVIOUS
<1> QED BY <1>2, <1>3, AppendIsConcat

-----------------------------------------------------------------------------
\* What a step tells b: of l's key, if that changes, or nothing of l that matters here.
Brought(b, l) == \E s :
    /\ Brings(b, s)
    /\ \/ s = Raised(b, server', up'[b], l)
       \/ Quiet(b, l, s) /\ HasKept(b, l)

\* A step that tells nothing, or one such callback, brings nothing unseen.
LEMMA BroughtNone ==
  ASSUME Running, NEW b \in Apps, NEW l \in Lists, HasKept(b, l),
         events'[b] = events[b] \/ (events[b] # <<>> /\ events'[b] = Tail(events[b]))
  PROVE  Brought(b, l)
<1>1. events[b] \in Seq(Events) /\ (events[b] # <<>> => Tail(events[b]) \in Seq(Events))
  BY EntriesOfQueues DEF Running
<1>2. Brings(b, <<>>) /\ Quiet(b, l, <<>>)
  <2>1. /\ events[b] \o <<>> = events[b]
        /\ events[b] # <<>> => Tail(events[b]) \o <<>> = Tail(events[b])
    BY <1>1, QuietNone
  <2> QED BY <2>1, QuietNone DEF Brings
<1> QED BY <1>2 DEF Brought

LEMMA BroughtOne ==
  ASSUME Running, NEW b \in Apps, NEW l \in Lists, HasKept(b, l),
         NEW e \in Events, e \notin NewKey(l), e \notin OldKey(l),
         e \in NodeHere(l) => l \in refused \/ (Has(b, l) /\ ~Lost(b, l)),
         \/ events'[b] = Append(events[b], e)
         \/ events[b] # <<>> /\ events'[b] = Append(Tail(events[b]), e)
  PROVE  Brought(b, l)
<1>1. events[b] \in Seq(Events) /\ (events[b] # <<>> => Tail(events[b]) \in Seq(Events))
  BY EntriesOfQueues DEF Running
<1>2. Brings(b, <<e>>) /\ Quiet(b, l, <<e>>)
  <2>1. /\ Append(events[b], e) = events[b] \o <<e>>
        /\ events[b] # <<>> => Append(Tail(events[b]), e) = Tail(events[b]) \o <<e>>
        /\ <<e>> \in Seq(Events) /\ Quiet(b, l, <<e>>)
    BY <1>1, QuietOne
  <2> QED BY <2>1 DEF Brings
<1> QED BY <1>2 DEF Brought

\* A write is told to those who listen, and only if they see a change.
LEMMA BroughtWrite ==
  ASSUME Running, NEW b \in Apps, NEW l \in Lists, NEW m \in Lists, m # l => HasKept(b, l),
         \/ events'[b] = events[b] \o Raised(b, server', up'[b], m)
         \/ /\ events[b] # <<>>
            /\ events'[b] = Tail(events[b]) \o Raised(b, server', up'[b], m)
  PROVE  Brought(b, l)
<1> DEFINE s == Raised(b, server', up'[b], m)
<1>1. s \in Seq(Events)
  BY RaisedNext DEF Running
<1>2. m # l => Quiet(b, l, s)
  BY QuietRaised
<1>3. m = l => s = Raised(b, server', up'[b], l)
  OBVIOUS
<1> HIDE DEF s
<1>4. Brings(b, s)
  BY <1>1 DEF Brings, s
<1> QED BY <1>2, <1>3, <1>4 DEF Brought

\* The writes.
LEMMA BroughtCommit ==
  ASSUME Running, NEW a \in Apps, Commit(a), NEW b \in Apps, NEW l \in Lists
  PROVE  Brought(b, l)
<1>1. PICK w : w = Head(up[a])
  OBVIOUS
<1>2. /\ up[a] # <<>> /\ w.op \in WriteOps /\ up' = [up EXCEPT ![a] = Tail(@)]
      /\ events'[b] = events[b] \o Raised(b, server', up'[b], w.id)
      /\ server' = Apply(w, server)
  BY <1>1 DEF Commit, Answered
<1>3. w \in Writes /\ w.id \in Lists
  BY <1>1, <1>2, OldestRequest DEF Writes, Running
<1>4. ASSUME w.id # l PROVE HasKept(b, l)
  <2>1. \A u \in Users : l \in server'.keys[u] <=> l \in server.keys[u]
    <3>1. server'.keys = [u \in Users |-> IF u \notin w.users THEN server.keys[u]
                                         ELSE IF w.op = "remove" THEN server.keys[u] \ {w.id}
                                         ELSE server.keys[u] \cup {w.id}]
      BY <1>2 DEF Apply
    <3> QED BY <1>4, <3>1
  <2>2. up'[b] = up[b] \/ (b = a /\ up'[b] = Tail(up[b]))
    BY <1>2 DEF Running, TypeOK
  <2>3. SameWrites(up[b], up[b], l)
    BY SameItself
  <2>4. b = a => SameWrites(up[b], Tail(up[b]), l)
    <3>1. w \notin WritesTo(l)
      BY <1>4 DEF WritesTo
    <3> QED BY <1>1, <1>2, <3>1, SameTail DEF Running, TypeOK
  <2> QED BY <2>1, <2>2, <2>3, <2>4, HasSame
<1> QED BY <1>2, <1>3, <1>4, BroughtWrite

\* The actions one by one.
LEMMA BroughtReject ==
  ASSUME Running, NEW b \in Apps, Reject(b), NEW l \in Lists
  PROVE  Brought(b, l)
<1>1. PICK w : w = Head(up[b])
  OBVIOUS
<1>2. /\ up[b] # <<>> /\ w.op \in WriteOps /\ up'[b] = Tail(up[b])
      /\ events'[b] = events[b] \o Raised(b, server', up'[b], w.id)
      /\ server' = server
  BY <1>1 DEF Reject, Answered, Running, TypeOK
<1>3. w \in Writes /\ w.id \in Lists
  BY <1>1, <1>2, OldestRequest DEF Writes, Running
<1>4. ASSUME w.id # l PROVE HasKept(b, l)
  <2>1. w \notin WritesTo(l)
    BY <1>4 DEF WritesTo
  <2>2. SameWrites(up[b], up'[b], l)
    BY <1>1, <1>2, <2>1, SameTail DEF Running, TypeOK
  <2> QED BY <1>2, <2>2, HasSame
<1> QED BY <1>2, <1>3, <1>4, BroughtWrite

LEMMA BroughtSend ==
  ASSUME Running, NEW b \in Apps, NEW l \in Lists, NEW w \in Writes, server' = server,
         up'[b] = Append(up[b], w),
         \/ events'[b] = events[b] \o Raised(b, server, up'[b], w.id)
         \/ /\ events[b] # <<>>
            /\ events'[b] = Tail(events[b]) \o Raised(b, server, up'[b], w.id)
  PROVE  Brought(b, l)
<1>1. w.id \in Lists /\ w \in Requests
  BY DEF Writes, Requests
<1>2. ASSUME w.id # l PROVE HasKept(b, l)
  <2>1. w \notin WritesTo(l)
    BY <1>2 DEF WritesTo
  <2>2. SameWrites(up[b], up'[b], l)
    BY <1>1, <2>1, SameAppended DEF Running, TypeOK
  <2> QED BY <2>2, HasSame
<1> QED BY <1>1, <1>2, BroughtWrite

LEMMA BroughtUser ==
  ASSUME Running, NEW b \in Apps, NEW l \in Lists, AddNewList(b) \/ AcceptInvitation(b)
  PROVE  Brought(b, l)
<1>1. PICK w \in Writes : Send(b, w)
  <2>1. owner[b] \in Users /\ heard \subseteq Lists
    BY DEF Running, TypeOK
  <2>2. CASE AddNewList(b)
    <3>1. PICK m \in Lists : Send(b, AddOf(m, owner[b]))
      BY <2>2 DEF AddNewList
    <3>2. AddOf(m, owner[b]) \in Writes
      BY <2>1 DEF AddOf, Writes, WriteOps
    <3> QED BY <3>1, <3>2
  <2>3. CASE AcceptInvitation(b)
    <3>1. PICK m \in heard : Send(b, JoinOf(m, owner[b]))
      BY <2>3 DEF AcceptInvitation
    <3>2. JoinOf(m, owner[b]) \in Writes
      BY <2>1 DEF JoinOf, Writes, WriteOps
    <3> QED BY <3>1, <3>2
  <2> QED BY <2>2, <2>3
<1>2. server' = server
  BY DEF AddNewList, AcceptInvitation
<1>3. /\ up'[b] = Append(up[b], w)
      /\ events'[b] = events[b] \o Raised(b, server, up'[b], w.id)
  BY <1>1 DEF Send, Running, TypeOK
<1> QED BY <1>2, <1>3, BroughtSend

LEMMA BroughtUsersRead ==
  ASSUME Running, NEW b \in Apps, NEW l \in Lists, RemoveListUsersRead(b)
  PROVE  Brought(b, l)
<1>1. PICK w : w = RemoveOf(Head(events[b]).id, Head(events[b]).node)
  OBVIOUS
<1>2. /\ events[b] # <<>> /\ Head(events[b]).id \in Lists /\ Head(events[b]).node \in SUBSET Users
      /\ server' = server /\ up'[b] = Append(up[b], w)
      /\ events'[b] = Tail(events[b]) \o Raised(b, server, up'[b], Head(events[b]).id)
  BY <1>1, OldestEvent DEF RemoveListUsersRead, Next1, NodeOps, Slot, Running, TypeOK
<1>3. w \in Writes /\ w.id = Head(events[b]).id
  BY <1>1, <1>2 DEF RemoveOf, Writes, WriteOps
<1> QED BY <1>2, <1>3, BroughtSend

-----------------------------------------------------------------------------
\* The reads and their callbacks.
LEMMA ReadsKeep ==
  ASSUME Running, NEW b \in Apps, NEW l \in Lists,
         \/ AnswerKeys(b) \/ AnswerListen(b) \/ AnswerNode(b)
         \/ LoadNoLists(b) \/ LoadLists(b) \/ ListLoaded(b) \/ ListRead(b)
         \/ ListsKeysChildAdded(b) \/ ListsKeysChildRemoved(b) \/ RemoveList(b)
         \/ TimeoutGuardFired(b)
  PROVE  SameWrites(up[b], up'[b], l) /\ server' = server /\ HasKept(b, l)
<1>1. SameWrites(up[b], up'[b], l)
  BY WritesServer, WritesMain DEF Running
<1>2. server' = server
  BY DEF AnswerKeys, AnswerListen, AnswerNode, LoadNoLists, LoadLists, ListLoaded, ListRead,
     ListsKeysChildAdded, ListsKeysChildRemoved, RemoveList, TimeoutGuardFired
<1> QED BY <1>1, <1>2, HasSame

LEMMA BroughtKeys ==
  ASSUME Running, NEW b \in Apps, NEW l \in Lists, AnswerKeys(b)
  PROVE  Brought(b, l)
<1>1. PICK e : e = KeysEvent(KeysOf(server, up'[b], owner[b]))
  OBVIOUS
<1>2. events'[b] = Append(events[b], e)
  BY <1>1 DEF AnswerKeys, KeysEvent, Running, TypeOK
<1>3. e \in Events /\ e.type = "keys"
  BY <1>1 DEF KeysEvent, Events, KeysOf
<1>4. e \notin NewKey(l) /\ e \notin OldKey(l) /\ e \notin NodeHere(l)
  BY <1>3 DEF NewKey, OldKey, NodeHere, KeyEvent
<1> QED BY <1>2, <1>3, <1>4, ReadsKeep, BroughtOne

LEMMA BroughtNode ==
  ASSUME Running, NEW b \in Apps, Fine(b), NEW l \in Lists, AnswerNode(b)
  PROVE  Brought(b, l)
<1>1. PICK m : m = Head(up[b]).id
  OBVIOUS
<1> DEFINE mine  == {k \in DOMAIN up[b] : About(up[b][k], m)}
           R     == {k \in mine : up[b][k].op # "watch"}
           rest  == DOMAIN up[b] \ mine
           reads == Picked(up[b], R)
           q     == Picked(up[b], rest)
<1>2. PICK n : n = ListOf(server, q, m)
  OBVIOUS
<1> DEFINE s     == [k \in DOMAIN reads |-> NodeEvent(reads[k].op, m, n)]
<1>3. /\ up[b] # <<>> /\ Head(up[b]).op \in NodeOps
      /\ up[b] \in Seq(Requests) /\ events[b] \in Seq(Events)
      /\ up'[b] = q /\ events'[b] = events[b] \o s /\ server' = server
  <2>1. /\ up' = [up EXCEPT ![b] = q] /\ server' = server
        /\ up[b] # <<>> /\ Head(up[b]).op \in NodeOps
    BY <1>1 DEF AnswerNode
  <2>2. events' = [events EXCEPT ![b] = @ \o s]
    BY <1>1, <1>2, Zenon DEF AnswerNode
  <2> HIDE DEF q, s
  <2> QED BY <2>1, <2>2 DEF Running, TypeOK
<1>4. m \in Lists /\ Head(up[b]) \in Entries(up[b])
  BY <1>1, <1>3, OldestRequest, EntriesOfQueues DEF Running
<1>5. Right(b, m) /\ SameWrites(up[b], up'[b], m) /\ HasKept(b, l) /\ up'[b] \in Seq(Requests)
  BY <1>1, <1>3, <1>4, ReadsKeep, RunningKeys DEF Fine, FineRequest
<1>6. reads \in Seq({up[b][k] : k \in R})
  <2>1. R \in SUBSET DOMAIN up[b]
    OBVIOUS
  <2> HIDE DEF R
  <2> QED BY <1>3, <2>1, PickedQueue
<1>7. \A k \in DOMAIN reads : reads[k].op \in NodeOps
  <2>1. \A k \in R : up[b][k].op \in NodeOps
    BY DEF About
  <2> HIDE DEF reads, R
  <2> QED BY <1>6, <2>1
<1>8. n = ListOf(server, up'[b], m) /\ n \in Slot
  <2>1. n = ListOf(server, up'[b], m)
    BY <1>3, <1>2
  <2> QED BY <1>4, <1>5, <2>1, ListOfType DEF Running, TypeOK
<1>9. DOMAIN reads = 1 .. Len(reads) /\ Len(reads) \in Nat
  <2> HIDE DEF reads, R
  <2> QED BY <1>6
<1> HIDE DEF reads, q
<1>10. Quiet(b, l, s)
  <2> SUFFICES ASSUME NEW x \in Entries(s)
               PROVE  /\ x \notin NewKey(l) /\ x \notin OldKey(l)
                      /\ x \in NodeHere(l) => l \in refused \/ (Has(b, l) /\ ~Lost(b, l))
    BY DEF Quiet
  <2>1. PICK o \in NodeOps : x = NodeEvent(o, m, n)
    BY <1>7 DEF Entries
  <2>2. x = NodeEvent(o, m, ListOf(server, up'[b], m))
    BY <1>8, <2>1
  <2> QED BY <1>4, <1>5, <2>2, QuietNode
<1>11. s \in Seq(Events)
  <2>1. \A k \in DOMAIN reads : NodeEvent(reads[k].op, m, n) \in Events
    BY <1>4, <1>7, <1>8 DEF NodeEvent, Events
  <2> QED BY <1>9, <2>1
<1> HIDE DEF s
<1> QED BY <1>3, <1>5, <1>10, <1>11 DEF Brought, Brings

\* A node that is asked for, or told of at once.
LEMMA BroughtReadNode ==
  ASSUME Running, NEW b \in Apps, NEW l \in Lists, HasKept(b, l), NEW m \in Lists, Right(b, m),
         NEW o \in NodeOps, NEW ev, ReadNode(b, o, m, ev),
         ev = events[b] \/ (events[b] # <<>> /\ ev = Tail(events[b]))
  PROVE  Brought(b, l)
<1>1. PICK e : e = NodeEvent(o, m, ListOf(server, up[b], m))
  OBVIOUS
<1>2. events'[b] = Append(ev, e) \/ events'[b] = ev
  BY <1>1 DEF ReadNode, Running, TypeOK
<1>3. up[b] \in Seq(Requests) /\ SameWrites(up[b], up[b], m) /\ server \in Tree
  BY SameItself DEF Running, TypeOK
<1>4. e \in Events
  BY <1>1, <1>3, ListOfType DEF NodeEvent, Events
<1>5. /\ e \notin NewKey(l) /\ e \notin OldKey(l)
      /\ e \in NodeHere(l) => l \in refused \/ (Has(b, l) /\ ~Lost(b, l))
  BY <1>1, <1>3, QuietNode
<1>6. CASE events'[b] = ev
  BY <1>6, BroughtNone
<1>7. CASE events'[b] = Append(ev, e)
  BY <1>4, <1>5, <1>7, BroughtOne
<1> QED BY <1>2, <1>6, <1>7

LEMMA BroughtChildAdded ==
  ASSUME Running, NEW b \in Apps, Fine(b), NEW l \in Lists, ListsKeysChildAdded(b)
  PROVE  Brought(b, l)
<1>1. PICK m : m = Head(events[b]).id
  OBVIOUS
<1>2. events[b] # <<>> /\ Head(events[b]).type = "added"
  BY DEF ListsKeysChildAdded, Next1
<1>3. m \in Lists /\ Right(b, m)
  BY <1>1, <1>2, FineOldest DEF FineEvent
<1>4. HasKept(b, l)
  BY ReadsKeep
<1>5. CASE events' = [events EXCEPT ![b] = Tail(@)]
  <2>1. events'[b] = Tail(events[b])
    BY <1>5 DEF Running, TypeOK
  <2> QED BY <1>2, <1>4, <2>1, BroughtNone
<1>6. CASE ReadNode(b, "list", m, Tail(events[b]))
  BY <1>2, <1>3, <1>4, <1>6, BroughtReadNode DEF NodeOps
<1>7. \/ events' = [events EXCEPT ![b] = Tail(@)]
      \/ ReadNode(b, "list", m, Tail(events[b]))
  BY <1>1 DEF ListsKeysChildAdded, Handled
<1> QED BY <1>5, <1>6, <1>7

LEMMA BroughtRemoveList ==
  ASSUME Running, NEW b \in Apps, Fine(b), NEW l \in Lists, RemoveList(b)
  PROVE  Brought(b, l)
<1>1. PICK k \in DOMAIN data[b] : ReadNode(b, "users", data[b][k], events[b])
  BY DEF RemoveList
<1>2. data[b][k] \in Lists /\ data[b][k] \in Entries(data[b])
  BY <1>1 DEF Running, TypeOK, Entries
<1>3. Right(b, data[b][k]) /\ "users" \in NodeOps
  BY <1>2 DEF Fine, NodeOps
<1> QED BY <1>1, <1>2, <1>3, ReadsKeep, BroughtReadNode

LEMMA BroughtHandled ==
  ASSUME Running, NEW b \in Apps, NEW l \in Lists,
         LoadNoLists(b) \/ ListLoaded(b) \/ ListRead(b) \/ ListsKeysChildRemoved(b)
  PROVE  Brought(b, l)
<1>1. events[b] # <<>> /\ events'[b] = Tail(events[b])
  BY DEF LoadNoLists, ListLoaded, ListRead, ListsKeysChildRemoved, Next1, Handled, Running, TypeOK
<1> QED BY <1>1, ReadsKeep, BroughtNone

LEMMA BroughtLoadLists ==
  ASSUME Running, NEW b \in Apps, Fine(b), NEW l \in Lists, LoadLists(b)
  PROVE  Brought(b, l)
<1> DEFINE S    == Head(events[b]).ids
           At   == {m \in S : AtHand(b, m, up[b], Tail(events[b]))}
           Y    == {}
<1>1. PICK now \in SetToSeqs(At) :
         events' = [events EXCEPT ![b] = Tail(@) \o
              [k \in DOMAIN now |-> NodeEvent("loaded", now[k], ListOf(server, up[b], now[k]))]]
  BY DEF LoadLists
<1>2. events[b] # <<>> /\ Head(events[b]).type = "keys"
  BY DEF LoadLists, Next1
<1>3. /\ At \in SUBSET Lists /\ IsFiniteSet(At)
      /\ \A m \in S : m \in Lists /\ Right(b, m)
  <2>1. S \in SUBSET Lists /\ \A m \in S : Right(b, m)
    BY <1>2, FineOldest DEF FineEvent
  <2> QED BY <2>1, ListsFinite, FS_Subset
<1> DEFINE s == [k \in DOMAIN now |-> NodeEvent("loaded", now[k], ListOf(server, up[b], now[k]))]
<1>4. events'[b] = Tail(events[b]) \o s
  BY <1>1 DEF Running, TypeOK
<1>5. now \in Seq(At)
  <2> HIDE DEF At
  <2> QED BY <1>1, <1>3, OrderLists
<1>6. \A k \in DOMAIN now : now[k] \in S
  BY <1>5
<1>7. up[b] \in Seq(Requests) /\ server \in Tree
  BY DEF Running, TypeOK
<1>8. s \in Seq(Events)
  <2>1. \A m \in Lists : NodeEvent("loaded", m, ListOf(server, up[b], m)) \in Events
    BY <1>7, ListOfType DEF NodeEvent, Events, NodeOps
  <2>2. EntryEach(s, now, Events, Y, Y)
    BY <2>1 DEF EntryEach
  <2>3. Y \in SUBSET Lists
    OBVIOUS
  <2> HIDE DEF s, At, Y
  <2> QED BY <1>3, <2>2, <2>3, Listed
<1>9. Quiet(b, l, s)
  <2> SUFFICES ASSUME NEW x \in Entries(s)
               PROVE  /\ x \notin NewKey(l) /\ x \notin OldKey(l)
                      /\ x \in NodeHere(l) => l \in refused \/ (Has(b, l) /\ ~Lost(b, l))
    BY DEF Quiet
  <2>1. PICK k \in DOMAIN now :
           x = NodeEvent("loaded", now[k], ListOf(server, up[b], now[k]))
    BY DEF Entries
  <2>2. PICK m \in S : x = NodeEvent("loaded", m, ListOf(server, up[b], m))
    BY <1>6, <2>1
  <2>3. m \in Lists /\ Right(b, m) /\ SameWrites(up[b], up[b], m) /\ "loaded" \in NodeOps
    BY <1>3, <2>2, SameItself DEF NodeOps
  <2> HIDE DEF s, S
  <2> QED BY <1>7, <2>2, <2>3, QuietNode
<1> HIDE DEF s
<1> QED BY <1>2, <1>4, <1>8, <1>9, ReadsKeep DEF Brought, Brings

\* All steps, but for the answer of the listener.
LEMMA BroughtStep ==
  ASSUME Running, NEW b \in Apps, ~Ended(b), Fine(b), NEW l \in Lists, ~AnswerListen(b)
  PROVE  Brought(b, l)
<1>1. ASSUME up'[b] = up[b], events'[b] = events[b], server' = server PROVE Brought(b, l)
  BY <1>1, SameItself, HasSame, BroughtNone
<1>2. CASE UNCHANGED vars
  BY <1>1, <1>2 DEF vars, sdk
<1>3. ASSUME NEW a \in Apps, Commit(a) PROVE Brought(b, l)
  BY <1>3, BroughtCommit
<1>4. ASSUME \A a \in Apps : ~Commit(a) PROVE server' = server
  BY <1>4, ServerChanges DEF Running
<1>5. ASSUME NEW a \in Apps, b # a, server' = server,
             \/ AnswerKeys(a) \/ AnswerListen(a) \/ AnswerNode(a) \/ Reject(a) \/ MainStep(a)
             \/ TimeoutGuardFired(a) \/ UserStep(a)
      PROVE  Brought(b, l)
  BY <1>1, <1>5, OthersKept DEF Running
<1>6. CASE AnswerKeys(b) \/ AnswerNode(b) \/ Reject(b)
  BY <1>6, BroughtKeys, BroughtNode, BroughtReject
<1>7. ~NoSuchList(b) /\ ~Quit(b) /\ ~SelectNoList(b)
  BY DEF NoSuchList, Quit, SelectNoList, Reset, Ended, Running, TypeOK
<1>8. CASE MainStep(b)
  BY <1>7, <1>8, BroughtHandled, BroughtLoadLists, BroughtChildAdded, BroughtUsersRead DEF MainStep
<1>9. CASE TimeoutGuardFired(b)
  <2>1. up' = up /\ events' = events /\ server' = server
    BY <1>9 DEF TimeoutGuardFired, sdk
  <2> QED BY <1>1, <2>1
<1>10. CASE OpenLists(b)
  <2>1. server' = server /\ events' = events /\ up[b] = <<>> /\ up'[b] = <<Keys>>
    BY <1>10 DEF OpenLists, Running, AllLoad, Loads, TypeOK
  <2>2. <<>> \in Seq(Requests) /\ Keys \in Requests /\ Keys \notin WritesTo(l)
    BY NoWrites
  <2>3. SameWrites(<<>>, Append(<<>>, Keys), l)
    <3> HIDE DEF Requests, Keys
    <3> QED BY <2>2, SameAppended
  <2>4. SameWrites(up[b], up'[b], l)
    BY <2>1, <2>3
  <2> QED BY <2>1, <2>4, HasSame, BroughtNone
<1>11. CASE UserStep(b)
  BY <1>7, <1>10, <1>11, BroughtUser, BroughtRemoveList DEF UserStep
<1>12. [Next]_vars
  BY DEF Running
<1> QED BY <1>2, <1>3, <1>4, <1>5, <1>6, <1>8, <1>9, <1>11, <1>12 DEF Next, ServerStep

-----------------------------------------------------------------------------
(***************************************************************************)
(* A list is read once.  As long as it is not lost, one of these at most is *)
(* out: the announcement of its key, or a read; and a read is out          *)
(* only where there is no row.  Once it is lost, no node of it arrives     *)
(* but those that were out already.                                        *)
(***************************************************************************)
ReadAsked(l) == {Node("list", l), Node("loaded", l)}
ReadTold(l)  == [type : {"list", "loaded"}, id : {l}, node : Slot]

ReadsOf(b, l) == Tally(b, ReadAsked(l), ReadTold(l))
NewsOf(b, l)  == Tally(b, {}, NewKey(l))
NodesOf(b, l) == HowMany(events[b], NodeHere(l))
RowsOf(b, l)  == HowMany(data[b], {l})

\* A list has one node on its way or shown, unless it was refused; and unless it is lost
\* it is read once, shown or read, announced or read.
Once(b, l) ==
    /\ l \notin refused => NodesOf(b, l) + RowsOf(b, l) <= 1
    /\ ~Lost(b, l) => /\ ReadsOf(b, l) + RowsOf(b, l) <= 1
                      /\ NewsOf(b, l) + ReadsOf(b, l) <= 1

AllOnce == \A b \in Apps, l \in Lists : Once(b, l)

\* At most one, and none.
LEMMA AtMostOne ==
  ASSUME NEW S, IsFiniteSet(S)
  PROVE  /\ Cardinality(S) <= 1 <=> \A x, y \in S : x = y
         /\ Cardinality(S) = 0 <=> S = {}
<1>1. Cardinality(S) \in Nat
  BY FS_CardinalityType
<1>2. Cardinality(S) = 0 <=> S = {}
  BY FS_EmptySet
<1>3. Cardinality(S) = 1 <=> \E x : S = {x}
  BY FS_Singleton
<1>4. Cardinality(S) <= 1 <=> Cardinality(S) = 0 \/ Cardinality(S) = 1
  BY <1>1
<1>5. (\A x, y \in S : x = y) <=> S = {} \/ \E x : S = {x}
  OBVIOUS
<1> QED BY <1>2, <1>3, <1>4, <1>5

\* A list has at most one row when it is counted at most once.
LEMMA OneRow ==
  ASSUME NEW A, NEW q \in Seq(A), NEW x
  PROVE  /\ HowMany(q, {x}) \in Nat
         /\ HowMany(q, {x}) <= 1 <=> \A j, k \in DOMAIN q : q[j] = x /\ q[k] = x => j = k
         /\ HowMany(q, {x}) = 0 <=> x \notin Range(q)
<1> DEFINE S == Places(q, {x})
<1>1. IsFiniteSet(S) /\ HowMany(q, {x}) \in Nat /\ HowMany(q, {x}) = Cardinality(S)
  BY HowManyType DEF HowMany
<1>2. (\A j, k \in S : j = k) <=> (\A j, k \in DOMAIN q : q[j] = x /\ q[k] = x => j = k)
  BY DEF Places
<1>3. S = {} <=> x \notin Range(q)
  BY DEF Places, Range
<1> HIDE DEF S
<1> QED BY <1>1, <1>2, <1>3, AtMostOne

\* Counting none, and counting less.
LEMMA NoneCounted ==
  ASSUME NEW A, NEW q \in Seq(A), NEW X
  PROVE  HowMany(q, X) = 0 <=> \A x \in Entries(q) : x \notin X
BY HowManyType DEF Entries

LEMMA FewerCounted ==
  ASSUME NEW A, NEW q \in Seq(A), NEW X, NEW Y, X \subseteq Y
  PROVE  HowMany(q, X) <= HowMany(q, Y)
<1>1. IsFiniteSet(Places(q, Y)) /\ Places(q, X) \in SUBSET Places(q, Y)
  BY HowManyType DEF Places
<1> QED BY <1>1, FS_Subset DEF HowMany

\* The kinds.
LEMMA ReadPairs ==
  ASSUME NEW l \in Lists
  PROVE  /\ Paired(ReadAsked(l), ReadTold(l)) /\ Paired({}, NewKey(l))
         /\ NodeHere(l) \subseteq ReadTold(l)
<1>1. \A o \in NodeOps \ {"watch"}, m \in Lists, n \in Slot :
         Node(o, m) \in ReadAsked(l) <=> NodeEvent(o, m, n) \in ReadTold(l)
  <2> SUFFICES ASSUME NEW o \in NodeOps \ {"watch"}, NEW m \in Lists, NEW n \in Slot
               PROVE  Node(o, m) \in ReadAsked(l) <=> NodeEvent(o, m, n) \in ReadTold(l)
    OBVIOUS
  <2>1. Node(o, m) \in ReadAsked(l) <=> o \in {"list", "loaded"} /\ m = l
    BY DEF Node, ReadAsked
  <2>2. NodeEvent(o, m, n) \in ReadTold(l) <=> o \in {"list", "loaded"} /\ m = l
    BY DEF NodeEvent, ReadTold
  <2> QED BY <2>1, <2>2
<1>2. /\ \A S \in SUBSET Lists : /\ Keys \notin ReadAsked(l) /\ KeysEvent(S) \notin ReadTold(l)
                                 /\ KeysEvent(S) \notin NewKey(l)
      /\ \A m \in Lists : Node("watch", m) \notin ReadAsked(l)
      /\ \A w \in Writes : w \notin ReadAsked(l)
  BY DEF Keys, Node, KeysEvent, ReadAsked, ReadTold, NewKey, KeyEvent, Writes, WriteOps
<1>3. \A o \in NodeOps, m \in Lists, n \in Slot : NodeEvent(o, m, n) \notin NewKey(l)
  BY DEF NodeEvent, NewKey, KeyEvent, NodeOps
<1>4. NodeHere(l) \subseteq ReadTold(l)
  BY DEF NodeHere, ReadTold, Slot
<1> QED BY <1>1, <1>2, <1>3, <1>4 DEF Paired

\* What one callback counts for a list.
LEMMA OneRead ==
  ASSUME NEW e \in Events, NEW l \in Lists
  PROVE  /\ One(e, ReadTold(l)) = IF e.type \in {"list", "loaded"} /\ e.id = l THEN 1 ELSE 0
         /\ One(e, NewKey(l)) = IF e.type = "added" /\ e.id = l THEN 1 ELSE 0
         /\ One(e, NodeHere(l)) =
              IF e.type \in {"list", "loaded"} /\ e.id = l /\ e.node # Absent THEN 1 ELSE 0
<1>1. e \in ReadTold(l) <=> e.type \in {"list", "loaded"} /\ e.id = l
  <2>1. e \in ReadTold(l) => e.type \in {"list", "loaded"} /\ e.id = l
    BY DEF ReadTold
  <2>2. e.type \in {"list", "loaded"} /\ e.id = l => e \in ReadTold(l)
    BY EventForms DEF ReadTold, NodeEvent, NodeOps
  <2> QED BY <2>1, <2>2
<1>2. e \in NewKey(l) <=> e.type = "added" /\ e.id = l
  BY EventForms DEF NewKey, KeyEvent
<1>3. e \in NodeHere(l) <=> e.type \in {"list", "loaded"} /\ e.id = l /\ e.node # Absent
  <2>1. e \in NodeHere(l) => e.type \in {"list", "loaded"} /\ e.id = l /\ e.node # Absent
    BY AbsentIsNothing DEF NodeHere
  <2>2. e.type \in {"list", "loaded"} /\ e.id = l /\ e.node # Absent => e \in NodeHere(l)
    BY EventForms DEF NodeHere, NodeEvent, NodeOps, Slot
  <2> QED BY <2>1, <2>2
<1> QED BY <1>1, <1>2, <1>3 DEF One

\* The four numbers are natural, before and after a step.
LEMMA OnceType ==
  ASSUME TypeOK, NEW b \in Apps, NEW l \in Lists
  PROVE  /\ ReadsOf(b, l) \in Nat /\ NewsOf(b, l) \in Nat
         /\ NodesOf(b, l) \in Nat /\ RowsOf(b, l) \in Nat
         /\ NodesOf(b, l) <= ReadsOf(b, l)
<1>1. events[b] \in Seq(Events) /\ data[b] \in Seq(Lists)
  BY DEF TypeOK
<1>2. RowsOf(b, l) \in Nat
  BY <1>1, OneRow DEF RowsOf
<1>3. ReadsOf(b, l) \in Nat /\ NewsOf(b, l) \in Nat
  BY QueuesOf DEF ReadsOf, NewsOf
<1>4. NodesOf(b, l) \in Nat
  BY QueuesOf DEF NodesOf
<1>5. HowMany(events[b], NodeHere(l)) <= HowMany(events[b], ReadTold(l))
  BY <1>1, ReadPairs, FewerCounted
<1>6. /\ HowMany(events[b], ReadTold(l)) \in Nat /\ HowMany(up[b], ReadAsked(l)) \in Nat
      /\ HowMany(events[b], NodeHere(l)) \in Nat
  BY QueuesOf
<1> QED BY <1>2, <1>3, <1>4, <1>5, <1>6 DEF NodesOf, ReadsOf, Tally

LEMMA OnceTypeNext ==
  ASSUME TypeOK', NEW b \in Apps, NEW l \in Lists
  PROVE  /\ ReadsOf(b, l)' \in Nat /\ NewsOf(b, l)' \in Nat
         /\ NodesOf(b, l)' \in Nat /\ RowsOf(b, l)' \in Nat
         /\ NodesOf(b, l)' <= ReadsOf(b, l)'
<1>1. PICK u, e, d : u = up'[b] /\ e = events'[b] /\ d = data'[b]
  OBVIOUS
<1>2. u \in Seq(Requests) /\ e \in Seq(Events) /\ d \in Seq(Lists)
  BY <1>1 DEF TypeOK
<1>3. /\ HowMany(d, {l}) \in Nat /\ HowMany(u, ReadAsked(l)) \in Nat
      /\ HowMany(e, ReadTold(l)) \in Nat /\ HowMany(e, NodeHere(l)) \in Nat
      /\ HowMany(u, {}) \in Nat /\ HowMany(e, NewKey(l)) \in Nat
  BY <1>2, HowManyType
<1>4. HowMany(e, NodeHere(l)) <= HowMany(e, ReadTold(l))
  BY <1>2, ReadPairs, FewerCounted
<1> QED BY <1>1, <1>3, <1>4 DEF NodesOf, ReadsOf, NewsOf, RowsOf, Tally

\* Where l is neither a key nor lost, there is no word of it.
LEMMA NoWord ==
  ASSUME TypeOK, NEW b \in Apps, Fine(b), NEW l \in Lists, ~Right(b, l)
  PROVE  ReadsOf(b, l) = 0 /\ NewsOf(b, l) = 0 /\ NodesOf(b, l) = 0 /\ RowsOf(b, l) = 0
<1>1. up[b] \in Seq(Requests) /\ events[b] \in Seq(Events) /\ data[b] \in Seq(Lists)
  BY DEF TypeOK
<1>2. \A r \in Entries(up[b]) : r \notin ReadAsked(l) /\ r \notin {}
  BY DEF Fine, FineRequest, ReadAsked, Node, NodeOps
<1>3. \A e \in Entries(events[b]) :
         e \notin ReadTold(l) /\ e \notin NewKey(l) /\ e \notin NodeHere(l)
  BY DEF Fine, FineEvent, ReadTold, NewKey, KeyEvent, NodeHere, NodeOps
<1>4. \A x \in Entries(data[b]) : x \notin {l}
  BY DEF Fine
<1>5. HowMany(up[b], ReadAsked(l)) = 0 /\ HowMany(up[b], {}) = 0
  BY <1>1, <1>2, NoneCounted
<1>6. /\ HowMany(events[b], ReadTold(l)) = 0 /\ HowMany(events[b], NewKey(l)) = 0
      /\ HowMany(events[b], NodeHere(l)) = 0
  BY <1>1, <1>3, NoneCounted
<1>7. HowMany(data[b], {l}) = 0
  BY <1>1, <1>4, NoneCounted
<1> QED BY <1>5, <1>6, <1>7 DEF ReadsOf, NewsOf, NodesOf, RowsOf, Tally

\* Before the listener is live, and while the keys are out, nothing is read.
LEMMA NoReads ==
  ASSUME TypeOK, NEW b \in Apps, NEW l \in Lists
  PROVE  /\ RowsOut(b) = 0 /\ NodesOut(b) = 0 => ReadsOf(b, l) = 0
         /\ TellsOut(b) = 0 => NewsOf(b, l) = 0
<1>1. up[b] \in Seq(Requests) /\ events[b] \in Seq(Events)
  BY DEF TypeOK
<1>2. ASSUME NEW X, NEW Y
      PROVE  Tally(b, X, Y) = 0 <=> /\ \A r \in Entries(up[b]) : r \notin X
                                    /\ \A e \in Entries(events[b]) : e \notin Y
  <2>1. HowMany(up[b], X) \in Nat /\ HowMany(events[b], Y) \in Nat
    BY QueuesOf
  <2>2. HowMany(up[b], X) = 0 <=> \A r \in Entries(up[b]) : r \notin X
    BY <1>1, NoneCounted
  <2>3. HowMany(events[b], Y) = 0 <=> \A e \in Entries(events[b]) : e \notin Y
    BY <1>1, NoneCounted
  <2> QED BY <2>1, <2>2, <2>3 DEF Tally
<1>3. ReadAsked(l) \subseteq ReadsAsked("list") \cup ReadsAsked("loaded")
  BY DEF ReadAsked, ReadsAsked, Node
<1>4. ReadTold(l) \subseteq ReadsTold("list") \cup ReadsTold("loaded")
  BY DEF ReadTold, ReadsTold
<1>5. NewKey(l) \subseteq KeyEvents
  BY DEF NewKey, KeyEvents, KeyEvent
<1>6. ASSUME RowsOut(b) = 0, NodesOut(b) = 0 PROVE ReadsOf(b, l) = 0
  BY <1>2, <1>3, <1>4, <1>6 DEF RowsOut, NodesOut, ReadsOf
<1>7. ASSUME TellsOut(b) = 0 PROVE NewsOf(b, l) = 0
  BY <1>2, <1>5, <1>7 DEF TellsOut, NewsOf
<1> QED BY <1>6, <1>7

-----------------------------------------------------------------------------
\* What a step does to the reads and the rows of a list that is not lost.
OnceGoes(b, l) ==
    /\ ReadsOf(b, l)' = ReadsOf(b, l) /\ RowsOf(b, l)' = RowsOf(b, l)
    /\ \/ NewsOf(b, l)' = NewsOf(b, l)
       \/ NewsOf(b, l)' = NewsOf(b, l) + 1 /\ ~Has(b, l)

\* ... and what it has to leave true.
OnceStep(b, l) ==
    /\ ReadsOf(b, l)' + RowsOf(b, l)' <= 1
    /\ NewsOf(b, l)' + ReadsOf(b, l)' <= 1

\* A step that adds no read and no row, and tells only what changed, keeps Once.
LEMMA OnceMore ==
  ASSUME TypeOK, NEW b \in Apps, Fine(b), NEW l \in Lists, Once(b, l), ~Lost(b, l), OnceGoes(b, l)
  PROVE  OnceStep(b, l)
<1>1. ReadsOf(b, l) + RowsOf(b, l) <= 1 /\ NewsOf(b, l) + ReadsOf(b, l) <= 1
  BY DEF Once
<1>2. ~Has(b, l) => ReadsOf(b, l) = 0 /\ NewsOf(b, l) = 0 /\ RowsOf(b, l) = 0
  BY NoWord DEF Right
<1> QED BY <1>1, <1>2, OnceType DEF OnceGoes, OnceStep

\* The writes.
LEMMA RaisedOnce ==
  ASSUME Running, NEW b \in Apps, NEW l \in Lists, NEW m \in Lists
  PROVE  /\ HowMany(Raised(b, server', up'[b], m), ReadTold(l)) = 0
         /\ \/ HowMany(Raised(b, server', up'[b], m), NewKey(l)) = 0
            \/ HowMany(Raised(b, server', up'[b], m), NewKey(l)) = 1 /\ ~Has(b, l)
<1>1. PICK e, d : e = KeyEvent("added", m) /\ d = KeyEvent("removed", m)
  OBVIOUS
<1>2. /\ e \notin ReadTold(l) /\ d \notin ReadTold(l) /\ d \notin NewKey(l)
      /\ e \in NewKey(l) => m = l
  BY <1>1 DEF KeyEvent, ReadTold, NewKey
<1>3. /\ One(e, ReadTold(l)) = 0 /\ One(d, ReadTold(l)) = 0 /\ One(d, NewKey(l)) = 0
      /\ One(e, NewKey(l)) = 0 \/ (One(e, NewKey(l)) = 1 /\ m = l)
  BY <1>2 DEF One
<1>4. m \in KeysOf(server, up[b], owner[b]) <=> Has(b, m)
  BY RunningKeys
<1>5. \A Y : HowMany(Raised(b, server', up'[b], m), Y) =
              IF listener[b] = "on" /\ m \in KeysOf(server', up'[b], owner[b]) /\ ~Has(b, m)
                THEN One(e, Y)
              ELSE IF listener[b] = "on" /\ m \notin KeysOf(server', up'[b], owner[b]) /\ Has(b, m)
                THEN One(d, Y)
              ELSE 0
  BY <1>1, <1>4, RaisedCount DEF Running
<1> QED BY <1>3, <1>5

\* A tally that grows with what is told of key m.
LEMMA OnceTold ==
  ASSUME Running, NEW b \in Apps, NEW l \in Lists, NEW m \in Lists, data'[b] = data[b],
         ReadsOf(b, l)' = ReadsOf(b, l) + HowMany(Raised(b, server', up'[b], m), ReadTold(l)),
         NewsOf(b, l)' = NewsOf(b, l) + HowMany(Raised(b, server', up'[b], m), NewKey(l))
  PROVE  OnceGoes(b, l)
<1>1. ReadsOf(b, l) \in Nat /\ NewsOf(b, l) \in Nat
  BY OnceType DEF Running
<1> QED BY <1>1, RaisedOnce DEF OnceGoes, RowsOf

\* The actions that are such steps.
LEMMA OnceCommit ==
  ASSUME Running, NEW a \in Apps, Commit(a), NEW b \in Apps, NEW l \in Lists
  PROVE  OnceGoes(b, l)
<1>1. data' = data /\ TypeOK /\ TypeOK'
  BY DEF Commit, app, Running
<1>2. \A w \in Writes : w \notin ReadAsked(l) /\ w \notin {}
  BY ReadPairs DEF Paired
<1>3. PICK m : m = Head(up[a]).id
  OBVIOUS
<1>4. /\ m \in Lists
      /\ ReadsOf(b, l)' = ReadsOf(b, l) + HowMany(Raised(b, server', up'[b], m), ReadTold(l))
      /\ NewsOf(b, l)' = NewsOf(b, l) + HowMany(Raised(b, server', up'[b], m), NewKey(l))
  BY <1>1, <1>2, <1>3, TallyCommit DEF ReadsOf, NewsOf
<1> QED BY <1>1, <1>4, OnceTold

LEMMA OnceReject ==
  ASSUME Running, NEW b \in Apps, Reject(b), NEW l \in Lists
  PROVE  OnceGoes(b, l)
<1>1. data' = data /\ server' = server /\ TypeOK /\ TypeOK'
  BY DEF Reject, app, Running
<1>2. \A w \in Writes : w \notin ReadAsked(l) /\ w \notin {}
  BY ReadPairs DEF Paired
<1>3. PICK m : m = Head(up[b]).id
  OBVIOUS
<1>4. /\ m \in Lists
      /\ ReadsOf(b, l)' = ReadsOf(b, l) + HowMany(Raised(b, server', up'[b], m), ReadTold(l))
      /\ NewsOf(b, l)' = NewsOf(b, l) + HowMany(Raised(b, server', up'[b], m), NewKey(l))
  BY <1>1, <1>2, <1>3, TallyReject DEF ReadsOf, NewsOf
<1> QED BY <1>1, <1>4, OnceTold

LEMMA OnceSend ==
  ASSUME Running, NEW b \in Apps, NEW l \in Lists, AddNewList(b) \/ AcceptInvitation(b)
  PROVE  OnceGoes(b, l)
<1>1. data' = data /\ server' = server /\ TypeOK /\ TypeOK'
  BY DEF AddNewList, AcceptInvitation, app, Running
<1>2. PICK w \in Writes : Send(b, w)
  <2>1. owner[b] \in Users /\ heard \subseteq Lists
    BY DEF Running, TypeOK
  <2>2. \A m \in Lists : AddOf(m, owner[b]) \in Writes /\ JoinOf(m, owner[b]) \in Writes
    BY <2>1 DEF AddOf, JoinOf, Writes, WriteOps
  <2> QED BY <2>1, <2>2 DEF AddNewList, AcceptInvitation
<1>3. w.id \in Lists /\ w \notin ReadAsked(l) /\ w \notin {}
  BY ReadPairs DEF Paired, Writes
<1>4. /\ ReadsOf(b, l)' = ReadsOf(b, l) + HowMany(Raised(b, server', up'[b], w.id), ReadTold(l))
      /\ NewsOf(b, l)' = NewsOf(b, l) + HowMany(Raised(b, server', up'[b], w.id), NewKey(l))
  BY <1>1, <1>2, <1>3, TallySend DEF ReadsOf, NewsOf
<1> QED BY <1>1, <1>3, <1>4, OnceTold

LEMMA OnceUsersRead ==
  ASSUME Running, NEW b \in Apps, NEW l \in Lists, RemoveListUsersRead(b)
  PROVE  OnceGoes(b, l)
<1>1. data' = data /\ server' = server /\ TypeOK /\ TypeOK'
  BY DEF RemoveListUsersRead, app, Running
<1>2. \A w \in Writes : w \notin ReadAsked(l) /\ w \notin {}
  BY ReadPairs DEF Paired
<1>3. PICK e : e = Head(events[b])
  OBVIOUS
<1>4. One(e, ReadTold(l)) = 0 /\ One(e, NewKey(l)) = 0
  <2>1. events[b] # <<>> /\ e.type = "users"
    BY <1>3 DEF RemoveListUsersRead, Next1
  <2>2. e \in Events
    BY <1>1, <1>3, <2>1, OldestEvent
  <2> QED BY <2>1, <2>2, OneRead
<1>5. /\ e.id \in Lists
      /\ ReadsOf(b, l)' + One(e, ReadTold(l))
           = ReadsOf(b, l) + HowMany(Raised(b, server', up'[b], e.id), ReadTold(l))
      /\ NewsOf(b, l)' + One(e, NewKey(l))
           = NewsOf(b, l) + HowMany(Raised(b, server', up'[b], e.id), NewKey(l))
  BY <1>1, <1>2, <1>3, TallyUsersRead DEF ReadsOf, NewsOf
<1>6. /\ ReadsOf(b, l)' = ReadsOf(b, l) + HowMany(Raised(b, server', up'[b], e.id), ReadTold(l))
      /\ NewsOf(b, l)' = NewsOf(b, l) + HowMany(Raised(b, server', up'[b], e.id), NewKey(l))
  BY <1>1, <1>4, <1>5, OnceTypeNext
<1> QED BY <1>1, <1>5, <1>6, OnceTold

\* The reads that change neither.
LEMMA OnceAnswer ==
  ASSUME Running, NEW b \in Apps, NEW l \in Lists, AnswerKeys(b) \/ AnswerNode(b)
  PROVE  OnceGoes(b, l)
<1>1. data' = data /\ TypeOK /\ TypeOK'
  BY DEF AnswerKeys, AnswerNode, app, Running
<1>2. Paired(ReadAsked(l), ReadTold(l)) /\ Paired({}, NewKey(l))
  BY ReadPairs
<1>3. ReadsOf(b, l)' = ReadsOf(b, l) /\ NewsOf(b, l)' = NewsOf(b, l)
  BY <1>1, <1>2, TallyAnswerKeys, TallyAnswerNode DEF ReadsOf, NewsOf
<1> QED BY <1>1, <1>3 DEF OnceGoes, RowsOf

LEMMA OnceNoLists ==
  ASSUME Running, NEW b \in Apps, NEW l \in Lists, LoadNoLists(b)
  PROVE  OnceGoes(b, l)
<1>1. data' = data /\ TypeOK /\ TypeOK'
  BY DEF LoadNoLists, Running
<1>2. PICK e : e = Head(events[b])
  OBVIOUS
<1>3. One(e, ReadTold(l)) = 0 /\ One(e, NewKey(l)) = 0
  <2>1. events[b] # <<>> /\ e.type = "keys"
    BY <1>2 DEF LoadNoLists, Next1
  <2>2. e \in Events
    BY <1>1, <1>2, <2>1, OldestEvent
  <2> QED BY <2>1, <2>2, OneRead
<1>4. One(Listen, ReadAsked(l)) = 0 /\ One(Listen, {}) = 0
  BY DEF One, Listen, ReadAsked, Node
<1>5. /\ ReadsOf(b, l)' + One(e, ReadTold(l)) = ReadsOf(b, l) + One(Listen, ReadAsked(l))
      /\ NewsOf(b, l)' + One(e, NewKey(l)) = NewsOf(b, l) + One(Listen, {})
  BY <1>1, <1>2, TallyLoadNoLists DEF ReadsOf, NewsOf
<1>6. ReadsOf(b, l)' = ReadsOf(b, l) /\ NewsOf(b, l)' = NewsOf(b, l)
  BY <1>1, <1>3, <1>4, <1>5, OnceType, OnceTypeNext
<1> QED BY <1>1, <1>6 DEF OnceGoes, RowsOf

LEMMA OnceRemoveList ==
  ASSUME Running, NEW b \in Apps, NEW l \in Lists, RemoveList(b)
  PROVE  OnceGoes(b, l)
<1>1. data' = data /\ TypeOK
  BY DEF RemoveList, app, Running
<1>2. Paired(ReadAsked(l), ReadTold(l)) /\ Paired({}, NewKey(l))
  BY ReadPairs
<1>3. \A m \in Lists : Node("users", m) \notin ReadAsked(l) /\ Node("users", m) \notin {}
  BY DEF Node, ReadAsked
<1>4. ReadsOf(b, l)' = ReadsOf(b, l) /\ NewsOf(b, l)' = NewsOf(b, l)
  BY <1>1, <1>2, <1>3, TallyRemoveList DEF ReadsOf, NewsOf
<1> QED BY <1>1, <1>4 DEF OnceGoes, RowsOf

-----------------------------------------------------------------------------
\* Nothing is read when the listener goes live, nor when the keys arrive.
LEMMA ListenStarts ==
  ASSUME TypeOK, NEW b \in Apps, Loads(b), AnswerListen(b), NEW l \in Lists
  PROVE  listener[b] = "asked" /\ ReadsOf(b, l) = 0 /\ NewsOf(b, l) = 0
<1>1. up[b] # <<>> /\ Head(up[b]).op = "listen"
  BY DEF AnswerListen, Oldest
<1>2. Head(up[b]) = Listen /\ up[b] \in Seq(Requests)
  BY <1>1, OldestRequest, RequestForms DEF TypeOK
<1>3. HowMany(up[b], {Listen}) = HowMany(Tail(up[b]), {Listen}) + 1
  BY <1>1, <1>2, Counting DEF One
<1>4. Tail(up[b]) \in Seq(Requests)
  BY <1>1, <1>2, Counting
<1>5. HowMany(Tail(up[b]), {Listen}) \in Nat /\ HowMany(events[b], {}) \in Nat
  BY <1>2, <1>4, HowManyType DEF TypeOK
<1>6. ListenOut(b) # 0
  BY <1>3, <1>5 DEF ListenOut, Tally
<1>7. listener[b] = "asked"
  BY <1>6 DEF Loads
<1>8. left[b] = 0 /\ NodesOut(b) = 0 /\ RowsOut(b) = 0 /\ TellsOut(b) = 0
  BY <1>7 DEF Loads
<1> QED BY <1>7, <1>8, NoReads

\* When the keys arrive nothing is read, shown or announced.
LEMMA KeysStart ==
  ASSUME TypeOK, NEW b \in Apps, Loads(b), Next1(b, "keys"), NEW l \in Lists
  PROVE  /\ listener[b] = "off" /\ data[b] = <<>>
         /\ ReadsOf(b, l) = 0 /\ NewsOf(b, l) = 0
<1>1. events[b] # <<>> /\ Head(events[b]).type = "keys"
  BY DEF Next1
<1>2. Head(events[b]) \in KeysTold /\ events[b] \in Seq(Events)
  <2>1. PICK e : e = Head(events[b])
    OBVIOUS
  <2>2. e \in Events /\ e.type = "keys" /\ events[b] \in Seq(Events)
    BY <1>1, <2>1, OldestEvent DEF TypeOK
  <2>3. e = KeysEvent(e.ids) /\ e.ids \in SUBSET Lists
    BY <2>2, EventForms
  <2>4. \A S \in SUBSET Lists : KeysEvent(S) \in KeysTold
    BY DEF KeysEvent, KeysTold
  <2> QED BY <2>1, <2>2, <2>3, <2>4
<1>3. HowMany(events[b], KeysTold) = HowMany(Tail(events[b]), KeysTold) + 1
  BY <1>1, <1>2, Counting DEF One
<1>4. Tail(events[b]) \in Seq(Events)
  BY <1>1, <1>2, Counting
<1>5. HowMany(Tail(events[b]), KeysTold) \in Nat /\ HowMany(up[b], {Keys}) \in Nat
  BY <1>2, <1>4, HowManyType DEF TypeOK
<1>6. KeysOut(b) >= 1 /\ KeysOut(b) \in Nat
  BY <1>3, <1>5 DEF KeysOut, Tally
<1>7. KeysOut(b) = 1
  BY <1>6 DEF Loads
<1>8. listener[b] = "off" /\ data[b] = <<>> /\ left[b] = 0
  BY <1>7 DEF Loads
<1>9. NodesOut(b) = 0 /\ RowsOut(b) = 0 /\ TellsOut(b) = 0
  BY <1>8 DEF Loads
<1> QED BY <1>8, <1>9, NoReads

\* The listener goes live: it announces what there is, once.
LEMMA OnceListen ==
  ASSUME Running, NEW b \in Apps, NEW l \in Lists, Once(b, l), ~Lost(b, l), AnswerListen(b)
  PROVE  OnceStep(b, l)
<1> DEFINE K  == KeysOf(server, up'[b], owner[b])
           Z0 == {}
           Z1 == {l}
<1>1. ReadsOf(b, l) = 0 /\ NewsOf(b, l) = 0 /\ TypeOK /\ TypeOK'
  BY ListenStarts DEF Running, AllLoad
<1>2. \A m \in Lists : /\ KeyEvent("added", m) \in ReadTold(l) <=> m \in Z0
                       /\ KeyEvent("added", m) \in NewKey(l) <=> m \in Z1
  BY DEF KeyEvent, ReadTold, NewKey
<1>3. One(Listen, ReadAsked(l)) = 0 /\ One(Listen, {}) = 0
  BY DEF One, Listen, ReadAsked, Node
<1>4. Z0 \in SUBSET Lists /\ Z1 \in SUBSET Lists
  OBVIOUS
<1>5. Cardinality(K \cap Z0) = 0
  <2>1. K \cap Z0 = {}
    OBVIOUS
  <2> HIDE DEF K, Z0
  <2> QED BY <2>1, FS_EmptySet, Zenon
<1>6. Cardinality(K \cap Z1) \in Nat /\ Cardinality(K \cap Z1) <= 1
  <2>1. IsFiniteSet(Z1) /\ Cardinality(Z1) = 1
    BY FS_Singleton
  <2>2. K \cap Z1 \in SUBSET Z1
    OBVIOUS
  <2> HIDE DEF K, Z1
  <2>3. IsFiniteSet(K \cap Z1) /\ Cardinality(K \cap Z1) <= Cardinality(Z1)
    BY <2>1, <2>2, FS_Subset
  <2> QED BY <2>1, <2>3, FS_CardinalityType
<1> HIDE DEF Z0, Z1
<1>7. /\ ReadsOf(b, l)' + One(Listen, ReadAsked(l)) = ReadsOf(b, l) + Cardinality(K \cap Z0)
      /\ NewsOf(b, l)' + One(Listen, {}) = NewsOf(b, l) + Cardinality(K \cap Z1)
  <2>1. \A X, Y, Z : Z \in SUBSET Lists
                         /\ (\A m \in Lists : KeyEvent("added", m) \in Y <=> m \in Z)
             => Tally(b, X, Y)' + One(Listen, X) = Tally(b, X, Y) + Cardinality(K \cap Z)
    BY <1>1, TallyAnswerListen
  <2>2. Tally(b, ReadAsked(l), ReadTold(l))' + One(Listen, ReadAsked(l))
          = Tally(b, ReadAsked(l), ReadTold(l)) + Cardinality(K \cap Z0)
    BY <1>2, <1>4, <2>1
  <2>3. Tally(b, {}, NewKey(l))' + One(Listen, {})
          = Tally(b, {}, NewKey(l)) + Cardinality(K \cap Z1)
    BY <1>2, <1>4, <2>1
  <2> QED BY <2>2, <2>3 DEF ReadsOf, NewsOf
<1> HIDE DEF K
<1>8. ReadsOf(b, l)' = 0 /\ NewsOf(b, l)' <= 1
  BY <1>1, <1>3, <1>5, <1>6, <1>7, OnceTypeNext
<1>9. RowsOf(b, l)' = RowsOf(b, l)
  BY DEF AnswerListen, app, RowsOf
<1>10. RowsOf(b, l) <= 1
  BY <1>1, OnceType DEF Once
<1> QED BY <1>1, <1>8, <1>9, <1>10, OnceType, OnceTypeNext DEF OnceStep

\* The keys arrive: each list is read once.
LEMMA OnceLists ==
  ASSUME Running, NEW b \in Apps, NEW l \in Lists, LoadLists(b)
  PROVE  OnceStep(b, l)
<1> DEFINE Z0 == {}
           Z1 == {l}
<1>1. PICK e, S : e = Head(events[b]) /\ S = e.ids
  OBVIOUS
<1>2. /\ ReadsOf(b, l) = 0 /\ NewsOf(b, l) = 0 /\ data[b] = <<>> /\ data' = data
      /\ TypeOK /\ TypeOK'
  BY KeysStart DEF Running, AllLoad, LoadLists
<1>3. \A m \in Lists : /\ Node("loaded", m) \in ReadAsked(l) <=> m \in Z1
                       /\ Node("loaded", m) \in {} <=> m \in Z0
  BY DEF Node, ReadAsked
<1>4. One(e, ReadTold(l)) = 0 /\ One(e, NewKey(l)) = 0
  <2>1. events[b] # <<>> /\ e.type = "keys"
    BY <1>1 DEF LoadLists, Next1
  <2>2. e \in Events
    BY <1>1, <1>2, <2>1, OldestEvent
  <2> QED BY <2>1, <2>2, OneRead
<1>5. Z0 \in SUBSET Lists /\ Z1 \in SUBSET Lists
  OBVIOUS
<1>6. Cardinality(S \cap Z0) = 0
  <2>1. S \cap Z0 = {}
    OBVIOUS
  <2> HIDE DEF Z0
  <2> QED BY <2>1, FS_EmptySet, Zenon
<1>7. Cardinality(S \cap Z1) \in Nat /\ Cardinality(S \cap Z1) <= 1
  <2>1. IsFiniteSet(Z1) /\ Cardinality(Z1) = 1
    BY FS_Singleton
  <2>2. S \cap Z1 \in SUBSET Z1
    OBVIOUS
  <2> HIDE DEF Z1
  <2>3. IsFiniteSet(S \cap Z1) /\ Cardinality(S \cap Z1) <= Cardinality(Z1)
    BY <2>1, <2>2, FS_Subset
  <2> QED BY <2>1, <2>3, FS_CardinalityType
<1>8. Picks(ReadAsked(l), Z1) /\ Picks({}, Z0)
  BY <1>3 DEF Picks
<1>9. Paired(ReadAsked(l), ReadTold(l)) /\ Paired({}, NewKey(l))
  BY ReadPairs
<1> HIDE DEF Z0, Z1
<1>10. /\ ReadsOf(b, l)' + One(e, ReadTold(l)) = ReadsOf(b, l) + Cardinality(S \cap Z1)
      /\ NewsOf(b, l)' + One(e, NewKey(l)) = NewsOf(b, l) + Cardinality(S \cap Z0)
  <2>1. ASSUME NEW X, NEW Y, NEW Z \in SUBSET Lists, Paired(X, Y),
               Picks(X, Z)
        PROVE  Tally(b, X, Y)' + One(e, Y) = Tally(b, X, Y) + Cardinality(S \cap Z)
    <3>1. Head(events[b]) = e /\ Head(events[b]).ids = S
      BY <1>1
    <3>2. /\ Head(events[b]).ids \in SUBSET Lists
          /\ Tally(b, X, Y)' + One(Head(events[b]), Y)
               = Tally(b, X, Y) + Cardinality(Head(events[b]).ids \cap Z)
      BY <1>2, <2>1, TallyLoadLists
    <3> QED BY <3>1, <3>2
  <2>2. Tally(b, ReadAsked(l), ReadTold(l))' + One(e, ReadTold(l))
          = Tally(b, ReadAsked(l), ReadTold(l)) + Cardinality(S \cap Z1)
    BY <1>5, <1>9, <1>8, <2>1
  <2>3. Tally(b, {}, NewKey(l))' + One(e, NewKey(l))
          = Tally(b, {}, NewKey(l)) + Cardinality(S \cap Z0)
    BY <1>5, <1>9, <1>8, <2>1
  <2> QED BY <2>2, <2>3 DEF ReadsOf, NewsOf
<1>11. ReadsOf(b, l)' <= 1 /\ NewsOf(b, l)' = 0
  BY <1>2, <1>4, <1>6, <1>7, <1>10, OnceTypeNext
<1>12. RowsOf(b, l)' = 0
  BY <1>2, Uncounted DEF RowsOf
<1> QED BY <1>2, <1>11, <1>12, OnceTypeNext DEF OnceStep

\* A read becomes a row.
LEMMA NewRowStep ==
  ASSUME Running, NEW b \in Apps, NEW l \in Lists, ListLoaded(b) \/ ListRead(b)
  PROVE  /\ events[b] # <<>> /\ events'[b] = Tail(events[b])
         /\ data'[b] = Append(data[b], Head(events[b]).id)
         /\ ReadsOf(b, l)' + RowsOf(b, l)' = ReadsOf(b, l) + RowsOf(b, l)
         /\ NodesOf(b, l)' + RowsOf(b, l)' = NodesOf(b, l) + RowsOf(b, l)
         /\ NewsOf(b, l)' = NewsOf(b, l)
         /\ ReadsOf(b, l)' <= ReadsOf(b, l)
<1>1. PICK e : e = Head(events[b])
  OBVIOUS
<1>2. TypeOK /\ TypeOK' /\ Paired(ReadAsked(l), ReadTold(l)) /\ Paired({}, NewKey(l))
  BY ReadPairs DEF Running
<1>3. /\ events[b] # <<>> /\ e.type \in {"list", "loaded"} /\ e.node # Absent
      /\ events'[b] = Tail(events[b]) /\ data'[b] = Append(data[b], e.id)
  BY <1>1 DEF ListLoaded, ListRead, Next1, Handled, NewRow, Running, TypeOK
<1>4. e \in Events /\ e.id \in Lists /\ events[b] \in Seq(Events) /\ data[b] \in Seq(Lists)
  BY <1>1, <1>2, <1>3, OldestEvent DEF NodeOps, TypeOK
<1>5. /\ One(e, ReadTold(l)) = One(e.id, {l}) /\ One(e, NodeHere(l)) = One(e.id, {l})
      /\ One(e, NewKey(l)) = 0
  BY <1>3, <1>4, OneRead DEF One
<1>6. One(Listen, ReadAsked(l)) = 0 /\ One(Listen, {}) = 0 /\ One(e.id, {l}) \in {0, 1}
  BY DEF One, Listen, ReadAsked, Node
<1>7. RowsOf(b, l)' = RowsOf(b, l) + One(e.id, {l})
  BY <1>3, <1>4, Counting DEF RowsOf
<1>8. NodesOf(b, l) = NodesOf(b, l)' + One(e, NodeHere(l))
  BY <1>1, <1>3, <1>4, Counting DEF NodesOf
<1>9. /\ ReadsOf(b, l)' + One(e, ReadTold(l)) = ReadsOf(b, l)
      /\ NewsOf(b, l)' + One(e, NewKey(l)) = NewsOf(b, l)
  <2>1. CASE ListRead(b)
    BY <1>1, <1>2, <2>1, TallyListRead DEF ReadsOf, NewsOf
  <2>2. CASE ListLoaded(b)
    <3>1. /\ ReadsOf(b, l)' + One(e, ReadTold(l))
               = ReadsOf(b, l) + (IF left[b] - 1 = 0 THEN One(Listen, ReadAsked(l)) ELSE 0)
          /\ NewsOf(b, l)' + One(e, NewKey(l))
               = NewsOf(b, l) + (IF left[b] - 1 = 0 THEN One(Listen, {}) ELSE 0)
      BY <1>1, <1>2, <2>2, TallyListLoaded DEF ReadsOf, NewsOf
    <3> QED BY <1>2, <1>6, <3>1, OnceType
  <2> QED BY <2>1, <2>2
<1>10. /\ ReadsOf(b, l) \in Nat /\ NewsOf(b, l) \in Nat /\ NodesOf(b, l) \in Nat
      /\ ReadsOf(b, l)' \in Nat /\ NewsOf(b, l)' \in Nat /\ NodesOf(b, l)' \in Nat
      /\ RowsOf(b, l) \in Nat
  BY <1>2, OnceType, OnceTypeNext
<1>11. PICK x \in {0, 1} : x = One(e.id, {l})
  BY <1>6
<1>12. /\ ReadsOf(b, l)' + x = ReadsOf(b, l) /\ NewsOf(b, l)' = NewsOf(b, l)
       /\ NodesOf(b, l) = NodesOf(b, l)' + x /\ RowsOf(b, l)' = RowsOf(b, l) + x
  BY <1>5, <1>7, <1>8, <1>9, <1>10, <1>11
<1>13. /\ ReadsOf(b, l)' + RowsOf(b, l)' = ReadsOf(b, l) + RowsOf(b, l)
       /\ NodesOf(b, l)' + RowsOf(b, l)' = NodesOf(b, l) + RowsOf(b, l)
       /\ ReadsOf(b, l)' <= ReadsOf(b, l)
  BY <1>10, <1>12
<1> QED BY <1>1, <1>3, <1>12, <1>13

\* The announcement of a key becomes a read, unless there is a row.
LEMMA ChildAddedStep ==
  ASSUME Running, NEW b \in Apps, NEW l \in Lists, ListsKeysChildAdded(b)
  PROVE  /\ events[b] # <<>> /\ Head(events[b]).type = "added" /\ data'[b] = data[b]
         /\ Head(events[b]).id # l =>
              ReadsOf(b, l)' = ReadsOf(b, l) /\ NewsOf(b, l)' = NewsOf(b, l)
         /\ Head(events[b]).id = l =>
              /\ NewsOf(b, l)' + 1 = NewsOf(b, l)
              /\ ReadsOf(b, l)' = ReadsOf(b, l) + (IF RowsOf(b, l) = 0 THEN 1 ELSE 0)
<1>1. PICK e : e = Head(events[b])
  OBVIOUS
<1>2. TypeOK /\ TypeOK' /\ Paired(ReadAsked(l), ReadTold(l)) /\ Paired({}, NewKey(l))
  BY ReadPairs DEF Running
<1>3. events[b] # <<>> /\ e.type = "added" /\ data'[b] = data[b]
  BY <1>1 DEF ListsKeysChildAdded, Next1, app
<1>4. e \in Events /\ e.id \in Lists /\ data[b] \in Seq(Lists)
  BY <1>1, <1>2, <1>3, OldestEvent DEF TypeOK
<1>5. One(e, ReadTold(l)) = 0 /\ One(e, NewKey(l)) = IF e.id = l THEN 1 ELSE 0
  BY <1>3, <1>4, OneRead
<1>6. One(Node("list", e.id), ReadAsked(l)) = (IF e.id = l THEN 1 ELSE 0)
      /\ One(Node("list", e.id), {}) = 0
  BY DEF One, ReadAsked, Node
<1>7. l \in RowIds(b) <=> RowsOf(b, l) # 0
  <2>1. RowsOf(b, l) = 0 <=> l \notin Range(data[b])
    BY <1>4, OneRow DEF RowsOf
  <2> QED BY <2>1 DEF RowIds, Range
<1>8. /\ ReadsOf(b, l)' + One(e, ReadTold(l)) = ReadsOf(b, l) +
           (IF e.id \in RowIds(b) THEN 0 ELSE One(Node("list", e.id), ReadAsked(l)))
      /\ NewsOf(b, l)' + One(e, NewKey(l)) = NewsOf(b, l) +
           (IF e.id \in RowIds(b) THEN 0 ELSE One(Node("list", e.id), {}))
  BY <1>1, <1>2, TallyChildAdded DEF ReadsOf, NewsOf
<1>9. e.id # l => ReadsOf(b, l)' = ReadsOf(b, l) /\ NewsOf(b, l)' = NewsOf(b, l)
  BY <1>2, <1>5, <1>6, <1>8, OnceType, OnceTypeNext
<1>10. e.id = l => /\ NewsOf(b, l)' + 1 = NewsOf(b, l)
                  /\ ReadsOf(b, l)' = ReadsOf(b, l) + (IF RowsOf(b, l) = 0 THEN 1 ELSE 0)
  BY <1>2, <1>5, <1>6, <1>7, <1>8, OnceType, OnceTypeNext
<1> QED BY <1>1, <1>3, <1>9, <1>10

\* The row of a key goes.
LEMMA ChildRemovedStep ==
  ASSUME Running, NEW b \in Apps, NEW l \in Lists, ListsKeysChildRemoved(b), RowsOf(b, l) <= 1
  PROVE  /\ events[b] # <<>> /\ Head(events[b]).type = "removed" /\ events'[b] = Tail(events[b])
         /\ RowsOf(b, l)' = IF Head(events[b]).id = l THEN 0 ELSE RowsOf(b, l)
         /\ ReadsOf(b, l)' = ReadsOf(b, l) /\ NewsOf(b, l)' = NewsOf(b, l)
<1>1. PICK e : e = Head(events[b])
  OBVIOUS
<1>2. TypeOK /\ TypeOK'
  BY DEF Running
<1>3. /\ events[b] # <<>> /\ e.type = "removed" /\ events'[b] = Tail(events[b])
      /\ data'[b] = RemoveFirst(data[b], e.id)
  BY <1>1 DEF ListsKeysChildRemoved, Next1, Handled, Running, TypeOK
<1>4. e \in Events /\ data[b] \in Seq(Lists) /\ data'[b] \in Seq(Lists)
  BY <1>1, <1>2, <1>3, OldestEvent DEF TypeOK
<1>5. One(e, ReadTold(l)) = 0 /\ One(e, NewKey(l)) = 0
  BY <1>3, <1>4, OneRead
<1>6. /\ ReadsOf(b, l)' + One(e, ReadTold(l)) = ReadsOf(b, l)
      /\ NewsOf(b, l)' + One(e, NewKey(l)) = NewsOf(b, l)
  BY <1>1, <1>2, TallyChildRemoved DEF ReadsOf, NewsOf
<1>7. ReadsOf(b, l)' = ReadsOf(b, l) /\ NewsOf(b, l)' = NewsOf(b, l)
  BY <1>2, <1>5, <1>6, OnceType, OnceTypeNext
<1>8. PICK d, i : d = data'[b] /\ i = e.id
  OBVIOUS
<1>9. \A j, k \in DOMAIN data[b] : data[b][j] = l /\ data[b][k] = l => j = k
  BY <1>4, OneRow DEF RowsOf
<1>10. PICK q \in Seq(Lists) : q = data[b] /\ d = RemoveFirst(q, i)
  BY <1>3, <1>4, <1>8
<1>11. \A j, k \in DOMAIN q : q[j] = l /\ q[k] = l => j = k
  BY <1>9, <1>10
<1>12. d \in Seq(Lists)
  BY <1>4, <1>8
<1>13. HowMany(d, {l}) = IF i = l THEN 0 ELSE HowMany(q, {l})
  <2>1. CASE i = l
    <3>1. l \notin Range(d)
      BY <1>10, <1>11, <2>1, RemoveFirstHolds
    <3>2. HowMany(d, {l}) = 0
      BY <1>12, <3>1, OneRow
    <3> QED BY <2>1, <3>2
  <2>2. CASE i # l
    <3>1. l \in Range(d) <=> l \in Range(q)
      BY <1>10, <2>2, RemoveFirstHolds
    <3>2. \A j, k \in DOMAIN d : d[j] = l /\ d[k] = l => j = k
      <4>1. (\A j, k \in DOMAIN q : q[j] = l /\ q[k] = l => j = k)
               => \A j, k \in DOMAIN RemoveFirst(q, i) :
                     RemoveFirst(q, i)[j] = l /\ RemoveFirst(q, i)[k] = l => j = k
        BY RemoveFirstHolds
      <4>2. \A j, k \in DOMAIN RemoveFirst(q, i) :
               RemoveFirst(q, i)[j] = l /\ RemoveFirst(q, i)[k] = l => j = k
        BY <1>11, <4>1
      <4> QED BY <1>10, <4>2, Zenon
    <3>3. HowMany(d, {l}) \in Nat /\ HowMany(d, {l}) <= 1
      BY <1>12, <3>2, OneRow
    <3>4. HowMany(d, {l}) = 0 <=> l \notin Range(d)
      BY <1>12, OneRow
    <3>5. HowMany(q, {l}) \in Nat
      BY OneRow
    <3>6. HowMany(q, {l}) = 0 <=> l \notin Range(q)
      BY OneRow
    <3>7. HowMany(q, {l}) <= 1
      BY <1>10 DEF RowsOf
    <3>8. PICK m, n \in Nat : m = HowMany(d, {l}) /\ n = HowMany(q, {l})
      BY <3>3, <3>5
    <3>9. m = n
      <4>1. m <= 1 /\ n <= 1 /\ (m = 0 <=> n = 0)
        BY <3>1, <3>3, <3>4, <3>6, <3>7, <3>8
      <4> QED BY <4>1
    <3> QED BY <2>2, <3>8, <3>9
  <2> QED BY <2>1, <2>2
<1>14. RowsOf(b, l) = HowMany(q, {l}) /\ RowsOf(b, l)' = HowMany(d, {l})
  BY <1>8, <1>10 DEF RowsOf
<1> QED BY <1>1, <1>3, <1>7, <1>8, <1>13, <1>14

-----------------------------------------------------------------------------
\* Which steps change the rows of an app.
LEMMA RowsStep ==
  ASSUME Running, NEW b \in Apps, ~Ended(b)
  PROVE  data'[b] = data[b] \/ ListLoaded(b) \/ ListRead(b) \/ ListsKeysChildRemoved(b)
<1>1. ASSUME NEW a \in Apps, b # a,
             \/ AnswerKeys(a) \/ AnswerListen(a) \/ AnswerNode(a) \/ Reject(a) \/ MainStep(a)
             \/ TimeoutGuardFired(a) \/ UserStep(a)
      PROVE  data'[b] = data[b]
  BY <1>1, OthersKept DEF Running, AppKept
<1>2. ASSUME NEW a \in Apps, Commit(a) PROVE data'[b] = data[b]
  BY <1>2 DEF Commit, app
<1>3. ASSUME AnswerKeys(b) \/ AnswerListen(b) \/ AnswerNode(b) \/ Reject(b) \/ TimeoutGuardFired(b)
      PROVE  data'[b] = data[b]
  BY <1>3 DEF AnswerKeys, AnswerListen, AnswerNode, Reject, TimeoutGuardFired, app
<1>4. ~NoSuchList(b) /\ ~Quit(b) /\ ~SelectNoList(b)
  BY DEF NoSuchList, Quit, SelectNoList, Reset, Ended, Running, TypeOK
<1>5. ASSUME UserStep(b) PROVE data'[b] = data[b]
  BY <1>4, <1>5 DEF UserStep, OpenLists, AddNewList, AcceptInvitation, RemoveList, app
<1>6. ASSUME MainStep(b), ~ListLoaded(b), ~ListRead(b), ~ListsKeysChildRemoved(b)
      PROVE  data'[b] = data[b]
  BY <1>4, <1>6 DEF MainStep, LoadNoLists, LoadLists, ListsKeysChildAdded, RemoveListUsersRead, app
<1>7. UNCHANGED vars => data'[b] = data[b]
  BY DEF vars, app
<1>8. [Next]_vars
  BY DEF Running
<1> QED BY <1>1, <1>2, <1>3, <1>5, <1>6, <1>7, <1>8 DEF Next, ServerStep

\* No node of a lost list is told of.
LEMMA LostQuiet ==
  ASSUME Running, NEW b \in Apps, NEW l \in Lists, Lost(b, l), l \notin refused,
         NEW s \in Seq(Events), s = Raised(b, server', up'[b], l) \/ Quiet(b, l, s)
  PROVE  HowMany(s, NodeHere(l)) = 0
<1>1. ASSUME NEW t \in {"added", "removed"} PROVE KeyEvent(t, l) \notin NodeHere(l)
  BY DEF KeyEvent, NodeHere
<1>2. CASE s = Raised(b, server', up'[b], l)
  <2>1. s = <<>> \/ s = <<KeyEvent("added", l)>> \/ s = <<KeyEvent("removed", l)>>
    BY <1>2 DEF Raised
  <2>2. \A e \in Entries(s) : e = KeyEvent("added", l) \/ e = KeyEvent("removed", l)
    BY <2>1 DEF Entries
  <2> QED BY <1>1, <2>2, NoneCounted
<1>3. CASE Quiet(b, l, s)
  BY <1>3, NoneCounted DEF Quiet
<1> QED BY <1>2, <1>3

\* No answer with a node is on its way anew for a lost list.
LEMMA LostBrought ==
  ASSUME Running, NEW b \in Apps, NEW l \in Lists, Lost(b, l), l \notin refused, Brought(b, l)
  PROVE  NodesOf(b, l)' <= NodesOf(b, l)
<1>1. PICK s : /\ Brings(b, s)
               /\ s = Raised(b, server', up'[b], l) \/ Quiet(b, l, s)
  BY DEF Brought
<1>2. s \in Seq(Events) /\ events[b] \in Seq(Events)
  BY <1>1, QueuesOf DEF Brings, Running
<1>3. HowMany(s, NodeHere(l)) = 0
  BY <1>1, <1>2, LostQuiet
<1>4. NodesOf(b, l) \in Nat
  BY OnceType DEF Running
<1>5. CASE events'[b] = events[b] \o s
  <2>1. HowMany(events[b] \o s, NodeHere(l)) = HowMany(events[b], NodeHere(l)) + 0
    BY <1>2, <1>3, CountingMore
  <2> QED BY <1>4, <1>5, <2>1 DEF NodesOf
<1>6. CASE events[b] # <<>> /\ events'[b] = Tail(events[b]) \o s
  <2>1. PICK q : q = Tail(events[b])
    OBVIOUS
  <2>2. /\ q \in Seq(Events)
        /\ HowMany(events[b], NodeHere(l))
             = HowMany(q, NodeHere(l)) + One(Head(events[b]), NodeHere(l))
    BY <1>2, <1>6, <2>1, Counting
  <2>3. /\ HowMany(q \o s, NodeHere(l)) = HowMany(q, NodeHere(l)) + 0
        /\ HowMany(q, NodeHere(l)) \in Nat
    BY <1>2, <1>3, <2>2, CountingMore, HowManyType
  <2>4. One(Head(events[b]), NodeHere(l)) \in {0, 1}
    BY DEF One
  <2> QED BY <1>6, <2>1, <2>2, <2>3, <2>4 DEF NodesOf
<1> QED BY <1>1, <1>5, <1>6 DEF Brings

\* The listener announces every key there is, and nothing else.
LEMMA ListenTells ==
  ASSUME Running, NEW b \in Apps, AnswerListen(b)
  PROVE  \E s \in Seq(Events) :
            /\ events'[b] = events[b] \o s
            /\ \A e \in Entries(s) : \E m \in Lists : e = KeyEvent("added", m)
            /\ \A m \in Lists : KeyEvent("added", m) \in Entries(s) <=> Has(b, m)'
<1> DEFINE K == KeysOf(server, up'[b], owner[b])
<1>1. server' = server
  BY DEF AnswerListen
<1>2. PICK order \in SetToSeqs(K) :
         events'[b] = events[b] \o [k \in DOMAIN order |-> KeyEvent("added", order[k])]
  BY DEF AnswerListen, Running, TypeOK
<1> DEFINE s == [k \in DOMAIN order |-> KeyEvent("added", order[k])]
<1>3. K \in SUBSET Lists /\ IsFiniteSet(K)
  BY ListsFinite, FS_Subset DEF KeysOf
<1>4. \A m \in Lists : m \in K <=> Has(b, m)'
  BY <1>1, RunningKeys
<1> HIDE DEF K
<1>5. order \in Seq(K) /\ Range(order) = K
  <2>1. order \in Seq(K) /\ \A x \in K : \E k \in DOMAIN order : order[k] = x
    BY <1>3, OrderLists
  <2> QED BY <2>1 DEF Range
<1>6. \A m \in Lists : KeyEvent("added", m) \in Events
  BY DEF KeyEvent, Events
<1>7. s \in Seq(Events)
  <2>1. order = [k \in 1 .. Len(order) |-> order[k]] /\ Len(order) \in Nat
        /\ DOMAIN order = 1 .. Len(order) /\ \A k \in DOMAIN order : order[k] \in Lists
    BY <1>3, <1>5
  <2>2. s = [k \in 1 .. Len(order) |-> KeyEvent("added", order[k])]
        /\ \A k \in 1 .. Len(order) : KeyEvent("added", order[k]) \in Events
    BY <1>6, <2>1
  <2> QED BY <2>1, <2>2
<1>8. \A e \in Entries(s) : \E m \in Lists : e = KeyEvent("added", m)
  BY <1>3, <1>5 DEF Entries
<1>9. ASSUME NEW m \in Lists PROVE KeyEvent("added", m) \in Entries(s) <=> m \in K
  <2>1. \A k \in DOMAIN order : KeyEvent("added", order[k]) = KeyEvent("added", m) <=> order[k] = m
    BY DEF KeyEvent
  <2> QED BY <1>5, <2>1 DEF Entries, Range
<1> HIDE DEF s
<1>10. events'[b] = events[b] \o s
  BY <1>2 DEF s
<1> QED BY <1>4, <1>7, <1>8, <1>9, <1>10

\* The nodes and rows of a list that is lost are no more than they were.
LEMMA OnceLost ==
  ASSUME Running, NEW b \in Apps, ~Ended(b), Fine(b), NEW l \in Lists, Once(b, l),
         Lost(b, l), l \notin refused
  PROVE  NodesOf(b, l)' + RowsOf(b, l)' <= 1
<1>1. /\ NodesOf(b, l) + RowsOf(b, l) <= 1 /\ NodesOf(b, l) \in Nat /\ RowsOf(b, l) \in Nat
      /\ NodesOf(b, l)' \in Nat /\ RowsOf(b, l)' \in Nat
  BY OnceType, OnceTypeNext DEF Once, Running
<1>2. CASE ListLoaded(b) \/ ListRead(b)
  BY <1>1, <1>2, NewRowStep
<1>3. NodesOf(b, l)' <= NodesOf(b, l)
  <2>1. CASE ~AnswerListen(b)
    BY <2>1, BroughtStep, LostBrought
  <2>2. CASE AnswerListen(b)
    <3>1. PICK s \in Seq(Events) :
            /\ events'[b] = events[b] \o s
            /\ \A e \in Entries(s) : \E m \in Lists : e = KeyEvent("added", m)
      BY <2>2, ListenTells
    <3>2. events[b] \in Seq(Events)
      BY QueuesOf DEF Running
    <3>3. \A e \in Entries(s) : e \notin NodeHere(l)
      BY <3>1 DEF KeyEvent, NodeHere
    <3>4. HowMany(s, NodeHere(l)) = 0
      BY <3>3, NoneCounted
    <3>5. HowMany(events[b] \o s, NodeHere(l)) = HowMany(events[b], NodeHere(l)) + 0
      BY <3>2, <3>4, CountingMore
    <3> QED BY <1>1, <3>1, <3>5 DEF NodesOf
  <2> QED BY <2>1, <2>2
<1>4. CASE ListsKeysChildRemoved(b)
  <2>1. RowsOf(b, l) <= 1
    BY <1>1
  <2>2. RowsOf(b, l)' <= RowsOf(b, l)
    BY <1>1, <1>4, <2>1, ChildRemovedStep
  <2> QED BY <1>1, <1>3, <2>2
<1>5. CASE data'[b] = data[b]
  BY <1>1, <1>3, <1>5 DEF RowsOf
<1> QED BY <1>2, <1>4, <1>5, RowsStep

-----------------------------------------------------------------------------
\* The reads, the announcement and the row of a list that is not lost.
LEMMA OnceStill ==
  ASSUME NEW b \in Apps, NEW l \in Lists,
         up'[b] = up[b], events'[b] = events[b], data'[b] = data[b]
  PROVE  OnceGoes(b, l)
BY DEF OnceGoes, ReadsOf, RowsOf, NewsOf, Tally

\* A new process starts with nothing.
LEMMA OnceOpened ==
  ASSUME Running, NEW b \in Apps, NEW l \in Lists, OpenLists(b)
  PROVE  OnceGoes(b, l)
<1>1. up[b] = <<>> /\ up'[b] = <<Keys>> /\ events'[b] = events[b] /\ data'[b] = data[b]
  BY DEF OpenLists, Running, AllLoad, Loads, TypeOK
<1>2. Keys \in Requests /\ Keys \notin ReadAsked(l)
  BY DEF Requests, Keys, ReadAsked, Node
<1>3. <<>> \in Seq(Requests) /\ Append(<<>>, Keys) = <<Keys>>
  OBVIOUS
<1>4. \A X : HowMany(<<Keys>>, X) = HowMany(<<>>, X) + One(Keys, X)
  <2> HIDE DEF Keys, Requests
  <2>1. PICK q : q = <<>>
    OBVIOUS
  <2>2. q \in Seq(Requests)
    BY <1>3, <2>1
  <2>3. \A X : HowMany(Append(q, Keys), X) = HowMany(q, X) + One(Keys, X)
    BY <1>2, <2>2, Counting
  <2> QED BY <1>3, <2>1, <2>3
<1>5. HowMany(<<Keys>>, ReadAsked(l)) = HowMany(<<>>, ReadAsked(l))
      /\ HowMany(<<Keys>>, {}) = HowMany(<<>>, {})
  BY <1>2, <1>4, Uncounted DEF One
<1> QED BY <1>1, <1>5 DEF OnceGoes, ReadsOf, NewsOf, RowsOf, Tally

\* The callbacks that read and make rows.
LEMMA OnceChildren ==
  ASSUME Running, NEW b \in Apps, NEW l \in Lists, Once(b, l), ~Lost(b, l),
         \/ ListsKeysChildAdded(b) \/ ListLoaded(b) \/ ListRead(b) \/ ListsKeysChildRemoved(b)
  PROVE  OnceStep(b, l)
<1>1. /\ ReadsOf(b, l) \in Nat /\ NewsOf(b, l) \in Nat /\ RowsOf(b, l) \in Nat
      /\ ReadsOf(b, l)' \in Nat /\ NewsOf(b, l)' \in Nat /\ RowsOf(b, l)' \in Nat
      /\ ReadsOf(b, l) + RowsOf(b, l) <= 1 /\ NewsOf(b, l) + ReadsOf(b, l) <= 1
  BY OnceType, OnceTypeNext DEF Once, Running
<1>2. CASE ListsKeysChildAdded(b)
  <2>1. RowsOf(b, l)' = RowsOf(b, l)
    BY <1>2, ChildAddedStep DEF RowsOf
  <2>2. CASE Head(events[b]).id = l
    <3>1. /\ NewsOf(b, l)' + 1 = NewsOf(b, l)
          /\ ReadsOf(b, l)' = ReadsOf(b, l) + (IF RowsOf(b, l) = 0 THEN 1 ELSE 0)
      BY <1>2, <2>2, ChildAddedStep
    <3> QED BY <1>1, <2>1, <3>1 DEF OnceStep
  <2>3. CASE Head(events[b]).id # l
    <3>1. ReadsOf(b, l)' = ReadsOf(b, l) /\ NewsOf(b, l)' = NewsOf(b, l)
      BY <1>2, <2>3, ChildAddedStep
    <3> QED BY <1>1, <2>1, <3>1 DEF OnceStep
  <2> QED BY <2>2, <2>3
<1>3. CASE ListLoaded(b) \/ ListRead(b)
  <2>1. /\ ReadsOf(b, l)' + RowsOf(b, l)' = ReadsOf(b, l) + RowsOf(b, l)
        /\ NewsOf(b, l)' = NewsOf(b, l) /\ ReadsOf(b, l)' <= ReadsOf(b, l)
    BY <1>3, NewRowStep
  <2> QED BY <1>1, <2>1 DEF OnceStep
<1>4. CASE ListsKeysChildRemoved(b)
  <2>1. RowsOf(b, l) <= 1
    BY <1>1
  <2>2. /\ RowsOf(b, l)' <= RowsOf(b, l)
        /\ ReadsOf(b, l)' = ReadsOf(b, l) /\ NewsOf(b, l)' = NewsOf(b, l)
    BY <1>1, <1>4, <2>1, ChildRemovedStep
  <2> QED BY <1>1, <2>2 DEF OnceStep
<1> QED BY <1>2, <1>3, <1>4

\* Most steps change neither the reads nor the rows.
LEMMA OnceKinds ==
  ASSUME Running, NEW b \in Apps, ~Ended(b), NEW l \in Lists
  PROVE  \/ OnceGoes(b, l)
         \/ AnswerListen(b) \/ LoadLists(b) \/ ListsKeysChildAdded(b)
         \/ ListLoaded(b) \/ ListRead(b) \/ ListsKeysChildRemoved(b)
<1>1. CASE UNCHANGED vars
  BY <1>1, OnceStill DEF vars, sdk, app
<1>2. ASSUME NEW a \in Apps, Commit(a) PROVE OnceGoes(b, l)
  BY <1>2, OnceCommit
<1>3. ASSUME NEW a \in Apps, b # a,
             \/ AnswerKeys(a) \/ AnswerListen(a) \/ AnswerNode(a) \/ Reject(a) \/ MainStep(a)
             \/ TimeoutGuardFired(a) \/ UserStep(a)
      PROVE  OnceGoes(b, l)
  BY <1>3, OthersKept, OnceStill DEF Running, AppKept
<1>4. CASE AnswerKeys(b) \/ AnswerNode(b) \/ Reject(b)
  BY <1>4, OnceAnswer, OnceReject
<1>5. CASE TimeoutGuardFired(b)
  BY <1>5, OnceStill DEF TimeoutGuardFired, sdk
<1>6. ~NoSuchList(b) /\ ~Quit(b) /\ ~SelectNoList(b)
  BY DEF NoSuchList, Quit, SelectNoList, Reset, Ended, Running, TypeOK
<1>7. CASE MainStep(b)
  BY <1>6, <1>7, OnceNoLists, OnceUsersRead DEF MainStep
<1>8. CASE UserStep(b)
  BY <1>6, <1>8, OnceOpened, OnceSend, OnceRemoveList DEF UserStep
<1>9. [Next]_vars
  BY DEF Running
<1> QED BY <1>1, <1>2, <1>3, <1>4, <1>5, <1>7, <1>8, <1>9 DEF Next, ServerStep

LEMMA OnceReads ==
  ASSUME Running, NEW b \in Apps, ~Ended(b), Fine(b), NEW l \in Lists, Once(b, l), ~Lost(b, l)
  PROVE  OnceStep(b, l)
<1>1. CASE OnceGoes(b, l)
  BY <1>1, OnceMore DEF Running
<1>2. CASE AnswerListen(b) \/ LoadLists(b)
  BY <1>2, OnceListen, OnceLists
<1> QED BY <1>1, <1>2, OnceKinds, OnceChildren

\* A refusal is not forgotten.
LEMMA RefusedStays ==
  ASSUME Running, NEW l \in Lists
  PROVE  l \in refused => l \in refused'
<1>1. CASE Untouched(l)
  BY <1>1 DEF Untouched
<1>2. ASSUME NEW a \in Apps, Serves(a, l) PROVE l \in refused => l \in refused'
  <2>1. PICK w : w = Head(up[a])
    OBVIOUS
  <2>2. Commit(a) \/ Reject(a)
    BY <1>2 DEF Serves
  <2> QED BY <1>2, <2>1, <2>2, Served DEF Running
<1> QED BY <1>1, <1>2, Touched DEF Running

\* Every step keeps Once, lost or not, ...
LEMMA OnceKept ==
  ASSUME Running, NEW b \in Apps, Fine(b), NEW l \in Lists, Once(b, l)
  PROVE  Once(b, l)'
<1>1. CASE Ended(b)
  <2>1. /\ ReadsOf(b, l)' = 0 /\ NewsOf(b, l)' = 0 /\ NodesOf(b, l)' = 0 /\ RowsOf(b, l)' = 0
    BY <1>1, Uncounted DEF Ended, ReadsOf, NewsOf, NodesOf, RowsOf, Tally
  <2> QED BY <2>1 DEF Once
<1>2. CASE ~Ended(b)
  <2>1. /\ ReadsOf(b, l)' \in Nat /\ RowsOf(b, l)' \in Nat /\ NodesOf(b, l)' \in Nat
        /\ NodesOf(b, l)' <= ReadsOf(b, l)'
    BY OnceTypeNext DEF Running
  <2>2. CASE ~Lost(b, l)
    <3>1. ReadsOf(b, l)' + RowsOf(b, l)' <= 1 /\ NewsOf(b, l)' + ReadsOf(b, l)' <= 1
      BY <1>2, <2>2, OnceReads DEF OnceStep
    <3>2. NodesOf(b, l)' + RowsOf(b, l)' <= 1
      BY <2>1, <3>1
    <3> QED BY <3>1, <3>2 DEF Once
  <2>3. CASE Lost(b, l)
    <3>1. Lost(b, l)'
      BY <1>2, <2>3, RunningKeys
    <3>2. l \notin refused' => NodesOf(b, l)' + RowsOf(b, l)' <= 1
      BY <1>2, <2>3, OnceLost, RefusedStays
    <3> QED BY <3>1, <3>2 DEF Once
  <2> QED BY <2>2, <2>3
<1> QED BY <1>1, <1>2

LEMMA OnceInit == Init => AllOnce
<1> SUFFICES ASSUME Init, NEW b \in Apps, NEW l \in Lists PROVE Once(b, l)
  BY DEF AllOnce
<1>1. up[b] = <<>> /\ events[b] = <<>> /\ data[b] = <<>>
  BY DEF Init
<1>2. ReadsOf(b, l) = 0 /\ NewsOf(b, l) = 0 /\ NodesOf(b, l) = 0 /\ RowsOf(b, l) = 0
  BY <1>1, Uncounted DEF ReadsOf, NewsOf, NodesOf, RowsOf, Tally
<1> QED BY <1>2 DEF Once

\* ... and so it holds in every state.
LEMMA AlwaysOnce == Spec => [](AllBorn /\ AllFine /\ AllOnce)
<1>1. TypeOK /\ TypeOK' /\ AllLoad /\ (AllBorn /\ AllFine) /\ (AllBorn /\ AllFine)'
        /\ [Next]_vars /\ AllOnce => AllOnce'
  <2> SUFFICES ASSUME TypeOK, TypeOK', AllLoad, AllBorn, AllFine, AllBorn', [Next]_vars, AllOnce,
                      NEW b \in Apps, NEW l \in Lists
               PROVE  Once(b, l)'
    BY DEF AllOnce
  <2>1. Running
    BY DEF Running
  <2> QED BY <2>1, OnceKept DEF AllOnce, AllFine
<1> QED BY <1>1, OnceInit, TypeCorrect, AlwaysLoads, AlwaysFine, PTL DEF Spec

\* No list gets two rows, however the loading, the listener, the guard and the writes
\* of all devices overlap: the read of LoadData and that of ListsKeysChildAdded, which
\* looks for a row and then reads before it appends, are never both out for one list.
THEOREM RowsAreDistinct == Spec => []NoDuplicateLists
<1>1. TypeOK /\ (AllBorn /\ AllFine /\ AllOnce) => NoDuplicateLists
  <2> SUFFICES ASSUME TypeOK, AllOnce, NEW a \in Apps,
                      NEW j \in DOMAIN data[a], NEW k \in DOMAIN data[a],
                      data[a][j] = data[a][k], data[a][j] \notin refused
               PROVE  j = k
    BY DEF NoDuplicateLists
  <2>1. PICK l : l = data[a][j]
    OBVIOUS
  <2>2. data[a] \in Seq(Lists) /\ l \in Lists
    BY <2>1 DEF TypeOK
  <2>3. RowsOf(a, l) <= 1
    BY <2>1, <2>2, OnceType DEF AllOnce, Once
  <2>4. \A m, n \in DOMAIN data[a] : data[a][m] = l /\ data[a][n] = l => m = n
    BY <2>2, <2>3, OneRow DEF RowsOf
  <2> QED BY <2>1, <2>4
<1> QED BY <1>1, TypeCorrect, AlwaysOnce, PTL

-----------------------------------------------------------------------------
(***************************************************************************)
(* What the listener tells of a key ends with the truth: a key there is    *)
(* was announced, and no withdrawal follows; a row of a key there is no    *)
(* more will go, unless the listener never knew of it.                     *)
(***************************************************************************)
Shows(l) == NewKey(l) \cup NodeHere(l)

EndsOf(b, l) == Tally(b, {}, OldKey(l))

KeyTold(b, l) == /\ LastOf(events[b], NewKey(l), OldKey(l))
                 /\ NewsOf(b, l) > 0 \/ ReadsOf(b, l) > 0 \/ RowsOf(b, l) > 0

NoKeyTold(b, l) == /\ LastOf(events[b], OldKey(l), Shows(l))
                   /\ RowsOf(b, l) > 0 => EndsOf(b, l) > 0

Heeds(b, l) == listener[b] = "on" =>
    /\ Has(b, l) => KeyTold(b, l)
    /\ ~Has(b, l) /\ l \notin gone[b] /\ l \notin refused => NoKeyTold(b, l)

AllHeed == \A b \in Apps, l \in Lists : Heeds(b, l)

\* A tally of callbacks only, and whether there is one.
LEMMA TallyTold ==
  ASSUME NEW b \in Apps, NEW l \in Lists
  PROVE  /\ TypeOK => /\ EndsOf(b, l) \in Nat
                      /\ EndsOf(b, l) > 0 <=> Places(events[b], OldKey(l)) # {}
                      /\ NewsOf(b, l) > 0 <=> Places(events[b], NewKey(l)) # {}
         /\ TypeOK' => /\ EndsOf(b, l)' \in Nat
                       /\ EndsOf(b, l)' > 0 <=> Places(events'[b], OldKey(l)) # {}
                       /\ NewsOf(b, l)' > 0 <=> Places(events'[b], NewKey(l)) # {}
<1>1. ASSUME NEW q \in Seq(Requests), NEW e \in Seq(Events), NEW X
      PROVE  /\ HowMany(q, {}) + HowMany(e, X) \in Nat
             /\ HowMany(q, {}) + HowMany(e, X) > 0 <=> Places(e, X) # {}
  <2>1. HowMany(q, {}) = 0
    BY NoneCounted
  <2>2. HowMany(e, X) \in Nat /\ (HowMany(e, X) = 0 <=> Places(e, X) = {})
    BY HowManyType DEF Places
  <2> QED BY <2>1, <2>2
<1>2. TypeOK => up[b] \in Seq(Requests) /\ events[b] \in Seq(Events)
  BY DEF TypeOK
<1>3. TypeOK' => up'[b] \in Seq(Requests) /\ events'[b] \in Seq(Events)
  BY DEF TypeOK
<1> QED BY <1>1, <1>2, <1>3 DEF EndsOf, NewsOf, Tally

\* The last word stays the last, and a new one is.
LEMMA LastWord ==
  ASSUME Running, NEW b \in Apps, NEW s, Brings(b, s), NEW X, NEW Y
  PROVE  /\ LastOf(s, X, Y) /\ (LastOf(events[b], X, Y) \/ Places(s, X) # {})
              => LastOf(events'[b], X, Y)
         /\ Places(s, X) # {} => Places(events'[b], X) # {}
<1>1. s \in Seq(Events) /\ events[b] \in Seq(Events)
  BY QueuesOf DEF Brings, Running
<1>2. ASSUME NEW q \in Seq(Events)
      PROVE  /\ LastOf(s, X, Y) /\ (LastOf(q, X, Y) \/ Places(s, X) # {}) => LastOf(q \o s, X, Y)
             /\ Places(s, X) # {} => Places(q \o s, X) # {}
  BY <1>1, LastOfJoined
<1>3. PICK q \in Seq(Events) : /\ events'[b] = q \o s
                               /\ LastOf(events[b], X, Y) => LastOf(q, X, Y)
  <2>1. CASE events'[b] = events[b] \o s
    BY <1>1, <2>1
  <2>2. CASE events[b] # <<>> /\ events'[b] = Tail(events[b]) \o s
    <3>1. Tail(events[b]) \in Seq(Events)
      BY <1>1, <2>2, Counting
    <3>2. LastOf(events[b], X, Y) => LastOf(Tail(events[b]), X, Y)
      BY <1>1, <2>2, LastOfTail
    <3> QED BY <2>2, <3>1, <3>2
  <2> QED BY <2>1, <2>2 DEF Brings
<1> QED BY <1>2, <1>3

\* What is told of a key.
LEMMA RaisedLast ==
  ASSUME Running, NEW b \in Apps, NEW l \in Lists, listener[b] = "on", NEW s,
         s = Raised(b, server', up'[b], l)
  PROVE  /\ Has(b, l)' /\ ~Has(b, l) => /\ Places(s, NewKey(l)) # {}
                                        /\ LastOf(s, NewKey(l), OldKey(l))
         /\ ~Has(b, l)' /\ Has(b, l) => /\ Places(s, OldKey(l)) # {}
                                        /\ LastOf(s, OldKey(l), Shows(l))
         /\ HasKept(b, l) => s = <<>>
<1>1. /\ l \in KeysOf(server, up[b], owner[b]) <=> Has(b, l)
      /\ l \in KeysOf(server', up'[b], owner[b]) <=> Has(b, l)'
  BY RunningKeys
<1>2. PICK e, d : e = KeyEvent("added", l) /\ d = KeyEvent("removed", l)
  OBVIOUS
<1>3. /\ e \in NewKey(l) /\ e \notin OldKey(l) /\ d \in OldKey(l) /\ d \notin Shows(l)
  BY <1>2 DEF KeyEvent, NewKey, OldKey, Shows, NodeHere
<1>4. /\ Has(b, l)' /\ ~Has(b, l) => s = <<e>>
      /\ ~Has(b, l)' /\ Has(b, l) => s = <<d>>
      /\ HasKept(b, l) => s = <<>>
  BY <1>1, <1>2 DEF Raised, KeysSeen, HasKept
<1> QED BY <1>3, <1>4, PlacesOne

\* Nothing of a list's node, nor of its key.
LEMMA QuietLast ==
  ASSUME NEW b, NEW l, NEW s, Quiet(b, l, s)
  PROVE  /\ LastOf(s, NewKey(l), OldKey(l))
         /\ ~Has(b, l) /\ l \notin refused => LastOf(s, OldKey(l), Shows(l))
BY DEF Quiet, LastOf, Places, Entries, Shows

\* A live listener has been live, and what it never knew of stays so.
LEMMA ListenerOn ==
  ASSUME Running, NEW b \in Apps, ~AnswerListen(b), listener'[b] = "on"
  PROVE  listener[b] = "on" /\ gone'[b] = gone[b]
<1>1. ASSUME NEW a \in Apps, Commit(a) \/ AnswerKeys(a) \/ AnswerNode(a) \/ Reject(a)
      PROVE  listener' = listener /\ gone' = gone
  BY <1>1 DEF Commit, AnswerKeys, AnswerNode, Reject
<1>2. ASSUME NEW a \in Apps, AnswerListen(a), a # b
      PROVE  listener'[b] = listener[b] /\ gone'[b] = gone[b]
  BY <1>2 DEF AnswerListen, Running, TypeOK
<1>3. ASSUME NEW a \in Apps, MainStep(a) \/ TimeoutGuardFired(a) \/ UserStep(a)
      PROVE  listener[b] = "on" /\ gone'[b] = gone[b]
  <2>1. CASE NoSuchList(a) \/ Quit(a) \/ SelectNoList(a)
    BY <2>1 DEF NoSuchList, Quit, SelectNoList, Reset, Running, TypeOK
  <2>2. CASE LoadNoLists(a) \/ ListLoaded(a)
    BY <2>2 DEF LoadNoLists, ListLoaded, Loaded, Running, TypeOK
  <2>3. CASE LoadLists(a) \/ ListsKeysChildAdded(a) \/ ListRead(a) \/ ListsKeysChildRemoved(a)
             \/ RemoveListUsersRead(a)
    BY <2>3 DEF LoadLists, ListsKeysChildAdded, ListRead, ListsKeysChildRemoved,
                RemoveListUsersRead
  <2>4. CASE TimeoutGuardFired(a) \/ OpenLists(a) \/ AddNewList(a) \/ AcceptInvitation(a)
             \/ RemoveList(a)
    BY <2>4 DEF TimeoutGuardFired, OpenLists, AddNewList, AcceptInvitation, RemoveList, sdk
  <2> QED BY <1>3, <2>1, <2>2, <2>3, <2>4 DEF MainStep, UserStep
<1>4. CASE UNCHANGED vars
  BY <1>4 DEF vars, sdk
<1>5. [Next]_vars
  BY DEF Running
<1> QED BY <1>1, <1>2, <1>3, <1>4, <1>5 DEF Next, ServerStep

\* A withdrawal waits until it is handled.
LEMMA EndsStay ==
  ASSUME Running, NEW b \in Apps, ~Ended(b), NEW l \in Lists, ~AnswerListen(b),
         ~ListsKeysChildRemoved(b), ~LoadLists(b)
  PROVE  EndsOf(b, l)' >= EndsOf(b, l)
<1> DEFINE Y == OldKey(l)
<1>1. /\ TypeOK /\ TypeOK' /\ [Next]_vars /\ Paired({}, Y) /\ \A w \in Writes : w \notin {}
  BY DEF Running, Paired, OldKey, KeyEvent, NodeOps, NodeEvent, KeysEvent
<1>2. EndsOf(b, l) \in Nat /\ EndsOf(b, l)' \in Nat
  BY <1>1, TallyTold
<1>3. \A s, q : \A m \in Lists : HowMany(Raised(b, s, q, m), Y) \in Nat
  <2>1. ASSUME NEW s, NEW q, NEW m \in Lists PROVE HowMany(Raised(b, s, q, m), Y) \in Nat
    BY <1>1, RaisedCount, HowManyType
  <2> QED BY <2>1
<1>4. ASSUME NEW e \in Events, e.type # "removed" PROVE One(e, Y) = 0
  BY <1>4 DEF One, OldKey, KeyEvent
<1>5. ASSUME events[b] # <<>>, Head(events[b]).type # "removed" PROVE One(Head(events[b]), Y) = 0
  BY <1>1, <1>4, <1>5, OldestEvent
<1> HIDE DEF Y
<1>6. \A x : One(x, {}) = 0
  BY DEF One
<1>7. ASSUME Tally(b, {}, Y)' >= Tally(b, {}, Y) PROVE EndsOf(b, l)' >= EndsOf(b, l)
  BY <1>7 DEF EndsOf, Y
<1>8. Tally(b, {}, Y) \in Nat /\ Tally(b, {}, Y)' \in Nat
  BY <1>2 DEF EndsOf, Y
<1>9. ASSUME up'[b] = up[b], events'[b] = events[b] PROVE EndsOf(b, l)' >= EndsOf(b, l)
  BY <1>2, <1>9 DEF EndsOf, Tally
<1>10. CASE UNCHANGED vars
  BY <1>9, <1>10 DEF vars, sdk
<1>11. ASSUME NEW a \in Apps, Commit(a) PROVE EndsOf(b, l)' >= EndsOf(b, l)
  <2>1. PICK m : m = Head(up[a]).id
    OBVIOUS
  <2>2. /\ m \in Lists
        /\ Tally(b, {}, Y)' = Tally(b, {}, Y) + HowMany(Raised(b, server', up'[b], m), Y)
    BY <1>1, <1>11, <2>1, TallyCommit
  <2> QED BY <1>3, <1>7, <1>8, <2>2
<1>12. ASSUME NEW a \in Apps, b # a,
              \/ AnswerKeys(a) \/ AnswerListen(a) \/ AnswerNode(a) \/ Reject(a) \/ MainStep(a)
              \/ TimeoutGuardFired(a) \/ UserStep(a)
       PROVE  EndsOf(b, l)' >= EndsOf(b, l)
  BY <1>1, <1>9, <1>12, OthersKept
<1>13. CASE AnswerKeys(b) \/ AnswerNode(b)
  <2>1. Tally(b, {}, Y)' = Tally(b, {}, Y)
    BY <1>1, <1>13, TallyAnswerKeys, TallyAnswerNode
  <2> QED BY <1>7, <1>8, <2>1
<1>14. CASE Reject(b)
  <2>1. PICK m : m = Head(up[b]).id
    OBVIOUS
  <2>2. /\ m \in Lists
        /\ Tally(b, {}, Y)' = Tally(b, {}, Y) + HowMany(Raised(b, server, up'[b], m), Y)
    BY <1>1, <1>14, <2>1, TallyReject
  <2> QED BY <1>3, <1>7, <1>8, <2>2
<1>15. CASE TimeoutGuardFired(b)
  BY <1>9, <1>15 DEF TimeoutGuardFired, sdk
<1>16. ~NoSuchList(b) /\ ~Quit(b) /\ ~SelectNoList(b)
  BY DEF NoSuchList, Quit, SelectNoList, Reset, Ended, Running, TypeOK
<1>17. CASE LoadNoLists(b)
  <2>1. Tally(b, {}, Y)' + One(Head(events[b]), Y) = Tally(b, {}, Y) + One(Listen, {})
    BY <1>1, <1>17, TallyLoadNoLists
  <2>2. One(Head(events[b]), Y) = 0
    BY <1>5, <1>17 DEF LoadNoLists, Next1
  <2> QED BY <1>6, <1>7, <1>8, <2>1, <2>2
<1>18. CASE ListLoaded(b)
  <2>1. Tally(b, {}, Y)' + One(Head(events[b]), Y)
          = Tally(b, {}, Y) + (IF left[b] - 1 = 0 THEN One(Listen, {}) ELSE 0)
    BY <1>1, <1>18, TallyListLoaded
  <2>2. One(Head(events[b]), Y) = 0
    BY <1>5, <1>18 DEF ListLoaded, Next1
  <2> QED BY <1>6, <1>7, <1>8, <2>1, <2>2
<1>19. CASE ListRead(b)
  <2>1. Tally(b, {}, Y)' + One(Head(events[b]), Y) = Tally(b, {}, Y)
    BY <1>1, <1>19, TallyListRead
  <2>2. One(Head(events[b]), Y) = 0
    BY <1>5, <1>19 DEF ListRead, Next1
  <2> QED BY <1>7, <1>8, <2>1, <2>2
<1>20. CASE ListsKeysChildAdded(b)
  <2>1. Tally(b, {}, Y)' + One(Head(events[b]), Y) = Tally(b, {}, Y) +
           (IF Head(events[b]).id \in RowIds(b) THEN 0
            ELSE One(Node("list", Head(events[b]).id), {}))
    BY <1>1, <1>20, TallyChildAdded
  <2>2. One(Head(events[b]), Y) = 0
    BY <1>5, <1>20 DEF ListsKeysChildAdded, Next1
  <2> QED BY <1>6, <1>7, <1>8, <2>1, <2>2
<1>21. CASE RemoveListUsersRead(b)
  <2>1. PICK m : m = Head(events[b]).id
    OBVIOUS
  <2>2. /\ m \in Lists
        /\ Tally(b, {}, Y)' + One(Head(events[b]), Y)
             = Tally(b, {}, Y) + HowMany(Raised(b, server, up'[b], m), Y)
    BY <1>1, <1>21, <2>1, TallyUsersRead
  <2>3. One(Head(events[b]), Y) = 0
    BY <1>5, <1>21 DEF RemoveListUsersRead, Next1
  <2> QED BY <1>3, <1>7, <1>8, <2>2, <2>3
<1>22. CASE OpenLists(b)
  <2>1. Tally(b, {}, Y)' = One(Keys, {}) + HowMany(events[b], Y)
    BY <1>1, <1>22, TallyOpen
  <2>2. Tally(b, {}, Y) = HowMany(events[b], Y)
    <3>1. up[b] = <<>>
      BY <1>22 DEF OpenLists, Running, AllLoad, Loads
    <3>2. HowMany(<<>>, {}) = 0 /\ HowMany(events[b], Y) \in Nat
      BY <1>1, Uncounted, QueuesOf
    <3> QED BY <3>1, <3>2 DEF Tally
  <2> QED BY <1>6, <1>7, <1>8, <2>1, <2>2
<1>23. CASE AddNewList(b) \/ AcceptInvitation(b)
  <2>1. PICK w \in Writes : Send(b, w)
    <3>1. owner[b] \in Users /\ heard \subseteq Lists
      BY DEF Running, TypeOK
    <3>2. \A m \in Lists : AddOf(m, owner[b]) \in Writes /\ JoinOf(m, owner[b]) \in Writes
      BY <3>1 DEF AddOf, JoinOf, Writes, WriteOps
    <3> QED BY <1>23, <3>1, <3>2 DEF AddNewList, AcceptInvitation
  <2>2. w.id \in Lists /\ w \notin {}
    BY DEF Writes
  <2>3. Tally(b, {}, Y)' = Tally(b, {}, Y) + HowMany(Raised(b, server, up'[b], w.id), Y)
    BY <1>1, <2>1, <2>2, TallySend
  <2> QED BY <1>3, <1>7, <1>8, <2>2, <2>3
<1>24. CASE RemoveList(b)
  <2>1. Tally(b, {}, Y)' = Tally(b, {}, Y)
    BY <1>1, <1>24, TallyRemoveList
  <2> QED BY <1>7, <1>8, <2>1
<1>25. CASE MainStep(b)
  BY <1>16, <1>17, <1>18, <1>19, <1>20, <1>21, <1>25 DEF MainStep
<1>26. CASE UserStep(b)
  BY <1>16, <1>22, <1>23, <1>24, <1>26 DEF UserStep
<1> QED BY <1>1, <1>10, <1>11, <1>12, <1>13, <1>14, <1>15, <1>25, <1>26 DEF Next, ServerStep

-----------------------------------------------------------------------------
\* What is out about a key there is, or shown, goes on.
LEMMA WordStays ==
  ASSUME Running, NEW b \in Apps, ~Ended(b), NEW l \in Lists, listener[b] = "on",
         ~AnswerListen(b), ~ListsKeysChildRemoved(b),
         NewsOf(b, l) > 0 \/ ReadsOf(b, l) > 0 \/ RowsOf(b, l) > 0
  PROVE  NewsOf(b, l)' > 0 \/ ReadsOf(b, l)' > 0 \/ RowsOf(b, l)' > 0
<1>1. /\ ReadsOf(b, l) \in Nat /\ NewsOf(b, l) \in Nat /\ RowsOf(b, l) \in Nat
      /\ ReadsOf(b, l)' \in Nat /\ NewsOf(b, l)' \in Nat /\ RowsOf(b, l)' \in Nat
  BY OnceType, OnceTypeNext DEF Running
<1>2. CASE OnceGoes(b, l)
  BY <1>1, <1>2 DEF OnceGoes
<1>3. ~LoadLists(b)
  BY KeysStart DEF LoadLists, Running, AllLoad
<1>4. CASE ListLoaded(b) \/ ListRead(b)
  <2>1. /\ ReadsOf(b, l)' + RowsOf(b, l)' = ReadsOf(b, l) + RowsOf(b, l)
        /\ NewsOf(b, l)' = NewsOf(b, l)
    BY <1>4, NewRowStep
  <2> QED BY <1>1, <2>1
<1>5. CASE ListsKeysChildAdded(b)
  <2>1. RowsOf(b, l)' = RowsOf(b, l)
    BY <1>5, ChildAddedStep DEF RowsOf
  <2>2. CASE Head(events[b]).id = l
    <3>1. ReadsOf(b, l)' = ReadsOf(b, l) + (IF RowsOf(b, l) = 0 THEN 1 ELSE 0)
      BY <1>5, <2>2, ChildAddedStep
    <3> QED BY <1>1, <2>1, <3>1
  <2>3. CASE Head(events[b]).id # l
    <3>1. ReadsOf(b, l)' = ReadsOf(b, l) /\ NewsOf(b, l)' = NewsOf(b, l)
      BY <1>5, <2>3, ChildAddedStep
    <3> QED BY <1>1, <2>1, <3>1
  <2> QED BY <2>2, <2>3
<1> QED BY <1>2, <1>3, <1>4, <1>5, OnceKinds

\* The withdrawal of a key is handled: of the others nothing changes.
LEMMA RemovedOther ==
  ASSUME Running, NEW b \in Apps, NEW l \in Lists, ListsKeysChildRemoved(b)
  PROVE  /\ events[b] # <<>> /\ events'[b] = Tail(events[b])
         /\ Head(events[b]).id = l => Head(events[b]) \in OldKey(l)
         /\ Head(events[b]).id # l =>
              /\ Head(events[b]) \notin OldKey(l)
              /\ RowsOf(b, l)' > 0 <=> RowsOf(b, l) > 0
         /\ Head(events[b]) \notin NewKey(l)
         /\ ReadsOf(b, l)' = ReadsOf(b, l)
<1>1. PICK e, d, q : e = Head(events[b]) /\ d = data'[b] /\ q = data[b]
  OBVIOUS
<1>2. TypeOK /\ TypeOK'
  BY DEF Running
<1>3. /\ events[b] # <<>> /\ e.type = "removed" /\ events'[b] = Tail(events[b])
      /\ d = RemoveFirst(q, e.id)
  BY <1>1 DEF ListsKeysChildRemoved, Next1, Handled, Running, TypeOK
<1>4. e \in Events /\ q \in Seq(Lists) /\ d \in Seq(Lists)
  <2>1. e \in Events
    BY <1>1, <1>2, <1>3, OldestEvent
  <2> QED BY <1>1, <1>2, <2>1 DEF TypeOK
<1>5. /\ e.id = l => e \in OldKey(l)
      /\ e.id # l => e \notin OldKey(l)
      /\ e \notin NewKey(l)
  <2>1. PICK m \in Lists : e = KeyEvent("removed", m)
    <3>1. e \in [type : {"added", "removed"}, id : Lists]
      BY <1>3, <1>4 DEF Events, NodeOps
    <3>2. e = [type |-> e.type, id |-> e.id] /\ e.id \in Lists
      BY <3>1
    <3> QED BY <1>3, <3>2 DEF KeyEvent
  <2>2. e.id = m
    BY <2>1 DEF KeyEvent
  <2>3. \A t : KeyEvent("removed", m) = KeyEvent(t, l) <=> t = "removed" /\ m = l
    BY DEF KeyEvent
  <2> QED BY <2>1, <2>2, <2>3 DEF OldKey, NewKey
<1>6. e.id # l => (l \in Range(d) <=> l \in Range(q))
  BY <1>3, <1>4, RemoveFirstHolds
<1>7. e.id # l => (HowMany(d, {l}) > 0 <=> HowMany(q, {l}) > 0)
  <2>1. /\ HowMany(d, {l}) \in Nat /\ HowMany(q, {l}) \in Nat
        /\ HowMany(d, {l}) = 0 <=> l \notin Range(d)
        /\ HowMany(q, {l}) = 0 <=> l \notin Range(q)
    BY <1>4, OneRow
  <2> QED BY <1>6, <2>1
<1>8. One(e, ReadTold(l)) = 0
  BY <1>3, <1>4, OneRead
<1>9. ReadsOf(b, l)' + One(e, ReadTold(l)) = ReadsOf(b, l)
  BY <1>1, <1>2, TallyChildRemoved DEF ReadsOf
<1>10. ReadsOf(b, l)' = ReadsOf(b, l)
  BY <1>2, <1>8, <1>9, OnceTypeNext
<1> QED BY <1>1, <1>3, <1>5, <1>7, <1>10 DEF RowsOf

\* A key there is.
LEMMA KeyToldKept ==
  ASSUME Running, NEW b \in Apps, ~Ended(b), Fine(b), NEW l \in Lists, ~AnswerListen(b),
         listener[b] = "on", Heeds(b, l), Has(b, l)'
  PROVE  KeyTold(b, l)'
<1>1. PICK s : /\ Brings(b, s)
               /\ s = Raised(b, server', up'[b], l) \/ (Quiet(b, l, s) /\ HasKept(b, l))
  BY BroughtStep DEF Brought
<1>2. TypeOK /\ TypeOK' /\ events[b] \in Seq(Events)
  BY QueuesOf DEF Running
<1>3. CASE ~Has(b, l)
  <2>1. Places(s, NewKey(l)) # {} /\ LastOf(s, NewKey(l), OldKey(l))
    BY <1>1, <1>3, RaisedLast DEF HasKept
  <2>2. Places(events'[b], NewKey(l)) # {} /\ LastOf(events'[b], NewKey(l), OldKey(l))
    BY <1>1, <2>1, LastWord
  <2> QED BY <1>2, <2>2, TallyTold DEF KeyTold
<1>4. CASE Has(b, l)
  <2>1. KeyTold(b, l)
    BY <1>4 DEF Heeds
  <2>2. LastOf(s, NewKey(l), OldKey(l))
    <3>1. CASE Quiet(b, l, s)
      BY <3>1, QuietLast
    <3>2. CASE s = Raised(b, server', up'[b], l)
      <4>1. s = <<>>
        BY <1>4, <3>2, RaisedLast DEF HasKept
      <4> QED BY <4>1, PlacesOne
    <3> QED BY <1>1, <3>1, <3>2
  <2>3. LastOf(events'[b], NewKey(l), OldKey(l))
    BY <1>1, <2>1, <2>2, LastWord DEF KeyTold
  <2>4. NewsOf(b, l)' > 0 \/ ReadsOf(b, l)' > 0 \/ RowsOf(b, l)' > 0
    <3>1. CASE ~ListsKeysChildRemoved(b)
      BY <2>1, <3>1, WordStays DEF KeyTold
    <3>2. CASE ListsKeysChildRemoved(b)
      <4>1. /\ events[b] # <<>> /\ events'[b] = Tail(events[b])
            /\ Head(events[b]).id = l => Head(events[b]) \in OldKey(l)
            /\ Head(events[b]).id # l => (RowsOf(b, l)' > 0 <=> RowsOf(b, l) > 0)
            /\ Head(events[b]) \notin NewKey(l)
            /\ ReadsOf(b, l)' = ReadsOf(b, l)
        BY <3>2, RemovedOther
      <4>2. /\ Head(events[b]) \in OldKey(l) => Places(Tail(events[b]), NewKey(l)) # {}
            /\ Places(events[b], NewKey(l)) # {} => Places(Tail(events[b]), NewKey(l)) # {}
        BY <1>2, <2>1, <4>1, LastOfTail DEF KeyTold
      <4>3. /\ NewsOf(b, l) > 0 <=> Places(events[b], NewKey(l)) # {}
            /\ NewsOf(b, l)' > 0 <=> Places(events'[b], NewKey(l)) # {}
        BY <1>2, TallyTold
      <4> QED BY <2>1, <4>1, <4>2, <4>3 DEF KeyTold
    <3> QED BY <3>1, <3>2
  <2> QED BY <2>3, <2>4 DEF KeyTold
<1> QED BY <1>3, <1>4

\* A key there is no more.
LEMMA NoKeyToldKept ==
  ASSUME Running, NEW b \in Apps, ~Ended(b), Fine(b), NEW l \in Lists, ~AnswerListen(b),
         Once(b, l), listener[b] = "on", Heeds(b, l), ~Has(b, l)',
         l \notin gone[b], l \notin refused
  PROVE  NoKeyTold(b, l)'
<1>1. PICK s : /\ Brings(b, s)
               /\ s = Raised(b, server', up'[b], l) \/ (Quiet(b, l, s) /\ HasKept(b, l))
  BY BroughtStep DEF Brought
<1>2. TypeOK /\ TypeOK' /\ events[b] \in Seq(Events)
  BY QueuesOf DEF Running
<1>3. CASE Has(b, l)
  <2>1. Places(s, OldKey(l)) # {} /\ LastOf(s, OldKey(l), Shows(l))
    BY <1>1, <1>3, RaisedLast DEF HasKept
  <2>2. Places(events'[b], OldKey(l)) # {} /\ LastOf(events'[b], OldKey(l), Shows(l))
    BY <1>1, <2>1, LastWord
  <2> QED BY <1>2, <2>2, TallyTold DEF NoKeyTold
<1>4. CASE ~Has(b, l)
  <2>1. NoKeyTold(b, l)
    BY <1>4 DEF Heeds
  <2>2. LastOf(s, OldKey(l), Shows(l))
    <3>1. CASE Quiet(b, l, s)
      BY <1>4, <3>1, QuietLast
    <3>2. CASE s = Raised(b, server', up'[b], l)
      <4>1. s = <<>>
        BY <1>4, <3>2, RaisedLast DEF HasKept
      <4> QED BY <4>1, PlacesOne
    <3> QED BY <1>1, <3>1, <3>2
  <2>3. LastOf(events'[b], OldKey(l), Shows(l))
    BY <1>1, <2>1, <2>2, LastWord DEF NoKeyTold
  <2>4. /\ EndsOf(b, l) \in Nat /\ EndsOf(b, l)' \in Nat
        /\ EndsOf(b, l) > 0 <=> Places(events[b], OldKey(l)) # {}
        /\ EndsOf(b, l)' > 0 <=> Places(events'[b], OldKey(l)) # {}
        /\ RowsOf(b, l) \in Nat /\ RowsOf(b, l)' \in Nat
    BY <1>2, TallyTold, OnceType, OnceTypeNext
  <2>5. ASSUME RowsOf(b, l)' > 0 PROVE EndsOf(b, l)' > 0
    <3>1. CASE ListLoaded(b) \/ ListRead(b)
      <4>1. /\ events[b] # <<>> /\ events'[b] = Tail(events[b])
            /\ NodesOf(b, l)' + RowsOf(b, l)' = NodesOf(b, l) + RowsOf(b, l)
        BY <3>1, NewRowStep
      <4>2. NodesOf(b, l) = NodesOf(b, l)' + One(Head(events[b]), NodeHere(l))
        BY <1>2, <4>1, Counting DEF NodesOf
      <4>3. NodesOf(b, l) \in Nat /\ NodesOf(b, l)' \in Nat
        BY <1>2, OnceType, OnceTypeNext
      <4>4. RowsOf(b, l) > 0 \/ Head(events[b]) \in NodeHere(l)
        BY <2>4, <2>5, <4>1, <4>2, <4>3 DEF One
      <4>5. CASE Head(events[b]) \in NodeHere(l)
        <5>1. Head(events[b]) \in Shows(l)
          BY <4>5 DEF Shows
        <5>2. Places(Tail(events[b]), OldKey(l)) # {}
          BY <1>2, <2>1, <4>1, <5>1, LastOfTail DEF NoKeyTold
        <5> QED BY <2>4, <4>1, <5>2
      <4>6. CASE RowsOf(b, l) > 0
        <5>1. EndsOf(b, l)' >= EndsOf(b, l)
          <6>1. ~ListsKeysChildRemoved(b) /\ ~LoadLists(b)
            BY <3>1 DEF ListLoaded, ListRead, ListsKeysChildRemoved, LoadLists, Next1
          <6> QED BY <6>1, EndsStay
        <5> QED BY <2>1, <2>4, <4>6, <5>1 DEF NoKeyTold
      <4> QED BY <4>4, <4>5, <4>6
    <3>2. CASE ListsKeysChildRemoved(b)
      <4>1. /\ events[b] # <<>> /\ events'[b] = Tail(events[b])
            /\ Head(events[b]).id # l => /\ Head(events[b]) \notin OldKey(l)
                                         /\ RowsOf(b, l)' > 0 <=> RowsOf(b, l) > 0
        BY <3>2, RemovedOther
      <4>2. RowsOf(b, l) <= 1
        BY <1>2, <2>4, OnceType DEF Once
      <4>3. Head(events[b]).id # l
        BY <2>5, <3>2, <4>2, ChildRemovedStep
      <4>4. EndsOf(b, l) > 0
        BY <2>1, <2>5, <4>1, <4>3 DEF NoKeyTold
      <4>5. Places(Tail(events[b]), OldKey(l)) # {}
        BY <1>2, <2>4, <4>1, <4>3, <4>4, LastOfTail
      <4> QED BY <2>4, <4>1, <4>5
    <3>3. CASE data'[b] = data[b] /\ ~ListsKeysChildRemoved(b)
      <4>1. RowsOf(b, l) > 0
        BY <2>5, <3>3 DEF RowsOf
      <4>2. ~LoadLists(b)
        BY KeysStart DEF LoadLists, Running, AllLoad
      <4>3. EndsOf(b, l)' >= EndsOf(b, l)
        BY <3>3, <4>2, EndsStay
      <4> QED BY <2>1, <2>4, <4>1, <4>3 DEF NoKeyTold
    <3> QED BY <3>1, <3>2, <3>3, RowsStep
  <2> QED BY <2>3, <2>5 DEF NoKeyTold
<1> QED BY <1>3, <1>4

-----------------------------------------------------------------------------
\* The listener goes live.
LEMMA HeedsListen ==
  ASSUME Running, NEW b \in Apps, NEW l \in Lists, AnswerListen(b)
  PROVE  Heeds(b, l)'
<1>1. /\ TypeOK /\ TypeOK' /\ Loads(b) /\ events[b] \in Seq(Events)
      /\ ReadsOf(b, l) = 0 /\ NewsOf(b, l) = 0 /\ listener[b] = "asked"
  BY ListenStarts, QueuesOf DEF Running, AllLoad
<1>2. PICK s \in Seq(Events) :
        /\ events'[b] = events[b] \o s
        /\ \A e \in Entries(s) : \E m \in Lists : e = KeyEvent("added", m)
        /\ \A m \in Lists : KeyEvent("added", m) \in Entries(s) <=> Has(b, m)'
  BY ListenTells
<1>3. /\ Places(events[b], OldKey(l)) = {} /\ Places(events[b], Shows(l)) = {}
  <2>1. HowMany(events[b], KeyEvents) = 0 /\ HowMany(events[b], NodeHere(l)) = 0
    <3>1. TellsOut(b) = 0
      BY <1>1 DEF Loads
    <3>2. HowMany(events[b], KeyEvents) \in Nat /\ HowMany(up[b], {}) \in Nat
      BY <1>1, QueuesOf
    <3>3. NodesOf(b, l) \in Nat /\ NodesOf(b, l) <= 0
      BY <1>1, OnceType
    <3> QED BY <3>1, <3>2, <3>3 DEF TellsOut, Tally, NodesOf
  <2>2. \A e \in Entries(events[b]) : e \notin KeyEvents /\ e \notin NodeHere(l)
    BY <1>1, <2>1, NoneCounted
  <2>3. NewKey(l) \cup OldKey(l) \subseteq KeyEvents
    BY DEF NewKey, OldKey, KeyEvents, KeyEvent
  <2> QED BY <2>2, <2>3 DEF Places, Entries, Shows
<1>4. /\ Places(s, OldKey(l)) = {}
      /\ Has(b, l)' => Places(s, NewKey(l)) # {}
      /\ ~Has(b, l)' => Places(s, Shows(l)) = {}
  <2>1. \A m \in Lists : /\ KeyEvent("added", m) \notin OldKey(l)
                         /\ KeyEvent("added", m) \notin NodeHere(l)
                         /\ KeyEvent("added", m) \in NewKey(l) <=> m = l
    BY DEF KeyEvent, OldKey, NewKey, NodeHere
  <2>2. \A e \in Entries(s) : e \notin OldKey(l) /\ e \notin NodeHere(l)
    BY <1>2, <2>1
  <2>3. Has(b, l)' => \E e \in Entries(s) : e \in NewKey(l)
    BY <1>2, <2>1
  <2>4. ~Has(b, l)' => \A e \in Entries(s) : e \notin NewKey(l)
    BY <1>2, <2>1
  <2> QED BY <2>2, <2>3, <2>4 DEF Places, Entries, Shows
<1>5. ASSUME NEW X
      PROVE  Places(events'[b], X) = {} <=> Places(events[b], X) = {} /\ Places(s, X) = {}
  <2>1. PICK q \in Seq(Events) : q = events[b]
    BY <1>1
  <2>2. Places(q \o s, X) = {} <=> Places(q, X) = {} /\ Places(s, X) = {}
    BY LastOfJoined
  <2> QED BY <1>2, <2>1, <2>2
<1>6. Has(b, l)' => KeyTold(b, l)'
  <2>1. Places(events'[b], OldKey(l)) = {} /\ (Has(b, l)' => Places(events'[b], NewKey(l)) # {})
    BY <1>3, <1>4, <1>5
  <2> QED BY <1>1, <2>1, TallyTold DEF KeyTold, LastOf
<1>7. ~Has(b, l)' /\ l \notin gone'[b] => NoKeyTold(b, l)'
  <2> SUFFICES ASSUME ~Has(b, l)', l \notin gone'[b] PROVE NoKeyTold(b, l)'
    OBVIOUS
  <2>1. Places(events'[b], Shows(l)) = {}
    BY <1>3, <1>4, <1>5
  <2>2. l \notin RowIds(b) /\ data'[b] = data[b]
    <3>1. /\ gone' = [gone EXCEPT ![b] = RowIds(b) \ KeysOf(server, up'[b], owner[b])]
          /\ server' = server /\ data' = data
      BY DEF AnswerListen, app
    <3>2. l \notin KeysOf(server, up'[b], owner[b])
      BY <3>1, RunningKeys
    <3> QED BY <1>1, <3>1, <3>2 DEF TypeOK
  <2>3. RowsOf(b, l)' = 0
    <3>1. data[b] \in Seq(Lists) /\ l \notin Range(data[b])
      BY <1>1, <2>2 DEF TypeOK, RowIds, Range
    <3> QED BY <2>2, <3>1, OneRow DEF RowsOf
  <2> QED BY <2>1, <2>3 DEF NoKeyTold, LastOf
<1> QED BY <1>6, <1>7 DEF Heeds

\* Every step of any app keeps Heeds, ...
LEMMA HeedsKept ==
  ASSUME Running, NEW b \in Apps, Fine(b), NEW l \in Lists, Once(b, l), Heeds(b, l)
  PROVE  Heeds(b, l)'
<1>1. CASE Ended(b)
  BY <1>1 DEF Ended, Heeds
<1>2. CASE AnswerListen(b)
  BY <1>2, HeedsListen
<1>3. CASE ~Ended(b) /\ ~AnswerListen(b)
  <2>1. ASSUME listener'[b] = "on" PROVE listener[b] = "on" /\ gone'[b] = gone[b]
    BY <1>3, <2>1, ListenerOn
  <2>2. ASSUME listener'[b] = "on", Has(b, l)' PROVE KeyTold(b, l)'
    BY <1>3, <2>1, <2>2, KeyToldKept
  <2>3. ASSUME listener'[b] = "on", ~Has(b, l)', l \notin gone'[b], l \notin refused'
        PROVE  NoKeyTold(b, l)'
    BY <1>3, <2>1, <2>3, NoKeyToldKept, RefusedStays
  <2> QED BY <2>2, <2>3 DEF Heeds
<1> QED BY <1>1, <1>2, <1>3

\* ... and so it holds in every state.
LEMMA AlwaysHeeds == Spec => []AllHeed
<1>1. Init => AllHeed
  BY DEF Init, AllHeed, Heeds
<1>2. TypeOK /\ TypeOK' /\ AllLoad /\ (AllBorn /\ AllFine /\ AllOnce)
        /\ (AllBorn /\ AllFine /\ AllOnce)' /\ [Next]_vars /\ AllHeed => AllHeed'
  <2> SUFFICES ASSUME TypeOK, TypeOK', AllLoad, AllBorn, AllFine, AllOnce, AllBorn', [Next]_vars,
                      AllHeed, NEW b \in Apps, NEW l \in Lists
               PROVE  Heeds(b, l)'
    BY DEF AllHeed
  <2>1. Running
    BY DEF Running
  <2> QED BY <2>1, HeedsKept DEF AllHeed, AllFine, AllOnce
<1> QED BY <1>1, <1>2, TypeCorrect, AlwaysLoads, AlwaysOnce, PTL DEF Spec

\* Once nothing is under way at an app, its rows are the keys of its user, but for those
\* that went before the listener was answered, or with a refused write: what the
\* listener tells of a key ends with the truth, and the rows follow what it tells.
THEOREM RowsAreTheKeys == Spec => []RowsFollowKeys
<1>1. TypeOK /\ AllHeed => RowsFollowKeys
  <2> SUFFICES ASSUME TypeOK, AllHeed, NEW a \in Apps, Settled(a)
               PROVE  /\ server.keys[owner[a]] \subseteq RowIds(a)
                      /\ RowIds(a) \ (gone[a] \cup refused) \subseteq server.keys[owner[a]]
    BY DEF RowsFollowKeys
  <2>1. up[a] = <<>> /\ events[a] = <<>> /\ listener[a] = "on" /\ data[a] \in Seq(Lists)
    BY DEF Settled, TypeOK
  <2>2. server.keys[owner[a]] \subseteq Lists
    BY DEF TypeOK, Tree
  <2>3. ASSUME NEW l \in Lists
        PROVE  /\ Has(a, l) <=> l \in server.keys[owner[a]]
               /\ l \in RowIds(a) <=> RowsOf(a, l) > 0
               /\ ReadsOf(a, l) = 0 /\ NewsOf(a, l) = 0 /\ EndsOf(a, l) = 0
    <3>1. Has(a, l) <=> l \in server.keys[owner[a]]
      BY <2>1 DEF Has, HasKey, OnKey
    <3>2. RowsOf(a, l) \in Nat /\ (RowsOf(a, l) = 0 <=> l \notin Range(data[a]))
      BY <2>1, OneRow DEF RowsOf
    <3>3. l \in RowIds(a) <=> l \in Range(data[a])
      BY DEF RowIds, Range
    <3>4. ReadsOf(a, l) = 0 /\ NewsOf(a, l) = 0 /\ EndsOf(a, l) = 0
      BY <2>1, Uncounted DEF ReadsOf, NewsOf, EndsOf, Tally
    <3> QED BY <3>1, <3>2, <3>3, <3>4
  <2>4. ASSUME NEW l \in Lists, l \in server.keys[owner[a]] PROVE l \in RowIds(a)
    BY <2>1, <2>3, <2>4 DEF AllHeed, Heeds, KeyTold
  <2>5. ASSUME NEW l \in Lists, l \in RowIds(a), l \notin gone[a], l \notin refused
        PROVE  l \in server.keys[owner[a]]
    BY <2>1, <2>3, <2>5 DEF AllHeed, Heeds, NoKeyTold
  <2>6. RowIds(a) \subseteq Lists
    BY <2>1 DEF RowIds
  <2> QED BY <2>2, <2>4, <2>5, <2>6
<1> QED BY <1>1, TypeCorrect, AlwaysHeeds, PTL
=============================================================================
