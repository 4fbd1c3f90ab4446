----------------------------- MODULE ListsTable -----------------------------
(***************************************************************************)
(* The part of the database that says which user has which list:           *)
(*   users/<u>/lists/<l>    keys[u]: the keys of u                         *)
(*   lists/<l>              lists[l]: the users in the list's own "users"  *)
(*                          dictionary, or Absent; title, owner and        *)
(*                          items_id are written with it and never change  *)
(*   items/<X>/list_id      tables: the lists whose items table names them *)
(* The id of a list and that of its items table are generated together, so *)
(* l stands for both.  Every write is one updateChildValues over several   *)
(* paths, which the server takes as a whole.                               *)
(***************************************************************************)
EXTENDS Queues

CONSTANTS
    Users,      \* the accounts
    Lists,      \* the ids childByAutoId can generate for lists
    Absent      \* what lists/<l> holds when there is no list

ASSUME ListsFinite == IsFiniteSet(Lists)
ASSUME AbsentIsNothing == Absent \notin Users /\ \A S \in SUBSET Users : Absent # S

Slot == (SUBSET Users) \cup {Absent}
Tree == [keys : [Users -> SUBSET Lists], lists : [Lists -> Slot], tables : SUBSET Lists]

(***************************************************************************)
(* The writes: AddNewList, AcceptInvitation, RemoveList.                   *)
(***************************************************************************)
AddOf(l, u)    == [op |-> "add", id |-> l, users |-> {u}]
JoinOf(l, u)   == [op |-> "join", id |-> l, users |-> {u}]
RemoveOf(l, S) == [op |-> "remove", id |-> l, users |-> S]

WriteOps == {"add", "join", "remove"}
Writes   == [op : WriteOps, id : Lists, users : SUBSET Users]

\* (fault: AddNewList does not write items/<X>/list_id)
ApplyForgetsTable(w, s) ==
    [keys   |-> [u \in Users |-> IF u \notin w.users THEN s.keys[u]
                                 ELSE IF w.op = "remove" THEN s.keys[u] \ {w.id}
                                 ELSE s.keys[u] \cup {w.id}],
     lists  |-> CASE w.op = "add"    -> [s.lists EXCEPT ![w.id] = w.users]
                  [] w.op = "remove" -> [s.lists EXCEPT ![w.id] = Absent]
                  [] OTHER           -> s.lists,
     tables |-> IF w.op = "remove" THEN s.tables \ {w.id} ELSE s.tables]

\* (fault: AcceptInvitation also writes the user into lists/<l>/users)
ApplyJoinsList(w, s) ==
    [keys   |-> [u \in Users |-> IF u \notin w.users THEN s.keys[u]
                                 ELSE IF w.op = "remove" THEN s.keys[u] \ {w.id}
                                 ELSE s.keys[u] \cup {w.id}],
     lists  |-> [s.lists EXCEPT ![w.id] =
                   CASE w.op = "add"    -> w.users
                     [] w.op = "remove" -> Absent
                     [] OTHER -> IF @ = Absent THEN w.users ELSE @ \cup w.users],
     tables |-> CASE w.op = "add"    -> s.tables \cup {w.id}
                  [] w.op = "remove" -> s.tables \ {w.id}
                  [] OTHER           -> s.tables]

\* (fault: a key is written as the only one of its user)
ApplyReplacesKeys(w, s) ==
    [keys   |-> [u \in Users |-> IF u \notin w.users THEN s.keys[u]
                                 ELSE IF w.op = "remove" THEN s.keys[u] \ {w.id}
                                 ELSE {w.id}],
     lists  |-> CASE w.op = "add"    -> [s.lists EXCEPT ![w.id] = w.users]
                  [] w.op = "remove" -> [s.lists EXCEPT ![w.id] = Absent]
                  [] OTHER           -> s.lists,
     tables |-> CASE w.op = "add"    -> s.tables \cup {w.id}
                  [] w.op = "remove" -> s.tables \ {w.id}
                  [] OTHER           -> s.tables]

\* (fault: AddNewList writes the key and the items table, not the list)
ApplyForgetsList(w, s) ==
    [keys   |-> [u \in Users |-> IF u \notin w.users THEN s.keys[u]
                                 ELSE IF w.op = "remove" THEN s.keys[u] \ {w.id}
                                 ELSE s.keys[u] \cup {w.id}],
     lists  |-> IF w.op = "remove" THEN [s.lists EXCEPT ![w.id] = Absent] ELSE s.lists,
     tables |-> CASE w.op = "add"    -> s.tables \cup {w.id}
                  [] w.op = "remove" -> s.tables \ {w.id}
                  [] OTHER           -> s.tables]

Apply(w, s) ==
    [keys   |-> [u \in Users |-> IF u \notin w.users THEN s.keys[u]
                                 ELSE IF w.op = "remove" THEN s.keys[u] \ {w.id}
                                 ELSE s.keys[u] \cup {w.id}],
     lists  |-> CASE w.op = "add"    -> [s.lists EXCEPT ![w.id] = w.users]
                  [] w.op = "remove" -> [s.lists EXCEPT ![w.id] = Absent]
                  [] OTHER           -> s.lists,
     tables |-> CASE w.op = "add"    -> s.tables \cup {w.id}
                  [] w.op = "remove" -> s.tables \ {w.id}
                  [] OTHER           -> s.tables]

(***************************************************************************)
(* The tree as a client sees it: its own unacknowledged writes, oldest     *)
(* first in the queue q, over what the server holds.                       *)
(***************************************************************************)
\* The writes in q that set the key of l for u, and those that set lists/<l>
OnKey(q, u, l) == {k \in DOMAIN q : q[k].op \in WriteOps /\ q[k].id = l /\ u \in q[k].users}
OnList(q, l)   == {k \in DOMAIN q : q[k].op \in {"add", "remove"} /\ q[k].id = l}

HasKey(s, q, u, l) ==
    LET P == OnKey(q, u, l)
    IN  IF P = {} THEN l \in s.keys[u] ELSE q[Max(P)].op # "remove"

KeysOf(s, q, u) == {l \in Lists : HasKey(s, q, u, l)}

ListOf(s, q, l) ==
    LET P == OnList(q, l)
    IN  IF P = {} THEN s.lists[l]
        ELSE IF q[Max(P)].op = "add" THEN q[Max(P)].users ELSE Absent
=============================================================================
