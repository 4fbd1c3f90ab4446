----------------------------- MODULE ItemsTable -----------------------------
(***************************************************************************)
(* The table  items/<X>/items  of the realtime database, as the app writes *)
(* it: one slot per item id, and the three writes SingleListManager sends  *)
(* (AddNewItem, RemoveItem, ReverseChecked).  An item has four fields.     *)
(* title and author_id are only ever written together, by AddNewItem, and  *)
(* never change, so one flag says whether the slot holds them.             *)
(***************************************************************************)
EXTENDS Naturals, Sequences, FiniteSets, SequencesExt

CONSTANTS
    Users,      \* the users that share the list, one running app each
    Ids,        \* the ids childByAutoId can generate
    NONE,       \* the string "NONE" of the field checked_by_id
    Absent      \* what an empty slot holds

ASSUME IdsFinite == IsFiniteSet(Ids)
ASSUME NoneIsNoUser == NONE \notin Users

Checkers == Users \cup {NONE}

\* named: title and author_id are there; checked and by: checked, checked_by_id
Node == [named : BOOLEAN, checked : BOOLEAN, by : Checkers]
Slot == Node \cup {Absent}

ASSUME AbsentIsNoNode == Absent \notin Node

(***************************************************************************)
(* The writes.  A path that updateChildValues does not name keeps its      *)
(* value, so "check" on an empty slot leaves an item without title and     *)
(* author_id; a slot with no field left does not exist.                    *)
(***************************************************************************)
\* (fault: Item.Serialize leaves out title and author_id)
AddWithoutTitle(i) == [op |-> "check", id |-> i, checked |-> FALSE, by |-> NONE]

AddOf(i)          == [op |-> "add", id |-> i, checked |-> FALSE, by |-> NONE]
DelOf(i)          == [op |-> "del", id |-> i, checked |-> FALSE, by |-> NONE]
CheckOf(i, v, u)  == [op |-> "check", id |-> i, checked |-> v, by |-> u]

WriteOps == {"add", "del", "check"}
Writes   == [op : WriteOps, id : Ids, checked : BOOLEAN, by : Checkers]

Named(n) == n # Absent /\ n.named

Apply(w, n) ==
    IF w.op = "del" THEN Absent
    ELSE [named |-> w.op = "add" \/ Named(n), checked |-> w.checked, by |-> w.by]

(***************************************************************************)
(* A slot as a client sees it: its own unacknowledged writes, oldest first *)
(* in the queue q, applied to what the server holds.  The last one decides *)
(* all fields but the title, which the last "add" or "del" decides.        *)
(***************************************************************************)
PendingOn(q, i) == {k \in DOMAIN q : q[k].op \in WriteOps /\ q[k].id = i}

Overlay(n, q, i) ==
    LET P == PendingOn(q, i)
    IN  IF P = {} THEN n
        ELSE LET last  == q[Max(P)]
                 Whole == {k \in P : q[k].op # "check"}
                 title == IF Whole = {} THEN Named(n) ELSE q[Max(Whole)].op = "add"
             IN  IF last.op = "del" THEN Absent
                 ELSE [named |-> title, checked |-> last.checked, by |-> last.by]

\* An item that the app wrote: complete, and checked exactly if someone did it
Coherent(n) == n.checked <=> n.by # NONE
Complete == {n \in Node : n.named /\ Coherent(n)}
=============================================================================
