---------------------------- MODULE SharedTable ----------------------------
(***************************************************************************)
(* What the users of one list are promised about its items, seen as a      *)
(* single table: an item appears complete and unchecked, it is checked in  *)
(* the name of the user who did it or unchecked in nobody's, both fields   *)
(* at once, and it disappears.  A toggle may come after the item is gone:  *)
(* then it leaves an item without title and author, never a complete one.  *)
(***************************************************************************)
EXTENDS ItemsTable

VARIABLE items

TableInit == items \in [Ids -> Complete \cup {Absent}]

AddItem(i) ==
    /\ items[i] = Absent
    /\ items' = [items EXCEPT ![i] = [named |-> TRUE, checked |-> FALSE, by |-> NONE]]

RemoveItem(i) == items' = [items EXCEPT ![i] = Absent]

CheckItem(u, i) ==
    items' = [items EXCEPT ![i] = [named |-> Named(@), checked |-> TRUE, by |-> u]]

UncheckItem(i) ==
    items' = [items EXCEPT ![i] = [named |-> Named(@), checked |-> FALSE, by |-> NONE]]

TableNext == \E i \in Ids :
    AddItem(i) \/ RemoveItem(i) \/ UncheckItem(i) \/ \E u \in Users : CheckItem(u, i)

TableSpec == TableInit /\ [][TableNext]_items
=============================================================================
