--------------------------- MODULE ListsRegister ----------------------------
(***************************************************************************)
(* What users are promised about their lists, seen as one register of the  *)
(* members of each list: a list begins with the one user who made it, an   *)
(* invited user joins a list that is there, and a list is removed from all *)
(* its members at once.                                                    *)
(***************************************************************************)
CONSTANTS Users, Lists

VARIABLE members    \* a list nobody has is no list

RegisterInit == members \in [Lists -> SUBSET Users]

CreateList(u, l) ==
    /\ members[l] = {}
    /\ members' = [members EXCEPT ![l] = {u}]

JoinList(u, l) ==
    /\ members[l] # {}
    /\ members' = [members EXCEPT ![l] = @ \cup {u}]

RemoveList(l) == members' = [members EXCEPT ![l] = {}]

RegisterNext == \E l \in Lists :
    RemoveList(l) \/ \E u \in Users : CreateList(u, l) \/ JoinList(u, l)

RegisterSpec == RegisterInit /\ [][RegisterNext]_members
=============================================================================
