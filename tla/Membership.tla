----------------------------- MODULE Membership -----------------------------
(***************************************************************************)
(* What the parent of the chat room promises about its table of users,     *)
(* without saying how it keeps it: a child is admitted while there is      *)
(* room, it dies once, and it is forgotten once, after it has died and     *)
(* without anybody else being touched.  When the server is over at most    *)
(* one child is still alive.                                               *)
(***************************************************************************)
EXTENDS Integers, FiniteSets

CONSTANTS Clients, Capacity

VARIABLES members, dead, over

vars == <<members, dead, over>>

Init == members = {} /\ dead = {} /\ over = FALSE

Admit(c) ==
    /\ ~over /\ c \notin members /\ Cardinality(members) < Capacity
    /\ members' = members \cup {c}
    /\ UNCHANGED <<dead, over>>

Die(c) ==
    /\ c \in members \ dead
    /\ dead' = dead \cup {c}
    /\ UNCHANGED <<members, over>>

Forget(c) ==
    /\ ~over /\ c \in dead
    /\ members' = members \ {c}
    /\ dead' = dead \ {c}
    /\ UNCHANGED over

Close ==
    /\ ~over /\ Cardinality(members \ dead) <= 1
    /\ over' = TRUE
    /\ UNCHANGED <<members, dead>>

Next == Close \/ \E c \in Clients : Admit(c) \/ Die(c) \/ Forget(c)

Spec == Init /\ [][Next]_vars
=============================================================================
