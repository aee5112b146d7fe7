------------------------------- MODULE SmartPtr ------------------------------
(***************************************************************************)
(* cpp-living-code/SmartPtr/smart_ptr.cpp: a pointer that counts its       *)
(* owners.  The object and its counter are made and deleted together, so   *)
(* an address stands for both.  The calls are those that test() makes, in  *)
(* any order, on pointers that may be constructed and destroyed again.     *)
(***************************************************************************)
EXTENDS Integers, FiniteSets

CONSTANTS Ptr,              \* the variables of type SmartPtr
          Object, nullptr

VARIABLES
    scope,                  \* the variables in scope
    ptr_, cnt_,             \* of a variable in scope
    count,                  \* what *cnt_ is, by address; 0 where nothing is allocated
    deleted,                \* history: objects deleted
    moved                   \* history: something was moved from

ptrvars == <<scope, ptr_, cnt_, count, deleted, moved>>

PtrTypeOK ==
    /\ scope \subseteq Ptr
    /\ ptr_ \in [Ptr -> Object \cup {nullptr}] /\ cnt_ \in [Ptr -> Object \cup {nullptr}]
    /\ count \in [Object -> 0 .. Cardinality(Ptr)]
    /\ deleted \subseteq Object /\ moved \in BOOLEAN

PtrInit ==
    /\ scope = {}
    /\ ptr_ = [p \in Ptr |-> nullptr] /\ cnt_ = [p \in Ptr |-> nullptr]
    /\ count = [o \in Object |-> 0] /\ deleted = {} /\ moved = FALSE

-----------------------------------------------------------------------------
(* The two constructors: an empty pointer, and the first owner of one.    *)

ConstructEmpty(p) ==
    /\ p \notin scope
    /\ scope' = scope \cup {p}
    /\ ptr_' = [ptr_ EXCEPT ![p] = nullptr] /\ cnt_' = [cnt_ EXCEPT ![p] = nullptr]
    /\ UNCHANGED <<count, deleted, moved>>

ConstructNew(p, o) ==
    /\ p \notin scope /\ count[o] = 0 /\ o \notin deleted
    /\ scope' = scope \cup {p}
    /\ ptr_' = [ptr_ EXCEPT ![p] = o] /\ cnt_' = [cnt_ EXCEPT ![p] = o]
    /\ count' = [count EXCEPT ![o] = 1]
    /\ UNCHANGED <<deleted, moved>>

\* release() may be called as long as the counter has not been freed: after that
\* the code's behaviour is undefined, and not followed here.
CanRelease(p) == cnt_[p] # nullptr => count[cnt_[p]] > 0

\* The counters after release(p), and the object it deletes.
Released(p) == IF cnt_[p] = nullptr THEN count ELSE [count EXCEPT ![cnt_[p]] = @ - 1]
Deletes(p)  == IF cnt_[p] # nullptr /\ count[cnt_[p]] = 1 THEN {cnt_[p]} ELSE {}

\* ++(*cnt_) is undefined for an empty pointer, and when the counter is freed.
CanCopy(q) == cnt_[q] # nullptr /\ count[cnt_[q]] > 0

CopyConstruct(p, q) ==
    /\ p \notin scope /\ q \in scope /\ CanCopy(q)
    /\ scope' = scope \cup {p}
    /\ ptr_' = [ptr_ EXCEPT ![p] = ptr_[q]] /\ cnt_' = [cnt_ EXCEPT ![p] = cnt_[q]]
    /\ count' = [count EXCEPT ![cnt_[q]] = @ + 1]
    /\ UNCHANGED <<deleted, moved>>

NeverTheSame(p, q) == TRUE                          \* mutation of the next one
\* The assignments return at once when both point to the same object.
Differs(p, q) == ptr_[p] # ptr_[q]

CopyAssign(p, q) ==
    /\ p \in scope /\ q \in scope /\ Differs(p, q)
    /\ CanRelease(p) /\ CanCopy(q)
    /\ ptr_' = [ptr_ EXCEPT ![p] = ptr_[q]] /\ cnt_' = [cnt_ EXCEPT ![p] = cnt_[q]]
    /\ count' = [Released(p) EXCEPT ![cnt_[q]] = @ + 1]
    /\ deleted' = deleted \cup Deletes(p)
    /\ UNCHANGED <<scope, moved>>

\* The count goes up by one for p and down by one for q.  It does not reach 0, and
\* release clears the pointers only then: q keeps pointing to the object.
MoveConstruct(p, q) ==
    /\ p \notin scope /\ q \in scope /\ CanCopy(q)
    /\ scope' = scope \cup {p}
    /\ ptr_' = [ptr_ EXCEPT ![p] = ptr_[q]] /\ cnt_' = [cnt_ EXCEPT ![p] = cnt_[q]]
    /\ moved' = TRUE
    /\ UNCHANGED <<count, deleted>>

MoveAssign(p, q) ==
    /\ p \in scope /\ q \in scope /\ Differs(p, q)
    /\ CanRelease(p) /\ CanCopy(q)
    /\ ptr_' = [ptr_ EXCEPT ![p] = ptr_[q]] /\ cnt_' = [cnt_ EXCEPT ![p] = cnt_[q]]
    /\ count' = Released(p)
    /\ deleted' = deleted \cup Deletes(p)
    /\ moved' = TRUE
    /\ UNCHANGED scope

Destroy(p) ==
    /\ p \in scope /\ CanRelease(p)
    /\ scope' = scope \ {p}
    /\ ptr_' = [ptr_ EXCEPT ![p] = nullptr] /\ cnt_' = [cnt_ EXCEPT ![p] = nullptr]
    /\ count' = Released(p)
    /\ deleted' = deleted \cup Deletes(p)
    /\ UNCHANGED moved

-----------------------------------------------------------------------------
Copies == \E p, q \in Ptr : CopyConstruct(p, q) \/ CopyAssign(p, q)
Moves  == \E p, q \in Ptr : MoveConstruct(p, q) \/ MoveAssign(p, q)

PtrNext ==
    \/ \E p \in Ptr : ConstructEmpty(p) \/ Destroy(p) \/ \E o \in Object : ConstructNew(p, o)
    \/ Copies \/ Moves

PtrSpec == PtrInit /\ [][PtrNext]_ptrvars

-----------------------------------------------------------------------------
(* Properties.                                                             *)

Owners(o) == {p \in scope : cnt_[p] = o}

\* As long as nothing is moved, the counter is the number of owners, so an object
\* is deleted when its last owner goes, and not before.
CountsOwners ==
    /\ PtrTypeOK
    /\ ~moved => \A o \in Object :
          /\ count[o] = Cardinality(Owners(o))
          /\ o \in deleted => Owners(o) = {}

\* No pointer in scope, moved from ("move construction", line 33) or not, points
\* to an object that has been deleted.
NeverDangling == \A p \in scope : ptr_[p] \notin deleted
=============================================================================
