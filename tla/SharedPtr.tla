------------------------------ MODULE SharedPtr ------------------------------
(***************************************************************************)
(* What a reference-counted pointer promises, as std::shared_ptr gives it: *)
(* the build with PQXX_HAVE_SHARED_PTR.  An object is freed when the last  *)
(* pointer to it lets go, at that moment and once.                         *)
(***************************************************************************)
EXTENDS FiniteSets, Functions

CONSTANTS Handle, Data, Null

VARIABLES owns, freed

Init == owns = [h \in Handle |-> Null] /\ freed = {}

\* The pointers now own o2; what nobody owns any more is freed.
Become(o2) ==
  /\ owns' = o2
  /\ freed' = freed \cup ((Range(owns) \ Range(o2)) \ {Null})

Take(h, d) ==
  /\ d \notin freed \cup Range(owns)
  /\ Become([owns EXCEPT ![h] = d])

Assign(h, g) == Become([owns EXCEPT ![h] = owns[g]])

Swap(h, g) == Become([owns EXCEPT ![h] = owns[g], ![g] = owns[h]])

Reset(h) == Become([owns EXCEPT ![h] = Null])

Next ==
  \E h \in Handle :
    \/ Reset(h)
    \/ \E d \in Data : Take(h, d)
    \/ \E g \in Handle : Assign(h, g) \/ Swap(h, g)

Spec == Init /\ [][Next]_<<owns, freed>>
==============================================================================
