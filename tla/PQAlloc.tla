------------------------------- MODULE PQAlloc -------------------------------
(***************************************************************************)
(* PQAlloc<T> as it is built without shared_ptr (util.hxx, util.cxx): the  *)
(* pointers to one object form a ring, and there is no count anywhere.     *)
(*                                                                         *)
(* The pointers are one record p: obj[h] is m_Obj, l[h] and r[h] are the   *)
(* ring's links m_l and m_r, frees[d] says how often the deleter ran on d. *)
(* Every operation is a function of p, so that a caller's operation is the *)
(* composition the code writes.                                            *)
(***************************************************************************)
EXTENDS Naturals

CONSTANTS Handle,       \* the pointers
          Data,         \* what they may point to
          Null,
          Tmp           \* the temporary pointer of swap() and of assignments

NoPointers ==
  [obj |-> [h \in Handle |-> Null],
   l |-> [h \in Handle |-> h], r |-> [h \in Handle |-> h],
   frees |-> [d \in Data |-> 0]]

\* refcount::makeref(): enter the ring to the right of g.
refcount_makeref(p, h, g) ==
  LET right == p.r[g]
      ls    == [p.l EXCEPT ![h] = g]
      rs    == [p.r EXCEPT ![h] = right]
  IN [p EXCEPT !.l = [ls EXCEPT ![right] = h], !.r = [rs EXCEPT ![g] = h]]

\* Mutant: only the left neighbour is told.
refcount_loseref_OneSided(p, h) ==
  LET rs == [p.r EXCEPT ![p.l[h]] = p.r[h]]
  IN [p EXCEPT !.l = [p.l EXCEPT ![h] = h], !.r = [rs EXCEPT ![h] = h]]

\* refcount::loseref(): leave the ring.
refcount_loseref(p, h) ==
  LET ls == [p.l EXCEPT ![p.r[h]] = p.l[h]]
      rs == [p.r EXCEPT ![p.l[h]] = p.r[h]]
  IN [p EXCEPT !.l = [ls EXCEPT ![h] = h], !.r = [rs EXCEPT ![h] = h]]

makeref(p, h, g) ==
  refcount_makeref([p EXCEPT !.obj[h] = p.obj[g]], h, g)

loseref(p, h) ==
  LET q == [refcount_loseref(p, h) EXCEPT !.obj[h] = Null]
  IN IF p.l[h] = h /\ p.obj[h] # Null
     THEN [q EXCEPT !.frees[p.obj[h]] = @ + 1]
     ELSE q

redoref(p, h, g) ==
  IF p.obj[g] = p.obj[h] THEN p ELSE makeref(loseref(p, h), h, g)

swap(p, h, g) ==
  loseref(redoref(redoref(makeref(p, Tmp, h), h, g), g, Tmp), Tmp)

\* *h = PQAlloc(d): a temporary owns d, h is assigned from it.
assume_ownership(p, h, d) ==
  loseref(redoref([p EXCEPT !.obj[Tmp] = d], h, Tmp), Tmp)
==============================================================================
