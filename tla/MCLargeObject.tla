--------------------------- MODULE MCLargeObject ---------------------------
(***************************************************************************)
(* Instances of LargeObject for TLC.                                       *)
(***************************************************************************)
EXTENDS LargeObject, TLC

CONSTANTS a, xff, h1, h2, o1, o2

\* Two objects and two handles: descriptors can be mixed up.
MCOid == {o1, o2}
MCHandle == {h1, h2}

\* An ordinary byte and the one that looks like the end.
MCChar == {a, xff}

\* The object that streams are put to the test on, and a short one beside it.
MCMaxLen == (o1 :> 3) @@ (o2 :> 1)
MCKinds == (h1 :> {"ilo", "olo", "lo"}) @@ (h2 :> {"access"})
=============================================================================
