----------------------------- MODULE MCSession -----------------------------
(***************************************************************************)
(* Instances of Session for TLC.                                           *)
(***************************************************************************)
EXTENDS Session, TLC

CONSTANTS n1, d1, d2, x1, a1, a2, bad, r1, r2, r3

\* A named statement and the nameless one, with two definitions to mix up.
MCName == {n1, Unnamed}
MCDef == {d1, d2}

\* Two values to mix up and one that the backend refuses.
MCVal == {a1, a2, bad}

\* Two receivers on one channel, and one on another.
MCReceiver == {r1, r2, r3}
MCChannel == (r1 :> "c1") @@ (r2 :> "c1") @@ (r3 :> "c2")

Symmetry == Permutations(MCDef) \cup Permutations({a1, a2}) \cup Permutations({r1, r2})
=============================================================================
