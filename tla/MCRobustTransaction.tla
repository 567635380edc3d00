------------------------ MODULE MCRobustTransaction ------------------------
(***************************************************************************)
(* Instances of RobustTransaction for TLC.                                 *)
(***************************************************************************)
EXTENDS RobustTransaction

CONSTANTS t1, t2

\* Two transactions: the second begins in the session that the first leaves
\* behind, while the first one's old backend may still be at work.
MCTx == {t1, t2}
=============================================================================
