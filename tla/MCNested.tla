------------------------------ MODULE MCNested ------------------------------
(***************************************************************************)
(* An instance of Nested for TLC: two attempts, subtransactions two deep.  *)
(***************************************************************************)
EXTENDS Nested

CONSTANTS t1, t2

MCTx == {t1, t2}
MCKind == [t \in MCTx |-> "transaction"]
MCEffect == MCTx \X (1..MaxStatements)
=============================================================================
