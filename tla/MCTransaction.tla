--------------------------- MODULE MCTransaction ---------------------------
(***************************************************************************)
(* Instances of Transaction for TLC.                                       *)
(***************************************************************************)
EXTENDS Transaction, TLC

CONSTANTS t1, t2, t3, e1, e2, e3

\* Two transactions and a nontransaction: each may inherit what another leaves
\* behind in the session.
MCTx == {t1, t2, t3}
MCKind == (t1 :> "transaction") @@ (t2 :> "transaction")
            @@ (t3 :> "nontransaction")

\* Two transactions and one effect more than fits in one statement.
MCPair == {t1, t2}
MCPairKind == [t \in MCPair |-> "transaction"]

MCEffect == {e1, e2, e3}

\* Only entry points that pass through transaction_base::exec.
ExecOnly == {"exec", "abort", "inhibit", "permit"}

\* Every entry point that can touch the session inside a transaction.
Bypassing == AllCalls \ {"permit", "late_parameterized", "abort_stream"}

\* Effects are interchangeable, and so are transactions of one class.
Symmetry == Permutations(MCEffect) \cup Permutations({t1, t2})
=============================================================================
