----------------------------- MODULE MCPipeline -----------------------------
(***************************************************************************)
(* Instances of Pipeline for TLC.                                          *)
(***************************************************************************)
EXTENDS Pipeline

\* A nontransaction over a link that holds.
MCSteady == {[bracketed |-> FALSE, lossy |-> FALSE, cancelling |-> "never"]}

\* And a backend transaction over one that does not, with a client that cancels.
MCUses ==
  MCSteady \cup {[bracketed |-> TRUE, lossy |-> TRUE, cancelling |-> "works"]}
=============================================================================
