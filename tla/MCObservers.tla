---------------------------- MODULE MCObservers ----------------------------
(***************************************************************************)
(* Instances of Observers for TLC.                                         *)
(***************************************************************************)
EXTENDS Observers, TLC

CONSTANTS c1, c2, r1, r2, r3, h1, h2, h3

\* One connection in use, and room for one that is left behind.
MCHandle == {c1, c2}

\* Two receivers on one channel, and one on the channel next to it.
MCReceiver == {r1, r2, r3}
MCChannel == (r1 :> 1) @@ (r2 :> 1) @@ (r3 :> 2)

\* Enough for a handler between the newest and the oldest.
MCHandler == {h1, h2, h3}
=============================================================================
