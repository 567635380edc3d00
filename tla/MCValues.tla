------------------------------ MODULE MCValues ------------------------------
(***************************************************************************)
(* An instance of Values for TLC.                                          *)
(***************************************************************************)
EXTENDS Values

CONSTANTS r1, r2, r3, b1, b2, d1, d2, f1, f2

MCResultVar == {r1, r2, r3}
MCBinVar == {b1, b2}
MCBuffer == {f1, f2}
MCHandle == MCResultVar \cup MCBinVar \cup {Tmp}
MCData == {d1, d2} \cup MCBuffer

\* One result set with a repeated column name, a null and an empty text; and
\* one with a single column and no rows.
MCGrid ==
  (d1 :> [names |-> <<"a", "b", "a">>,
          rows |-> <<<<<<"1">>, Null, <<"\\", "0", "x">>>>, <<<<>>, <<"7">>, <<>>>>>>])
  @@ (d2 :> [names |-> <<"b">>, rows |-> <<>>])

\* The narrowest types that are printed in one digit less than, and in exactly,
\* the 3 digits that tell all numbers of 4, or of 6, bits apart.
MCMantissa == [float |-> 4, double |-> 6]

\* All texts of up to three of these characters, the words for truth, infinity
\* and not-a-number, and some that come near them.
MCText ==
  BoundedSeq({"-", "0", "1", "3", "5", "6", "9", "x"}, 3)
  \cup {<<"t">>, <<"T","R","U","E">>, <<"t","r","u","e">>, <<"t","r","u">>,
        <<"F">>, <<"f","a","l","s","e">>, <<"f","a","l","s">>,
        <<"n","a","n">>, <<"N","a","N">>, <<"n","a">>,
        <<"i","n","f">>, <<"-","i","n","f">>, <<"i","n">>,
        <<"-","I","n","f","i","n","i","t","y">>}
=============================================================================
