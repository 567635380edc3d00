--------------------------- MODULE MCTableStream ---------------------------
(***************************************************************************)
(* An instance of TableStream for TLC.                                     *)
(***************************************************************************)
EXTENDS TableStream

\* Everything the codec treats in its own way, and letters and digits that would be
\* taken for part of an escape sequence if a backslash were not escaped.
Chars == {"bs", "tab", "nl", "n", "N", "0", "a", "ctl"}

Texts(n) == UNION {[1..k -> Chars] : k \in 0..n}

\* One row of two fields, of up to two characters and up to one; then one of two
\* plain rows, so that rows can be mixed up.
MCFirst == {<<f, g>> : f \in Texts(2), g \in Texts(1)}
MCLater == {<<<<"a">>, <<"bs", "N">>>>, <<<<>>, <<"0">>>>}

\* The default, and a text that looks like the end of a null sequence.
MCNulls == {<<>>, <<"N">>}
=============================================================================
