---------------------------- MODULE MCTreeTotals ----------------------------
(***************************************************************************)
(* A root, two directories in it that may be renamed into each other, and  *)
(* a subdirectory that either may have.                                    *)
(***************************************************************************)
EXTENDS TreeTotals

MCPath == {<<>>, <<"a">>, <<"b">>, <<"a", "n">>, <<"b", "n">>}
MCInitial == {<<>>, <<"a">>}
=============================================================================
