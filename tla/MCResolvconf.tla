---------------------------- MODULE MCResolvconf ----------------------------
(***************************************************************************)
(* Two programs whose owner strings differ in what is kept of them and     *)
(* share what is not, under a limit of two characters.  The configs are    *)
(* interchangeable: nothing in the module tells one from another.          *)
(***************************************************************************)
EXTENDS Resolvconf, TLC

MCOwners == {<<"a", " ", "b", "c">>, <<"a", " ", "c">>}

ConfigSymmetry == Permutations(Configs)
=============================================================================
