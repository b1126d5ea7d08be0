------------------------------ MODULE MCSignup ------------------------------
(***************************************************************************)
(* One address, two requests at a time.                                    *)
(***************************************************************************)
EXTENDS Signup, TLC

Symmetry == Permutations(Requests)

=============================================================================
