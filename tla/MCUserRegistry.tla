--------------------------- MODULE MCUserRegistry ---------------------------
(***************************************************************************)
(* UserRegistry for TLC.  The specification treats handlers alike, and     *)
(* usernames alike, and so does every property checked.                    *)
(***************************************************************************)
EXTENDS UserRegistry, TLC

Symmetry == Permutations(Handlers) \cup Permutations(Names)
=============================================================================
