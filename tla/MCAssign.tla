-------------------------------- MODULE MCAssign --------------------------------
(***************************************************************************)
(* The catalogue of statements the compiler translates faithfully.         *)
(***************************************************************************)
EXTENDS MCPublicWrite

ASSUME CatalogueAssumption ==
    /\ SetOpsNestLeft /\ JoinsAlign /\ UpdatesAreWhole /\ OpaqueIsIndependent
    /\ JoinsFillTheTarget /\ KeysAreEnforced
=============================================================================
