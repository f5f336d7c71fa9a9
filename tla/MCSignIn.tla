-------------------------------- MODULE MCSignIn --------------------------------
(* SignIn on small instances.                                               *)
EXTENDS SignIn, TLC

CONSTANTS p1, p2

Phones == Permutations(Devices)

================================================================================
