----------------------- MODULE MCRegistrationSanctions -----------------------
(* Model checking of RegistrationSanctions: the admins are interchangeable,  *)
(* so the safety runs need only one state of each orbit.                     *)
EXTENDS RegistrationSanctions, TLC

AdminSymmetry == Permutations(Admins)
==============================================================================
