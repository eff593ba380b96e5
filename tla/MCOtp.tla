-------------------------------- MODULE MCOtp --------------------------------
(* Handlers are interchangeable. *)
EXTENDS Otp, TLC

WorkerSymmetry == Permutations(Workers)
=============================================================================
