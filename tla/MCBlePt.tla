------------------------------ MODULE MCBlePt ------------------------------
(* Model values for BlePt and, for the instances with two devices, their    *)
(* symmetry: no action or property tells one device from another.           *)
EXTENDS BlePt, TLC

CONSTANTS d1, d2

OneDevice  == {d1}
TwoDevices == {d1, d2}
DeviceSymmetry == Permutations(TwoDevices)
=============================================================================
