---------------------------- MODULE MCDeviceLogin ----------------------------
(* One device code, two browser requests and two goroutines.               *)
EXTENDS DeviceLogin, TLC

CONSTANTS b1, b2, w1, w2

DeviceSymmetry == Permutations(Browsers) \cup Permutations(Workers)
=============================================================================
