------------------------- MODULE MCBluetoothBridge -------------------------
(* BluetoothBridge for TLC: the connections are interchangeable.           *)
EXTENDS BluetoothBridge, TLC

Symmetry == Permutations(Callers)
=============================================================================
