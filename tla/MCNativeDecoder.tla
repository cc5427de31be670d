-------------------------- MODULE MCNativeDecoder --------------------------
(* TLC follows a behaviour as long as it has hit at most one kind of window *)
(* and none of the life cycle's; a second device comes after at most one    *)
(* rotation.                                                                *)
EXTENDS NativeDecoder

OneCause ==
  /\ Cardinality(causes) <= 1 /\ causes \cap Lifecycle = {}
  /\ session > 1 => sent.rotations <= 1
=============================================================================
