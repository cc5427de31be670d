-------------------------- MODULE MCNativeRecorder --------------------------
EXTENDS NativeRecorder

UpToOne == Cardinality(causes) <= 1 /\ causes \cap Lifecycle = {}
=============================================================================
