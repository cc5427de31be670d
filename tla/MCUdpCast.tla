------------------------------ MODULE MCUdpCast ------------------------------
(***************************************************************************)
(* Sizes of the encoder's frames for TLC, with two bytes to a datagram:    *)
(* frames of one to four datagrams, the last one full or not.              *)
(***************************************************************************)
EXTENDS UdpCast

AnySizes == <<{1, 5}, {1, 5}, {1, 5}, {1, 5}>>       \* one cut or whole
MixedSizes == <<{7}, {7, 6}, {3, 2}, {3}>>        \* equal and different sizes

=============================================================================
