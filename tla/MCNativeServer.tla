--------------------------- MODULE MCNativeServer ---------------------------
EXTENDS NativeServer

(* The devices are interchangeable, so one of them is taken to be the      *)
(* first to connect.                                                       *)
First == CHOOSE c \in Clients : TRUE

(* TLC follows a behaviour up to the first window of the descriptors.      *)
UpToTheFirst ==
  /\ Clear
  /\ client[First] = "idle" => \A c \in Clients : client[c] = "idle"
=============================================================================
