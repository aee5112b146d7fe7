---------------------------- MODULE MCChatRoom ------------------------------
(* Instances of ChatRoom for TLC: clients are interchangeable model values. *)
EXTENDS ChatRoom, TLC

ClientSymmetry == Permutations(Clients)
=============================================================================
