---- MODULE MCChatTurn ----
(* Instances of ChatTurn for TLC. *)
EXTENDS ChatTurn, TLC

\* The people of a chat are interchangeable.
SpeakerSymmetry == Permutations(Speakers)
====
