---------------------------- MODULE MCChatStream ----------------------------
(* Instances of ChatStream: all turns in one conversation, or one in each. *)
EXTENDS ChatStream

CONSTANTS a, b

AllInA   == [t \in Turn |-> a]
OneEach  == [t \in Turn |-> IF t = 1 THEN a ELSE b]
=============================================================================
