---------------------------- MODULE MCBodyBridge ----------------------------
(* Instance of BodyBridge for TLC: two payloads that differ in both words.    *)
EXTENDS BodyBridge

TwoPayloads == {<<1, 1>>, <<2, 2>>}

=============================================================================
