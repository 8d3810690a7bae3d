---------------------------- MODULE MCActorPool ----------------------------
(***************************************************************************)
(* The actor pool with three callers and two goroutines that close it.     *)
(* Either all calls are about one key, so that two of them race to create  *)
(* its actor and the channel fills up, or the third is about another key,  *)
(* so that its create waits for a sender that holds the lock.              *)
(***************************************************************************)
EXTENDS ActorPool

CONSTANTS c1, c2, c3, k1, k2

MCOneKey  == { [c \in Calls |-> k1] }
MCTwoKeys == { [c \in Calls |-> IF c = c3 THEN k2 ELSE k1] }
MCKeyChoices == MCOneKey \cup MCTwoKeys
=============================================================================
