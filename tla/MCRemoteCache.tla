--------------------------- MODULE MCRemoteCache ---------------------------
(* Instance of RemoteCache for TLC: a note doubles its size with its second *)
(* version.                                                                 *)
EXTENDS RemoteCache, TLC

MCSize == [v \in 1..MaxVersion |-> v]
Symmetric == Permutations(Procs) \cup Permutations(Paths)
============================================================================
