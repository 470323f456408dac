---------------------------- MODULE MCLockOrder ----------------------------
(***************************************************************************)
(* The lock programs of the player in the threads which run them.          *)
(***************************************************************************)
EXTENDS LockOrder, StreamerLocks, TLC

PlayerLocks == DataLocks \cup Calls

PlayerPrograms ==
    [t \in Threads |-> IF t = MainLoop THEN MainLoopPrograms ELSE StreamingPrograms]

PlayerRank ==
    [l \in PlayerLocks |-> CASE l = "pipeline" -> 1
                             [] l = "fifo" -> 2
                             [] l \in Calls -> 3
                             [] OTHER -> 4]

PlayerOuter == {"pipeline", "fifo"} \cup Calls

PlayerInner == {"fifo", "cookies"}

Symmetry == Permutations(Streaming) \cup Permutations(Calls)
=============================================================================
