----------------------------- MODULE MCAioConn -----------------------------
(* Small instances of AioConn for TLC. *)
EXTENDS AioConn

\* The second of the submissions has a callback of its own.
ThreeTags == <<"t1", "t2", "t1">>
FourTags == <<"t1", "t2", "t1", "t1">>

\* One more submission is allowed before the descriptor is used again.
FourThenThree == [l \in 0..2 |-> IF l = 0 THEN 4 ELSE 3]
Three == [l \in 0..2 |-> 3]
=============================================================================
