--------------------------- MODULE MCMinerSession ---------------------------
(* A pool that may send job notifications and login or share replies, in   *)
(* any order and number up to the bounds, to a miner with NumThreads       *)
(* mining threads.                                                         *)
EXTENDS MinerSession

MCJobLines   == {"job"}
MCOtherLines == {"reply"}
=============================================================================
