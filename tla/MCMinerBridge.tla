---------------------------- MODULE MCMinerBridge ----------------------------
(* Two wallets and three pages: a page may outlive a start of the one      *)
(* before it and be followed by one more.                                  *)
EXTENDS MinerBridge

MCWallets == {"alice", "bob"}
==============================================================================
