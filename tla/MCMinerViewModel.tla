-------------------------- MODULE MCMinerViewModel --------------------------
(* One rig name besides "default", a main wallet and a subaddress of full  *)
(* length, one address that is too short, a good and a bad pool.           *)
EXTENDS MinerViewModel

MCRigNames   == {"r1"}
MCValidAddrs == {"main", "sub"}
MCShortAddrs == {"short"}
MCValidPools == {"pool:3333"}
MCBadPools   == {"pool:0"}

Config(pool, wallet) ==
  [pool |-> pool, wallet |-> wallet, worker |-> << >>,
   enabled |-> FALSE, subaddress |-> NoAddr, rigs |-> << >>]

MCImports == {Config("pool:3333", "main"), Config("pool:0", "main")}
=============================================================================
