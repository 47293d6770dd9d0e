------------------------ MODULE MinerViewModelProofs -------------------------
(***************************************************************************)
(* The safety invariants of MinerViewModel for any rigs, addresses, pools  *)
(* and imports.  With the types they are inductive as they stand.          *)
(***************************************************************************)
EXTENDS MinerViewModel, TLAPS

ViewInv == TypeOK /\ ScreenMatchesSaved /\ RigsSelectable /\ PayoutValid

USE DEF uiVars, runVars

-----------------------------------------------------------------------------
(* Rig maps and lists.                                                     *)
LEMMA RigMapTypes ==
  ASSUME NEW rigs \in RigMaps
  PROVE  /\ DOMAIN rigs \subseteq Names
         /\ \A n \in DOMAIN rigs : rigs[n] \in Addrs
         /\ \A R \in SUBSET Names : \A f \in [R -> Addrs] : f \in RigMaps
BY DEF RigMaps

LEMMA ListedTypes ==
  ASSUME NEW rigs
  PROVE  /\ Listed(rigs) \in [Names -> Nat]
         /\ \A n \in Names : n \in DOMAIN rigs => Listed(rigs)[n] > 0
BY DEF Listed

LEMMA NoRigs == << >> \in RigMaps
<1>1. << >> \in [{} -> Addrs] OBVIOUS
<1>2. QED BY <1>1 DEF RigMaps

LEMMA ConfigTypes ==
  ASSUME NEW c \in Configs
  PROVE  /\ c.pool \in Pools /\ c.wallet \in Addrs /\ c.worker \in Seq(RigNames)
         /\ c.enabled \in BOOLEAN /\ c.subaddress \in Addrs /\ c.rigs \in RigMaps
BY DEF Configs

LEMMA DefaultTypes ==
  /\ DefaultConfig \in Configs /\ DefaultConfig.enabled = FALSE
  /\ DefaultConfig.subaddress = NoAddr /\ DefaultConfig.rigs = << >>
<1>1. (CHOOSE p \in ValidPools : TRUE) \in Pools BY ViewModelAssumption DEF Pools
<1>2. << >> \in Seq(RigNames) /\ NoAddr \in Addrs BY DEF Addrs
<1>3. QED BY <1>1, <1>2, NoRigs DEF DefaultConfig, Configs

LEMMA AddressTypes ==
  ASSUME ViewInv
  PROVE  ActiveAddress \in Addrs /\ WorkerName \in Seq(RigNames)
<1>1. saved \in Configs /\ selected \in Names BY DEF ViewInv, TypeOK
<1>2. ActiveAddress \in Addrs BY <1>1, ConfigTypes, RigMapTypes DEF ActiveAddress
<1>3. WorkerName \in Seq(RigNames)
  <2>1. selected # DefaultRig => selected \in RigNames BY <1>1 DEF Names
  <2>2. saved.worker \in Seq(RigNames) BY <1>1, ConfigTypes
  <2>3. QED BY <2>1, <2>2 DEF WorkerName
<1>4. QED BY <1>2, <1>3

-----------------------------------------------------------------------------
(* Every step keeps the invariant.                                         *)

(* A reload shows what is saved and selects the default.                   *)
LEMMA LoadStep ==
  ASSUME ViewInv, NEW c \in Configs, Load(c), UNCHANGED <<sent, sentPool>>,
         mainWallet' \in Addrs, isMining' \in BOOLEAN,
         status' \in {"Stopped", "Starting", "Mining"}, monitors' \in 0..MaxMonitors
  PROVE  ViewInv'
<1>1. selected' = DefaultRig /\ DefaultRig \in Names BY DEF Load, Names
<1>2. TypeOK' BY <1>1, ConfigTypes, ListedTypes DEF ViewInv, TypeOK, Load
<1>3. ScreenMatchesSaved' BY DEF ScreenMatchesSaved, Load
<1>4. RigsSelectable'
  BY ConfigTypes, RigMapTypes, ListedTypes DEF RigsSelectable, Load
<1>5. QED BY <1>1, <1>2, <1>3, <1>4 DEF ViewInv, PayoutValid

LEMMA ImportStep ==
  ASSUME ViewInv, ImportConfig
  PROVE  ViewInv'
<1>1. ASSUME NEW c \in Imports, Load(c), mainWallet' = c.wallet PROVE ViewInv'
  <2>1. c \in Configs BY ViewModelAssumption
  <2>2. c.wallet \in Addrs BY <2>1, ConfigTypes
  <2>3. QED BY <1>1, <2>1, <2>2, LoadStep DEF ViewInv, TypeOK, ImportConfig
<1>2. ASSUME Load(saved), UNCHANGED mainWallet PROVE ViewInv'
  BY <1>2, LoadStep DEF ViewInv, TypeOK, ImportConfig
<1>3. QED BY <1>1, <1>2 DEF ImportConfig

LEMMA RecreateStep ==
  ASSUME ViewInv, Recreate
  PROVE  ViewInv'
<1>1. 0 \in 0..MaxMonitors BY ViewModelAssumption
<1>2. QED BY <1>1, LoadStep DEF ViewInv, TypeOK, Recreate

LEMMA SelectStep ==
  ASSUME ViewInv, NEW n \in Names, SelectRig(n)
  PROVE  ViewInv'
BY DEF ViewInv, TypeOK, ScreenMatchesSaved, RigsSelectable, PayoutValid, SelectRig

LEMMA ToggleStep ==
  ASSUME ViewInv, NEW e \in BOOLEAN, ToggleSubaddress(e)
  PROVE  ViewInv'
<1>1. /\ saved' \in Configs /\ saved'.enabled = e /\ saved'.subaddress = saved.subaddress
      /\ saved'.rigs = saved.rigs
  BY DEF ViewInv, TypeOK, Configs, ToggleSubaddress
<1>2. QED
  BY <1>1 DEF ViewInv, TypeOK, ScreenMatchesSaved, RigsSelectable, PayoutValid,
              ToggleSubaddress

LEMMA SubaddressStep ==
  ASSUME ViewInv, NEW a \in Addrs, UpdateMiningSubaddress(a)
  PROVE  ViewInv'
<1>1. /\ saved' \in Configs /\ saved'.enabled = saved.enabled /\ saved'.subaddress = a
      /\ saved'.rigs = saved.rigs
  BY DEF ViewInv, TypeOK, Configs, UpdateMiningSubaddress
<1>2. QED
  BY <1>1 DEF ViewInv, TypeOK, ScreenMatchesSaved, RigsSelectable, PayoutValid,
              UpdateMiningSubaddress

(* The saved map is computed from the screen's and becomes the screen's.   *)
LEMMA RigsSaved ==
  ASSUME ViewInv, uiRigs' \in RigMaps, saved' = [saved EXCEPT !.rigs = uiRigs'],
         UNCHANGED <<uiEnabled, uiSubaddress>>
  PROVE  saved' \in Configs /\ ScreenMatchesSaved'
<1>1. /\ saved' \in Configs /\ saved'.enabled = saved.enabled
      /\ saved'.subaddress = saved.subaddress /\ saved'.rigs = uiRigs'
  BY DEF ViewInv, TypeOK, Configs
<1>2. QED BY <1>1 DEF ViewInv, ScreenMatchesSaved

LEMMA AddStep ==
  ASSUME ViewInv, NEW n \in Names, NEW a \in Addrs, AddRig(n, a)
  PROVE  ViewInv'
<1>1. uiRigs' \in RigMaps
  <2>1. uiRigs \in RigMaps BY DEF ViewInv, TypeOK
  <2>2. DOMAIN uiRigs \cup {n} \in SUBSET Names BY <2>1, RigMapTypes
  <2>3. uiRigs' \in [DOMAIN uiRigs \cup {n} -> Addrs] BY <2>1, RigMapTypes DEF AddRig
  <2>4. QED BY <2>1, <2>2, <2>3, RigMapTypes
<1>2. saved' \in Configs /\ ScreenMatchesSaved' BY <1>1, RigsSaved DEF AddRig
<1>3. /\ available' \in [Names -> Nat]
      /\ \A m \in Names : available'[m] >= available[m]
  BY DEF ViewInv, TypeOK, AddRig
<1>4. RigsSelectable'
  <2>1. DOMAIN uiRigs \subseteq Names BY RigMapTypes DEF ViewInv, TypeOK
  <2>2. DOMAIN saved'.rigs = DOMAIN uiRigs \cup {n}
    BY <1>2 DEF ViewInv, TypeOK, ScreenMatchesSaved, AddRig
  <2>3. available'[n] > 0 BY DEF ViewInv, TypeOK, AddRig
  <2>4. \A m \in DOMAIN uiRigs : available[m] > 0
    BY DEF ViewInv, ScreenMatchesSaved, RigsSelectable
  <2>5. \A m \in DOMAIN uiRigs : available'[m] > 0
    BY <1>3, <2>1, <2>4 DEF ViewInv, TypeOK
  <2>6. QED BY <2>2, <2>3, <2>5 DEF RigsSelectable
<1>5. TypeOK' BY <1>1, <1>2, <1>3 DEF ViewInv, TypeOK, AddRig
<1>6. QED BY <1>2, <1>4, <1>5 DEF ViewInv, PayoutValid, AddRig

LEMMA RemoveStep ==
  ASSUME ViewInv, NEW n \in Names, RemoveRig(n)
  PROVE  ViewInv'
<1>1. uiRigs' \in RigMaps
  <2>1. uiRigs \in RigMaps BY DEF ViewInv, TypeOK
  <2>2. DOMAIN uiRigs \ {n} \in SUBSET Names BY <2>1, RigMapTypes
  <2>3. uiRigs' \in [DOMAIN uiRigs \ {n} -> Addrs] BY <2>1, RigMapTypes DEF RemoveRig
  <2>4. QED BY <2>1, <2>2, <2>3, RigMapTypes
<1>2. saved' \in Configs /\ ScreenMatchesSaved' BY <1>1, RigsSaved DEF RemoveRig
<1>3. /\ available' \in [Names -> Nat]
      /\ \A m \in Names \ {n} : available'[m] = available[m]
  BY DEF ViewInv, TypeOK, RemoveRig, RemoveFirst
<1>4. selected' \in Names /\ (selected' = DefaultRig \/ (selected' = selected /\ selected # n))
  BY DEF ViewInv, TypeOK, RemoveRig, Names
<1>5. RigsSelectable'
  <2>1. DOMAIN uiRigs \subseteq Names BY RigMapTypes DEF ViewInv, TypeOK
  <2>2. DOMAIN saved'.rigs = DOMAIN uiRigs \ {n}
    BY <1>2 DEF ViewInv, TypeOK, ScreenMatchesSaved, RemoveRig
  <2>3. \A m \in DOMAIN uiRigs : available[m] > 0
    BY DEF ViewInv, ScreenMatchesSaved, RigsSelectable
  <2>4. QED BY <1>3, <2>1, <2>2, <2>3 DEF RigsSelectable
<1>6. TypeOK' BY <1>1, <1>2, <1>3, <1>4 DEF ViewInv, TypeOK, RemoveRig
<1>7. QED BY <1>2, <1>5, <1>6 DEF ViewInv, PayoutValid, RemoveRig

LEMMA PoolStep ==
  ASSUME ViewInv, NEW p \in Pools, UpdatePool(p)
  PROVE  ViewInv'
BY DEF ViewInv, TypeOK, ScreenMatchesSaved, RigsSelectable, PayoutValid, UpdatePool

(* What is sent is what was validated.                                     *)
LEMMA StartStep ==
  ASSUME ViewInv, StartMining
  PROVE  ViewInv'
<1>1. /\ saved' \in Configs /\ saved'.enabled = saved.enabled
      /\ saved'.subaddress = saved.subaddress /\ saved'.rigs = saved.rigs
  BY AddressTypes DEF ViewInv, TypeOK, Configs, StartMining
<1>2. sent' \in ValidAddrs /\ sent' \in Addrs
  BY AddressTypes DEF StartMining, ValidateConfig
<1>3. sentPool' \in Pools BY ConfigTypes DEF ViewInv, TypeOK, StartMining
<1>4. monitors' \in 0..MaxMonitors BY ViewModelAssumption DEF ViewInv, TypeOK, StartMining
<1>5. TypeOK' BY <1>1, <1>2, <1>3, <1>4 DEF ViewInv, TypeOK, StartMining
<1>6. QED BY <1>1, <1>2, <1>5 DEF ViewInv, ScreenMatchesSaved, RigsSelectable,
                                  PayoutValid, StartMining

LEMMA StopStep ==
  ASSUME ViewInv, StopMining
  PROVE  ViewInv'
BY DEF ViewInv, TypeOK, ScreenMatchesSaved, RigsSelectable, PayoutValid, StopMining

LEMMA MonitorStep ==
  ASSUME ViewInv, MonitorTick
  PROVE  ViewInv'
<1>1. monitors' \in 0..MaxMonitors BY ViewModelAssumption DEF ViewInv, TypeOK, MonitorTick
<1>2. TypeOK' BY <1>1 DEF ViewInv, TypeOK, MonitorTick
<1>3. QED BY <1>2 DEF ViewInv, ScreenMatchesSaved, RigsSelectable, PayoutValid, MonitorTick

LEMMA ViewStep ==
  ASSUME ViewInv, [Next]_vars
  PROVE  ViewInv'
<1>1. CASE ImportConfig BY <1>1, ImportStep
<1>2. ASSUME NEW n \in Names, SelectRig(n) PROVE ViewInv' BY <1>2, SelectStep
<1>3. ASSUME NEW n \in Names, RemoveRig(n) PROVE ViewInv' BY <1>3, RemoveStep
<1>4. ASSUME NEW n \in Names, NEW a \in Addrs, AddRig(n, a) PROVE ViewInv' BY <1>4, AddStep
<1>5. ASSUME NEW e \in BOOLEAN, ToggleSubaddress(e) PROVE ViewInv' BY <1>5, ToggleStep
<1>6. ASSUME NEW a \in Addrs, UpdateMiningSubaddress(a) PROVE ViewInv'
  BY <1>6, SubaddressStep
<1>7. ASSUME NEW p \in Pools, UpdatePool(p) PROVE ViewInv' BY <1>7, PoolStep
<1>8. CASE StartMining BY <1>8, StartStep
<1>9. CASE StopMining BY <1>9, StopStep
<1>10. CASE MonitorTick BY <1>10, MonitorStep
<1>11. CASE Recreate BY <1>11, RecreateStep
<1>12. CASE UNCHANGED vars
  BY <1>12 DEF vars, ViewInv, TypeOK, ScreenMatchesSaved, RigsSelectable, PayoutValid
<1>13. QED
  BY <1>1, <1>2, <1>3, <1>4, <1>5, <1>6, <1>7, <1>8, <1>9, <1>10, <1>11, <1>12 DEF Next

-----------------------------------------------------------------------------
LEMMA ViewInvariant == Spec => []ViewInv
<1>1. Init => ViewInv
  <2> SUFFICES ASSUME Init PROVE ViewInv OBVIOUS
  <2>1. saved \in Configs /\ uiPool \in Pools /\ uiRigs \in RigMaps /\ NoAddr \in Addrs
    BY DefaultTypes, ConfigTypes, NoRigs DEF Init, Addrs
  <2>2. available \in [Names -> Nat] /\ selected \in Names
    BY ListedTypes DEF Init, Names
  <2>3. monitors \in 0..MaxMonitors BY ViewModelAssumption DEF Init
  <2>4. TypeOK BY <2>1, <2>2, <2>3 DEF Init, TypeOK
  <2>5. ScreenMatchesSaved BY DefaultTypes DEF Init, ScreenMatchesSaved
  <2>6. RigsSelectable
    <3>1. saved.rigs = << >> BY DefaultTypes DEF Init
    <3>2. QED BY <3>1 DEF RigsSelectable
  <2>7. QED BY <2>4, <2>5, <2>6 DEF Init, ViewInv, PayoutValid
<1>2. QED BY <1>1, ViewStep, PTL DEF Spec

(* Every variable keeps its type.                                          *)
THEOREM TypeCorrect == Spec => []TypeOK
BY ViewInvariant, PTL DEF ViewInv

(* The screen's subaddress settings and rigs are always the saved ones.    *)
THEOREM ScreenAgrees == Spec => []ScreenMatchesSaved
BY ViewInvariant, PTL DEF ViewInv

(* Every rig whose address is saved is in the list of the screen.          *)
THEOREM RigsListed == Spec => []RigsSelectable
BY ViewInvariant, PTL DEF ViewInv

(* Only addresses of full length are ever mined for.                       *)
THEOREM PayoutsValid == Spec => []PayoutValid
BY ViewInvariant, PTL DEF ViewInv
=============================================================================
