--------------------------- MODULE MinerViewModel ---------------------------
(***************************************************************************)
(* The Android view model (MinerViewModel.kt) over the saved configuration *)
(* (ConfigManager.kt): what the screen shows, what the preferences hold    *)
(* and what MinerService is asked to mine.  All of it runs on the main     *)
(* thread, a call at a time; only the monitoring coroutines suspend, for a *)
(* second, between other calls.                                            *)
(*                                                                         *)
(* Left out: fields that are only shown (wallet, worker and threads of the *)
(* screen, uptime, log lines, rotation settings).                          *)
(***************************************************************************)
EXTENDS Integers, Sequences, FiniteSets

CONSTANTS RigNames,     \* names a user may give a rig
          ValidAddrs,   \* addresses of at least 95 characters
          ShortAddrs,   \* shorter, non-empty ones
          ValidPools,   \* host and port pairs validateConfig accepts
          BadPools,     \* an empty host or a port outside 1..65535
          Imports,      \* configurations a user may import
          MaxSuffixes,  \* bound: rig names appended to the worker name
          MaxMonitors,  \* bound: monitoring coroutines at a time
          MaxCopies     \* bound: entries of one rig in the list of the screen

NoAddr == ""
DefaultRig == "default"

Addrs == ValidAddrs \cup ShortAddrs \cup {NoAddr}
Pools == ValidPools \cup BadPools
Names == RigNames \cup {DefaultRig}

(* Map<String, String> of rig name to subaddress.                          *)
RigMaps == UNION {[R -> Addrs] : R \in SUBSET Names}

(* MinerConfig.  A worker name is the user's, followed by the rig names    *)
(* getWorkerName has appended.                                             *)
Configs == [pool : Pools, wallet : Addrs, worker : Seq(RigNames),
            enabled : BOOLEAN, subaddress : Addrs, rigs : RigMaps]

NotStarted == "nothing sent"

ASSUME ViewModelAssumption ==
  /\ ValidAddrs \cap ShortAddrs = {} /\ NoAddr \notin ValidAddrs \cup ShortAddrs
  /\ ValidPools \cap BadPools = {} /\ ValidPools # {}
  /\ DefaultRig \notin RigNames
  /\ Imports \subseteq Configs
  /\ MaxSuffixes \in Nat /\ MaxMonitors \in Nat /\ MaxCopies \in Nat

VARIABLES
  saved,        \* the configuration in the preferences
  uiPool,       \* MinerUIState.poolHost and poolPort
  uiEnabled,    \* .subaddressEnabled
  uiSubaddress, \* .miningSubaddress
  uiRigs,       \* .additionalRigs
  available,    \* .availableRigs: how often each name is in the list
  selected,     \* .selectedRig
  isMining,     \* .isMining
  status,       \* .status
  monitors,     \* coroutines of startMonitoring() that are in delay()
  sent,         \* the payout address of the last ACTION_START
  sentPool,     \* its pool
  mainWallet    \* history: the wallet of the last import, or the default

uiVars == <<uiPool, uiEnabled, uiSubaddress, uiRigs, available, selected>>
runVars == <<isMining, status, monitors, sent, sentPool>>
vars == <<saved, uiVars, runVars, mainWallet>>

(* Every variable has its type: a worker name is never extended by         *)
(* "default", and the coroutines of the view model stay within their       *)
(* bound.                                                                  *)
TypeOK ==
  /\ saved \in Configs
  /\ uiPool \in Pools
  /\ uiEnabled \in BOOLEAN
  /\ uiSubaddress \in Addrs
  /\ uiRigs \in RigMaps
  /\ available \in [Names -> Nat]
  /\ selected \in Names
  /\ isMining \in BOOLEAN
  /\ status \in {"Stopped", "Starting", "Mining"}
  /\ monitors \in 0..MaxMonitors
  /\ sent \in Addrs \cup {NotStarted}
  /\ sentPool \in Pools \cup {NotStarted}
  /\ mainWallet \in Addrs

(* MinerConfig(): no wallet, the built-in pool.                            *)
DefaultConfig ==
  [pool |-> CHOOSE p \in ValidPools : TRUE, wallet |-> NoAddr, worker |-> << >>,
   enabled |-> FALSE, subaddress |-> NoAddr, rigs |-> << >>]

(* getRigNames(): "default", then the keys.                                *)
Listed(rigs) == [n \in Names |-> (IF n = DefaultRig THEN 1 ELSE 0)
                               + (IF n \in DOMAIN rigs THEN 1 ELSE 0)]

(* loadSavedConfig() after the preferences changed to c.                   *)
Load(c) ==
  /\ saved' = c
  /\ uiPool' = c.pool
  /\ uiEnabled' = c.enabled
  /\ uiSubaddress' = c.subaddress
  /\ uiRigs' = c.rigs
  /\ available' = Listed(c.rigs)
  /\ selected' = DefaultRig

Init ==
  /\ saved = DefaultConfig
  /\ uiPool = DefaultConfig.pool
  /\ uiEnabled = FALSE
  /\ uiSubaddress = NoAddr
  /\ uiRigs = << >>
  /\ available = Listed(<< >>)
  /\ selected = DefaultRig
  /\ isMining = FALSE /\ status = "Stopped" /\ monitors = 0
  /\ sent = NotStarted /\ sentPool = NotStarted
  /\ mainWallet = NoAddr
-----------------------------------------------------------------------------
(* Configuration calls.  Each updates the screen and writes the saved      *)
(* configuration, except updatePoolHost() and updatePoolPort().            *)

(* A text that does not parse leaves the preferences alone, and the screen *)
(* is reloaded all the same.                                               *)
ImportConfig ==
  /\ \/ \E c \in Imports : Load(c) /\ mainWallet' = c.wallet
     \/ Load(saved) /\ UNCHANGED mainWallet
  /\ UNCHANGED runVars

SelectRig(n) ==
  /\ available[n] > 0
  /\ selected' = n
  /\ UNCHANGED <<saved, uiPool, uiEnabled, uiSubaddress, uiRigs, available, runVars,
                 mainWallet>>

ToggleSubaddress(e) ==
  /\ uiEnabled' = e
  /\ saved' = [saved EXCEPT !.enabled = e]
  /\ UNCHANGED <<uiPool, uiSubaddress, uiRigs, available, selected, runVars, mainWallet>>

UpdateMiningSubaddress(a) ==
  /\ uiSubaddress' = a
  /\ saved' = [saved EXCEPT !.subaddress = a]
  /\ UNCHANGED <<uiPool, uiEnabled, uiRigs, available, selected, runVars, mainWallet>>

(* The map replaces an entry of the same name; the list does not.          *)
AddRig(n, a) ==
  /\ available[n] < MaxCopies
  /\ uiRigs' = [m \in DOMAIN uiRigs \cup {n} |-> IF m = n THEN a ELSE uiRigs[m]]
  /\ available' = [available EXCEPT ![n] = @ + 1]
  /\ saved' = [saved EXCEPT !.rigs = uiRigs']
  /\ UNCHANGED <<uiPool, uiEnabled, uiSubaddress, selected, runVars, mainWallet>>

(* List.minus removes the first occurrence.                                *)
RemoveFirst(n) == [available EXCEPT ![n] = IF @ = 0 THEN 0 ELSE @ - 1]

RemoveRig_KeepsAddress(n) ==                         \* mutant: the result of
  /\ available' = RemoveFirst(n)                     \* "currentRigs - rigName" unused
  /\ selected' = IF selected = n THEN DefaultRig ELSE selected
  /\ saved' = [saved EXCEPT !.rigs = uiRigs]
  /\ UNCHANGED <<uiPool, uiEnabled, uiSubaddress, uiRigs, runVars, mainWallet>>

RemoveRig_NotSaved(n) ==                             \* mutant
  /\ uiRigs' = [m \in DOMAIN uiRigs \ {n} |-> uiRigs[m]]
  /\ available' = RemoveFirst(n)
  /\ selected' = IF selected = n THEN DefaultRig ELSE selected
  /\ UNCHANGED <<saved, uiPool, uiEnabled, uiSubaddress, runVars, mainWallet>>

RemoveRig(n) ==
  /\ uiRigs' = [m \in DOMAIN uiRigs \ {n} |-> uiRigs[m]]
  /\ available' = RemoveFirst(n)
  /\ selected' = IF selected = n THEN DefaultRig ELSE selected
  /\ saved' = [saved EXCEPT !.rigs = uiRigs']
  /\ UNCHANGED <<uiPool, uiEnabled, uiSubaddress, runVars, mainWallet>>

UpdatePool(p) ==
  /\ uiPool' = p
  /\ UNCHANGED <<saved, uiEnabled, uiSubaddress, uiRigs, available, selected, runVars,
                 mainWallet>>

-----------------------------------------------------------------------------
(* Starting, stopping, monitoring.                                         *)

(* getActiveMiningAddress(): a selected rig without an entry pays the main *)
(* wallet.                                                                 *)
ActiveAddress ==
  IF selected = DefaultRig
  THEN IF saved.enabled /\ saved.subaddress # NoAddr THEN saved.subaddress ELSE saved.wallet
  ELSE IF selected \in DOMAIN saved.rigs THEN saved.rigs[selected] ELSE saved.wallet

ValidateConfig_MainWallet ==                         \* mutant: not the active address
  saved.wallet \in ValidAddrs /\ uiPool \in ValidPools

ValidateConfig == ActiveAddress \in ValidAddrs /\ uiPool \in ValidPools

WorkerName_Always == Append(saved.worker, selected)  \* mutant: "default" as well

WorkerName ==
  IF selected = DefaultRig THEN saved.worker ELSE Append(saved.worker, selected)

(* startMining() saves the payout address and the worker name it mines     *)
(* with, and starts one more monitoring coroutine, mining or not.          *)
StartMining ==
  /\ ValidateConfig
  /\ Len(WorkerName) <= MaxSuffixes
  /\ monitors < MaxMonitors
  /\ saved' = [saved EXCEPT !.wallet = ActiveAddress, !.worker = WorkerName]
  /\ sent' = ActiveAddress
  /\ sentPool' = saved.pool
  /\ isMining' = TRUE
  /\ status' = "Starting"
  /\ monitors' = monitors + 1
  /\ UNCHANGED <<uiVars, mainWallet>>

StopMining ==
  /\ isMining' = FALSE
  /\ status' = "Stopped"
  /\ UNCHANGED <<saved, uiVars, monitors, sent, sentPool, mainWallet>>

MonitorTick_NeverEnds ==                             \* mutant: while (true)
  /\ monitors > 0
  /\ status' = "Mining"
  /\ UNCHANGED <<saved, uiVars, isMining, monitors, sent, sentPool, mainWallet>>

(* One turn of a monitoring coroutine: it wakes, writes the status, and    *)
(* only then looks at isMining again.                                      *)
MonitorTick ==
  /\ monitors > 0
  /\ status' = "Mining"
  /\ monitors' = IF isMining THEN monitors ELSE monitors - 1
  /\ UNCHANGED <<saved, uiVars, isMining, sent, sentPool, mainWallet>>

(* onCleared() cancels the coroutines; a later view model starts from the  *)
(* preferences, whatever the service is doing.                             *)
Recreate ==
  /\ Load(saved)
  /\ isMining' = FALSE /\ status' = "Stopped" /\ monitors' = 0
  /\ UNCHANGED <<sent, sentPool, mainWallet>>

Next ==
  \/ ImportConfig
  \/ \E n \in Names : SelectRig(n) \/ RemoveRig(n)
  \/ \E n \in Names, a \in Addrs : AddRig(n, a)
  \/ \E e \in BOOLEAN : ToggleSubaddress(e)
  \/ \E a \in Addrs : UpdateMiningSubaddress(a)
  \/ \E p \in Pools : UpdatePool(p)
  \/ StartMining \/ StopMining \/ MonitorTick \/ Recreate

Spec == Init /\ [][Next]_vars

(* The main looper runs every delayed coroutine that is due.               *)
FairSpec == Spec /\ WF_vars(MonitorTick)

-----------------------------------------------------------------------------
(* The subaddress settings on the screen are the saved ones, although      *)
(* every call computes the saved map from the map of the screen.           *)
ScreenMatchesSaved ==
  /\ uiEnabled = saved.enabled
  /\ uiSubaddress = saved.subaddress
  /\ uiRigs = saved.rigs

(* Every rig whose address is saved can be selected: it is in the list,    *)
(* although adding a rig twice lists it twice and saves it once, and a     *)
(* rig may be called "default".                                            *)
RigsSelectable == \A n \in DOMAIN saved.rigs : available[n] > 0

(* The service is only ever started with a payout address of full length,  *)
(* whichever of main wallet, subaddress and rig address it comes from.     *)
PayoutValid == sent \in ValidAddrs \cup {NotStarted}

(* Once mining has stopped for good every monitoring coroutine ends, those *)
(* left over from a quick stop and start included.                         *)
MonitorsEnd == <>[]~isMining => <>[](monitors = 0)

-----------------------------------------------------------------------------
(* Without a rig and with subaddresses off, mining pays the main wallet    *)
(* the user configured ("Subaddress mining disabled, using main wallet").  *)
(* The code has overwritten the main wallet by then.                       *)
MainWalletPaid ==
  [][StartMining /\ selected = DefaultRig /\ ~saved.enabled /\ mainWallet \in ValidAddrs
     => sent' = mainWallet]_vars

(* The selected rig is one selectRig() would accept.  removeRig("default") *)
(* takes the default out of the list and leaves it selected.               *)
SelectedIsListed == available[selected] > 0

(* The pool that is validated is the pool that is mined ("Invalid pool     *)
(* port").  The code validates the screen's and sends the saved one.       *)
SentPoolValid == sentPool \in ValidPools \cup {NotStarted}
=============================================================================
