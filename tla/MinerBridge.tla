----------------------------- MODULE MinerBridge -----------------------------
(***************************************************************************)
(* The app's path from the screen to the native miner: the page            *)
(* (assets/miner.js) that the activity shows, the JavaScript interface     *)
(* (MainActivity.kt) and the JNI functions over the process-wide g_miner   *)
(* (miner_bridge.cpp).                                                     *)
(*                                                                         *)
(* A page calls the interface synchronously, and the WebView runs all      *)
(* calls of a process on one thread, in order.  Android may destroy the    *)
(* activity with its page, also while a call is under way, and the process *)
(* with everything in it.  A session's inside is MinerSession; here only   *)
(* how it began matters.                                                   *)
(***************************************************************************)
EXTENDS Integers, Sequences

CONSTANTS Wallets,      \* wallets the page accepts
          MaxPages      \* bound: pages loaded in a behaviour

ASSUME BridgeAssumption == MaxPages \in Nat

None == [state |-> "none", wallet |-> "none", page |-> 0]

(* failed: initialize() returned false.  half: an exception came later and *)
(* left a miner that is connected but not counted as mining.               *)
Miners == {None} \cup [state : {"failed", "half", "running"},
                       wallet : Wallets, page : 1..MaxPages]

VARIABLES
  page,     \* how many pages were loaded; the last one may be on the screen
  shown,    \* a page is on the screen
  mining,   \* its variable mining, and with it the buttons and "MINING"
  wallet,   \* the wallet of its last START
  timer,    \* its statsTimer is set
  waits,    \* the interface call it is blocked in
  calls,    \* calls the interface thread has yet to run or finish
  loaded,   \* nativeLibraryLoaded of the last activity
  gMiner,   \* g_miner, with who started it for what
  gMining   \* g_mining

pageVars == <<page, shown, mining, wallet, timer, waits>>
vars == <<pageVars, calls, loaded, gMiner, gMining>>

(* A call goes to the activity that shows its page, and sees its flag.     *)
Calls == [op : {"start", "stop"}, wallet : Wallets, page : 1..MaxPages, loaded : BOOLEAN]

(* Every variable has its type, and no page ever has two calls under way.  *)
TypeOK ==
  /\ page \in 0..MaxPages
  /\ shown \in BOOLEAN /\ mining \in BOOLEAN /\ timer \in BOOLEAN
  /\ wallet \in Wallets
  /\ waits \in {"no", "start", "stop"}
  /\ calls \in Seq(Calls) /\ Len(calls) <= page
  /\ loaded \in BOOLEAN
  /\ gMiner \in Miners
  /\ gMining \in BOOLEAN

Init ==
  /\ page = 0 /\ shown = FALSE /\ mining = FALSE /\ timer = FALSE
  /\ wallet \in Wallets
  /\ waits = "no" /\ calls = << >>
  /\ loaded = FALSE
  /\ gMiner = None /\ gMining = FALSE

-----------------------------------------------------------------------------
(* The page.  Its functions run to the interface call, and on from it when *)
(* it returns; the user cannot press a button in between.                  *)

Idle_WhileWaiting == shown                           \* mutant: calls do not block
Idle == shown /\ waits = "no"

Call(op, w) ==
  /\ waits' = op
  /\ calls' = Append(calls, [op |-> op, wallet |-> w, page |-> page, loaded |-> loaded])

(* startMining(): the page counts as mining before it asks.                *)
PressStart(w) ==
  /\ Idle /\ ~mining
  /\ mining' = TRUE
  /\ wallet' = w
  /\ Call("start", w)
  /\ UNCHANGED <<page, shown, timer, loaded, gMiner, gMining>>

PressStop ==
  /\ Idle /\ mining
  /\ mining' = FALSE
  /\ Call("stop", wallet)
  /\ UNCHANGED <<page, shown, wallet, timer, loaded, gMiner, gMining>>

(* The activity is created and loads the native library, which stays in    *)
(* the process once it is there, and the page.                             *)
OpenPage ==
  /\ ~shown
  /\ page < MaxPages
  /\ page' = page + 1
  /\ shown' = TRUE
  /\ mining' = FALSE /\ timer' = FALSE /\ waits' = "no"
  /\ loaded' \in (IF loaded THEN {TRUE} ELSE BOOLEAN)
  /\ UNCHANGED <<wallet, calls, gMiner, gMining>>

(* onDestroy(): the page goes, nobody calls nativeStopMining().            *)
ClosePage ==
  /\ shown
  /\ shown' = FALSE
  /\ mining' = FALSE /\ timer' = FALSE /\ waits' = "no"
  /\ UNCHANGED <<page, wallet, calls, loaded, gMiner, gMining>>

ProcessDies ==
  /\ shown' = FALSE
  /\ mining' = FALSE /\ timer' = FALSE /\ waits' = "no"
  /\ calls' = << >>
  /\ loaded' = FALSE
  /\ gMiner' = None /\ gMining' = FALSE
  /\ UNCHANGED <<page, wallet>>

-----------------------------------------------------------------------------
(* The interface thread.                                                   *)

(* nativeStartMining(): the new object replaces, and so destroys, what a   *)
(* failed start left in g_miner.  It leaves everything as it is when it    *)
(* finds g_mining, or when an exception comes before the new object.       *)
NativeStart_Replaces(c) ==                           \* mutant: no g_mining test
  \E s \in {"failed", "half", "running"} :
    /\ gMiner' = [state |-> s, wallet |-> c.wallet, page |-> c.page]
    /\ gMining' = (gMining \/ s = "running")

NativeStart(c) ==
  \/ UNCHANGED <<gMiner, gMining>>
  \/ /\ ~gMining
     /\ \E s \in {"failed", "half", "running"} :
          /\ gMiner' = [state |-> s, wallet |-> c.wallet, page |-> c.page]
          /\ gMining' = (s = "running")

(* nativeStopMining(): stops and destroys whatever is there.               *)
NativeStop_IfMining ==                               \* mutant: if (g_mining)
  /\ gMiner' = IF gMining THEN None ELSE gMiner
  /\ gMining' = FALSE

NativeStop ==
  /\ gMiner' = None
  /\ gMining' = FALSE

(* The call returns to its page if that is still there.  startMining() of  *)
(* the page drops the result and sets its timer; stopMining() clears it.   *)
Returns_HonoursResult(c, t) ==                       \* mutant: a failed start
  IF shown /\ c.page = page                          \* brings START back
  THEN /\ waits' = "no"
       /\ timer' = t
       /\ mining' = (mining /\ (t => gMining'))
       /\ UNCHANGED <<page, shown, wallet>>
  ELSE UNCHANGED pageVars

Returns_KeepsTimer(c, t) ==                          \* mutant: no clearInterval
  IF shown /\ c.page = page
  THEN /\ waits' = "no"
       /\ timer' = (timer \/ t)
       /\ UNCHANGED <<page, shown, mining, wallet>>
  ELSE UNCHANGED pageVars

Returns(c, t) ==
  IF shown /\ c.page = page
  THEN /\ waits' = "no"
       /\ timer' = t
       /\ UNCHANGED <<page, shown, mining, wallet>>
  ELSE UNCHANGED pageVars

RunStart ==
  /\ calls # << >> /\ Head(calls).op = "start"
  /\ calls' = Tail(calls)
  /\ IF Head(calls).loaded THEN NativeStart(Head(calls)) ELSE UNCHANGED <<gMiner, gMining>>
  /\ Returns(Head(calls), TRUE)
  /\ UNCHANGED loaded

RunStop ==
  /\ calls # << >> /\ Head(calls).op = "stop"
  /\ calls' = Tail(calls)
  /\ IF Head(calls).loaded THEN NativeStop ELSE UNCHANGED <<gMiner, gMining>>
  /\ Returns(Head(calls), FALSE)
  /\ UNCHANGED loaded

RunCall == RunStart \/ RunStop

Next ==
  \/ \E w \in Wallets : PressStart(w)
  \/ PressStop \/ OpenPage \/ ClosePage \/ ProcessDies
  \/ RunCall

Spec == Init /\ [][Next]_vars

(* The interface thread runs; a native call ends, since start() is bounded *)
(* by the socket timeouts and stop() by MinerSession's ShutdownCompletes.  *)
FairSpec == Spec /\ WF_vars(RunCall)

-----------------------------------------------------------------------------
(* The flag and the object agree: g_mining is set exactly while g_miner is *)
(* a miner that started, after refused, failed and half-way starts too.    *)
MiningFlagTrue == gMining <=> gMiner.state = "running"

(* A page that shows READY or STOPPED has nothing of its own mining or     *)
(* connected: whatever is left in g_miner, an earlier page started.        *)
StoppedPageLeftNothing == Idle /\ ~mining => gMiner = None \/ gMiner.page # page

(* A page polls statistics exactly while it shows MINING, and a miner it   *)
(* started itself mines for the wallet of its last START.                  *)
PageWatchesItsMiner ==
  Idle => /\ timer <=> mining
          /\ mining /\ gMiner.page = page => gMiner.wallet = wallet

(* Pages, activities and failing starts add up to a switch: what mines was *)
(* asked for, by the first request that found nobody mining, and no stop   *)
(* passes it by, one that finds no native library included.                *)
Switch == INSTANCE MinerSwitch WITH
            asked <- [i \in DOMAIN calls |-> [op |-> calls[i].op, wallet |-> calls[i].wallet]],
            mines <- IF gMiner.state = "running" THEN {gMiner.wallet} ELSE {}
ImplementsSwitch == Switch!SwitchSpec

(* A stop once asked for takes hold, even when the page that asked has     *)
(* gone: nothing is left that mines or holds a connection.                 *)
StopTakesHold ==
  (\E i \in DOMAIN calls : calls[i].op = "stop") ~> gMiner = None
=============================================================================
