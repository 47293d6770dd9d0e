-------------------------- MODULE MinerBridgeProofs --------------------------
(***************************************************************************)
(* Theorems about MinerBridge for every set of wallets and every number of *)
(* pages: type correctness and the three safety invariants, from one       *)
(* inductive invariant on the calls a process has under way, and the       *)
(* refinement of MinerSwitch.                                              *)
(***************************************************************************)
EXTENDS MinerBridge, SequenceTheorems, TLAPS

(* Calls are in the order of their pages, one per page at most; the page   *)
(* on the screen waits for its own, and no call's activity found a library *)
(* that the process does not have.                                         *)
CallsInv ==
  /\ \A i \in DOMAIN calls : calls[i].page \in i..page
  /\ \A i, j \in DOMAIN calls : i < j => calls[i].page < calls[j].page
  /\ \A i \in DOMAIN calls : calls[i].loaded => loaded
  /\ \A i \in DOMAIN calls : calls[i].page = page => calls[i].loaded = loaded
  /\ shown => \A i \in DOMAIN calls :
       calls[i].page = page => waits = calls[i].op /\ calls[i].wallet = wallet

(* The page on the screen and the miner it may have started.               *)
PageInv ==
  /\ shown => page >= 1
  /\ gMiner.page <= page
  /\ gMiner # None => loaded
  /\ shown /\ waits = "start" => mining /\ gMiner.page # page
  /\ shown /\ waits = "stop" => ~mining
  /\ shown /\ gMiner.page = page => gMiner.wallet = wallet

BridgeInv ==
  /\ TypeOK /\ CallsInv /\ PageInv
  /\ MiningFlagTrue /\ StoppedPageLeftNothing /\ PageWatchesItsMiner

USE DEF pageVars

-----------------------------------------------------------------------------
(* The page asks: one more call, behind those of earlier pages.            *)
LEMMA Asked ==
  ASSUME BridgeInv, Idle, NEW op \in {"start", "stop"}, NEW w \in Wallets,
         Call(op, w), wallet' = w, UNCHANGED <<page, shown, loaded>>
  PROVE  /\ calls' \in Seq(Calls) /\ Len(calls') <= page
         /\ CallsInv'
<1> DEFINE c == [op |-> op, wallet |-> w, page |-> page, loaded |-> loaded]
           n == Len(calls)
<1>1. /\ calls \in Seq(Calls) /\ n \in Nat /\ DOMAIN calls = 1..n
      /\ page \in 1..MaxPages /\ shown /\ loaded \in BOOLEAN
  BY BridgeAssumption DEF BridgeInv, TypeOK, PageInv, Idle
<1>2. c \in Calls BY <1>1 DEF Calls
<1>3. /\ calls' = Append(calls, c) /\ Len(calls') = n + 1 /\ calls' \in Seq(Calls)
      /\ \A i \in 1..n : calls'[i] = calls[i]
      /\ calls'[n + 1] = c
  BY <1>1, <1>2 DEF Call
<1>4. /\ DOMAIN calls' = 1..(n + 1)
      /\ \A i \in DOMAIN calls' : i \in 1..n \/ i = n + 1
  BY <1>1, <1>3
<1>5. \A i \in 1..n : calls[i] \in Calls BY <1>1
<1>6. \A i \in 1..n : calls[i].page \in i..page /\ calls[i].page # page
  BY <1>1, <1>5 DEF BridgeInv, CallsInv, Idle, Calls
<1>7. n + 1 <= page
  <2>1. CASE n = 0 BY <1>1, <2>1
  <2>2. CASE n > 0
    <3>1. n \in 1..n BY <1>1, <2>2
    <3>2. calls[n].page \in n..page /\ calls[n].page # page BY <1>6, <3>1
    <3>3. QED BY <1>1, <3>2 DEF TypeOK
  <2>3. QED BY <1>1, <2>1, <2>2
<1>8. \A i \in DOMAIN calls' : calls'[i].page \in i..page
  BY <1>1, <1>3, <1>4, <1>6, <1>7
<1>9. \A i, j \in DOMAIN calls' : i < j => calls'[i].page < calls'[j].page
  <2> SUFFICES ASSUME NEW i \in DOMAIN calls', NEW j \in DOMAIN calls', i < j
               PROVE  calls'[i].page < calls'[j].page
    OBVIOUS
  <2>1. i \in 1..n /\ calls'[i] = calls[i] BY <1>1, <1>3, <1>4
  <2>2. CASE j \in 1..n
    BY <1>1, <1>3, <2>1, <2>2 DEF BridgeInv, CallsInv
  <2>3. CASE j = n + 1
    BY <1>1, <1>3, <1>6, <2>1, <2>3
  <2>4. QED BY <1>4, <2>2, <2>3
<1>10. \A i \in DOMAIN calls' :
         /\ calls'[i].loaded => loaded
         /\ calls'[i].page = page => i = n + 1
  BY <1>1, <1>3, <1>4, <1>6 DEF BridgeInv, CallsInv
<1>11. CallsInv'
  BY <1>3, <1>8, <1>9, <1>10 DEF CallsInv, Call
<1>12. QED BY <1>3, <1>7, <1>11

(* The interface thread takes the first call.                              *)
LEMMA Taken ==
  ASSUME BridgeInv, calls # << >>, calls' = Tail(calls)
  PROVE  /\ Head(calls) = calls[1] /\ Head(calls) \in Calls /\ 1 \in DOMAIN calls
         /\ calls' \in Seq(Calls) /\ Len(calls') <= page
         /\ \A i \in DOMAIN calls' : /\ i \in Nat \ {0} /\ i + 1 \in DOMAIN calls
                                     /\ calls'[i] = calls[i + 1]
<1>1. calls \in Seq(Calls) /\ Len(calls) \in Nat \ {0} /\ page \in Nat /\ Len(calls) <= page
  BY BridgeAssumption DEF BridgeInv, TypeOK
<1>2. /\ calls' \in Seq(Calls) /\ Len(calls') = Len(calls) - 1
      /\ \A i \in 1..(Len(calls) - 1) : calls'[i] = calls[i + 1]
  BY <1>1
<1>3. DOMAIN calls = 1..Len(calls) /\ DOMAIN calls' = 1..(Len(calls) - 1)
  BY <1>1, <1>2
<1>4. Head(calls) = calls[1] /\ Head(calls) \in Calls BY <1>1
<1>5. QED BY <1>1, <1>2, <1>3, <1>4

(* What is left are calls of later pages.                                  *)
LEMMA CallsLeft ==
  ASSUME BridgeInv, calls # << >>, calls' = Tail(calls), UNCHANGED <<page, shown, wallet, loaded>>,
         shown /\ Head(calls).page # page => UNCHANGED waits
  PROVE  CallsInv'
<1>1. /\ Head(calls) = calls[1] /\ 1 \in DOMAIN calls
      /\ \A i \in DOMAIN calls' : /\ i \in Nat \ {0} /\ i + 1 \in DOMAIN calls
                                  /\ calls'[i] = calls[i + 1]
  BY Taken
<1>2. \A i \in DOMAIN calls' : calls'[i].page > Head(calls).page
  BY <1>1, BridgeAssumption DEF BridgeInv, CallsInv, TypeOK
<1>3. Head(calls).page \in 1..page /\ page \in Nat
  BY <1>1, BridgeAssumption DEF BridgeInv, CallsInv, TypeOK
<1>4. \A i \in DOMAIN calls' : calls'[i].page \in i..page
  BY <1>1, <1>3 DEF BridgeInv, CallsInv
<1>5. \A i, j \in DOMAIN calls' : i < j => calls'[i].page < calls'[j].page
  BY <1>1 DEF BridgeInv, CallsInv
<1>6. \A i \in DOMAIN calls' : /\ calls'[i].loaded => loaded
                               /\ calls'[i].page = page => calls'[i].loaded = loaded
  BY <1>1 DEF BridgeInv, CallsInv
<1>7. shown => \A i \in DOMAIN calls' :
                 calls'[i].page = page => waits' = calls'[i].op /\ calls'[i].wallet = wallet
  <2> SUFFICES ASSUME shown, NEW i \in DOMAIN calls', calls'[i].page = page
               PROVE  waits' = calls'[i].op /\ calls'[i].wallet = wallet
    OBVIOUS
  <2>1. Head(calls).page # page BY <1>2, <1>3
  <2>2. QED BY <1>1, <2>1 DEF BridgeInv, CallsInv
<1>8. QED BY <1>4, <1>5, <1>6, <1>7 DEF CallsInv

-----------------------------------------------------------------------------
(* Every step keeps the invariant.                                         *)

LEMMA PressStartStep ==
  ASSUME BridgeInv, NEW w \in Wallets, PressStart(w)
  PROVE  BridgeInv'
<1>1. CallsInv' /\ calls' \in Seq(Calls) /\ Len(calls') <= page
  BY Asked DEF PressStart
<1>2. TypeOK' BY <1>1 DEF BridgeInv, PressStart, Call, TypeOK
<1>3. gMiner = None \/ gMiner.page # page
  BY DEF BridgeInv, StoppedPageLeftNothing, PressStart
<1>4. gMiner.page # page
  BY <1>3 DEF BridgeInv, PageInv, PressStart, Idle, None
<1>5. PageInv' BY <1>4 DEF BridgeInv, PageInv, PressStart, Call
<1>6. MiningFlagTrue' /\ StoppedPageLeftNothing' /\ PageWatchesItsMiner'
  BY DEF BridgeInv, MiningFlagTrue, StoppedPageLeftNothing, PageWatchesItsMiner,
         PressStart, Call, Idle
<1>7. QED BY <1>1, <1>2, <1>5, <1>6 DEF BridgeInv

LEMMA PressStopStep ==
  ASSUME BridgeInv, PressStop
  PROVE  BridgeInv'
<1>1. wallet \in Wallets BY DEF BridgeInv, TypeOK
<1>2. CallsInv' /\ calls' \in Seq(Calls) /\ Len(calls') <= page
  BY <1>1, Asked DEF PressStop
<1>3. TypeOK' BY <1>2 DEF BridgeInv, PressStop, Call, TypeOK
<1>4. PageInv' BY DEF BridgeInv, PageInv, PressStop, Call
<1>5. MiningFlagTrue' /\ StoppedPageLeftNothing' /\ PageWatchesItsMiner'
  BY DEF BridgeInv, MiningFlagTrue, StoppedPageLeftNothing, PageWatchesItsMiner,
         PressStop, Call, Idle
<1>6. QED BY <1>2, <1>3, <1>4, <1>5 DEF BridgeInv

LEMMA OpenPageStep ==
  ASSUME BridgeInv, OpenPage
  PROVE  BridgeInv'
<1>1. /\ page \in Nat /\ page' = page + 1 /\ page' \in 0..MaxPages
      /\ calls \in Seq(Calls) /\ Len(calls) <= page /\ calls' = calls
      /\ loaded' \in BOOLEAN /\ (loaded => loaded')
      /\ gMiner.page <= page /\ gMiner' = gMiner
  <2>1. page \in Nat /\ page' = page + 1 /\ page' \in 0..MaxPages
    BY BridgeAssumption DEF BridgeInv, TypeOK, OpenPage
  <2>2. loaded' \in BOOLEAN /\ (loaded => loaded')
    BY Zenon DEF BridgeInv, TypeOK, OpenPage
  <2>3. QED BY <2>1, <2>2 DEF BridgeInv, TypeOK, PageInv, OpenPage
<1>2. Len(calls) \in Nat /\ DOMAIN calls = 1..Len(calls) BY <1>1
<1>3. \A i \in DOMAIN calls : calls[i].page \in i..page /\ calls[i].page # page'
  BY <1>1, <1>2 DEF BridgeInv, CallsInv
<1>4. gMiner.page \in Nat BY DEF BridgeInv, TypeOK, Miners, None
<1>5. TypeOK'
  <2>1. Len(calls) <= page' BY <1>1, <1>2
  <2>2. QED BY <1>1, <2>1 DEF BridgeInv, TypeOK, OpenPage
<1>6. CallsInv'
  <2>1. \A i \in DOMAIN calls : calls[i].page \in i..page' BY <1>1, <1>2, <1>3
  <2>2. QED BY <1>1, <1>3, <2>1 DEF BridgeInv, CallsInv, OpenPage
<1>7. PageInv' BY <1>1, <1>4 DEF BridgeInv, PageInv, OpenPage
<1>8. gMiner.page # page' BY <1>1, <1>4
<1>9. MiningFlagTrue' /\ StoppedPageLeftNothing' /\ PageWatchesItsMiner'
  BY <1>1, <1>8 DEF BridgeInv, MiningFlagTrue, StoppedPageLeftNothing,
                    PageWatchesItsMiner, OpenPage
<1>10. QED BY <1>5, <1>6, <1>7, <1>9 DEF BridgeInv

LEMMA ClosePageStep ==
  ASSUME BridgeInv, ClosePage
  PROVE  BridgeInv'
<1>1. TypeOK' BY DEF BridgeInv, TypeOK, ClosePage
<1>2. CallsInv' BY DEF BridgeInv, CallsInv, ClosePage
<1>3. PageInv' BY DEF BridgeInv, PageInv, ClosePage
<1>4. QED BY <1>1, <1>2, <1>3 DEF BridgeInv, MiningFlagTrue, StoppedPageLeftNothing,
                                  PageWatchesItsMiner, ClosePage, Idle

LEMMA ProcessDiesStep ==
  ASSUME BridgeInv, ProcessDies
  PROVE  BridgeInv'
<1>1. << >> \in Seq(Calls) /\ Len(<< >>) = 0 /\ DOMAIN << >> = {} OBVIOUS
<1>2. page \in Nat BY BridgeAssumption DEF BridgeInv, TypeOK
<1>3. TypeOK'
  <2>1. calls' \in Seq(Calls) /\ Len(calls') <= page' BY <1>1, <1>2 DEF ProcessDies
  <2>2. gMiner' \in Miners BY DEF ProcessDies, Miners
  <2>3. QED BY <2>1, <2>2 DEF BridgeInv, TypeOK, ProcessDies
<1>4. CallsInv' BY <1>1 DEF CallsInv, ProcessDies
<1>5. PageInv' BY <1>2 DEF PageInv, ProcessDies, None
<1>6. QED BY <1>3, <1>4, <1>5 DEF BridgeInv, MiningFlagTrue, StoppedPageLeftNothing,
                                  PageWatchesItsMiner, ProcessDies, Idle, None

(* A start leaves an earlier miner alone, or a miner of its own.           *)
LEMMA Started ==
  ASSUME BridgeInv, RunStart
  PROVE  LET c == Head(calls)
         IN  /\ gMiner' \in Miners /\ gMining' \in BOOLEAN
             /\ gMining' <=> gMiner'.state = "running"
             /\ \/ gMiner' = gMiner
                \/ /\ c.loaded /\ gMiner'.page = c.page /\ gMiner'.wallet = c.wallet
                   /\ gMiner' # None
<1> DEFINE c == Head(calls)
<1>1. c \in Calls BY Taken DEF RunStart
<1>2. CASE UNCHANGED <<gMiner, gMining>>
  BY <1>2 DEF BridgeInv, TypeOK, MiningFlagTrue
<1>3. ASSUME c.loaded, NEW s \in {"failed", "half", "running"},
             gMiner' = [state |-> s, wallet |-> c.wallet, page |-> c.page],
             gMining' = (s = "running")
      PROVE  /\ gMiner' \in Miners /\ gMining' \in BOOLEAN
             /\ gMining' <=> gMiner'.state = "running"
             /\ c.loaded /\ gMiner'.page = c.page /\ gMiner'.wallet = c.wallet
             /\ gMiner' # None
  BY <1>1, <1>3 DEF Calls, Miners, None
<1>4. QED BY <1>2, <1>3 DEF RunStart, NativeStart

LEMMA RunStartStep ==
  ASSUME BridgeInv, RunStart
  PROVE  BridgeInv'
<1> DEFINE c == Head(calls)
<1>1. /\ c = calls[1] /\ 1 \in DOMAIN calls /\ c \in Calls /\ c.op = "start"
      /\ calls' \in Seq(Calls) /\ Len(calls') <= page
  BY Taken DEF RunStart
<1>2. UNCHANGED <<page, shown, mining, wallet, loaded>>
  BY DEF RunStart, Returns
<1>3. /\ gMiner' \in Miners /\ gMining' \in BOOLEAN
      /\ gMining' <=> gMiner'.state = "running"
      /\ \/ gMiner' = gMiner
         \/ /\ c.loaded /\ gMiner'.page = c.page /\ gMiner'.wallet = c.wallet
            /\ gMiner' # None
  BY Started
<1>4. c.page \in 1..page /\ page \in Nat
  BY <1>1, BridgeAssumption DEF BridgeInv, CallsInv, TypeOK
<1>5. c.loaded => loaded BY <1>1 DEF BridgeInv, CallsInv
<1>6. shown /\ c.page = page => /\ waits = "start" /\ c.wallet = wallet
                                /\ mining /\ gMiner.page # page
  BY <1>1 DEF BridgeInv, CallsInv, PageInv
<1>7. IF shown /\ c.page = page THEN waits' = "no" /\ timer' = TRUE
                                ELSE UNCHANGED <<waits, timer>>
  BY DEF RunStart, Returns
<1>8. TypeOK'
  BY <1>1, <1>2, <1>3, <1>7 DEF BridgeInv, TypeOK
<1>9. CallsInv'
  BY <1>2, <1>7, CallsLeft DEF RunStart
<1>10. PageInv'
  BY <1>2, <1>3, <1>4, <1>5, <1>6, <1>7 DEF BridgeInv, PageInv
<1>11. StoppedPageLeftNothing'
  BY <1>2, <1>3, <1>6, <1>7 DEF BridgeInv, StoppedPageLeftNothing, Idle
<1>12. PageWatchesItsMiner'
  BY <1>2, <1>3, <1>6, <1>7 DEF BridgeInv, PageWatchesItsMiner, Idle
<1>13. QED BY <1>3, <1>8, <1>9, <1>10, <1>11, <1>12 DEF BridgeInv, MiningFlagTrue

LEMMA RunStopStep ==
  ASSUME BridgeInv, RunStop
  PROVE  BridgeInv'
<1> DEFINE c == Head(calls)
<1>1. /\ c = calls[1] /\ 1 \in DOMAIN calls /\ c \in Calls /\ c.op = "stop"
      /\ calls' \in Seq(Calls) /\ Len(calls') <= page
  BY Taken DEF RunStop
<1>2. UNCHANGED <<page, shown, mining, wallet, loaded>>
  BY DEF RunStop, Returns
<1>3. \/ gMiner' = None /\ gMining' = FALSE
      \/ ~c.loaded /\ gMiner' = gMiner /\ gMining' = gMining
  BY DEF RunStop, NativeStop
<1>4. shown /\ c.page = page => /\ waits = "stop" /\ ~mining /\ c.loaded = loaded
  BY <1>1 DEF BridgeInv, CallsInv, PageInv
<1>5. shown /\ c.page = page => gMiner' = None
  BY <1>3, <1>4 DEF BridgeInv, PageInv
<1>6. IF shown /\ c.page = page THEN waits' = "no" /\ timer' = FALSE
                                ELSE UNCHANGED <<waits, timer>>
  BY DEF RunStop, Returns
<1>7. page \in Nat BY BridgeAssumption DEF BridgeInv, TypeOK
<1>8. TypeOK'
  BY <1>1, <1>2, <1>3, <1>6 DEF BridgeInv, TypeOK, Miners
<1>9. CallsInv'
  BY <1>2, <1>6, CallsLeft DEF RunStop
<1>10. PageInv'
  BY <1>2, <1>3, <1>4, <1>6, <1>7 DEF BridgeInv, PageInv, None
<1>11. StoppedPageLeftNothing'
  BY <1>2, <1>3, <1>5, <1>6 DEF BridgeInv, StoppedPageLeftNothing, Idle
<1>12. PageWatchesItsMiner'
  <2>1. CASE shown /\ c.page = page
    BY <1>2, <1>4, <1>6, <2>1 DEF PageWatchesItsMiner, Idle
  <2>2. CASE ~(shown /\ c.page = page)
    <3>1. Idle' => shown /\ page >= 1 BY <1>2 DEF BridgeInv, PageInv, Idle
    <3>2. Idle' => gMiner'.page # page \/ gMiner' = gMiner
      BY <1>3, <1>7, <3>1 DEF None
    <3>3. QED BY <1>2, <1>6, <2>2, <3>2 DEF BridgeInv, PageWatchesItsMiner, Idle
  <2>3. QED BY <2>1, <2>2
<1>13. MiningFlagTrue' BY <1>3 DEF BridgeInv, MiningFlagTrue, None
<1>14. QED BY <1>8, <1>9, <1>10, <1>11, <1>12, <1>13 DEF BridgeInv

LEMMA BridgeStep ==
  ASSUME BridgeInv, [Next]_vars
  PROVE  BridgeInv'
<1>1. ASSUME NEW w \in Wallets, PressStart(w) PROVE BridgeInv' BY <1>1, PressStartStep
<1>2. CASE PressStop   BY <1>2, PressStopStep
<1>3. CASE OpenPage    BY <1>3, OpenPageStep
<1>4. CASE ClosePage   BY <1>4, ClosePageStep
<1>5. CASE ProcessDies BY <1>5, ProcessDiesStep
<1>6. CASE RunStart    BY <1>6, RunStartStep
<1>7. CASE RunStop     BY <1>7, RunStopStep
<1>8. CASE UNCHANGED vars
  BY <1>8 DEF vars, BridgeInv, TypeOK, CallsInv, PageInv, MiningFlagTrue,
              StoppedPageLeftNothing, PageWatchesItsMiner, Idle
<1>9. QED BY <1>1, <1>2, <1>3, <1>4, <1>5, <1>6, <1>7, <1>8 DEF Next, RunCall

-----------------------------------------------------------------------------
LEMMA BridgeInitially == Init => BridgeInv
<1> SUFFICES ASSUME Init PROVE BridgeInv OBVIOUS
<1>1. << >> \in Seq(Calls) /\ Len(<< >>) = 0 /\ DOMAIN << >> = {} OBVIOUS
<1>2. TypeOK
  <2>1. calls \in Seq(Calls) /\ Len(calls) <= page BY <1>1 DEF Init
  <2>2. gMiner \in Miners BY DEF Init, Miners
  <2>3. page \in 0..MaxPages BY BridgeAssumption DEF Init
  <2>4. QED BY <2>1, <2>2, <2>3 DEF Init, TypeOK
<1>3. CallsInv BY <1>1 DEF Init, CallsInv
<1>4. PageInv BY DEF Init, PageInv, None
<1>5. QED BY <1>2, <1>3, <1>4 DEF Init, BridgeInv, MiningFlagTrue,
                                  StoppedPageLeftNothing, PageWatchesItsMiner, Idle, None

LEMMA BridgeInvariant == Spec => []BridgeInv
BY BridgeInitially, BridgeStep, PTL DEF Spec

(* Type correctness, with at most one call under way per page.             *)
THEOREM TypeCorrect == Spec => []TypeOK
BY BridgeInvariant, PTL DEF BridgeInv

(* g_mining is set exactly while g_miner is a miner that started.          *)
THEOREM FlagTrue == Spec => []MiningFlagTrue
BY BridgeInvariant, PTL DEF BridgeInv

(* A page that shows READY or STOPPED has left nothing of its own.         *)
THEOREM StoppedLeavesNothing == Spec => []StoppedPageLeftNothing
BY BridgeInvariant, PTL DEF BridgeInv

(* A page polls while it shows MINING, and its miner mines for its wallet. *)
THEOREM PageWatches == Spec => []PageWatchesItsMiner
BY BridgeInvariant, PTL DEF BridgeInv

-----------------------------------------------------------------------------
(* The refinement of MinerSwitch.                                          *)

(* Calls that found no native library come before those that did: as long  *)
(* as one of them waits, the process has had no miner.                     *)
LibraryInv ==
  \A i \in DOMAIN calls :
    ~calls[i].loaded => gMiner = None /\ \A k \in DOMAIN calls : k < i => ~calls[k].loaded

SwitchInv == BridgeInv /\ LibraryInv

Request(c) == [op |-> c.op, wallet |-> c.wallet]
Asking(s)  == [i \in DOMAIN s |-> Request(s[i])]

LEMMA RequestsAsked ==
  ASSUME NEW s \in Seq(Calls)
  PROVE  Asking(s) \in Seq(Switch!Requests) /\ Len(Asking(s)) = Len(s)
<1>1. \A i \in 1..Len(s) : Request(s[i]) \in Switch!Requests
  <2> SUFFICES ASSUME NEW i \in 1..Len(s) PROVE Request(s[i]) \in Switch!Requests
    OBVIOUS
  <2>1. s[i] \in Calls OBVIOUS
  <2>2. QED BY <2>1 DEF Calls, Request, Switch!Requests
<1>2. Asking(s) \in [1..Len(s) -> Switch!Requests] BY <1>1 DEF Asking
<1>3. QED BY <1>2

LEMMA AskingAppends ==
  ASSUME NEW s \in Seq(Calls), NEW c \in Calls
  PROVE  Asking(Append(s, c)) = Append(Asking(s), Request(c))
<1> DEFINE t == Append(s, c)
           n == Len(s)
<1>1. n \in Nat /\ t \in Seq(Calls) /\ Len(t) = n + 1 /\ DOMAIN t = 1..(n + 1)
      /\ \A i \in 1..(n + 1) : t[i] = IF i = n + 1 THEN c ELSE s[i]
  OBVIOUS
<1> HIDE DEF t
<1>2. /\ Asking(t) \in Seq(Switch!Requests) /\ Len(Asking(t)) = n + 1
      /\ Asking(s) \in Seq(Switch!Requests) /\ Len(Asking(s)) = n
  BY <1>1, RequestsAsked
<1>3. Request(c) \in Switch!Requests BY DEF Calls, Request, Switch!Requests
<1>4. \A i \in 1..(n + 1) : Asking(t)[i] = IF i = n + 1 THEN Request(c) ELSE Request(s[i])
  BY <1>1 DEF Asking
<1>5. \A i \in 1..n : Asking(s)[i] = Request(s[i]) BY DEF Asking
<1> HIDE DEF n
<1>6. /\ Append(Asking(s), Request(c)) \in Seq(Switch!Requests)
      /\ Len(Append(Asking(s), Request(c))) = n + 1
      /\ \A i \in 1..(n + 1) :
           Append(Asking(s), Request(c))[i] = IF i = n + 1 THEN Request(c) ELSE Asking(s)[i]
  BY <1>1, <1>2, <1>3
<1>7. \A i \in 1..(n + 1) : Asking(t)[i] = Append(Asking(s), Request(c))[i]
  BY <1>1, <1>4, <1>5, <1>6
<1>8. QED BY <1>2, <1>6, <1>7, SeqEqual DEF t

LEMMA AskingTail ==
  ASSUME NEW s \in Seq(Calls), s # << >>
  PROVE  /\ Asking(s) # << >>
         /\ Head(Asking(s)) = Request(Head(s))
         /\ Asking(Tail(s)) = Tail(Asking(s))
<1> DEFINE n == Len(s)
<1>1. n \in Nat \ {0} /\ Tail(s) \in Seq(Calls) /\ Len(Tail(s)) = n - 1
      /\ \A i \in 1..(n - 1) : Tail(s)[i] = s[i + 1]
      /\ Head(s) = s[1] /\ DOMAIN s = 1..n /\ DOMAIN Tail(s) = 1..(n - 1)
  OBVIOUS
<1>2. /\ Asking(s) \in Seq(Switch!Requests) /\ Len(Asking(s)) = n
      /\ Asking(Tail(s)) \in Seq(Switch!Requests) /\ Len(Asking(Tail(s))) = n - 1
  BY <1>1, RequestsAsked
<1>3. Asking(s) # << >> BY <1>1, <1>2
<1>4. Head(Asking(s)) = Request(Head(s)) BY <1>1, <1>2 DEF Asking
<1>5. /\ Tail(Asking(s)) \in Seq(Switch!Requests) /\ Len(Tail(Asking(s))) = n - 1
      /\ \A i \in 1..(n - 1) : Tail(Asking(s))[i] = Asking(s)[i + 1]
  BY <1>1, <1>2, <1>3
<1>6. \A i \in 1..(n - 1) : Asking(Tail(s))[i] = Tail(Asking(s))[i]
  BY <1>1, <1>5 DEF Asking
<1>7. Asking(Tail(s)) = Tail(Asking(s)) BY <1>2, <1>5, <1>6, SeqEqual
<1>8. QED BY <1>3, <1>4, <1>7

-----------------------------------------------------------------------------
(* LibraryInv is preserved.                                                *)

LEMMA AskingKeepsLibrary ==
  ASSUME SwitchInv, NEW op \in {"start", "stop"}, NEW w \in Wallets,
         Idle, Call(op, w), UNCHANGED gMiner
  PROVE  LibraryInv'
<1> DEFINE c == [op |-> op, wallet |-> w, page |-> page, loaded |-> loaded]
           n == Len(calls)
<1>1. /\ calls \in Seq(Calls) /\ n \in Nat /\ DOMAIN calls = 1..n
      /\ page \in 1..MaxPages /\ loaded \in BOOLEAN
  BY BridgeAssumption DEF SwitchInv, BridgeInv, TypeOK, PageInv, Idle
<1>2. c \in Calls BY <1>1 DEF Calls
<1>3. /\ calls' = Append(calls, c) /\ DOMAIN calls' = 1..(n + 1)
      /\ \A i \in 1..n : calls'[i] = calls[i]
      /\ calls'[n + 1] = c
  BY <1>1, <1>2 DEF Call
<1>4. \A i \in 1..n : calls[i].loaded => loaded
  BY <1>1 DEF SwitchInv, BridgeInv, CallsInv
<1>5. ~loaded => gMiner = None BY DEF SwitchInv, BridgeInv, PageInv
<1> SUFFICES ASSUME NEW i \in 1..(n + 1), ~calls'[i].loaded
             PROVE  gMiner = None /\ \A k \in 1..(n + 1) : k < i => ~calls'[k].loaded
  BY <1>3 DEF LibraryInv
<1>6. \A k \in 1..(n + 1) : k < i => k \in 1..n BY <1>1
<1>7. CASE i \in 1..n BY <1>1, <1>3, <1>6, <1>7 DEF SwitchInv, LibraryInv
<1>8. CASE i = n + 1
  <2>1. ~loaded BY <1>3, <1>8
  <2>2. QED BY <1>3, <1>4, <1>5, <1>6, <2>1
<1>9. QED BY <1>1, <1>7, <1>8

LEMMA RunningKeepsLibrary ==
  ASSUME SwitchInv, calls # << >>, calls' = Tail(calls),
         ~Head(calls).loaded => gMiner' = gMiner \/ gMiner' = None
  PROVE  LibraryInv'
<1>1. /\ Head(calls) = calls[1] /\ 1 \in DOMAIN calls
      /\ \A i \in DOMAIN calls' : /\ i \in Nat \ {0} /\ i + 1 \in DOMAIN calls
                                  /\ calls'[i] = calls[i + 1]
  BY Taken DEF SwitchInv
<1> SUFFICES ASSUME NEW i \in DOMAIN calls', ~calls'[i].loaded
             PROVE  gMiner' = None /\ \A k \in DOMAIN calls' : k < i => ~calls'[k].loaded
  BY DEF LibraryInv
<1>2. /\ ~calls[i + 1].loaded /\ i + 1 \in DOMAIN calls /\ 1 < i + 1
      /\ gMiner = None /\ \A k \in DOMAIN calls : k < i + 1 => ~calls[k].loaded
  BY <1>1 DEF SwitchInv, LibraryInv
<1>3. gMiner' = None BY <1>1, <1>2
<1>4. ASSUME NEW k \in DOMAIN calls', k < i PROVE ~calls'[k].loaded
  <2>1. k + 1 < i + 1 BY <1>1, <1>4
  <2>2. QED BY <1>1, <1>2, <2>1
<1>5. QED BY <1>3, <1>4

LEMMA StartWithoutLibrary ==
  ASSUME RunStart, ~Head(calls).loaded
  PROVE  UNCHANGED <<gMiner, gMining>>
BY DEF RunStart

LEMMA SwitchStep ==
  ASSUME SwitchInv, [Next]_vars
  PROVE  SwitchInv'
<1> SUFFICES LibraryInv' BY BridgeStep DEF SwitchInv
<1>1. ASSUME NEW w \in Wallets, PressStart(w) PROVE LibraryInv'
  BY <1>1, AskingKeepsLibrary DEF PressStart
<1>2. CASE PressStop
  <2>1. wallet \in Wallets BY DEF SwitchInv, BridgeInv, TypeOK
  <2>2. QED BY <1>2, <2>1, AskingKeepsLibrary DEF PressStop
<1>3. CASE OpenPage  BY <1>3 DEF SwitchInv, LibraryInv, OpenPage
<1>4. CASE ClosePage BY <1>4 DEF SwitchInv, LibraryInv, ClosePage
<1>5. CASE ProcessDies
  <2>1. DOMAIN << >> = {} OBVIOUS
  <2>2. QED BY <1>5, <2>1 DEF LibraryInv, ProcessDies
<1>6. CASE RunStart
  <2>1. ~Head(calls).loaded => gMiner' = gMiner BY <1>6, StartWithoutLibrary
  <2>2. calls # << >> /\ calls' = Tail(calls) BY <1>6 DEF RunStart
  <2>3. QED BY <2>1, <2>2, RunningKeepsLibrary
<1>7. CASE RunStop
  <2>1. gMiner' = gMiner \/ gMiner' = None BY <1>7 DEF RunStop, NativeStop
  <2>2. calls # << >> /\ calls' = Tail(calls) BY <1>7 DEF RunStop
  <2>3. QED BY <2>1, <2>2, RunningKeepsLibrary
<1>8. CASE UNCHANGED vars BY <1>8 DEF SwitchInv, LibraryInv, vars
<1>9. QED BY <1>1, <1>2, <1>3, <1>4, <1>5, <1>6, <1>7, <1>8
           DEF SwitchInv, Next, RunCall

-----------------------------------------------------------------------------
(* Every step is one of the switch.                                        *)

Mined == IF gMiner.state = "running" THEN {gMiner.wallet} ELSE {}

LEMMA PressAsks ==
  ASSUME SwitchInv, NEW op \in {"start", "stop"}, NEW w \in Wallets,
         Idle, Call(op, w), UNCHANGED gMiner
  PROVE  Switch!Ask
<1> DEFINE c == [op |-> op, wallet |-> w, page |-> page, loaded |-> loaded]
<1>1. calls \in Seq(Calls) /\ page \in 1..MaxPages /\ loaded \in BOOLEAN
  BY BridgeAssumption DEF SwitchInv, BridgeInv, TypeOK, PageInv, Idle
<1>2. c \in Calls /\ calls' = Append(calls, c) BY <1>1 DEF Calls, Call
<1>3. Asking(calls') = Append(Asking(calls), Request(c)) BY <1>1, <1>2, AskingAppends
<1>4. Request(c) \in Switch!Requests BY DEF Request, Switch!Requests
<1>5. QED BY <1>3, <1>4 DEF Switch!Ask, Asking, Request

(* What the switch sees when the first call is carried out.                *)
LEMMA Answered ==
  ASSUME NEW op, Asking(calls) # << >>, Asking(calls') = Tail(Asking(calls)),
         Head(Asking(calls)) = Request(Head(calls)), Head(calls).op = op
  PROVE  Switch!Answers(op)
<1>1. Head(Asking(calls)).op = op BY DEF Request
<1>2. QED BY <1>1, Zenon DEF Switch!Answers, Asking, Request

LEMMA StartStarts ==
  ASSUME SwitchInv, RunStart
  PROVE  Switch!Start
<1> DEFINE c == Head(calls)
<1>1. calls \in Seq(Calls) /\ calls # << >> /\ calls' = Tail(calls) /\ c.op = "start"
  BY DEF SwitchInv, BridgeInv, TypeOK, RunStart
<1>2. /\ Asking(calls) # << >> /\ Head(Asking(calls)) = Request(c)
      /\ Asking(calls') = Tail(Asking(calls))
  BY <1>1, AskingTail
<1>3. \/ Mined' = Mined
      \/ Mined = {} /\ Mined' = {c.wallet}
  <2>1. gMining <=> gMiner.state = "running" BY DEF SwitchInv, BridgeInv, MiningFlagTrue
  <2>2. CASE UNCHANGED gMiner BY <2>2 DEF Mined
  <2>3. ASSUME ~gMining, NEW s \in {"failed", "half", "running"},
               gMiner' = [state |-> s, wallet |-> c.wallet, page |-> c.page]
        PROVE  Mined = {} /\ Mined' \in {{}, {c.wallet}}
    BY <2>1, <2>3 DEF Mined
  <2>4. QED BY <2>2, <2>3 DEF RunStart, NativeStart
<1>4. Switch!Answers("start") BY <1>1, <1>2, Answered
<1>5. Head(Asking(calls)).wallet = c.wallet BY <1>2 DEF Request
<1>6. QED BY <1>3, <1>4, <1>5, Zenon DEF Switch!Start, Asking, Request, Mined

(* The one stop that does nothing finds nothing.                           *)
LEMMA StopStops ==
  ASSUME SwitchInv, RunStop
  PROVE  Switch!Stop
<1> DEFINE c == Head(calls)
<1>1. calls \in Seq(Calls) /\ calls # << >> /\ calls' = Tail(calls) /\ c.op = "stop"
  BY DEF SwitchInv, BridgeInv, TypeOK, RunStop
<1>2. /\ Asking(calls) # << >> /\ Head(Asking(calls)) = Request(c)
      /\ Asking(calls') = Tail(Asking(calls))
  BY <1>1, AskingTail
<1>3. gMiner' = None
  <2>1. CASE c.loaded BY <2>1 DEF RunStop, NativeStop
  <2>2. CASE ~c.loaded
    <3>1. c = calls[1] /\ 1 \in DOMAIN calls BY <1>1, Taken DEF SwitchInv
    <3>2. gMiner = None BY <2>2, <3>1 DEF SwitchInv, LibraryInv
    <3>3. QED BY <2>2, <3>2 DEF RunStop
  <2>3. QED BY <2>1, <2>2
<1>4. Mined' = {} BY <1>3 DEF Mined, None
<1>5. Switch!Answers("stop") BY <1>1, <1>2, Answered
<1>6. QED BY <1>4, <1>5, Zenon DEF Switch!Stop, Mined

LEMMA SwitchSimulated ==
  ASSUME SwitchInv, [Next]_vars
  PROVE  [Switch!SwitchNext]_(Switch!switchVars)
<1> USE DEF Switch!SwitchNext, Switch!switchVars
<1>1. ASSUME NEW w \in Wallets, PressStart(w) PROVE Switch!Ask
  BY <1>1, PressAsks DEF PressStart
<1>2. CASE PressStop
  <2>1. wallet \in Wallets BY DEF SwitchInv, BridgeInv, TypeOK
  <2>2. QED BY <1>2, <2>1, PressAsks DEF PressStop
<1>3. CASE OpenPage  BY <1>3 DEF OpenPage
<1>4. CASE ClosePage BY <1>4 DEF ClosePage
<1>5. CASE ProcessDies
  <2>1. Asking(<< >>) = << >> BY DEF Asking
  <2>2. Switch!Die BY <1>5, <2>1 DEF Switch!Die, Asking, Request, ProcessDies, None
  <2>3. QED BY <2>2
<1>6. CASE RunStart  BY <1>6, StartStarts
<1>7. CASE RunStop   BY <1>7, StopStops
<1>8. CASE UNCHANGED vars BY <1>8 DEF vars
<1>9. QED BY <1>1, <1>2, <1>3, <1>4, <1>5, <1>6, <1>7, <1>8 DEF Next, RunCall

(* Pages, calls and g_miner implement the switch, for every set of wallets *)
(* and every number of pages and deaths: requests are carried out in their *)
(* order, nobody takes over from another, and a stop ends what mines.      *)
THEOREM SwitchImplemented == Spec => ImplementsSwitch
<1>1. Init => SwitchInv /\ Switch!SwitchInit
  <2> SUFFICES ASSUME Init PROVE SwitchInv /\ Switch!SwitchInit OBVIOUS
  <2>1. BridgeInv BY BridgeInitially
  <2>2. DOMAIN << >> = {} OBVIOUS
  <2>3. LibraryInv BY <2>2 DEF Init, LibraryInv
  <2>4. Switch!SwitchInit BY <2>2 DEF Init, Switch!SwitchInit, None
  <2>5. QED BY <2>1, <2>3, <2>4 DEF SwitchInv
<1>2. SwitchInv /\ [Next]_vars => SwitchInv'
  BY SwitchStep
<1>3. SwitchInv /\ [Next]_vars => [Switch!SwitchNext]_(Switch!switchVars)
  BY SwitchSimulated
<1>4. QED BY <1>1, <1>2, <1>3, PTL DEF Spec, ImplementsSwitch, Switch!SwitchSpec
=============================================================================
