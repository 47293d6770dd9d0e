------------------------- MODULE MinerSessionProofs -------------------------
(***************************************************************************)
(* Theorems about MinerSession for every number of mining threads, every   *)
(* set of pool lines and every bound: type correctness; the three safety   *)
(* invariants, from one inductive invariant; and that it implements        *)
(* LineFeed: for every pool, every chunk size and every way a connection   *)
(* or the program ends, the lines handled are a prefix of those announced. *)
(***************************************************************************)
EXTENDS MinerSession, SequenceTheorems, TLAPS

-----------------------------------------------------------------------------
(* Type correctness.                                                       *)

(* The calls of the owning thread keep the client's variables typed.       *)
LEMMA CallsTyped ==
  ASSUME StratumTypeOK,
         \/ Connect(TRUE) \/ Connect(FALSE) \/ Login \/ SetCallbacks
         \/ StartReceiveLoop(TRUE) \/ StartReceiveLoop(FALSE)
         \/ RequestStop \/ JoinReceiver \/ CloseSocket
  PROVE  StratumTypeOK'
<1> USE DEF StratumTypeOK, apiVars, threadVars, netVars, stratumVars
<1>1. CASE Connect(TRUE)  BY <1>1 DEF Connect
<1>2. CASE Connect(FALSE) BY <1>2 DEF Connect
<1>3. CASE Login          BY <1>3 DEF Login
<1>4. CASE SetCallbacks   BY <1>4 DEF SetCallbacks
<1>5. CASE StartReceiveLoop(TRUE)  BY <1>5 DEF StartReceiveLoop
<1>6. CASE StartReceiveLoop(FALSE) BY <1>6 DEF StartReceiveLoop
<1>7. CASE RequestStop    BY <1>7 DEF RequestStop
<1>8. CASE JoinReceiver   BY <1>8 DEF JoinReceiver
<1>9. CASE CloseSocket
  <2>1. << >> \in Seq(Token) OBVIOUS
  <2>2. QED BY <1>9, <2>1 DEF CloseSocket
<1>10. QED BY <1>1, <1>2, <1>3, <1>4, <1>5, <1>6, <1>7, <1>8, <1>9

(* So does a failed recv(), whatever errno says.                           *)
LEMMA RecvFailsTyped ==
  ASSUME StratumTypeOK, NEW e \in {"zero", "EAGAIN", "ECONNRESET", "EINTR"},
         RecvFails(e)
  PROVE  StratumTypeOK'
BY DEF StratumTypeOK, RecvFails, netVars

(* Moving a prefix of what is on the wire into m_buffer.                   *)
LEMMA RecvDataTyped ==
  ASSUME StratumTypeOK, RecvData
  PROVE  StratumTypeOK'
<1>1. PICK n \in 1..RecvMax : /\ n <= Len(wire)
                              /\ buffer' = buffer \o SubSeq(wire, 1, n)
                              /\ wire' = SubSeq(wire, n + 1, Len(wire))
  BY DEF RecvData
<1>2. n \in Nat /\ n >= 1 /\ Len(wire) \in Nat
  BY BoundAssumption DEF StratumTypeOK
<1>3. SubSeq(wire, 1, n) \in Seq(Token) /\ SubSeq(wire, n + 1, Len(wire)) \in Seq(Token)
  BY <1>1, <1>2 DEF StratumTypeOK
<1>4. buffer' \in Seq(Token) /\ wire' \in Seq(Token)
  BY <1>1, <1>3 DEF StratumTypeOK
<1>5. QED BY <1>4 DEF StratumTypeOK, RecvData, apiVars

(* Cutting a line off m_buffer.                                            *)
LEMMA NextLineTyped ==
  ASSUME StratumTypeOK, NextLine
  PROVE  StratumTypeOK'
<1>1. PICK pos \in DOMAIN buffer :
        /\ buffer' = SubSeq(buffer, pos + 1, Len(buffer))
        /\ line' = SubSeq(buffer, 1, pos - 1)
        /\ rpc' = IF pos = 1 THEN "parse" ELSE "dispatch"
        /\ delivered' = IF pos = 1 THEN delivered
                                   ELSE Append(delivered, SubSeq(buffer, 1, pos - 1))
  BY DEF NextLine
<1>2. pos \in 1..Len(buffer) /\ Len(buffer) \in Nat
  BY DEF StratumTypeOK
<1>3. SubSeq(buffer, 1, pos - 1) \in Seq(Token)
      /\ SubSeq(buffer, pos + 1, Len(buffer)) \in Seq(Token)
  BY <1>2 DEF StratumTypeOK
<1>4. delivered' \in Seq(Seq(Token))
  BY <1>1, <1>3 DEF StratumTypeOK
<1>5. QED BY <1>1, <1>3, <1>4 DEF StratumTypeOK, NextLine, apiVars, netVars

(* The other steps of the receive thread.                                  *)
LEMMA ReceiverTyped ==
  ASSUME StratumTypeOK,
         \/ LoopTest \/ RecvData \/ RecvTimeout \/ RecvClosed \/ RecvReset
         \/ RecvInterrupted
         \/ NextLine \/ NoMoreLines \/ HandleJob \/ IgnoreLine \/ CallbackReturns
  PROVE  StratumTypeOK'
<1>1. CASE LoopTest
  BY <1>1 DEF LoopTest, StratumTypeOK, apiVars, netVars
<1>2. CASE RecvData BY <1>2, RecvDataTyped
<1>3. CASE RecvTimeout BY <1>3, RecvFailsTyped DEF RecvTimeout
<1>4. CASE RecvClosed BY <1>4, RecvFailsTyped DEF RecvClosed, StratumTypeOK
<1>5. CASE RecvReset BY <1>5, RecvFailsTyped DEF RecvReset
<1>6. CASE RecvInterrupted BY <1>6, RecvFailsTyped DEF RecvInterrupted
<1>7. CASE NextLine BY <1>7, NextLineTyped
<1>8. CASE NoMoreLines
  BY <1>8 DEF NoMoreLines, StratumTypeOK, apiVars, netVars
<1>9. CASE HandleJob
  <2>1. << >> \in Seq(Token) /\ Len(delivered) \in Nat
    BY DEF StratumTypeOK
  <2>2. BlankJob(Len(delivered)) \in Jobs
    BY <2>1 DEF BlankJob, Jobs
  <2>3. QED BY <1>9, <2>1, <2>2 DEF HandleJob, StratumTypeOK, apiVars, netVars
<1>10. CASE IgnoreLine
  <2>1. << >> \in Seq(Token) OBVIOUS
  <2>2. QED BY <1>10, <2>1 DEF IgnoreLine, StratumTypeOK, apiVars, netVars
<1>11. CASE CallbackReturns
  BY <1>11 DEF CallbackReturns, StratumTypeOK, apiVars, netVars
<1>12. QED BY <1>1, <1>2, <1>3, <1>4, <1>5, <1>6, <1>7, <1>8, <1>9, <1>10, <1>11

(* The pool and the network.                                               *)
LEMMA PoolTyped ==
  ASSUME StratumTypeOK, Pool
  PROVE  StratumTypeOK'
<1>1. ASSUME NEW l \in Lines, PoolSends(l) PROVE StratumTypeOK'
  <2>1. <<l>> \in Seq(Lines) /\ <<l, NL>> \in Seq(Token)
    BY DEF Token
  <2>2. QED BY <1>1, <2>1 DEF PoolSends, StratumTypeOK, apiVars, threadVars
<1>2. CASE PoolSendsBlank
  BY <1>2 DEF PoolSendsBlank, StratumTypeOK, Token, apiVars, threadVars
<1>3. CASE PoolCloses
  BY <1>3 DEF PoolCloses, StratumTypeOK, apiVars, threadVars
<1>4. CASE ConnectionBreaks
  <2>1. PICK n \in 0..Len(wire) : wire' = SubSeq(wire, 1, n)
    BY <1>4 DEF ConnectionBreaks
  <2>2. wire' \in Seq(Token)
    BY <2>1 DEF StratumTypeOK
  <2>3. QED BY <1>4, <2>2 DEF ConnectionBreaks, StratumTypeOK, apiVars, threadVars
<1>5. QED BY <1>1, <1>2, <1>3, <1>4 DEF Pool
-----------------------------------------------------------------------------
(* Every step of the session is typed.                                     *)

LEMMA OwnerTyped ==
  ASSUME TypeOK, Owner
  PROVE  TypeOK'
<1>1. StratumTypeOK /\ SessionTypeOK
  BY DEF TypeOK
<1>2. SUFFICES StratumTypeOK' /\ SessionTypeOK'
  BY DEF TypeOK
<1>3. ASSUME UNCHANGED stratumVars PROVE StratumTypeOK'
  BY <1>1, <1>3 DEF StratumTypeOK, stratumVars, apiVars, threadVars, netVars
<1>4. ASSUME NEW from, NEW to \in OwnerPc, OnlyStratum(from, to)
      PROVE  SessionTypeOK'
  BY <1>1, <1>4 DEF SessionTypeOK, OnlyStratum, Step
<1>5. ASSUME NEW from, NEW to \in OwnerPc, LowerRunning(from, to) PROVE SessionTypeOK'
  BY <1>1, <1>5 DEF SessionTypeOK, LowerRunning, Step
<1>6. ASSUME NEW from, NEW to \in OwnerPc, JoinMining(from, to) PROVE SessionTypeOK'
  BY <1>1, <1>6, NumThreadsAssumption DEF SessionTypeOK, JoinMining, Step
<1>7. CASE InitConnect
  BY <1>1, <1>4, <1>7, CallsTyped DEF InitConnect, OwnerPc
<1>8. CASE InitLogin
  BY <1>1, <1>4, <1>8, CallsTyped DEF InitLogin, OwnerPc
<1>9. CASE InitCallbacks
  BY <1>1, <1>4, <1>9, CallsTyped DEF InitCallbacks, OwnerPc
<1>10. CASE InitReceive
  BY <1>1, <1>4, <1>10, CallsTyped DEF InitReceive, OwnerPc
<1>11. CASE StartMining
  BY <1>1, <1>3, <1>11 DEF StartMining, Step, SessionTypeOK, OwnerPc
<1>12. CASE SpawnThread
  <2>1. started + 1 \in 0..NumThreads
    BY <1>1, <1>12, NumThreadsAssumption DEF SpawnThread, SessionTypeOK
  <2>2. mpc' \in [Thread -> {"unborn", "entry", "hashing", "exited"}]
    BY <1>1, <1>12 DEF SpawnThread, SessionTypeOK
  <2>3. QED BY <1>1, <1>3, <1>12, <2>1, <2>2 DEF SpawnThread, Step, SessionTypeOK, OwnerPc
<1>13. CASE SpawnThrows
  BY <1>3, <1>4, <1>13 DEF SpawnThrows, OwnerPc
<1>14. CASE SpawnDone
  BY <1>3, <1>4, <1>14 DEF SpawnDone, OwnerPc
<1>15. CASE LeaveWait
  BY <1>3, <1>4, <1>15 DEF LeaveWait, OwnerPc
<1>16. CASE StopMining
  <2>1. CASE LowerRunning("stop", "join")
    BY <1>3, <1>5, <2>1 DEF LowerRunning, OwnerPc
  <2>2. CASE JoinMining("join", "dtor")
    BY <1>3, <1>6, <2>2 DEF JoinMining, OwnerPc
  <2>3. QED BY <1>16, <2>1, <2>2 DEF StopMining
<1>17. CASE DestroyMiner
  <2>1. CASE LowerRunning("dtor", "dtorJoin")
    BY <1>3, <1>5, <2>1 DEF LowerRunning, OwnerPc
  <2>2. CASE JoinMining("dtorJoin", "members")
    BY <1>3, <1>6, <2>2 DEF JoinMining, OwnerPc
  <2>3. QED BY <1>17, <2>1, <2>2 DEF DestroyMiner
<1>18. CASE DestroyMembers
  BY <1>1, <1>3, <1>18 DEF DestroyMembers, Step, SessionTypeOK, OwnerPc
<1>19. CASE DestroyStratum
  BY <1>1, <1>4, <1>19, CallsTyped DEF DestroyStratum, OwnerPc
<1>20. QED
  BY <1>7, <1>8, <1>9, <1>10, <1>11, <1>12, <1>13, <1>14, <1>15, <1>16, <1>17, <1>18, <1>19
  DEF Owner

LEMMA OthersTyped ==
  ASSUME TypeOK,
         Receiver \/ PoolOnly \/ Signal \/ (\E t \in Thread : MiningEntry(t))
         \/ UNCHANGED vars
  PROVE  TypeOK'
<1>1. StratumTypeOK /\ SessionTypeOK
  BY DEF TypeOK
<1>2. SUFFICES StratumTypeOK' /\ SessionTypeOK'
  BY DEF TypeOK
<1>3. ASSUME UNCHANGED stratumVars PROVE StratumTypeOK'
  BY <1>1, <1>3 DEF StratumTypeOK, stratumVars, apiVars, threadVars, netVars
<1>4. ASSUME UNCHANGED sessionVars PROVE SessionTypeOK'
  BY <1>1, <1>4 DEF SessionTypeOK, sessionVars, ownerVars
<1>5. CASE Receiver
  <2>1. CASE ReceiverOnly
    BY <1>1, <1>4, <2>1, ReceiverTyped DEF ReceiverOnly
  <2>2. CASE OnNewJob
    <3>1. StratumTypeOK'
      BY <1>1, <2>2, ReceiverTyped DEF OnNewJob
    <3>2. stratumJob \in Jobs
      BY <1>1 DEF StratumTypeOK
    <3>3. SessionTypeOK'
      BY <1>1, <2>2, <3>2 DEF OnNewJob, SessionTypeOK, ownerVars
    <3>4. QED BY <3>1, <3>3
  <2>3. CASE OnNewJobUnnoticed
    BY <1>1, <1>4, <2>3, ReceiverTyped DEF OnNewJobUnnoticed
  <2>4. CASE OnNewJobCrashes
    <3>1. << >> \in Seq(Token) OBVIOUS
    <3>2. StratumTypeOK'
      BY <1>1, <2>4, <3>1 DEF OnNewJobCrashes, StratumTypeOK
    <3>3. SessionTypeOK'
      BY <1>1, <2>4 DEF OnNewJobCrashes, SessionTypeOK, OwnerPc
    <3>4. QED BY <3>2, <3>3
  <2>5. QED BY <1>5, <2>1, <2>2, <2>3, <2>4 DEF Receiver
<1>6. CASE PoolOnly
  BY <1>1, <1>4, <1>6, PoolTyped DEF PoolOnly
<1>7. CASE Signal
  <2>1. StratumTypeOK'
    BY <1>1, <1>3, <1>7, ReceiverTyped DEF Signal
  <2>2. SessionTypeOK'
    BY <1>1, <1>7 DEF Signal, SessionTypeOK
  <2>3. QED BY <2>1, <2>2
<1>8. ASSUME NEW t \in Thread, MiningEntry(t) PROVE StratumTypeOK' /\ SessionTypeOK'
  BY <1>1, <1>3, <1>8 DEF MiningEntry, SessionTypeOK, ownerVars
<1>9. CASE UNCHANGED vars
  BY <1>3, <1>4, <1>9 DEF vars
<1>10. QED BY <1>5, <1>6, <1>7, <1>8, <1>9

(* The initial state is typed.                                             *)
LEMMA InitTyped == Init => TypeOK
<1> SUFFICES ASSUME Init PROVE TypeOK OBVIOUS
<1>1. \A S : << >> \in Seq(S)
  OBVIOUS
<1>2. NoJob \in Jobs
  BY DEF NoJob, BlankJob, Jobs
<1>3. stratumJob \in Jobs /\ minerJob \in Jobs
  BY <1>2, Zenon DEF Init, StratumInit
<1>4. StratumTypeOK
  BY <1>1, <1>3 DEF Init, StratumInit, StratumTypeOK
<1>5. SessionTypeOK
  <2>1. started \in 0..NumThreads
    BY NumThreadsAssumption DEF Init
  <2>2. mpc \in [Thread -> {"unborn", "entry", "hashing", "exited"}]
    BY DEF Init
  <2>3. /\ opc \in OwnerPc
        /\ rxVms \in Nat
        /\ keepRunning \in BOOLEAN /\ minerRunning \in BOOLEAN
        /\ newJob \in BOOLEAN /\ membersAlive \in BOOLEAN
    BY DEF Init, OwnerPc
  <2>4. QED BY <1>3, <2>1, <2>2, <2>3 DEF SessionTypeOK
<1>6. QED BY <1>4, <1>5 DEF TypeOK

(* Every variable stays in its type.                                       *)
THEOREM TypeCorrect == Spec => []TypeOK
<1>1. Init => TypeOK
  BY InitTyped
<1>2. TypeOK /\ [Next]_vars => TypeOK'
  BY OwnerTyped, OthersTyped DEF Next, Terminated
<1>3. QED BY <1>1, <1>2, PTL DEF Spec
-----------------------------------------------------------------------------
(* The inductive invariant.  Its parts relate the owner's position to what *)
(* it has acquired, joined and destroyed by then.                          *)

Dying == {"stratumStop", "stratumJoin", "close", "done", "crashed"}

(* The receive thread exists only between start_receive_loop() and the     *)
(* join, with the socket open and the callback installed throughout.       *)
ReceiverInv ==
  /\ opc \in {"connect", "login", "callbacks", "receive"} => rpc = "unborn"
  /\ opc \in {"login", "callbacks", "receive"} => fdOpen
  /\ opc = "receive" => hasCallback
  /\ opc \in {"close", "done", "crashed"} => ~ReceiverAlive
  /\ SocketOutlivesReceiver

(* Only created and not yet joined threads run; the members go once        *)
(* m_mining_threads is empty.                                              *)
MiningInv ==
  /\ \A t \in Thread : mpc[t] \in {"entry", "hashing"} => t < started
  /\ opc \in Dying \cup {"members"} => started = 0
  /\ ~membersAlive <=> opc \in Dying

SafetyInv == TypeOK /\ ReceiverInv /\ MiningInv /\ JobCopiesAgree

(* The invariant gives the two properties it does not contain.             *)
LEMMA SafetyInvImplies ==
  SafetyInv => SocketOutlivesReceiver /\ MiningJoinedBeforeDestroyed /\ JobCopiesAgree
<1>1. ASSUME SafetyInv, ~membersAlive, NEW t \in Thread
      PROVE  mpc[t] \in {"unborn", "exited"}
  <2>1. started = 0
    BY <1>1 DEF SafetyInv, MiningInv, Dying
  <2>2. ~(t < started)
    BY <2>1, NumThreadsAssumption DEF Thread
  <2>3. QED BY <1>1, <2>2 DEF SafetyInv, MiningInv, TypeOK, SessionTypeOK
<1>2. QED BY <1>1 DEF SafetyInv, ReceiverInv, MiningJoinedBeforeDestroyed

(* It holds initially.                                                     *)
LEMMA SafetyInit == Init => SafetyInv
<1>1. Init => TypeOK
  BY InitTyped
<1>2. Init => ReceiverInv
  BY DEF Init, StratumInit, ReceiverInv, SocketOutlivesReceiver, ReceiverAlive
<1>3. Init => MiningInv
  BY DEF Init, MiningInv, Dying
<1>4. Init => JobCopiesAgree
  BY DEF Init, StratumInit, JobCopiesAgree
<1>5. QED BY <1>1, <1>2, <1>3, <1>4 DEF SafetyInv

(* No call of the owner breaks the two parts.                              *)
LEMMA OwnerKeepsReceiverInv ==
  ASSUME SafetyInv, Owner
  PROVE  ReceiverInv'
<1> USE DEF SafetyInv, ReceiverInv, SocketOutlivesReceiver, ReceiverAlive,
            OnlyStratum, Step, stratumVars, apiVars, threadVars, netVars
<1>1. CASE InitConnect   BY <1>1 DEF InitConnect, Connect
<1>2. CASE InitLogin     BY <1>2 DEF InitLogin, Login
<1>3. CASE InitCallbacks BY <1>3 DEF InitCallbacks, SetCallbacks
<1>4. CASE InitReceive   BY <1>4 DEF InitReceive, StartReceiveLoop
<1>5. CASE StartMining   BY <1>5 DEF StartMining
<1>6. CASE SpawnThread   BY <1>6 DEF SpawnThread
<1>7. CASE SpawnThrows   BY <1>7 DEF SpawnThrows
<1>8. CASE SpawnDone     BY <1>8 DEF SpawnDone
<1>9. CASE LeaveWait     BY <1>9 DEF LeaveWait
<1>10. CASE StopMining   BY <1>10 DEF StopMining, LowerRunning, JoinMining
<1>11. CASE DestroyMiner BY <1>11 DEF DestroyMiner, LowerRunning, JoinMining
<1>12. CASE DestroyMembers BY <1>12 DEF DestroyMembers
<1>13. CASE DestroyStratum
  BY <1>13 DEF DestroyStratum, RequestStop, JoinReceiver, CloseSocket
<1>14. QED
  BY <1>1, <1>2, <1>3, <1>4, <1>5, <1>6, <1>7, <1>8, <1>9, <1>10, <1>11, <1>12, <1>13
  DEF Owner

(* Joining clears m_mining_threads only when no thread of it runs.         *)
LEMMA OwnerKeepsMiningInv ==
  ASSUME SafetyInv, Owner
  PROVE  MiningInv'
<1> USE DEF SafetyInv, MiningInv, Dying, OnlyStratum, Step
<1>1. CASE InitConnect   BY <1>1 DEF InitConnect
<1>2. CASE InitLogin     BY <1>2 DEF InitLogin
<1>3. CASE InitCallbacks BY <1>3 DEF InitCallbacks
<1>4. CASE InitReceive   BY <1>4 DEF InitReceive
<1>5. CASE StartMining   BY <1>5 DEF StartMining
<1>6. CASE SpawnThread
  <2>1. /\ started \in Nat
        /\ started' = started + 1
        /\ mpc \in [Thread -> {"unborn", "entry", "hashing", "exited"}]
        /\ mpc' = [mpc EXCEPT ![started] = "entry"]
    BY <1>6, NumThreadsAssumption DEF SpawnThread, TypeOK, SessionTypeOK
  <2>2. ASSUME NEW t \in Thread, mpc'[t] \in {"entry", "hashing"}
        PROVE  t < started'
    <3>1. t \in Int
      BY NumThreadsAssumption DEF Thread
    <3>2. CASE t = started
      BY <2>1, <3>1, <3>2
    <3>3. CASE t # started
      BY <2>1, <2>2, <3>1, <3>3
    <3>4. QED BY <3>2, <3>3
  <2>3. QED BY <1>6, <2>2 DEF SpawnThread
<1>7. CASE SpawnThrows   BY <1>7 DEF SpawnThrows
<1>8. CASE SpawnDone     BY <1>8 DEF SpawnDone
<1>9. CASE LeaveWait     BY <1>9 DEF LeaveWait
<1>10. ASSUME NEW from, NEW to, JoinMining(from, to)
       PROVE  \A t \in Thread : mpc'[t] \notin {"entry", "hashing"}
  BY <1>10 DEF JoinMining, Joinable
<1>11. CASE StopMining
  BY <1>10, <1>11 DEF StopMining, LowerRunning, JoinMining
<1>12. CASE DestroyMiner
  BY <1>10, <1>12 DEF DestroyMiner, LowerRunning, JoinMining
<1>13. CASE DestroyMembers BY <1>13 DEF DestroyMembers
<1>14. CASE DestroyStratum BY <1>14 DEF DestroyStratum
<1>15. QED
  BY <1>1, <1>2, <1>3, <1>4, <1>5, <1>6, <1>7, <1>8, <1>9, <1>11, <1>12, <1>13, <1>14
  DEF Owner
(* The owner writes neither copy of the job, and nothing revives members.  *)
LEMMA OwnerKeepsJobs ==
  ASSUME SafetyInv, Owner
  PROVE  JobCopiesAgree'
<1> USE DEF SafetyInv, ReceiverInv, JobCopiesAgree, OnlyStratum, Step,
            stratumVars, apiVars, threadVars, netVars
<1>1. CASE InitConnect   BY <1>1 DEF InitConnect, Connect
<1>2. CASE InitLogin     BY <1>2 DEF InitLogin, Login
<1>3. CASE InitCallbacks BY <1>3 DEF InitCallbacks, SetCallbacks
<1>4. CASE InitReceive   BY <1>4 DEF InitReceive, StartReceiveLoop
<1>5. CASE StartMining   BY <1>5 DEF StartMining
<1>6. CASE SpawnThread   BY <1>6 DEF SpawnThread
<1>7. CASE SpawnThrows   BY <1>7 DEF SpawnThrows
<1>8. CASE SpawnDone     BY <1>8 DEF SpawnDone
<1>9. CASE LeaveWait     BY <1>9 DEF LeaveWait
<1>10. CASE StopMining   BY <1>10 DEF StopMining, LowerRunning, JoinMining
<1>11. CASE DestroyMiner BY <1>11 DEF DestroyMiner, LowerRunning, JoinMining
<1>12. CASE DestroyMembers BY <1>12 DEF DestroyMembers
<1>13. CASE DestroyStratum
  BY <1>13 DEF DestroyStratum, RequestStop, JoinReceiver, CloseSocket
<1>14. QED
  BY <1>1, <1>2, <1>3, <1>4, <1>5, <1>6, <1>7, <1>8, <1>9, <1>10, <1>11, <1>12, <1>13
  DEF Owner

(* What a step of the receive thread other than the callback does to the   *)
(* state the invariant is about: it needs the thread alive, never brings   *)
(* it back, and stores a job only on its way into the callback.            *)
LEMMA ReceiverStep ==
  ASSUME hasCallback,
         \/ LoopTest \/ RecvData \/ RecvTimeout \/ RecvClosed \/ RecvReset
         \/ RecvInterrupted
         \/ NextLine \/ NoMoreLines \/ HandleJob \/ IgnoreLine
  PROVE  /\ rpc \in {"check", "recv", "parse", "dispatch"}
         /\ rpc' \in {"check", "recv", "parse", "dispatch", "callback", "exited"}
         /\ UNCHANGED <<fdOpen, hasCallback>>
         /\ stratumJob' = stratumJob \/ rpc' = "callback"
<1> USE DEF apiVars, netVars
<1>1. ASSUME NEW e, RecvFails(e)
      PROVE  /\ rpc = "recv" /\ rpc' \in {"check", "exited"}
             /\ UNCHANGED <<fdOpen, hasCallback, stratumJob>>
  BY <1>1 DEF RecvFails
<1>2. CASE LoopTest    BY <1>2 DEF LoopTest
<1>3. CASE RecvData    BY <1>3 DEF RecvData
<1>4. CASE RecvTimeout BY <1>1, <1>4 DEF RecvTimeout
<1>5. CASE RecvClosed  BY <1>1, <1>5 DEF RecvClosed
<1>6. CASE RecvReset   BY <1>1, <1>6 DEF RecvReset
<1>7. CASE RecvInterrupted BY <1>1, <1>7 DEF RecvInterrupted
<1>8. CASE NextLine    BY <1>8 DEF NextLine
<1>9. CASE NoMoreLines BY <1>9 DEF NoMoreLines
<1>10. CASE HandleJob  BY <1>10 DEF HandleJob
<1>11. CASE IgnoreLine BY <1>11 DEF IgnoreLine
<1>12. QED
  BY <1>2, <1>3, <1>4, <1>5, <1>6, <1>7, <1>8, <1>9, <1>10, <1>11

(* So such a step keeps the invariant.                                     *)
LEMMA ReceiverStepKeepsSafety ==
  ASSUME SafetyInv, TypeOK',
         UNCHANGED <<opc, started, mpc, minerJob, membersAlive>>,
         rpc \in {"check", "recv", "parse", "dispatch"},
         rpc' \in {"check", "recv", "parse", "dispatch", "callback", "exited"},
         UNCHANGED <<fdOpen, hasCallback>>,
         stratumJob' = stratumJob \/ rpc' = "callback"
  PROVE  SafetyInv'
<1>1. ReceiverInv'
  BY DEF SafetyInv, ReceiverInv, SocketOutlivesReceiver, ReceiverAlive
<1>2. MiningInv'
  BY DEF SafetyInv, MiningInv
<1>3. JobCopiesAgree'
  BY DEF SafetyInv, JobCopiesAgree
<1>4. QED BY <1>1, <1>2, <1>3 DEF SafetyInv

(* Steps that touch nothing the invariant is about keep it.                *)
LEMMA UntouchedSafety ==
  ASSUME SafetyInv, TypeOK',
         UNCHANGED <<opc, started, mpc, minerJob, membersAlive,
                     rpc, fdOpen, hasCallback, stratumJob>>
  PROVE  SafetyInv'
<1>1. ReceiverInv'
  BY DEF SafetyInv, ReceiverInv, SocketOutlivesReceiver, ReceiverAlive
<1>2. MiningInv'
  BY DEF SafetyInv, MiningInv
<1>3. JobCopiesAgree'
  BY DEF SafetyInv, JobCopiesAgree
<1>4. QED BY <1>1, <1>2, <1>3 DEF SafetyInv

(* The receive thread keeps the invariant, the callback included, also     *)
(* when it runs on destroyed members.                                      *)
LEMMA ReceiverKeepsSafety ==
  ASSUME SafetyInv, TypeOK', Receiver
  PROVE  SafetyInv'
<1>1. CASE ReceiverOnly
  <2>1. ReceiverAlive
    BY <1>1 DEF ReceiverOnly, ReceiverAlive, LoopTest, RecvData, RecvTimeout, RecvClosed,
       RecvReset, RecvFails, NextLine, NoMoreLines, HandleJob, IgnoreLine
  <2>2. hasCallback
    BY <2>1 DEF SafetyInv, ReceiverInv, SocketOutlivesReceiver
  <2>3. QED
    BY <1>1, <2>2, ReceiverStep, ReceiverStepKeepsSafety
    DEF ReceiverOnly, sessionVars, ownerVars
<1>2. CASE OnNewJob
  <2>1. ReceiverInv'
    BY <1>2 DEF OnNewJob, CallbackReturns, SafetyInv, ReceiverInv, SocketOutlivesReceiver,
       ReceiverAlive, ownerVars, apiVars
  <2>2. MiningInv'
    BY <1>2 DEF OnNewJob, SafetyInv, MiningInv, ownerVars
  <2>3. JobCopiesAgree'
    BY <1>2 DEF OnNewJob, CallbackReturns, JobCopiesAgree
  <2>4. QED BY <2>1, <2>2, <2>3 DEF SafetyInv
<1>3. CASE OnNewJobUnnoticed
  <2>1. ReceiverInv'
    BY <1>3 DEF OnNewJobUnnoticed, CallbackReturns, SafetyInv, ReceiverInv,
       SocketOutlivesReceiver, ReceiverAlive, sessionVars, ownerVars, apiVars
  <2>2. MiningInv'
    BY <1>3 DEF OnNewJobUnnoticed, SafetyInv, MiningInv, sessionVars, ownerVars
  <2>3. JobCopiesAgree'
    BY <1>3 DEF OnNewJobUnnoticed, JobCopiesAgree, sessionVars, ownerVars
  <2>4. QED BY <2>1, <2>2, <2>3 DEF SafetyInv
<1>4. CASE OnNewJobCrashes
  <2>1. ReceiverInv'
    BY <1>4 DEF OnNewJobCrashes, ReceiverInv, SocketOutlivesReceiver, ReceiverAlive
  <2>2. MiningInv'
    BY <1>4 DEF OnNewJobCrashes, SafetyInv, MiningInv, Dying
  <2>3. JobCopiesAgree'
    BY <1>4 DEF OnNewJobCrashes, JobCopiesAgree
  <2>4. QED BY <2>1, <2>2, <2>3 DEF SafetyInv
<1>5. QED BY <1>1, <1>2, <1>3, <1>4 DEF Receiver

(* Every step keeps the invariant.                                         *)
LEMMA SafetyStep ==
  ASSUME SafetyInv, [Next]_vars
  PROVE  SafetyInv'
<1>1. TypeOK'
  BY OwnerTyped, OthersTyped DEF SafetyInv, Next, Terminated
<1>2. CASE Owner
  BY <1>1, <1>2, OwnerKeepsReceiverInv, OwnerKeepsMiningInv, OwnerKeepsJobs DEF SafetyInv
<1>3. CASE Receiver
  BY <1>1, <1>3, ReceiverKeepsSafety
<1>4. CASE PoolOnly
  BY <1>1, <1>4, UntouchedSafety
  DEF PoolOnly, Pool, PoolSends, PoolSendsBlank, PoolCloses, ConnectionBreaks,
      sessionVars, ownerVars, apiVars, threadVars
<1>5. CASE Signal
  <2>1. CASE UNCHANGED stratumVars
    BY <1>1, <1>5, <2>1, UntouchedSafety
    DEF Signal, stratumVars, apiVars, threadVars
  <2>2. CASE RecvInterrupted
    <3>1. hasCallback
      BY <2>2 DEF RecvInterrupted, RecvFails, SafetyInv, ReceiverInv,
         SocketOutlivesReceiver, ReceiverAlive
    <3>2. QED BY <1>1, <1>5, <2>2, <3>1, ReceiverStep, ReceiverStepKeepsSafety DEF Signal
  <2>3. QED BY <1>5, <2>1, <2>2 DEF Signal
<1>6. ASSUME NEW t \in Thread, MiningEntry(t) PROVE SafetyInv'
  <2>1. ReceiverInv' /\ JobCopiesAgree'
    BY <1>6 DEF MiningEntry, SafetyInv, ReceiverInv, SocketOutlivesReceiver, ReceiverAlive,
       JobCopiesAgree, ownerVars, stratumVars, apiVars, threadVars
  <2>2. MiningInv'
    BY <1>6 DEF MiningEntry, SafetyInv, MiningInv, TypeOK, SessionTypeOK, ownerVars
  <2>3. QED BY <1>1, <2>1, <2>2 DEF SafetyInv
<1>7. CASE UNCHANGED vars
  BY <1>1, <1>7, UntouchedSafety
  DEF vars, sessionVars, ownerVars, stratumVars, apiVars, threadVars
<1>8. QED BY <1>2, <1>3, <1>4, <1>5, <1>6, <1>7 DEF Next, Terminated

(* stop() joins before it closes and initialize() installs the callback    *)
(* before it starts the receive thread: whatever fails, the thread never   *)
(* reads a closed socket and never finds the callback missing.             *)
THEOREM ReceiverSafe == Spec => []SocketOutlivesReceiver
<1>1. SafetyInv /\ [Next]_vars => SafetyInv'
  BY SafetyStep
<1>2. QED BY <1>1, SafetyInit, SafetyInvImplies, PTL DEF Spec

(* The miner's state is destroyed only after every mining thread that was  *)
(* ever created has returned, for every thread count and wherever thread   *)
(* creation fails.                                                         *)
THEOREM MiningThreadsSafe == Spec => []MiningJoinedBeforeDestroyed
<1>1. SafetyInv /\ [Next]_vars => SafetyInv'
  BY SafetyStep
<1>2. QED BY <1>1, SafetyInit, SafetyInvImplies, PTL DEF Spec

(* The two copies of the current job agree outside the callback.           *)
THEOREM JobsAgree == Spec => []JobCopiesAgree
<1>1. SafetyInv /\ [Next]_vars => SafetyInv'
  BY SafetyStep
<1>2. QED BY <1>1, SafetyInit, SafetyInvImplies, PTL DEF Spec

-----------------------------------------------------------------------------
(* The lines of the pool: refinement of LineFeed.                          *)

(* The lines a stream of tokens holds, when k have been delivered before:  *)
(* g counts the lines delivered by the time a token has been read.  A line *)
(* is the announced one of that number, and a newline follows it.          *)
Reads(S, k, g, ann) ==
  /\ S \in Seq(Token) /\ g \in [0..Len(S) -> Nat] /\ g[0] = k
  /\ \A i \in 1..Len(S) :
       IF S[i] = NL THEN g[i] = g[i - 1]
       ELSE /\ g[i] = g[i - 1] + 1
            /\ g[i] <= Len(ann) /\ ann[g[i]] = <<S[i]>>
            /\ i < Len(S) => S[i + 1] = NL

(* Nothing announced is missing at the end of the stream.                  *)
Complete(S, g, ann) == g[Len(S)] = Len(ann) /\ (Len(S) > 0 => S[Len(S)] = NL)

(* What is in m_buffer and on the wire; before connect() there is nothing. *)
StreamInv ==
  \E g : /\ Reads(buffer \o wire, Len(delivered), g, announced)
         /\ net = "up" => Complete(buffer \o wire, g, announced)

ConnectInv ==
  opc = "connect" => /\ buffer = << >> /\ wire = << >> /\ net # "up"
                     /\ announced = << >> /\ delivered = << >>

FeedInv == SafetyInv /\ StreamInv /\ ConnectInv

-----------------------------------------------------------------------------
(* Streams.                                                                *)

(* A stream that loses its end, or nothing.                                *)
LEMMA ReadsPrefix ==
  ASSUME NEW S, NEW k, NEW g, NEW ann, Reads(S, k, g, ann),
         NEW T \in Seq(Token), Len(T) <= Len(S), \A i \in 1..Len(T) : T[i] = S[i]
  PROVE  \E h : /\ Reads(T, k, h, ann)
                /\ Len(T) = Len(S) /\ Complete(S, g, ann) => Complete(T, h, ann)
<1> DEFINE n == Len(T)
           h == [i \in 0..n |-> g[i]]
<1>1. n \in Nat /\ Len(S) \in Nat /\ n <= Len(S) /\ g \in [0..Len(S) -> Nat]
  BY DEF Reads
<1>2. \A i \in 0..n : h[i] = g[i] /\ g[i] \in Nat BY <1>1
<1>3. h \in [0..n -> Nat] BY <1>2
<1>4. \A i \in 1..n : i \in 0..n /\ i - 1 \in 0..n /\ i \in 1..Len(S) BY <1>1
<1> HIDE DEF h
<1>5. ASSUME NEW i \in 1..n
      PROVE  IF T[i] = NL THEN h[i] = h[i - 1]
             ELSE /\ h[i] = h[i - 1] + 1
                  /\ h[i] <= Len(ann) /\ ann[h[i]] = <<T[i]>>
                  /\ i < n => T[i + 1] = NL
  <2>1. T[i] = S[i] /\ h[i] = g[i] /\ h[i - 1] = g[i - 1] /\ i \in 1..Len(S) BY <1>2, <1>4
  <2>2. i < n => i < Len(S) /\ T[i + 1] = S[i + 1] BY <1>1
  <2>3. QED BY <2>1, <2>2 DEF Reads
<1>6. h[0] = k
  <2>1. 0 \in 0..n /\ g[0] = k BY <1>1 DEF Reads
  <2>2. QED BY <1>2, <2>1
<1>7. Reads(T, k, h, ann) BY <1>3, <1>5, <1>6 DEF Reads
<1>8. ASSUME n = Len(S), Complete(S, g, ann) PROVE Complete(T, h, ann)
  <2>1. n \in 0..n /\ h[n] = Len(ann) BY <1>1, <1>2, <1>8 DEF Complete
  <2>2. n > 0 => T[n] = NL BY <1>1, <1>8 DEF Complete
  <2>3. QED BY <2>1, <2>2 DEF Complete
<1>9. QED BY <1>7, <1>8

(* The first p tokens are read off it.                                     *)
LEMMA ReadsDrop ==
  ASSUME NEW S, NEW k, NEW g, NEW ann, Reads(S, k, g, ann),
         NEW p \in 1..Len(S),
         NEW T \in Seq(Token), Len(T) = Len(S) - p, \A i \in 1..Len(T) : T[i] = S[i + p]
  PROVE  \E h : /\ Reads(T, g[p], h, ann)
                /\ Complete(S, g, ann) => Complete(T, h, ann)
<1> DEFINE n == Len(T)
           h == [i \in 0..n |-> g[i + p]]
<1>1. /\ n \in Nat /\ Len(S) \in Nat /\ p \in Nat /\ n + p = Len(S)
      /\ g \in [0..Len(S) -> Nat]
  BY DEF Reads
<1>2. \A i \in 0..n : i + p \in 0..Len(S) BY <1>1
<1>3. \A i \in 0..n : h[i] = g[i + p] /\ g[i + p] \in Nat BY <1>1, <1>2
<1>4. h \in [0..n -> Nat] BY <1>3
<1>5. \A i \in 1..n : /\ i \in 0..n /\ i - 1 \in 0..n /\ i + p \in 1..Len(S)
                      /\ (i - 1) + p = (i + p) - 1 /\ (i + 1) + p = (i + p) + 1
                      /\ i < n => i + p < Len(S) /\ i + 1 \in 1..n
  BY <1>1
<1> HIDE DEF h
<1>6. ASSUME NEW i \in 1..n
      PROVE  IF T[i] = NL THEN h[i] = h[i - 1]
             ELSE /\ h[i] = h[i - 1] + 1
                  /\ h[i] <= Len(ann) /\ ann[h[i]] = <<T[i]>>
                  /\ i < n => T[i + 1] = NL
  <2>1. PICK j \in 1..Len(S) : j = i + p BY <1>5
  <2>2. T[i] = S[j] /\ h[i] = g[j] /\ h[i - 1] = g[j - 1] BY <1>3, <1>5, <2>1
  <2>3. i < n => j < Len(S) /\ T[i + 1] = S[j + 1] BY <1>5, <2>1
  <2>4. QED BY <2>2, <2>3 DEF Reads
<1>7. h[0] = g[p]
  <2>1. 0 \in 0..n /\ 0 + p = p BY <1>1
  <2>2. QED BY <1>3, <2>1
<1>8. Reads(T, g[p], h, ann) BY <1>4, <1>6, <1>7 DEF Reads
<1>9. ASSUME Complete(S, g, ann) PROVE Complete(T, h, ann)
  <2>1. n \in 0..n BY <1>1
  <2>2. h[n] = Len(ann) BY <1>1, <1>3, <1>9, <2>1 DEF Complete
  <2>3. n > 0 => T[n] = NL BY <1>1, <1>9 DEF Complete
  <2>4. QED BY <2>2, <2>3 DEF Complete
<1>10. QED BY <1>8, <1>9

(* A line more is announced and sent.                                      *)
LEMMA ReadsLine ==
  ASSUME NEW S, NEW k, NEW g, NEW ann, Reads(S, k, g, ann), Complete(S, g, ann),
         NEW l \in Lines, NEW new, Len(ann) \in Nat, Len(new) = Len(ann) + 1,
         new[Len(ann) + 1] = <<l>>, \A i \in 1..Len(ann) : new[i] = ann[i],
         NEW T \in Seq(Token), Len(T) = Len(S) + 2,
         \A i \in 1..Len(S) : T[i] = S[i], T[Len(S) + 1] = l, T[Len(S) + 2] = NL
  PROVE  \E h : Reads(T, k, h, new) /\ Complete(T, h, new)
<1> DEFINE m == Len(S)
           h == [i \in 0..(m + 2) |-> IF i <= m THEN g[i] ELSE Len(ann) + 1]
<1>1. m \in Nat /\ g \in [0..m -> Nat] /\ g[m] = Len(ann) /\ (m > 0 => S[m] = NL)
  BY DEF Reads, Complete
<1>2. /\ \A i \in 0..m : i \in 0..(m + 2) /\ i <= m
      /\ m + 1 \in 0..(m + 2) /\ ~(m + 1 <= m) /\ m + 2 \in 0..(m + 2) /\ ~(m + 2 <= m)
  BY <1>1
<1>3. /\ \A i \in 0..m : h[i] = g[i] /\ g[i] \in Nat
      /\ h[m + 1] = Len(ann) + 1 /\ h[m + 2] = Len(ann) + 1
  BY <1>1, <1>2
<1>4. h \in [0..(m + 2) -> Nat]
  <2>1. \A i \in 0..(m + 2) : i <= m => i \in 0..m BY <1>1
  <2>2. \A i \in 0..(m + 2) : (IF i <= m THEN g[i] ELSE Len(ann) + 1) \in Nat
    BY <1>1, <2>1
  <2>3. QED BY <2>2
<1> HIDE DEF h
<1>5. ASSUME NEW i \in 1..m
      PROVE  IF T[i] = NL THEN h[i] = h[i - 1]
             ELSE /\ h[i] = h[i - 1] + 1
                  /\ h[i] <= Len(new) /\ new[h[i]] = <<T[i]>>
                  /\ i < m + 2 => T[i + 1] = NL
  <2>1. i \in 0..m /\ i - 1 \in 0..m /\ (i < m => i + 1 \in 1..m) /\ (i = m \/ i < m)
    BY <1>1
  <2>2. T[i] = S[i] /\ h[i] = g[i] /\ h[i - 1] = g[i - 1] BY <1>3, <2>1
  <2>3. CASE S[i] = NL BY <2>2, <2>3 DEF Reads
  <2>4. CASE S[i] # NL
    <3>1. /\ g[i] = g[i - 1] + 1 /\ g[i] <= Len(ann) /\ ann[g[i]] = <<S[i]>>
          /\ i < m => S[i + 1] = NL
      BY <2>4 DEF Reads
    <3>2. g[i] \in Nat /\ g[i - 1] \in Nat BY <1>1, <2>1
    <3>3. g[i] \in 1..Len(ann) BY <3>1, <3>2
    <3>4. i # m BY <1>1, <2>4
    <3>5. T[i + 1] = NL BY <2>1, <3>1, <3>4
    <3>6. g[i] <= Len(new) BY <3>3
    <3>7. new[g[i]] = <<S[i]>> BY <3>1, <3>3
    <3>8. QED BY <2>2, <2>4, <3>1, <3>5, <3>6, <3>7
  <2>5. QED BY <2>3, <2>4
<1>6. l # NL BY LinesAssumption
<1>7. m + 2 # m + 1 /\ (m + 1) - 1 = m /\ (m + 2) - 1 = m + 1 /\ (m + 1) + 1 = m + 2 /\ m \in 0..m
  BY <1>1
<1>8. \A i \in 1..(m + 2) : i \in 1..m \/ i = m + 1 \/ i = m + 2 BY <1>1
<1>9. ASSUME NEW i \in 1..(m + 2)
      PROVE  IF T[i] = NL THEN h[i] = h[i - 1]
             ELSE /\ h[i] = h[i - 1] + 1
                  /\ h[i] <= Len(new) /\ new[h[i]] = <<T[i]>>
                  /\ i < m + 2 => T[i + 1] = NL
  <2>1. CASE i \in 1..m BY <1>5, <2>1
  <2>2. CASE i = m + 1
    <3>1. h[i - 1] = Len(ann) /\ h[i] = Len(ann) + 1 BY <1>1, <1>3, <1>7, <2>2
    <3>2. QED BY <1>6, <1>7, <2>2, <3>1
  <2>3. CASE i = m + 2 BY <1>3, <1>7, <2>3
  <2>4. QED BY <1>8, <2>1, <2>2, <2>3
<1>10. h[0] = k
  <2>1. 0 \in 0..m /\ g[0] = k BY <1>1 DEF Reads
  <2>2. QED BY <1>3, <2>1
<1>11. Reads(T, k, h, new) BY <1>4, <1>9, <1>10 DEF Reads
<1>12. Complete(T, h, new) BY <1>3 DEF Complete
<1>13. QED BY <1>11, <1>12

(* A blank line more is sent.                                              *)
LEMMA ReadsBlank ==
  ASSUME NEW S, NEW k, NEW g, NEW ann, Reads(S, k, g, ann), Complete(S, g, ann),
         NEW T \in Seq(Token), Len(T) = Len(S) + 1,
         \A i \in 1..Len(S) : T[i] = S[i], T[Len(S) + 1] = NL
  PROVE  \E h : Reads(T, k, h, ann) /\ Complete(T, h, ann)
<1> DEFINE m == Len(S)
           h == [i \in 0..(m + 1) |-> IF i <= m THEN g[i] ELSE g[m]]
<1>1. m \in Nat /\ m \in 0..m /\ g \in [0..m -> Nat] /\ g[m] = Len(ann) /\ (m > 0 => S[m] = NL)
  BY DEF Reads, Complete
<1>2. /\ \A i \in 0..m : i \in 0..(m + 1) /\ i <= m
      /\ m + 1 \in 0..(m + 1) /\ ~(m + 1 <= m)
  BY <1>1
<1>3. (\A i \in 0..m : h[i] = g[i] /\ g[i] \in Nat) /\ h[m + 1] = g[m]
  BY <1>1, <1>2
<1>4. h \in [0..(m + 1) -> Nat]
  <2>1. \A i \in 0..(m + 1) : i <= m => i \in 0..m BY <1>1
  <2>2. \A i \in 0..(m + 1) : (IF i <= m THEN g[i] ELSE g[m]) \in Nat BY <1>1, <2>1
  <2>3. QED BY <2>2
<1> HIDE DEF h
<1>5. \A i \in 1..(m + 1) : i \in 1..m \/ i = m + 1 BY <1>1
<1>6. ASSUME NEW i \in 1..(m + 1)
      PROVE  IF T[i] = NL THEN h[i] = h[i - 1]
             ELSE /\ h[i] = h[i - 1] + 1
                  /\ h[i] <= Len(ann) /\ ann[h[i]] = <<T[i]>>
                  /\ i < m + 1 => T[i + 1] = NL
  <2>1. CASE i = m + 1
    <3>1. (m + 1) - 1 = m BY <1>1
    <3>2. QED BY <1>1, <1>3, <2>1, <3>1
  <2>2. CASE i \in 1..m
    <3>1. i \in 0..m /\ i - 1 \in 0..m /\ (i < m => i + 1 \in 1..m) /\ (i = m \/ i < m)
      BY <1>1, <2>2
    <3>2. T[i] = S[i] /\ h[i] = g[i] /\ h[i - 1] = g[i - 1] BY <1>3, <2>2, <3>1
    <3>3. S[i] # NL => i < m /\ T[i + 1] = S[i + 1]
      BY <1>1, <3>1
    <3>4. QED BY <2>2, <3>2, <3>3 DEF Reads
  <2>3. QED BY <1>5, <2>1, <2>2
<1>7. h[0] = k
  <2>1. 0 \in 0..m /\ g[0] = k BY <1>1 DEF Reads
  <2>2. QED BY <1>3, <2>1
<1>8. Reads(T, k, h, ann) BY <1>4, <1>6, <1>7 DEF Reads
<1>9. Complete(T, h, ann) BY <1>1, <1>3 DEF Complete
<1>10. QED BY <1>8, <1>9

-----------------------------------------------------------------------------
(* What a step does to the stream.                                         *)

Quiet == UNCHANGED <<buffer, wire, announced, delivered>> /\ (net' = net \/ net' # "up")

Loses == /\ UNCHANGED <<buffer, announced, delivered>>
         /\ net' # "up"
         /\ wire' \in Seq(Token) /\ Len(wire') <= Len(wire)
         /\ \A i \in 1..Len(wire') : wire'[i] = wire[i]

Connects == opc = "connect" /\ UNCHANGED <<buffer, wire, announced, delivered>>

(* Every step is one of these, a read, a line cut off or a line sent.      *)
LEMMA StepKinds ==
  ASSUME SafetyInv, [Next]_vars
  PROVE  \/ Quiet \/ Loses \/ Connects
         \/ RecvData \/ NextLine
         \/ (\E l \in Lines : PoolSends(l)) \/ PoolSendsBlank
<1> USE DEF Quiet, stratumVars, apiVars, threadVars, netVars
<1>1. wire \in Seq(Token) /\ Len(wire) \in Nat
  BY DEF SafetyInv, TypeOK, StratumTypeOK
<1>2. ASSUME wire' = << >>, UNCHANGED <<buffer, announced, delivered>>, net' # "up"
      PROVE  Loses
  <2>1. << >> \in Seq(Token) /\ Len(<< >>) = 0 OBVIOUS
  <2>2. QED BY <1>1, <1>2, <2>1 DEF Loses
<1>3. CASE UNCHANGED stratumVars BY <1>3
<1>4. CASE InitConnect
  BY <1>4 DEF InitConnect, OnlyStratum, Step, Connect, Connects
<1>5. CASE InitLogin BY <1>5 DEF InitLogin, Login
<1>6. CASE InitCallbacks BY <1>6 DEF InitCallbacks, SetCallbacks
<1>7. CASE InitReceive BY <1>7 DEF InitReceive, StartReceiveLoop
<1>8. CASE DestroyStratum
  <2>1. CASE RequestStop BY <2>1 DEF RequestStop
  <2>2. CASE JoinReceiver BY <2>2 DEF JoinReceiver
  <2>3. CASE CloseSocket BY <1>2, <2>3 DEF CloseSocket
  <2>4. QED BY <1>8, <2>1, <2>2, <2>3 DEF DestroyStratum
<1>9. ASSUME Owner, ~InitConnect, ~InitLogin, ~InitCallbacks, ~InitReceive, ~DestroyStratum
      PROVE  UNCHANGED stratumVars
  BY <1>9 DEF Owner, StartMining, SpawnThread, SpawnThrows, SpawnDone, LeaveWait, StopMining,
     DestroyMiner, LowerRunning, JoinMining, DestroyMembers
<1>10. ASSUME NEW e, RecvFails(e) PROVE Quiet BY <1>10 DEF RecvFails
<1>11. CASE Receiver
  <2>1. CASE ReceiverOnly
    BY <1>10, <2>1 DEF ReceiverOnly, LoopTest, RecvTimeout, RecvClosed, RecvReset, NoMoreLines,
       HandleJob, IgnoreLine
  <2>2. CASE OnNewJob BY <2>2 DEF OnNewJob, CallbackReturns
  <2>3. CASE OnNewJobUnnoticed BY <2>3 DEF OnNewJobUnnoticed, CallbackReturns
  <2>4. CASE OnNewJobCrashes BY <1>2, <2>4 DEF OnNewJobCrashes
  <2>5. QED BY <1>11, <2>1, <2>2, <2>3, <2>4 DEF Receiver
<1>12. CASE PoolOnly
  <2>1. CASE ConnectionBreaks
    <3>1. PICK n \in 0..Len(wire) : wire' = SubSeq(wire, 1, n)
      BY <2>1 DEF ConnectionBreaks
    <3>2. wire' \in Seq(Token) /\ Len(wire') = n /\ \A i \in 1..n : wire'[i] = wire[i]
      BY <1>1, <3>1
    <3>3. QED BY <1>1, <2>1, <3>2 DEF ConnectionBreaks, Loses
  <2>2. CASE PoolCloses BY <2>2 DEF PoolCloses
  <2>3. QED BY <1>12, <2>1, <2>2 DEF PoolOnly, Pool
<1>13. CASE Signal BY <1>3, <1>10, <1>13 DEF Signal, RecvInterrupted
<1>14. CASE \E t \in Thread : MiningEntry(t) BY <1>3, <1>14 DEF MiningEntry
<1>15. QED
  BY <1>3, <1>4, <1>5, <1>6, <1>7, <1>8, <1>9, <1>11, <1>12, <1>13, <1>14
  DEF Next, Terminated, vars

(* The tokens on the wire follow those in m_buffer.                        *)
LEMMA Joined ==
  ASSUME NEW b \in Seq(Token), NEW w \in Seq(Token)
  PROVE  /\ b \o w \in Seq(Token)
         /\ Len(b \o w) = Len(b) + Len(w) /\ Len(b) \in Nat /\ Len(w) \in Nat
         /\ \A i \in 1..Len(b) : (b \o w)[i] = b[i]
         /\ \A i \in 1..Len(w) : (b \o w)[Len(b) + i] = w[i]
OBVIOUS

(* recv() moves tokens from one to the other and changes neither their     *)
(* order nor their number.                                                 *)
LEMMA RecvKeepsStream ==
  ASSUME TypeOK, RecvData
  PROVE  /\ buffer' \o wire' \in Seq(Token)
         /\ Len(buffer' \o wire') = Len(buffer \o wire)
         /\ \A i \in 1..Len(buffer \o wire) : (buffer' \o wire')[i] = (buffer \o wire)[i]
<1>1. buffer \in Seq(Token) /\ wire \in Seq(Token)
  BY DEF TypeOK, StratumTypeOK
<1>2. PICK n \in 1..RecvMax : /\ n <= Len(wire)
                              /\ buffer' = buffer \o SubSeq(wire, 1, n)
                              /\ wire' = SubSeq(wire, n + 1, Len(wire))
  BY DEF RecvData
<1>3. n \in Nat /\ n >= 1 /\ Len(wire) \in Nat
  BY <1>1, BoundAssumption
<1> DEFINE head == SubSeq(wire, 1, n)
           tail == SubSeq(wire, n + 1, Len(wire))
<1>4. /\ head \in Seq(Token) /\ Len(head) = n /\ \A i \in 1..n : head[i] = wire[i]
      /\ tail \in Seq(Token) /\ Len(tail) = Len(wire) - n
      /\ \A i \in 1..(Len(wire) - n) : tail[i] = wire[n + i]
  BY <1>1, <1>2, <1>3
<1>5. buffer' = buffer \o head /\ wire' = tail BY <1>2
<1> HIDE DEF head, tail
<1>6. /\ buffer' \in Seq(Token) /\ Len(buffer') = Len(buffer) + n /\ Len(buffer) \in Nat
      /\ \A i \in 1..Len(buffer) : buffer'[i] = buffer[i]
      /\ \A i \in 1..n : buffer'[Len(buffer) + i] = head[i]
  BY <1>1, <1>4, <1>5, Joined
<1>7. /\ buffer' \o wire' \in Seq(Token)
      /\ Len(buffer' \o wire') = Len(buffer) + Len(wire)
      /\ Len(buffer \o wire) = Len(buffer) + Len(wire)
  <2>1. wire' \in Seq(Token) /\ Len(wire') = Len(wire) - n BY <1>4, <1>5
  <2>2. /\ buffer' \o wire' \in Seq(Token)
        /\ Len(buffer' \o wire') = Len(buffer') + Len(wire')
    BY <1>6, <2>1, Joined
  <2>3. Len(buffer \o wire) = Len(buffer) + Len(wire) BY <1>1, Joined
  <2>4. QED BY <1>3, <1>6, <2>1, <2>2, <2>3
<1>8. ASSUME NEW i \in 1..Len(buffer \o wire)
      PROVE  (buffer' \o wire')[i] = (buffer \o wire)[i]
  <2>1. CASE i <= Len(buffer)
    <3>1. i \in 1..Len(buffer) /\ i \in 1..Len(buffer') BY <1>3, <1>6, <2>1
    <3>2. QED BY <1>1, <1>4, <1>5, <1>6, <3>1, Joined
  <2>2. CASE Len(buffer) < i /\ i <= Len(buffer) + n
    <3>1. PICK j \in 1..n : i = Len(buffer) + j BY <1>3, <1>6, <2>2
    <3>2. j \in 1..Len(wire) /\ i \in 1..Len(buffer') BY <1>2, <1>3, <1>6, <2>2
    <3>3. (buffer' \o wire')[i] = buffer'[i] BY <1>4, <1>5, <1>6, <3>2, Joined
    <3>4. buffer'[i] = wire[j] BY <1>4, <1>6, <3>1
    <3>5. (buffer \o wire)[i] = wire[j] BY <1>1, <3>1, <3>2, Joined
    <3>6. QED BY <3>3, <3>4, <3>5
  <2>3. CASE Len(buffer) + n < i
    <3>1. PICK j \in 1..(Len(wire) - n) : i = Len(buffer) + n + j
      <4>1. i \in Int /\ i <= Len(buffer) + Len(wire) BY <1>3, <1>6, <1>7, <1>8
      <4>2. i - Len(buffer) - n \in 1..(Len(wire) - n) BY <1>3, <1>6, <2>3, <4>1
      <4>3. i = Len(buffer) + n + (i - Len(buffer) - n) BY <1>3, <1>6, <4>1
      <4>4. QED BY <4>2, <4>3
    <3>2. /\ n + j \in 1..Len(wire) /\ i = Len(buffer) + (n + j)
          /\ i = Len(buffer') + j /\ j \in 1..Len(wire')
      BY <1>3, <1>4, <1>5, <1>6, <3>1
    <3>3. (buffer' \o wire')[i] = wire'[j] BY <1>4, <1>5, <1>6, <3>2, Joined
    <3>4. wire'[j] = wire[n + j] BY <1>4, <1>5, <3>1
    <3>5. (buffer \o wire)[i] = wire[n + j] BY <1>1, <3>2, Joined
    <3>6. QED BY <3>3, <3>4, <3>5
  <2>4. QED BY <1>3, <1>6, <1>7, <2>1, <2>2, <2>3
<1>9. QED BY <1>7, <1>8

(* A step that touches none of it, or loses the end of what is under way.  *)
LEMMA QuietKeepsStream ==
  ASSUME StreamInv, Quiet
  PROVE  StreamInv'
<1>1. PICK g : /\ Reads(buffer \o wire, Len(delivered), g, announced)
               /\ net = "up" => Complete(buffer \o wire, g, announced)
  BY DEF StreamInv
<1>2. Reads(buffer' \o wire', Len(delivered'), g, announced')
  BY <1>1 DEF Quiet
<1>3. net' = "up" => Complete(buffer' \o wire', g, announced')
  BY <1>1 DEF Quiet
<1>4. QED BY <1>2, <1>3 DEF StreamInv

(* What is lost is the end of the stream, and never while it is up.        *)
LEMMA LossKeepsStream ==
  ASSUME TypeOK, StreamInv, Loses
  PROVE  StreamInv'
<1> DEFINE S == buffer \o wire
           T == buffer' \o wire'
<1>1. buffer \in Seq(Token) /\ wire \in Seq(Token) /\ buffer' = buffer /\ wire' \in Seq(Token)
  BY DEF TypeOK, StratumTypeOK, Loses
<1>2. PICK g : Reads(S, Len(delivered), g, announced)
  BY DEF StreamInv
<1>3. T \in Seq(Token) /\ Len(T) <= Len(S)
  BY <1>1, Joined DEF Loses
<1>4. ASSUME NEW i \in 1..Len(T) PROVE T[i] = S[i]
  <2>1. i \in Int /\ 1 <= i /\ i <= Len(buffer) + Len(wire') /\ Len(buffer) \in Nat
        /\ Len(wire') \in Nat /\ Len(wire) \in Nat
    BY <1>1, <1>4, Joined
  <2>2. CASE i <= Len(buffer)
    <3>1. i \in 1..Len(buffer) BY <2>1, <2>2
    <3>2. QED BY <1>1, <3>1, Joined
  <2>3. CASE Len(buffer) < i
    <3>1. PICK j \in 1..Len(wire') : i = Len(buffer) + j BY <2>1, <2>3
    <3>2. j \in 1..Len(wire) /\ wire'[j] = wire[j] BY <2>1 DEF Loses
    <3>3. S[i] = wire[j] BY <1>1, <3>1, <3>2, Joined
    <3>4. T[i] = wire'[j] BY <1>1, <3>1, Joined
    <3>5. QED BY <3>2, <3>3, <3>4, Zenon
  <2>4. i <= Len(buffer) \/ Len(buffer) < i BY <2>1
  <2>5. QED BY <2>2, <2>3, <2>4, Zenon
<1> HIDE DEF S, T
<1>5. PICK h : Reads(T, Len(delivered), h, announced)
  BY <1>2, <1>3, <1>4, ReadsPrefix
<1>6. Reads(T, Len(delivered'), h, announced') /\ net' # "up"
  BY <1>5 DEF Loses
<1>7. QED BY <1>6 DEF StreamInv, T

(* Reading leaves the stream as it is.                                     *)
LEMMA RecvKeepsStreamInv ==
  ASSUME TypeOK, StreamInv, RecvData
  PROVE  StreamInv'
<1> DEFINE S == buffer \o wire
           T == buffer' \o wire'
<1>1. PICK g : /\ Reads(S, Len(delivered), g, announced)
               /\ net = "up" => Complete(S, g, announced)
  BY DEF StreamInv
<1>2. UNCHANGED <<delivered, announced, net>>
  BY DEF RecvData
<1>3. T \in Seq(Token) /\ Len(T) = Len(S) /\ \A i \in 1..Len(S) : T[i] = S[i]
  BY RecvKeepsStream
<1> HIDE DEF S, T
<1>4. Len(T) <= Len(S) BY <1>1, <1>3 DEF Reads
<1>5. PICK h : /\ Reads(T, Len(delivered), h, announced)
               /\ Len(T) = Len(S) /\ Complete(S, g, announced) => Complete(T, h, announced)
  BY <1>1, <1>3, <1>4, ReadsPrefix
<1>6. /\ Reads(T, Len(delivered'), h, announced')
      /\ net' = "up" => Complete(T, h, announced')
  BY <1>1, <1>2, <1>3, <1>5
<1>7. QED BY <1>6 DEF StreamInv, T

(* The first newline ends a line of at most one token: a blank line, or    *)
(* the announced one whose turn it is.                                     *)
LEMMA FirstLine ==
  ASSUME TypeOK, NextLine, NEW g, Reads(buffer \o wire, Len(delivered), g, announced)
  PROVE  \E p \in 1..Len(buffer) :
           /\ buffer' = SubSeq(buffer, p + 1, Len(buffer))
           /\ g[p] = Len(delivered')
           /\ \/ delivered' = delivered
              \/ /\ Len(delivered) < Len(announced)
                 /\ delivered' = Append(delivered, announced[Len(delivered) + 1])
<1> DEFINE S == buffer \o wire
<1>1. /\ buffer \in Seq(Token) /\ Len(buffer) \in Nat /\ delivered \in Seq(Seq(Token))
      /\ Len(delivered) \in Nat /\ wire \in Seq(Token) /\ Len(wire) \in Nat
      /\ Len(announced) \in Nat
  BY DEF TypeOK, StratumTypeOK
<1>2. PICK p \in 1..Len(buffer) :
        /\ buffer[p] = NL
        /\ \A i \in 1..(p - 1) : buffer[i] # NL
        /\ buffer' = SubSeq(buffer, p + 1, Len(buffer))
        /\ delivered' = IF p = 1 THEN delivered
                                 ELSE Append(delivered, SubSeq(buffer, 1, p - 1))
  <2>1. DOMAIN buffer = 1..Len(buffer) BY <1>1
  <2>2. QED BY <2>1, Zenon DEF NextLine
<1>3. /\ Len(S) = Len(buffer) + Len(wire)
      /\ \A i \in 1..Len(buffer) : i \in 1..Len(S) /\ S[i] = buffer[i]
  BY <1>1, Joined
<1>4. g[0] = Len(delivered) BY DEF Reads
<1>5. \A i \in 1..Len(S) :
        IF S[i] = NL THEN g[i] = g[i - 1]
        ELSE /\ g[i] = g[i - 1] + 1
             /\ g[i] <= Len(announced) /\ announced[g[i]] = <<S[i]>>
             /\ i < Len(S) => S[i + 1] = NL
  BY DEF Reads
<1> HIDE DEF S
<1>6. CASE p = 1
  <2>1. g[1] = g[0]
    <3>1. 1 \in 1..Len(S) /\ S[1] = NL BY <1>2, <1>3, <1>6
    <3>2. g[1] = g[1 - 1] BY <1>5, <3>1
    <3>3. QED BY <3>2
  <2>2. QED BY <1>2, <1>4, <1>6, <2>1
<1>7. CASE p # 1
  <2>1. 1 \in 1..Len(buffer) /\ 1 \in 1..(p - 1) /\ p > 1 /\ p \in Nat
    BY <1>1, <1>2, <1>7
  <2>2. 1 \in 1..Len(S) /\ S[1] = buffer[1] /\ S[1] # NL /\ 1 < Len(S)
    BY <1>1, <1>2, <1>3, <2>1
  <2>3. /\ g[1] = Len(delivered) + 1 /\ g[1] <= Len(announced)
        /\ announced[g[1]] = <<S[1]>> /\ S[2] = NL
    <3>1. /\ g[1] = g[1 - 1] + 1 /\ g[1] <= Len(announced)
          /\ announced[g[1]] = <<S[1]>> /\ S[1 + 1] = NL
      BY <1>5, <2>2
    <3>2. QED BY <1>4, <3>1
  <2>4. p = 2
    <3>1. 2 \in 1..Len(buffer) BY <1>1, <1>2, <2>1
    <3>2. buffer[2] = NL BY <1>3, <2>3, <3>1
    <3>3. ~(2 \in 1..(p - 1)) BY <1>2, <3>2
    <3>4. QED BY <2>1, <3>3
  <2>5. g[2] = g[1]
    <3>1. 2 \in 1..Len(S) BY <1>2, <1>3, <2>4
    <3>2. g[2] = g[2 - 1] BY <1>5, <2>3, <3>1
    <3>3. QED BY <3>2
  <2>6. SubSeq(buffer, 1, p - 1) = <<buffer[1]>> /\ buffer[1] \in Token
    <3>1. p - 1 = 1 /\ buffer[1] \in Token BY <1>1, <2>1, <2>4
    <3>2. SubSeq(buffer, 1, 1) = <<buffer[1]>>
      <4>1. /\ SubSeq(buffer, 1, 1) \in Seq(Token) /\ Len(SubSeq(buffer, 1, 1)) = 1
            /\ SubSeq(buffer, 1, 1)[1] = buffer[1]
        BY <1>1, <2>1
      <4>2. /\ <<buffer[1]>> \in Seq(Token) /\ Len(<<buffer[1]>>) = 1
            /\ <<buffer[1]>>[1] = buffer[1]
        BY <3>1
      <4>3. \A i \in 1..1 : i = 1 OBVIOUS
      <4>4. QED BY <4>1, <4>2, <4>3, SeqEqual
    <3>3. QED BY <3>1, <3>2
  <2>7. delivered' = Append(delivered, announced[Len(delivered) + 1])
    <3>1. announced[Len(delivered) + 1] = <<buffer[1]>> BY <2>2, <2>3
    <3>2. delivered' = Append(delivered, SubSeq(buffer, 1, p - 1)) BY <1>2, <1>7
    <3>3. QED BY <2>6, <3>1, <3>2
  <2>8. Len(delivered') = Len(delivered) + 1
    <3>1. <<buffer[1]>> \in Seq(Token) BY <2>6
    <3>2. delivered' = Append(delivered, <<buffer[1]>>) BY <1>2, <1>7, <2>6
    <3>3. QED BY <1>1, <3>1, <3>2
  <2>9. g[p] = Len(delivered') BY <2>3, <2>4, <2>5, <2>8
  <2>10. Len(delivered) < Len(announced) BY <1>1, <2>3
  <2>11. QED BY <1>2, <2>7, <2>9, <2>10
<1>8. QED BY <1>6, <1>7

(* Cutting a line off reads its tokens, and counts it.                     *)
LEMMA NextLineKeepsStream ==
  ASSUME TypeOK, StreamInv, NextLine
  PROVE  StreamInv'
<1> DEFINE S == buffer \o wire
           T == buffer' \o wire'
<1>1. PICK g : /\ Reads(S, Len(delivered), g, announced)
               /\ net = "up" => Complete(S, g, announced)
  BY DEF StreamInv
<1>2. PICK p \in 1..Len(buffer) : /\ buffer' = SubSeq(buffer, p + 1, Len(buffer))
                                  /\ g[p] = Len(delivered')
  BY <1>1, FirstLine
<1>3. UNCHANGED <<wire, announced, net>>
  BY DEF NextLine, netVars
<1>4. /\ buffer \in Seq(Token) /\ Len(buffer) \in Nat /\ wire \in Seq(Token)
      /\ Len(wire) \in Nat
  BY DEF TypeOK, StratumTypeOK
<1>5. /\ buffer' \in Seq(Token) /\ Len(buffer') = Len(buffer) - p
      /\ \A i \in 1..(Len(buffer) - p) : buffer'[i] = buffer[p + i]
  BY <1>2, <1>4
<1>6. /\ T \in Seq(Token) /\ Len(T) = Len(buffer') + Len(wire)
      /\ Len(S) = Len(buffer) + Len(wire)
  BY <1>3, <1>4, <1>5, Joined
<1> HIDE DEF S, T
<1>7. Len(T) = Len(S) - p /\ p \in 1..Len(S)
  BY <1>2, <1>4, <1>5, <1>6
<1> USE DEF S, T
<1>8. ASSUME NEW i \in 1..Len(T) PROVE T[i] = S[i + p]
  <2>1. i \in Int /\ 1 <= i /\ i <= (Len(buffer) - p) + Len(wire) /\ p \in Nat
        /\ Len(buffer') \in Nat
    BY <1>2, <1>4, <1>5, <1>6, <1>8
  <2>2. CASE i <= Len(buffer) - p
    <3>1. i \in 1..Len(buffer') /\ p + i \in 1..Len(buffer) /\ p + i = i + p
      BY <1>4, <1>5, <2>1, <2>2
    <3>2. T[i] = buffer'[i] BY <1>3, <1>4, <1>5, <3>1, Joined
    <3>3. buffer'[i] = buffer[p + i] BY <1>5, <3>1
    <3>4. S[p + i] = buffer[p + i] BY <1>4, <3>1, Joined
    <3>5. QED BY <3>1, <3>2, <3>3, <3>4, Zenon
  <2>3. CASE Len(buffer) - p < i
    <3>1. PICK j \in 1..Len(wire) : i = (Len(buffer) - p) + j
      <4>1. i - (Len(buffer) - p) \in 1..Len(wire) BY <1>4, <2>1, <2>3
      <4>2. i = (Len(buffer) - p) + (i - (Len(buffer) - p)) BY <1>4, <2>1
      <4>3. QED BY <4>1, <4>2
    <3>2. i = Len(buffer') + j /\ i + p = Len(buffer) + j
      BY <1>4, <1>5, <2>1, <3>1
    <3>3. T[i] = wire[j] BY <1>3, <1>4, <1>5, <3>2, Joined
    <3>4. S[i + p] = wire[j] BY <1>4, <3>2, Joined
    <3>5. QED BY <3>3, <3>4, Zenon
  <2>4. QED BY <1>4, <2>1, <2>2, <2>3
<1> HIDE DEF S, T
<1>9. PICK h : /\ Reads(T, g[p], h, announced)
               /\ Complete(S, g, announced) => Complete(T, h, announced)
  BY <1>1, <1>6, <1>7, <1>8, ReadsDrop
<1>10. /\ Reads(T, Len(delivered'), h, announced')
       /\ net' = "up" => Complete(T, h, announced')
  BY <1>1, <1>2, <1>3, <1>9
<1>11. QED BY <1>10 DEF StreamInv, T

(* The pool appends to the wire.                                           *)
LEMMA AppendedStream ==
  ASSUME NEW b \in Seq(Token), NEW w \in Seq(Token), NEW x \in Seq(Token)
  PROVE  /\ b \o (w \o x) \in Seq(Token)
         /\ Len(b \o (w \o x)) = Len(b \o w) + Len(x) /\ Len(b \o w) \in Nat
         /\ \A i \in 1..Len(b \o w) : (b \o (w \o x))[i] = (b \o w)[i]
         /\ \A i \in 1..Len(x) : (b \o (w \o x))[Len(b \o w) + i] = x[i]
<1>1. b \o (w \o x) = (b \o w) \o x
  BY ConcatAssociative
<1>2. b \o w \in Seq(Token)
  BY Joined
<1>3. QED BY <1>1, <1>2, Joined

(* On a connection that is up the stream was complete, so that the new     *)
(* line is the next one in it.                                             *)
LEMMA PoolLineKeepsStream ==
  ASSUME TypeOK, StreamInv, NEW l \in Lines, PoolSends(l)
  PROVE  StreamInv'
<1> DEFINE S == buffer \o wire
           T == buffer' \o wire'
<1>1. PICK g : Reads(S, Len(delivered), g, announced) /\ Complete(S, g, announced)
  BY DEF StreamInv, PoolSends
<1>2. /\ announced' = Append(announced, <<l>>) /\ wire' = wire \o <<l, NL>>
      /\ UNCHANGED <<buffer, delivered>>
  BY DEF PoolSends, threadVars
<1>3. /\ buffer \in Seq(Token) /\ wire \in Seq(Token) /\ announced \in Seq(Seq(Lines))
      /\ Len(announced) \in Nat
  BY DEF TypeOK, StratumTypeOK
<1>4. /\ Len(announced') = Len(announced) + 1
      /\ announced'[Len(announced) + 1] = <<l>>
      /\ \A i \in 1..Len(announced) : announced'[i] = announced[i]
  <2>1. <<l>> \in Seq(Lines) OBVIOUS
  <2>2. QED BY <1>2, <1>3, <2>1
<1>5. /\ <<l, NL>> \in Seq(Token) /\ Len(<<l, NL>>) = 2
      /\ <<l, NL>>[1] = l /\ <<l, NL>>[2] = NL
  BY DEF Token
<1>6. T = buffer \o (wire \o <<l, NL>>) BY <1>2
<1>7. /\ T \in Seq(Token) /\ Len(T) = Len(S) + 2
      /\ \A i \in 1..Len(S) : T[i] = S[i]
      /\ T[Len(S) + 1] = l /\ T[Len(S) + 2] = NL
  <2>1. 1 \in 1..2 /\ 2 \in 1..2 OBVIOUS
  <2> HIDE DEF T, S
  <2>2. QED BY <1>3, <1>5, <1>6, <2>1, AppendedStream DEF S
<1> HIDE DEF S, T
<1>8. PICK h : Reads(T, Len(delivered), h, announced') /\ Complete(T, h, announced')
  BY <1>1, <1>3, <1>4, <1>7, ReadsLine
<1>9. Reads(T, Len(delivered'), h, announced') BY <1>2, <1>8
<1>10. QED BY <1>8, <1>9 DEF StreamInv, T

(* A blank line changes nothing that was announced.                        *)
LEMMA PoolBlankKeepsStream ==
  ASSUME TypeOK, StreamInv, PoolSendsBlank
  PROVE  StreamInv'
<1> DEFINE S == buffer \o wire
           T == buffer' \o wire'
<1>1. PICK g : Reads(S, Len(delivered), g, announced) /\ Complete(S, g, announced)
  BY DEF StreamInv, PoolSendsBlank
<1>2. wire' = Append(wire, NL) /\ UNCHANGED <<buffer, delivered, announced>>
  BY DEF PoolSendsBlank, threadVars
<1>3. buffer \in Seq(Token) /\ wire \in Seq(Token)
  BY DEF TypeOK, StratumTypeOK
<1>4. <<NL>> \in Seq(Token) /\ Len(<<NL>>) = 1 /\ <<NL>>[1] = NL
  BY DEF Token
<1>5. T = buffer \o (wire \o <<NL>>)
  <2>1. NL \in Token BY DEF Token
  <2>2. Append(wire, NL) = wire \o <<NL>> BY <1>3, <2>1, AppendIsConcat
  <2>3. QED BY <1>2, <2>2
<1>6. /\ T \in Seq(Token) /\ Len(T) = Len(S) + 1
      /\ \A i \in 1..Len(S) : T[i] = S[i]
      /\ T[Len(S) + 1] = NL
  <2>1. 1 \in 1..1 OBVIOUS
  <2> HIDE DEF T, S
  <2>2. QED BY <1>3, <1>4, <1>5, <2>1, AppendedStream DEF S
<1> HIDE DEF S, T
<1>7. PICK h : Reads(T, Len(delivered), h, announced) /\ Complete(T, h, announced)
  BY <1>1, <1>6, ReadsBlank
<1>8. Reads(T, Len(delivered'), h, announced') /\ Complete(T, h, announced')
  BY <1>2, <1>7
<1>9. QED BY <1>8 DEF StreamInv, T

(* Nothing was announced, and nothing is under way.                        *)
LEMMA EmptyStream ==
  ASSUME buffer = << >>, wire = << >>, announced = << >>, delivered = << >>
  PROVE  \E g : /\ Reads(buffer \o wire, Len(delivered), g, announced)
                /\ Complete(buffer \o wire, g, announced)
<1> DEFINE S == buffer \o wire
           g == [i \in 0..0 |-> 0]
<1>1. S \in Seq(Token) /\ Len(S) = 0 /\ Len(announced) = 0 /\ Len(delivered) = 0
  <2>1. << >> \in Seq(Token) /\ Len(<< >>) = 0 OBVIOUS
  <2>2. QED BY <2>1, Joined
<1>2. g \in [0..0 -> Nat] /\ g[0] = 0 OBVIOUS
<1> HIDE DEF S, g
<1>3. Reads(S, Len(delivered), g, announced) BY <1>1, <1>2 DEF Reads
<1>4. Complete(S, g, announced) BY <1>1, <1>2 DEF Complete
<1>5. QED BY <1>3, <1>4 DEF S

-----------------------------------------------------------------------------
(* The invariant.                                                          *)

(* Until the owner has connected nothing else runs: there is no receive    *)
(* thread, and a pool speaks only on a connection.                         *)
LEMMA ConnectStep ==
  ASSUME SafetyInv, ConnectInv, [Next]_vars
  PROVE  ConnectInv'
<1> USE DEF ConnectInv
<1>1. ASSUME opc = "connect", UNCHANGED stratumVars PROVE ConnectInv'
  BY <1>1 DEF stratumVars, threadVars, netVars
<1>2. CASE Owner
  <2>1. opc' # "connect"
    BY <1>2 DEF Owner, InitConnect, InitLogin, InitCallbacks, InitReceive, StartMining,
       SpawnThread, SpawnThrows, SpawnDone, LeaveWait, StopMining, DestroyMiner, LowerRunning,
       JoinMining, DestroyMembers, DestroyStratum, OnlyStratum, Step
  <2>2. QED BY <2>1
<1>3. ASSUME ~Owner PROVE opc' = opc \/ opc' = "crashed"
  BY <1>3 DEF Next, Receiver, ReceiverOnly, OnNewJob, OnNewJobUnnoticed, OnNewJobCrashes,
     PoolOnly, Signal, Terminated, MiningEntry, vars, sessionVars, ownerVars
<1>4. ASSUME opc = "connect" PROVE rpc = "unborn"
  BY <1>4 DEF SafetyInv, ReceiverInv
<1>5. ASSUME NEW e, RecvFails(e) PROVE rpc = "recv"
  BY <1>5 DEF RecvFails
<1>6. ASSUME Receiver PROVE rpc # "unborn"
  BY <1>5, <1>6 DEF Receiver, ReceiverOnly, LoopTest, RecvData, RecvTimeout, RecvClosed,
     RecvReset, NextLine, NoMoreLines, HandleJob, IgnoreLine, OnNewJob, OnNewJobUnnoticed,
     OnNewJobCrashes, CallbackReturns
<1>7. ASSUME PoolOnly PROVE net = "up"
  BY <1>7 DEF PoolOnly, Pool, PoolSends, PoolSendsBlank, PoolCloses, ConnectionBreaks
<1>8. ASSUME opc = "connect", ~Owner PROVE UNCHANGED stratumVars
  <2>1. ~Receiver /\ ~PoolOnly BY <1>4, <1>6, <1>7, <1>8
  <2>2. ~RecvInterrupted BY <1>4, <1>5, <1>8 DEF RecvInterrupted
  <2>3. QED BY <1>8, <2>1, <2>2 DEF Next, Signal, Terminated, MiningEntry, vars
<1>9. QED BY <1>1, <1>2, <1>3, <1>8

(* Every step keeps the invariant, which holds initially.                  *)
LEMMA FeedStep ==
  ASSUME FeedInv, [Next]_vars
  PROVE  FeedInv'
<1> USE DEF FeedInv
<1>1. SafetyInv' BY SafetyStep
<1>2. TypeOK BY DEF SafetyInv
<1>3. ConnectInv' BY ConnectStep
<1>4. ASSUME Connects PROVE StreamInv'
  <2>1. PICK g : /\ Reads(buffer \o wire, Len(delivered), g, announced)
                 /\ Complete(buffer \o wire, g, announced)
    BY <1>4, EmptyStream DEF Connects, ConnectInv
  <2>2. /\ Reads(buffer' \o wire', Len(delivered'), g, announced')
        /\ Complete(buffer' \o wire', g, announced')
    BY <1>4, <2>1 DEF Connects
  <2>3. QED BY <2>2 DEF StreamInv
<1>5. StreamInv'
  BY <1>2, <1>4, StepKinds, QuietKeepsStream, LossKeepsStream, RecvKeepsStreamInv,
     NextLineKeepsStream, PoolLineKeepsStream, PoolBlankKeepsStream
<1>6. QED BY <1>1, <1>3, <1>5

LEMMA FeedInitially == Init => FeedInv
<1> SUFFICES ASSUME Init PROVE FeedInv OBVIOUS
<1>1. StreamInv BY EmptyStream DEF Init, StratumInit, StreamInv
<1>2. ConnectInv BY DEF ConnectInv, Init, StratumInit
<1>3. QED BY <1>1, <1>2, SafetyInit DEF FeedInv

(* Each step is a step of the feed or leaves it as it is.                  *)
LEMMA FeedSimulated ==
  ASSUME FeedInv, [Next]_vars
  PROVE  [Feed!FeedNext]_(Feed!feedVars)
<1> USE DEF Feed!FeedNext, Feed!feedVars
<1>1. SafetyInv /\ TypeOK /\ StreamInv BY DEF FeedInv, SafetyInv
<1>2. CASE NextLine
  <2>1. PICK g : Reads(buffer \o wire, Len(delivered), g, announced)
    BY <1>1 DEF StreamInv
  <2>2. UNCHANGED announced BY <1>2 DEF NextLine, netVars
  <2>3. QED BY <1>1, <1>2, <2>1, <2>2, FirstLine DEF Feed!Deliver
<1>3. ASSUME NEW l \in Lines, PoolSends(l) PROVE Feed!Announce
  BY <1>3 DEF PoolSends, threadVars, Feed!Announce
<1>4. CASE RecvData BY <1>4 DEF RecvData
<1>5. CASE PoolSendsBlank BY <1>5 DEF PoolSendsBlank, threadVars
<1>6. CASE Quiet \/ Loses \/ Connects BY <1>6 DEF Quiet, Loses, Connects
<1>7. QED BY <1>1, <1>2, <1>3, <1>4, <1>5, <1>6, StepKinds

(* The receive loop hands the announced lines over in order, each once,    *)
(* whole, and none invented: for every pool, every size of read, every     *)
(* failure of the connection and every moment the program ends.            *)
THEOREM FeedImplemented == Spec => ImplementsLineFeed
<1>1. Init => Feed!FeedInit
  BY DEF Init, StratumInit, Feed!FeedInit
<1>2. FeedInv /\ [Next]_vars => FeedInv'
  BY FeedStep
<1>3. FeedInv /\ [Next]_vars => [Feed!FeedNext]_(Feed!feedVars)
  BY FeedSimulated
<1>4. QED BY <1>1, <1>2, <1>3, FeedInitially, PTL DEF Spec, ImplementsLineFeed, Feed!FeedSpec
=============================================================================
