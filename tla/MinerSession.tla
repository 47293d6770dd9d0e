---------------------------- MODULE MinerSession ----------------------------
(***************************************************************************)
(* One run of the native miner: the thread that owns the RandomXMiner      *)
(* (main() in src/src/main.cpp; the JNI bridge makes the same calls), its  *)
(* mining threads, and the StratumClient whose receive thread calls back   *)
(* into the miner.  It follows the object from connect() through           *)
(* start_mining() and stop_mining() to the last member destroyed.          *)
(***************************************************************************)
EXTENDS StratumClient

CONSTANT NumThreads     \* config.num_threads; hardware_concurrency() may be 0

ASSUME NumThreadsAssumption == NumThreads \in Nat

Thread == 0..(NumThreads - 1)

VARIABLES
  opc,          \* where the owner is
  keepRunning,  \* keep_running, lowered by the signal handler
  minerRunning, \* RandomXMiner::m_running
  started,      \* m_mining_threads.size()
  mpc,          \* where each mining thread is
  rxVms,        \* m_rx_vms.size()
  minerJob,     \* RandomXMiner::m_current_job
  newJob,       \* m_new_job
  membersAlive  \* the members declared after m_stratum have not been destroyed

ownerVars == <<opc, keepRunning, minerRunning, started, rxVms, membersAlive>>
sessionVars == <<ownerVars, mpc, minerJob, newJob>>
vars == <<stratumVars, sessionVars>>

OwnerPc == {"connect", "login", "callbacks", "receive", "start", "spawn", "wait",
            "stop", "join", "dtor", "dtorJoin", "members",
            "stratumStop", "stratumJoin", "close", "done", "crashed"}

SessionTypeOK ==
  /\ opc \in OwnerPc
  /\ keepRunning \in BOOLEAN
  /\ minerRunning \in BOOLEAN
  /\ started \in 0..NumThreads
  /\ mpc \in [Thread -> {"unborn", "entry", "hashing", "exited"}]
  /\ rxVms \in Nat
  /\ minerJob \in Jobs
  /\ newJob \in BOOLEAN
  /\ membersAlive \in BOOLEAN

(* Every variable has its type.                                            *)
TypeOK == StratumTypeOK /\ SessionTypeOK

Init ==
  /\ StratumInit
  /\ opc = "connect"
  /\ keepRunning = TRUE
  /\ minerRunning = FALSE
  /\ started = 0
  /\ mpc = [t \in Thread |-> "unborn"]
  /\ rxVms = 0
  /\ minerJob = NoJob
  /\ newJob = FALSE
  /\ membersAlive = TRUE

-----------------------------------------------------------------------------
(* The owner, one step per call it makes or blocks in.                     *)

Step(from, to) == opc = from /\ opc' = to

OnlyStratum(from, to) ==
  /\ Step(from, to)
  /\ UNCHANGED <<keepRunning, minerRunning, started, rxVms, membersAlive,
                 mpc, minerJob, newJob>>

(* RandomXMiner::initialize(): only connect() can make it return false.    *)
InitConnect == \/ OnlyStratum("connect", "login") /\ Connect(TRUE)
               \/ OnlyStratum("connect", "dtor") /\ Connect(FALSE)

InitLogin == OnlyStratum("login", "callbacks") /\ Login

InitCallbacks == OnlyStratum("callbacks", "receive") /\ SetCallbacks

(* An exception from std::thread is caught outside the miner's scope: the  *)
(* miner is destroyed on the way.                                          *)
InitReceive == \/ OnlyStratum("receive", "start") /\ StartReceiveLoop(TRUE)
               \/ OnlyStratum("receive", "dtor") /\ StartReceiveLoop(FALSE)

StartMining ==
  /\ Step("start", "spawn")
  /\ minerRunning' = TRUE
  /\ UNCHANGED <<keepRunning, started, rxVms, membersAlive, mpc, minerJob, newJob,
                 stratumVars>>

SpawnThread_Unbounded ==                             \* mutant: no i < num_threads
  /\ Step("spawn", "spawn")
  /\ started <= NumThreads
  /\ mpc' = [mpc EXCEPT ![started] = "entry"]
  /\ started' = started + 1
  /\ UNCHANGED <<keepRunning, minerRunning, rxVms, membersAlive, minerJob, newJob,
                 stratumVars>>

SpawnThread ==
  /\ Step("spawn", "spawn")
  /\ started < NumThreads
  /\ mpc' = [mpc EXCEPT ![started] = "entry"]
  /\ started' = started + 1
  /\ UNCHANGED <<keepRunning, minerRunning, rxVms, membersAlive, minerJob, newJob,
                 stratumVars>>

SpawnThrows ==
  /\ started < NumThreads
  /\ OnlyStratum("spawn", "dtor")
  /\ UNCHANGED stratumVars

SpawnDone ==
  /\ started = NumThreads
  /\ OnlyStratum("spawn", "wait")
  /\ UNCHANGED stratumVars

(* The owner sleeps a second at a time until the flag is down.             *)
LeaveWait ==
  /\ ~keepRunning
  /\ OnlyStratum("wait", "stop")
  /\ UNCHANGED stratumVars

(* stop_mining(), called by the owner and again by the destructor.         *)
LowerRunning(from, to) ==
  /\ Step(from, to)
  /\ minerRunning' = FALSE
  /\ UNCHANGED <<keepRunning, started, rxVms, membersAlive, mpc, minerJob, newJob,
                 stratumVars>>

Joinable_NotLast(t) == t + 1 < started /\ mpc[t] # "exited"     \* mutant
Joinable(t) == t < started /\ mpc[t] # "exited"

JoinMining(from, to) ==
  /\ Step(from, to)
  /\ \A t \in Thread : ~Joinable(t)
  /\ started' = 0
  /\ UNCHANGED <<keepRunning, minerRunning, rxVms, membersAlive, mpc, minerJob, newJob,
                 stratumVars>>

StopMining == LowerRunning("stop", "join") \/ JoinMining("join", "dtor")

(* ~RandomXMiner(): stop_mining(), then the VMs, then the members from the *)
(* last declared to the first, so m_current_job and m_job_mutex go before  *)
(* m_stratum, whose own destructor stops the receive thread.               *)
DestroyMiner == LowerRunning("dtor", "dtorJoin") \/ JoinMining("dtorJoin", "members")

DestroyMembers ==
  /\ Step("members", "stratumStop")
  /\ membersAlive' = FALSE
  /\ rxVms' = 0
  /\ UNCHANGED <<keepRunning, minerRunning, started, mpc, minerJob, newJob, stratumVars>>

DestroyStratum == \/ OnlyStratum("stratumStop", "stratumJoin") /\ RequestStop
                  \/ OnlyStratum("stratumJoin", "close") /\ JoinReceiver
                  \/ OnlyStratum("close", "done") /\ CloseSocket

Owner == \/ InitConnect \/ InitLogin \/ InitCallbacks \/ InitReceive
         \/ StartMining \/ SpawnThread \/ SpawnThrows \/ SpawnDone
         \/ LeaveWait \/ StopMining \/ DestroyMiner \/ DestroyMembers \/ DestroyStratum
-----------------------------------------------------------------------------
(* The other threads.                                                      *)

(* mining_thread() returns at once when there is no VM for it.  Nothing in *)
(* the program calls initialize_randomx() before start_mining(), so        *)
(* m_rx_vms is empty here; the loop body is beyond this model.             *)
MiningEntry(t) ==
  /\ mpc[t] = "entry"
  /\ mpc' = [mpc EXCEPT ![t] = IF t >= rxVms THEN "exited" ELSE "hashing"]
  /\ UNCHANGED <<ownerVars, minerJob, newJob, stratumVars>>

OnNewJob_Coalesces ==                                \* mutant: keeps an untaken job
  /\ membersAlive
  /\ CallbackReturns
  /\ minerJob' = IF newJob THEN minerJob ELSE stratumJob
  /\ newJob' = TRUE
  /\ UNCHANGED <<ownerVars, mpc>>

(* The job callback: RandomXMiner::on_new_job().                           *)
OnNewJob ==
  /\ membersAlive
  /\ CallbackReturns
  /\ minerJob' = stratumJob
  /\ newJob' = TRUE
  /\ UNCHANGED <<ownerVars, mpc>>

(* The same call after m_job_mutex and m_current_job were destroyed is     *)
(* undefined: it scribbles over dead storage unnoticed ...                 *)
OnNewJobUnnoticed ==
  /\ ~membersAlive
  /\ CallbackReturns
  /\ UNCHANGED sessionVars

(* ... or takes the process down.                                          *)
OnNewJobCrashes ==
  /\ ~membersAlive
  /\ rpc = "callback" /\ rpc' = "exited"
  /\ opc' = "crashed"
  /\ fdOpen' = FALSE /\ connected' = FALSE
  /\ net' = "down" /\ wire' = << >>
  /\ UNCHANGED <<recvRunning, hasCallback, errno, buffer, line, stratumJob, delivered,
                 loginSeen, announced, blanks, mpc, minerJob, newJob,
                 keepRunning, minerRunning, started, rxVms, membersAlive>>

ReceiverOnly ==
  /\ \/ LoopTest \/ RecvData \/ RecvTimeout \/ RecvClosed \/ RecvReset
     \/ NextLine \/ NoMoreLines \/ HandleJob \/ IgnoreLine
  /\ UNCHANGED sessionVars

Receiver == ReceiverOnly \/ OnNewJob \/ OnNewJobUnnoticed \/ OnNewJobCrashes

PoolOnly == Pool /\ UNCHANGED sessionVars

Over == opc \in {"done", "crashed"}

(* SIGINT or SIGTERM, delivered to any thread; the receive thread's recv() *)
(* then fails with EINTR.                                                  *)
Signal ==
  /\ ~Over
  /\ keepRunning' = FALSE
  /\ UNCHANGED <<opc, minerRunning, started, rxVms, membersAlive, mpc, minerJob, newJob>>
  /\ \/ UNCHANGED stratumVars
     \/ RecvInterrupted

Terminated == Over /\ UNCHANGED vars

Next == \/ Owner \/ Receiver \/ PoolOnly \/ Signal \/ Terminated
        \/ \E t \in Thread : MiningEntry(t)

(* The operating system runs every runnable thread; connect(), send() and  *)
(* recv() return within their 30 second timeouts.  The pool, the network   *)
(* and the user owe nothing.                                               *)
Fairness == /\ WF_vars(Owner)
            /\ WF_vars(Receiver)
            /\ \A t \in Thread : WF_vars(MiningEntry(t))

Spec == Init /\ [][Next]_vars

FairSpec == Spec /\ Fairness

-----------------------------------------------------------------------------
(* The socket the receive thread reads is never closed under it, and the   *)
(* thread never runs before its callback is installed: stop() joins before *)
(* it closes, initialize() installs the callback before it starts the      *)
(* thread, and every way out of initialize() and start_mining() still goes *)
(* through the destructor.                                                 *)
SocketOutlivesReceiver == ReceiverAlive => fdOpen /\ hasCallback

(* No mining thread is left when the state it reads is destroyed, however  *)
(* far start_mining() got before an exception.                             *)
MiningJoinedBeforeDestroyed ==
  ~membersAlive => \A t \in Thread : mpc[t] \in {"unborn", "exited"}

(* The job is kept twice, in the client and in the miner, under two locks. *)
(* Outside the callback the copies are the same job.                       *)
JobCopiesAgree ==
  membersAlive /\ rpc # "callback" => minerJob = stratumJob

(* The receive loop implements the line feed, whatever the chunks recv()   *)
(* returns, and whenever the connection or the miner stops.                *)
Feed == INSTANCE LineFeed WITH Lines <- {<<l>> : l \in Lines}
ImplementsLineFeed == Feed!FeedSpec

(* A signal ends the program, also one that comes during initialize(),     *)
(* with a silent pool, or while the receive thread spins.                  *)
ShutdownCompletes == ~keepRunning ~> Over

(* Every announced line reaches handle_message, unless the connection      *)
(* breaks or the session ends first; no line stays behind in m_buffer      *)
(* waiting for the next read.                                              *)
SessionEnding == opc \notin {"connect", "login", "callbacks", "receive",
                             "start", "spawn", "wait"}
EveryLineHandled ==
  \A n \in 1..MaxLines :
    Len(announced) >= n ~> \/ Len(delivered) >= n
                           \/ net = "reset"
                           \/ ~keepRunning \/ SessionEnding

(* A broken connection is noticed, and so is an orderly close as long as   *)
(* no read has timed out yet.                                              *)
LossNoticed ==
  \/ net = "reset"
  \/ net = "closed" /\ errno # "EAGAIN"
  ~> ~connected

-----------------------------------------------------------------------------
(* What the documentation says and the code does not do.                   *)

(* An orderly close by the pool is noticed (MINING_IMPLEMENTATION.md:      *)
(* "Mining stops if connection lost").  After a read timeout errno still   *)
(* holds EAGAIN when recv() returns 0, and the loop spins.                 *)
CloseNoticed == net = "closed" ~> ~connected

(* Stopping is graceful: the job callback never runs on a miner whose      *)
(* members are gone.                                                       *)
NoCallbackOnDestroyedMiner == rpc = "callback" => membersAlive

(* A miner that started has a mining thread at work                        *)
(* (MINING_IMPLEMENTATION.md: "Multi-threaded mining").                    *)
StartedMinerMines ==
  opc = "wait" /\ NumThreads > 0 => \E t \in Thread : mpc[t] \in {"entry", "hashing"}
=============================================================================
