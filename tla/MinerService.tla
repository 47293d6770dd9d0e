----------------------------- MODULE MinerService ----------------------------
(***************************************************************************)
(* The foreground service (MinerService.kt) under the rules by which       *)
(* Android runs one: intents and life-cycle calls reach it one at a time   *)
(* on the main thread, in the order they were sent; stopSelf() only asks   *)
(* for onDestroy(), and what was sent before still arrives first; a killed *)
(* process takes instance, lock and notification with it, and a service    *)
(* that was not stopped is started again, with the intents it had not      *)
(* handled or, if there are none, with a null intent (START_STICKY).       *)
(*                                                                         *)
(* isMining is the service's own flag; it starts no native miner.          *)
(***************************************************************************)
EXTENDS Integers, Sequences

CONSTANTS MaxQueue,     \* bound: messages waiting when a request is sent
          MaxDeaths     \* bound: how often the process dies

ASSUME ServiceAssumption == MaxQueue \in Nat /\ MaxDeaths \in Nat

(* ACTION_START and ACTION_STOP come from the view model, ACTION_STOP also *)
(* from the notification.  Nothing sends ACTION_PAUSE yet.                 *)
Requests == {"START", "STOP", "PAUSE"}
Messages == Requests \cup {"NULL", "CREATE", "DESTROY"}

VARIABLES
  queue,        \* what the main thread has still to do for the service
  up,           \* Android counts the service as started
  exists,       \* there is an instance
  isMining,     \* its isMining
  wakeLock,     \* its wakeLock: none, one that holds, one that does not
  locks,        \* how many locks of the process keep the CPU awake
  foreground,   \* the service is in the foreground, with its notification
  asked,        \* history: the last request
  deaths        \* history: how often the process died

systemVars == <<queue, up, foreground>>
lockVars == <<wakeLock, locks>>
historyVars == <<asked, deaths>>
vars == <<systemVars, exists, isMining, lockVars, historyVars>>

(* Every variable has its type; in particular no lock is released twice.   *)
TypeOK ==
  /\ queue \in Seq(Messages)
  /\ up \in BOOLEAN /\ exists \in BOOLEAN /\ isMining \in BOOLEAN
  /\ foreground \in BOOLEAN
  /\ wakeLock \in {"null", "held", "idle"}
  /\ locks \in Nat
  /\ asked \in Requests \cup {"nothing"}
  /\ deaths \in 0..MaxDeaths

Init ==
  /\ queue = << >> /\ up = FALSE /\ foreground = FALSE
  /\ exists = FALSE /\ isMining = FALSE
  /\ wakeLock = "null" /\ locks = 0
  /\ asked = "nothing" /\ deaths = 0

(* The instance has been stopped and waits for onDestroy().                *)
Has(m) == \E i \in DOMAIN queue : queue[i] = m
Doomed == Has("DESTROY")

-----------------------------------------------------------------------------
(* startForegroundService() and startService(): the first request creates  *)
(* the service.                                                            *)
Send(r) ==
  /\ Len(queue) < MaxQueue
  /\ queue' = queue \o (IF up THEN <<r>> ELSE <<"CREATE", r>>)
  /\ up' = TRUE
  /\ asked' = r
  /\ UNCHANGED <<foreground, exists, isMining, lockVars, deaths>>

(* acquireWakeLock(): whatever it throws is caught, before or after the    *)
(* field is set.                                                           *)
Acquire ==
  \/ wakeLock' = "held" /\ locks' = locks + 1
  \/ wakeLock' = "idle" /\ UNCHANGED locks
  \/ UNCHANGED lockVars

Release_KeepsReference ==                            \* mutant: no wakeLock = null
  /\ locks' = IF wakeLock = "held" THEN locks - 1 ELSE locks
  /\ UNCHANGED wakeLock

(* releaseWakeLock()                                                       *)
Release ==
  /\ locks' = IF wakeLock = "held" THEN locks - 1 ELSE locks
  /\ wakeLock' = "null"

(* stopSelf(): no effect on an instance that is stopped already, even if a *)
(* new one has been asked for.                                             *)
StopSelf ==
  /\ up' = (up /\ Doomed)
  /\ queue' = IF Doomed THEN Tail(queue) ELSE Append(Tail(queue), "DESTROY")

(* stopMining()                                                            *)
StopMining_WhenMining ==                             \* mutant: if (!isMining) return
  IF isMining
  THEN isMining' = FALSE /\ Release /\ foreground' = FALSE /\ StopSelf
  ELSE queue' = Tail(queue) /\ UNCHANGED <<up, foreground, isMining, lockVars>>

StopMining_KeepsService ==                           \* mutant: no stopSelf()
  /\ isMining' = FALSE
  /\ Release
  /\ foreground' = FALSE
  /\ queue' = Tail(queue) /\ UNCHANGED up

StopMining ==
  /\ isMining' = FALSE
  /\ Release
  /\ foreground' = FALSE
  /\ StopSelf

Handles(m) == queue # << >> /\ Head(queue) = m

OnCreate ==
  /\ Handles("CREATE")
  /\ queue' = Tail(queue)
  /\ exists' = TRUE /\ isMining' = FALSE /\ wakeLock' = "null"
  /\ UNCHANGED <<up, foreground, locks, historyVars>>

(* startMining(); a stopped instance cannot enter the foreground.          *)
OnStart_Again ==                                     \* mutant: no isMining test
  /\ Handles("START")
  /\ queue' = Tail(queue)
  /\ isMining' = TRUE /\ Acquire
  /\ foreground' = (foreground \/ ~Doomed)
  /\ UNCHANGED <<up, exists, historyVars>>

OnStart ==
  /\ Handles("START")
  /\ queue' = Tail(queue)
  /\ \/ isMining /\ UNCHANGED <<isMining, lockVars, foreground>>
     \/ /\ ~isMining
        /\ isMining' = TRUE /\ Acquire
        /\ foreground' = (foreground \/ ~Doomed)
  /\ UNCHANGED <<up, exists, historyVars>>

OnStop == Handles("STOP") /\ StopMining /\ UNCHANGED <<exists, historyVars>>

(* pauseMining(): the notification stays.                                  *)
OnPause ==
  /\ Handles("PAUSE")
  /\ queue' = Tail(queue)
  /\ isMining' = FALSE /\ Release
  /\ UNCHANGED <<up, foreground, exists, historyVars>>

OnNullIntent ==
  /\ Handles("NULL")
  /\ queue' = Tail(queue)
  /\ UNCHANGED <<up, foreground, exists, isMining, lockVars, historyVars>>

(* onDestroy() runs stopMining(), whose stopSelf() comes too late.         *)
OnDestroy ==
  /\ Handles("DESTROY")
  /\ StopMining
  /\ exists' = FALSE
  /\ UNCHANGED historyVars

MainThread == OnCreate \/ OnStart \/ OnStop \/ OnPause \/ OnNullIntent \/ OnDestroy

-----------------------------------------------------------------------------
(* The timeout of acquire(10 * 60 * 1000L).                                *)
LockExpires ==
  /\ wakeLock = "held"
  /\ wakeLock' = "idle" /\ locks' = locks - 1
  /\ UNCHANGED <<systemVars, exists, isMining, historyVars>>

(* What the service that is up has been sent and has not handled, but for  *)
(* the null intent of an earlier restart.                                  *)
Unhandled ==
  LET current == IF Has("CREATE")
                 THEN SubSeq(queue, (CHOOSE i \in DOMAIN queue : queue[i] = "CREATE") + 1,
                             Len(queue))
                 ELSE queue
  IN  IF current # << >> /\ Head(current) = "NULL" THEN Tail(current) ELSE current

ProcessDies ==
  /\ deaths < MaxDeaths
  /\ deaths' = deaths + 1
  /\ queue' = IF ~up THEN << >>
              ELSE <<"CREATE">> \o (IF Unhandled = << >> THEN <<"NULL">> ELSE Unhandled)
  /\ exists' = FALSE /\ isMining' = FALSE /\ foreground' = FALSE
  /\ wakeLock' = "null" /\ locks' = 0
  /\ UNCHANGED <<up, asked>>

Next == MainThread \/ LockExpires \/ ProcessDies \/ \E r \in Requests : Send(r)

Spec == Init /\ [][Next]_vars

(* The main looper handles what is in its queue.                           *)
FairSpec == Spec /\ WF_vars(MainThread)

-----------------------------------------------------------------------------
(* The CPU is kept awake by the service's one lock or not at all: no order *)
(* of requests, instances and deaths leaks a lock, and none is held while  *)
(* the service does not count itself as mining.                            *)
LockOnlyWhileMining ==
  locks = IF exists /\ isMining /\ wakeLock = "held" THEN 1 ELSE 0

(* A stop that was the last request leaves nothing behind once it has been *)
(* handled: no lock, no notification, no service for Android to restart,   *)
(* however it met earlier requests, a pause or a restarted process.        *)
StopIsFinal ==
  asked = "STOP" /\ queue = << >> => ~up /\ ~exists /\ locks = 0 /\ ~foreground

(* A stop that no other kind of request follows ends the instance that     *)
(* runs, though more stops may follow and each create a new one.           *)
StopCompletes == asked = "STOP" ~> (~exists \/ asked # "STOP")

-----------------------------------------------------------------------------
(* The lock is there as long as the service mines (MINING_IMPLEMENTATION:  *)
(* "WAKE_LOCK: Keep CPU active while mining").  It is taken for ten        *)
(* minutes, once, and nobody looks whether taking it failed.               *)
AwakeWhileMining == isMining => wakeLock = "held"
=============================================================================
