---------------------------- MODULE StratumClient ---------------------------
(***************************************************************************)
(* The pool connection (src/src/stratum_client.cpp): the socket, the       *)
(* receive thread that reads it, splits it into lines and runs the job     *)
(* callback, and the pool at the other end.                                *)
(*                                                                         *)
(* The byte stream is a sequence of tokens: a line's text is one token and *)
(* '\n' is another, so a read may end between a text and its terminator.   *)
(* The operations are actions here; MinerSession says which thread calls   *)
(* them and when, and what the callback does.                              *)
(***************************************************************************)
EXTENDS Integers, Sequences, FiniteSets

CONSTANTS JobLines,     \* lines that mention both "method" and "job"
          OtherLines,   \* login replies, share replies, keepalives
          RecvMax,      \* tokens one recv() may return (65535 bytes)
          MaxLines,     \* bound: lines the pool sends in a behaviour
          MaxBlank      \* bound: blank lines the pool sends in a behaviour

Lines == JobLines \cup OtherLines

NL    == "newline"

ASSUME LinesAssumption == NL \notin Lines
ASSUME BoundAssumption == /\ RecvMax \in Nat \ {0}
                          /\ MaxLines \in Nat
                          /\ MaxBlank \in Nat

VARIABLES
  fdOpen,       \* m_socket_fd >= 0
  connected,    \* m_connected
  recvRunning,  \* StratumClient::m_running
  hasCallback,  \* m_job_callback is set
  rpc,          \* where the receive thread is
  errno,        \* the receive thread's errno
  buffer,       \* m_buffer
  line,         \* the line cut off m_buffer, while it is handled
  stratumJob,   \* StratumClient::m_current_job
  net,          \* the connection as the kernel sees it
  loginSeen,    \* the pool has received the login request
  wire,         \* tokens sent by the pool and not yet returned by recv()
  announced,    \* history: non-empty lines the pool sent
  blanks,       \* history: how many blank lines it sent
  delivered     \* history: lines given to handle_message

apiVars    == <<fdOpen, connected, recvRunning, hasCallback>>
threadVars == <<rpc, errno, buffer, line, stratumJob, delivered>>
netVars    == <<net, loginSeen, wire, announced, blanks>>
stratumVars == <<apiVars, threadVars, netVars>>

ReceiverAlive == rpc \notin {"unborn", "exited"}

(* handle_message stores constants, whatever the line says, and an empty   *)
(* blob like that of a default-constructed MiningJob; only received_time   *)
(* tells two jobs apart.                                                   *)
BlankJob(time) == [blob |-> "", receivedTime |-> time]
NoJob == BlankJob(0)

Token == Lines \cup {NL}
Jobs  == [blob : {""}, receivedTime : Nat]

StratumTypeOK ==
  /\ fdOpen \in BOOLEAN
  /\ connected \in BOOLEAN
  /\ recvRunning \in BOOLEAN
  /\ hasCallback \in BOOLEAN
  /\ rpc \in {"unborn", "check", "recv", "parse", "dispatch", "callback", "exited"}
  /\ errno \in {"zero", "EAGAIN", "ECONNRESET", "EINTR"}
  /\ buffer \in Seq(Token)
  /\ line \in Seq(Token)
  /\ stratumJob \in Jobs
  /\ net \in {"down", "up", "closed", "reset"}
  /\ loginSeen \in BOOLEAN
  /\ wire \in Seq(Token)
  /\ announced \in Seq(Seq(Lines))
  /\ blanks \in Nat
  /\ delivered \in Seq(Seq(Token))

StratumInit ==
  /\ fdOpen = FALSE /\ connected = FALSE
  /\ recvRunning = FALSE /\ hasCallback = FALSE
  /\ rpc = "unborn" /\ errno = "zero"
  /\ buffer = << >> /\ line = << >>
  /\ stratumJob = NoJob /\ delivered = << >>
  /\ net = "down" /\ loginSeen = FALSE
  /\ wire = << >> /\ announced = << >> /\ blanks = 0

-----------------------------------------------------------------------------
(* The calls the owner makes.                                              *)

(* connect(): every failure closes what it opened.                         *)
Connect(ok) ==
  /\ fdOpen' = ok /\ connected' = ok
  /\ net' = IF ok THEN "up" ELSE net
  /\ UNCHANGED <<recvRunning, hasCallback, threadVars,
                 loginSeen, wire, announced, blanks>>

(* login() ignores what send() returns, and so reports success whether or  *)
(* not the request reaches the pool.                                       *)
Login ==
  /\ \E arrives \in (IF net = "up" THEN BOOLEAN ELSE {FALSE}) : loginSeen' = arrives
  /\ UNCHANGED <<apiVars, threadVars, net, wire, announced, blanks>>

SetCallbacks ==
  /\ hasCallback' = TRUE
  /\ UNCHANGED <<fdOpen, connected, recvRunning, threadVars, netVars>>

(* start_receive_loop() raises m_running before it creates the thread;     *)
(* std::thread may throw.                                                  *)
StartReceiveLoop(created) ==
  /\ recvRunning' = TRUE
  /\ rpc' = IF created THEN "check" ELSE rpc
  /\ UNCHANGED <<fdOpen, connected, hasCallback,
                 errno, buffer, line, stratumJob, delivered, netVars>>

(* stop(), in its three steps: lower the flag, join, close.                *)
RequestStop ==
  /\ recvRunning' = FALSE
  /\ UNCHANGED <<fdOpen, connected, hasCallback, threadVars, netVars>>

JoinReceiver_Detaches == UNCHANGED stratumVars       \* mutant: does not wait

JoinReceiver ==
  /\ ~ReceiverAlive
  /\ UNCHANGED stratumVars

CloseSocket ==
  /\ fdOpen' = FALSE /\ connected' = FALSE
  /\ net' = "down" /\ wire' = << >>
  /\ UNCHANGED <<recvRunning, hasCallback, threadVars, loginSeen, announced, blanks>>

-----------------------------------------------------------------------------
(* The receive thread.  Mutexes are not modelled: m_job_mutex of either    *)
(* object is only ever taken by this thread in the program as built.       *)

LoopTest ==
  /\ rpc = "check"
  /\ rpc' = IF recvRunning THEN "recv" ELSE "exited"
  /\ UNCHANGED <<apiVars, errno, buffer, line, stratumJob, delivered, netVars>>

(* recv() > 0: some prefix of what has arrived, appended to m_buffer.      *)
(* A successful call leaves errno alone.                                   *)
RecvData ==
  /\ rpc = "recv"
  /\ \E n \in 1..RecvMax :
        /\ n <= Len(wire)
        /\ buffer' = buffer \o SubSeq(wire, 1, n)
        /\ wire' = SubSeq(wire, n + 1, Len(wire))
  /\ rpc' = "parse"
  /\ UNCHANGED <<apiVars, errno, line, stratumJob, delivered,
                 net, loginSeen, announced, blanks>>

(* What the loop does with a result <= 0: it asks errno whatever the       *)
(* result was.                                                             *)
Retries_OnAnyError(e) == e # "zero"                  \* mutant
Retries(e) == e = "EAGAIN"

RecvFails(e) ==
  /\ rpc = "recv"
  /\ errno' = e
  /\ rpc' = IF Retries(e) THEN "check" ELSE "exited"
  /\ connected' = IF Retries(e) THEN connected ELSE FALSE
  /\ UNCHANGED <<fdOpen, recvRunning, hasCallback,
                 buffer, line, stratumJob, delivered, netVars>>

(* SO_RCVTIMEO: 30 seconds without data.                                   *)
TimesOut_Never == FALSE                              \* mutant: no SO_RCVTIMEO
TimesOut == net = "up" /\ wire = << >>
RecvTimeout == TimesOut /\ RecvFails("EAGAIN")

(* An orderly close makes recv() return 0 and does not touch errno: the    *)
(* value of the last failed call decides.                                  *)
RecvClosed == net = "closed" /\ wire = << >> /\ RecvFails(errno)

RecvReset == net = "reset" /\ wire = << >> /\ RecvFails("ECONNRESET")

(* With SO_RCVTIMEO set, recv() is not restarted after a signal handler.   *)
RecvInterrupted == net = "up" /\ wire = << >> /\ RecvFails("EINTR")

NextLine_LastNewline ==                              \* mutant: rfind('\n')
  /\ rpc = "parse"
  /\ \E pos \in DOMAIN buffer :
        /\ buffer[pos] = NL
        /\ \A i \in (pos + 1)..Len(buffer) : buffer[i] # NL
        /\ buffer' = SubSeq(buffer, pos + 1, Len(buffer))
        /\ line' = SubSeq(buffer, 1, pos - 1)
        /\ rpc' = "dispatch"
        /\ delivered' = Append(delivered, line')
  /\ UNCHANGED <<apiVars, errno, stratumJob, netVars>>

(* m_buffer.find('\n'), substr, erase: the first line leaves the buffer;   *)
(* an empty one is dropped.                                                *)
NextLine ==
  /\ rpc = "parse"
  /\ \E pos \in DOMAIN buffer :
        /\ buffer[pos] = NL
        /\ \A i \in 1..(pos - 1) : buffer[i] # NL
        /\ buffer' = SubSeq(buffer, pos + 1, Len(buffer))
        /\ line' = SubSeq(buffer, 1, pos - 1)
        /\ rpc' = IF pos = 1 THEN "parse" ELSE "dispatch"
        /\ delivered' = IF pos = 1 THEN delivered
                                   ELSE Append(delivered, SubSeq(buffer, 1, pos - 1))
  /\ UNCHANGED <<apiVars, errno, stratumJob, netVars>>

NoMoreLines_AfterOne ==                              \* mutant: `if`, not `while`
  /\ rpc = "parse"
  /\ rpc' = "check"
  /\ UNCHANGED <<apiVars, errno, buffer, line, stratumJob, delivered, netVars>>

NoMoreLines ==
  /\ rpc = "parse"
  /\ \A i \in DOMAIN buffer : buffer[i] # NL
  /\ rpc' = "check"
  /\ UNCHANGED <<apiVars, errno, buffer, line, stratumJob, delivered, netVars>>

(* handle_message looks for the two words anywhere in the line.            *)
IsJob(l) == \E i \in DOMAIN l : l[i] \in JobLines

HandleJob ==
  /\ rpc = "dispatch"
  /\ IsJob(line)
  /\ stratumJob' = BlankJob(Len(delivered))
  /\ rpc' = IF hasCallback THEN "callback" ELSE "parse"
  /\ line' = << >>
  /\ UNCHANGED <<apiVars, errno, buffer, delivered, netVars>>

IgnoreLine ==
  /\ rpc = "dispatch"
  /\ ~IsJob(line)
  /\ rpc' = "parse"
  /\ line' = << >>
  /\ UNCHANGED <<apiVars, errno, buffer, stratumJob, delivered, netVars>>

(* The callback returns to the line loop.                                  *)
CallbackReturns ==
  /\ rpc = "callback"
  /\ rpc' = "parse"
  /\ UNCHANGED <<apiVars, errno, buffer, line, stratumJob, delivered, netVars>>

-----------------------------------------------------------------------------
(* The pool and the network between.                                       *)

PoolSends(l) ==
  /\ net = "up" /\ loginSeen
  /\ Len(announced) < MaxLines
  /\ announced' = Append(announced, <<l>>)
  /\ wire' = wire \o <<l, NL>>
  /\ UNCHANGED <<apiVars, threadVars, net, loginSeen, blanks>>

PoolSendsBlank ==
  /\ net = "up" /\ loginSeen
  /\ blanks < MaxBlank
  /\ blanks' = blanks + 1
  /\ wire' = Append(wire, NL)
  /\ UNCHANGED <<apiVars, threadVars, net, loginSeen, announced>>

PoolCloses ==
  /\ net = "up"
  /\ net' = "closed"
  /\ UNCHANGED <<apiVars, threadVars, loginSeen, wire, announced, blanks>>

(* A broken connection loses any suffix of what had not yet arrived.       *)
ConnectionBreaks ==
  /\ net = "up"
  /\ net' = "reset"
  /\ \E n \in 0..Len(wire) : wire' = SubSeq(wire, 1, n)
  /\ UNCHANGED <<apiVars, threadVars, loginSeen, announced, blanks>>

Pool == \/ \E l \in Lines : PoolSends(l)
        \/ PoolSendsBlank \/ PoolCloses \/ ConnectionBreaks
=============================================================================
