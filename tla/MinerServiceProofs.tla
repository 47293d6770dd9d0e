------------------------- MODULE MinerServiceProofs --------------------------
(***************************************************************************)
(* Theorems about MinerService for every length of its queue and every     *)
(* number of process deaths: type correctness and the two safety           *)
(* invariants, from one inductive invariant on what is queued.             *)
(***************************************************************************)
EXTENDS MinerService, SequenceTheorems, TLAPS

(* What is queued: messages that change the instance come once at most.    *)
OneEach ==
  \A i, j \in 1..Len(queue) :
    queue[i] = queue[j] /\ queue[i] \in {"CREATE", "DESTROY"} => i = j

(* Nothing reaches an instance before CREATE, or is left for one after     *)
(* DESTROY but its successor's CREATE.                                     *)
CreatedFirst == ~exists /\ queue # << >> => queue[1] = "CREATE"
NotDestroyedTwice == ~exists => \A i \in 1..Len(queue) : queue[i] # "DESTROY"
CreatedAfter ==
  exists => \A i \in 1..Len(queue) :
              queue[i] = "CREATE" => i > 1 /\ queue[i - 1] = "DESTROY"
DestroyedLast ==
  \A i \in 1..Len(queue) :
    queue[i] = "DESTROY" => IF i = Len(queue) THEN ~up ELSE queue[i + 1] = "CREATE"

(* A null intent is the first that an instance gets.                       *)
NullFirst == \A i \in 1..Len(queue) : queue[i] = "NULL" => i = 1 \/ queue[i - 1] = "CREATE"

(* The service is up while it has an instance that is not stopped, or is   *)
(* to get one; then a last stop is queued last.                            *)
UpMeans  == up <=> (exists /\ ~Doomed) \/ Has("CREATE")
StopLast == asked = "STOP" /\ up => queue # << >> /\ queue[Len(queue)] = "STOP"

QueueInv ==
  /\ OneEach /\ CreatedFirst /\ NotDestroyedTwice /\ CreatedAfter
  /\ DestroyedLast /\ NullFirst /\ UpMeans /\ StopLast

ServiceInv ==
  /\ TypeOK /\ QueueInv
  /\ foreground => exists
  /\ wakeLock = "held" => exists /\ isMining
  /\ LockOnlyWhileMining

USE DEF systemVars, lockVars, historyVars, Has, Doomed

-----------------------------------------------------------------------------
(* The queue.                                                              *)

(* The neighbours of a position.                                           *)
LEMMA Neighbours ==
  ASSUME NEW n \in Nat, NEW i \in 1..n
  PROVE  /\ i # n => i + 1 \in 1..n /\ i \in 1..(n - 1)
         /\ i # 1 => i - 1 \in 1..n /\ i - 1 \in 1..(n - 1)
         /\ i + 1 # 1 /\ (i + 1) - 1 = i /\ (i - 1) + 1 = i
OBVIOUS

LEMMA NoMessage == ASSUME NEW q \in Seq(Messages) PROVE q = << >> <=> Len(q) = 0
OBVIOUS

(* What follows a message.                                                 *)
LEMMA Suffix ==
  ASSUME NEW q \in Seq(Messages), NEW k \in 1..Len(q)
  PROVE  /\ SubSeq(q, k + 1, Len(q)) \in Seq(Messages)
         /\ Len(SubSeq(q, k + 1, Len(q))) = Len(q) - k
         /\ \A i \in 1..(Len(q) - k) : SubSeq(q, k + 1, Len(q))[i] = q[k + i]
<1> DEFINE n == Len(q)
           t == SubSeq(q, k + 1, n)
<1>1. n \in Nat /\ k + 1 \in Int /\ \A i \in (k + 1)..n : q[i] \in Messages OBVIOUS
<1>2. /\ t \in Seq(Messages) /\ Len(t) = IF k + 1 <= n THEN n - (k + 1) + 1 ELSE 0
      /\ \A i \in 1..(n - (k + 1) + 1) : t[i] = q[(k + 1) + i - 1]
  BY <1>1, SubSeqProperties
<1> HIDE DEF t
<1>3. n - (k + 1) + 1 = n - k BY <1>1
<1>4. \A i \in 1..(n - k) : (k + 1) + i - 1 = k + i BY <1>1
<1>5. Len(t) = n - k BY <1>1, <1>2
<1>6. QED BY <1>2, <1>3, <1>4, <1>5 DEF t

(* What is left behind the first message.                                  *)
LEMMA Rest ==
  ASSUME NEW q \in Seq(Messages), q # << >>
  PROVE  /\ Tail(q) \in Seq(Messages)
         /\ Len(q) \in Nat /\ Len(q) >= 1 /\ Len(Tail(q)) = Len(q) - 1
         /\ DOMAIN q = 1..Len(q) /\ DOMAIN Tail(q) = 1..(Len(q) - 1)
         /\ Head(q) = q[1]
         /\ \A i \in 1..(Len(q) - 1) : Tail(q)[i] = q[i + 1]
         /\ Tail(q) = << >> <=> Len(q) = 1
<1>1. Tail(q) \in Seq(Messages) /\ Len(q) \in Nat /\ Len(q) >= 1 OBVIOUS
<1>2. Len(Tail(q)) = Len(q) - 1 OBVIOUS
<1>3. \A i \in 1..(Len(q) - 1) : Tail(q)[i] = q[i + 1] OBVIOUS
<1>4. Tail(q) = << >> <=> Len(Tail(q)) = 0 BY <1>1, NoMessage
<1>5. QED BY <1>1, <1>2, <1>3, <1>4

(* A message that goes takes no CREATE or DESTROY with it but itself.      *)
LEMMA StillQueued ==
  ASSUME queue \in Seq(Messages), queue # << >>, queue' = Tail(queue),
         NEW m, m # queue[1]
  PROVE  Has(m)' <=> Has(m)
<1> DEFINE n == Len(queue)
<1>1. /\ n \in Nat /\ DOMAIN queue = 1..n /\ DOMAIN queue' = 1..(n - 1)
      /\ \A i \in 1..(n - 1) : i + 1 \in 1..n /\ queue'[i] = queue[i + 1]
  BY Rest
<1>2. Has(m)' => Has(m) BY <1>1
<1>3. Has(m) => Has(m)'
  <2> SUFFICES ASSUME NEW i \in 1..n, queue[i] = m PROVE Has(m)' BY <1>1
  <2>1. i - 1 \in 1..(n - 1) /\ (i - 1) + 1 = i BY <1>1
  <2>2. queue'[i - 1] = m BY <1>1, <2>1
  <2>3. QED BY <1>1, <2>1, <2>2
<1>4. QED BY <1>2, <1>3

(* What holds of every position holds one further on.                      *)
LEMMA Shifts ==
  ASSUME ServiceInv, queue # << >>, queue' = Tail(queue), up' = up
  PROVE  /\ OneEach' /\ DestroyedLast' /\ NullFirst'
         /\ \A i \in 1..Len(queue') :
              exists /\ queue'[i] = "CREATE" =>
                /\ i > 1 => queue'[i - 1] = "DESTROY"
                /\ i = 1 => queue[1] = "DESTROY"
<1> DEFINE n == Len(queue)
<1>1. /\ n \in Nat /\ n >= 1 /\ Len(queue') = n - 1
      /\ \A i \in 1..(n - 1) : i + 1 \in 1..n /\ queue'[i] = queue[i + 1]
  BY Rest DEF ServiceInv, TypeOK
<1>2. OneEach'
  <2> SUFFICES ASSUME NEW i \in 1..(n - 1), NEW j \in 1..(n - 1),
                      queue'[i] = queue'[j], queue'[i] \in {"CREATE", "DESTROY"}
               PROVE  i = j
    BY <1>1 DEF OneEach
  <2>1. i + 1 = j + 1 BY <1>1 DEF ServiceInv, QueueInv, OneEach
  <2>2. QED BY <1>1, <2>1
<1>3. DestroyedLast'
  <2> SUFFICES ASSUME NEW i \in 1..(n - 1), queue'[i] = "DESTROY"
               PROVE  IF i = n - 1 THEN ~up ELSE queue'[i + 1] = "CREATE"
    BY <1>1 DEF DestroyedLast
  <2>1. IF i + 1 = n THEN ~up ELSE queue[(i + 1) + 1] = "CREATE"
    BY <1>1 DEF ServiceInv, QueueInv, DestroyedLast
  <2>2. n - 1 \in Nat BY <1>1
  <2>3. i # n - 1 => i + 1 \in 1..(n - 1) BY <2>2, Neighbours
  <2>4. i + 1 = n <=> i = n - 1 BY <2>2
  <2>5. QED BY <1>1, <2>1, <2>3, <2>4
<1>4. NullFirst'
  <2> SUFFICES ASSUME NEW i \in 1..(n - 1), queue'[i] = "NULL", i # 1
               PROVE  queue'[i - 1] = "CREATE"
    BY <1>1 DEF NullFirst
  <2>1. queue[(i + 1) - 1] = "CREATE" BY <1>1 DEF ServiceInv, QueueInv, NullFirst
  <2>2. i - 1 \in 1..(n - 1) /\ (i - 1) + 1 = i /\ (i + 1) - 1 = i BY <1>1
  <2>3. QED BY <1>1, <2>1, <2>2
<1>5. ASSUME NEW i \in 1..(n - 1), exists, queue'[i] = "CREATE"
      PROVE  /\ i > 1 => queue'[i - 1] = "DESTROY"
             /\ i = 1 => queue[1] = "DESTROY"
  <2>1. queue[(i + 1) - 1] = "DESTROY"
    BY <1>1, <1>5 DEF ServiceInv, QueueInv, CreatedAfter
  <2>2. i > 1 => i - 1 \in 1..(n - 1) /\ (i - 1) + 1 = i BY <1>1
  <2>3. (i + 1) - 1 = i BY <1>1
  <2>4. QED BY <1>1, <2>1, <2>2, <2>3
<1>6. QED BY <1>1, <1>2, <1>3, <1>4, <1>5

(* The last message stays the last.                                        *)
LEMMA LastStays ==
  ASSUME ServiceInv, queue # << >>, queue' = Tail(queue), asked = "STOP", up,
         queue[1] # "STOP" \/ Len(queue) # 1
  PROVE  queue' # << >> /\ queue'[Len(queue')] = "STOP"
<1> DEFINE n == Len(queue)
<1>1. /\ n \in Nat /\ n >= 1 /\ Len(queue') = n - 1
      /\ \A i \in 1..(n - 1) : queue'[i] = queue[i + 1]
      /\ queue' = << >> <=> n = 1
  BY Rest DEF ServiceInv, TypeOK
<1>2. queue[n] = "STOP" BY DEF ServiceInv, QueueInv, StopLast
<1>3. n # 1 BY <1>2
<1>4. n - 1 \in 1..(n - 1) /\ (n - 1) + 1 = n BY <1>1, <1>3
<1>5. QED BY <1>1, <1>2, <1>3, <1>4

(* The instance handles an intent and stays what it is.                    *)
LEMMA Handled ==
  ASSUME ServiceInv, queue # << >>, queue' = Tail(queue),
         UNCHANGED <<up, exists, asked>>,
         queue[1] \notin {"CREATE", "DESTROY"},
         queue[1] = "STOP" => Doomed
  PROVE  QueueInv' /\ exists
<1>1. exists BY DEF ServiceInv, QueueInv, CreatedFirst
<1>2. queue \in Seq(Messages) BY DEF ServiceInv, TypeOK
<1>3. (Doomed' <=> Doomed) /\ (Has("CREATE")' <=> Has("CREATE"))
  BY <1>2, StillQueued
<1>4. OneEach' /\ DestroyedLast' /\ NullFirst' BY Shifts
<1>5. CreatedAfter'
  <2>1. \A i \in 1..Len(queue') :
          queue'[i] = "CREATE" => (i > 1 => queue'[i - 1] = "DESTROY") /\ i # 1
    BY <1>1, Shifts
  <2>2. Len(queue') \in Nat BY <1>2, Rest
  <2>3. QED BY <2>1, <2>2 DEF CreatedAfter
<1>6. UpMeans' BY <1>3 DEF ServiceInv, QueueInv, UpMeans
<1>7. StopLast'
  <2> SUFFICES ASSUME asked = "STOP", up PROVE queue' # << >> /\ queue'[Len(queue')] = "STOP"
    BY DEF StopLast
  <2>1. queue[1] = "STOP" => Len(queue) # 1
    <3> SUFFICES ASSUME queue[1] = "STOP", Len(queue) = 1, Doomed PROVE FALSE OBVIOUS
    <3>1. DOMAIN queue = 1..1 BY <1>2
    <3>2. QED BY <3>1
  <2>2. QED BY <2>1, LastStays
<1>8. CreatedFirst' /\ NotDestroyedTwice'
  BY <1>1 DEF CreatedFirst, NotDestroyedTwice
<1>9. QED BY <1>1, <1>4, <1>5, <1>6, <1>7, <1>8 DEF QueueInv

(* An instance that was not stopped and asks to be: it is destroyed after  *)
(* what it has been sent.                                                  *)
LEMMA Stopped ==
  ASSUME ServiceInv, queue # << >>, ~Doomed, exists,
         queue' = Append(Tail(queue), "DESTROY"), up' = FALSE, UNCHANGED <<exists, asked>>,
         Head(queue) # "NULL"
  PROVE  QueueInv' /\ queue' \in Seq(Messages)
<1> DEFINE n == Len(queue)
<1>1. /\ n \in Nat /\ n >= 1 /\ DOMAIN queue = 1..n /\ Head(queue) = queue[1]
      /\ Tail(queue) \in Seq(Messages) /\ Len(Tail(queue)) = n - 1
      /\ \A i \in 1..(n - 1) : i + 1 \in 1..n /\ Tail(queue)[i] = queue[i + 1]
  BY Rest DEF ServiceInv, TypeOK
<1>2. "DESTROY" \in Messages BY DEF Messages
<1>3. /\ queue' \in Seq(Messages) /\ Len(queue') = n /\ DOMAIN queue' = 1..n
      /\ \A i \in 1..(n - 1) : queue'[i] = queue[i + 1]
      /\ queue'[n] = "DESTROY"
  BY <1>1, <1>2
<1>4. \A i \in 1..n : queue[i] \notin {"CREATE", "DESTROY"}
  <2>1. \A i \in 1..n : queue[i] # "DESTROY" BY <1>1
  <2>2. ASSUME NEW i \in 1..n, queue[i] = "CREATE" PROVE FALSE
    <3>1. i > 1 /\ queue[i - 1] = "DESTROY" BY <2>2 DEF ServiceInv, QueueInv, CreatedAfter
    <3>2. i - 1 \in 1..n BY <1>1, <3>1
    <3>3. QED BY <2>1, <3>1, <3>2
  <2>3. QED BY <2>1, <2>2
<1>5. \A i \in 1..n : queue'[i] \in {"CREATE", "DESTROY"} => i = n
  <2> SUFFICES ASSUME NEW i \in 1..(n - 1) PROVE queue'[i] \notin {"CREATE", "DESTROY"}
    BY <1>1, Neighbours
  <2>1. i + 1 \in 1..n /\ queue'[i] = queue[i + 1] BY <1>1, <1>3
  <2>2. QED BY <1>4, <2>1
<1>6. \A i \in 1..(n - 1) : queue'[i] # "NULL"
  <2> SUFFICES ASSUME NEW i \in 1..(n - 1), queue'[i] = "NULL" PROVE FALSE OBVIOUS
  <2>1. queue[i + 1] = "NULL" /\ i + 1 \in 1..n BY <1>1, <1>3
  <2>2. queue[(i + 1) - 1] = "CREATE"
    BY <1>1, <2>1 DEF ServiceInv, QueueInv, NullFirst
  <2>3. i \in 1..n /\ (i + 1) - 1 = i BY <1>1
  <2>4. QED BY <1>4, <2>2, <2>3
<1>7. (\E i \in DOMAIN queue' : queue'[i] = "DESTROY")
      /\ ~(\E i \in DOMAIN queue' : queue'[i] = "CREATE")
  <2>1. n \in DOMAIN queue' /\ queue'[n] = "DESTROY" BY <1>1, <1>3
  <2>2. QED BY <1>3, <1>5, <2>1
<1>8. OneEach' BY <1>3, <1>5 DEF OneEach
<1>9. CreatedAfter' BY <1>3, <1>7 DEF CreatedAfter
<1>10. DestroyedLast' BY <1>3, <1>5 DEF DestroyedLast
<1>11. NullFirst'
  <2>1. \A i \in 1..n : i \in 1..(n - 1) \/ i = n BY <1>1, Neighbours
  <2>2. \A i \in 1..n : queue'[i] # "NULL" BY <1>3, <1>6, <2>1
  <2>3. QED BY <1>3, <2>2 DEF NullFirst
<1>12. UpMeans' BY <1>7 DEF UpMeans
<1>13. CreatedFirst' /\ NotDestroyedTwice' /\ StopLast'
  BY DEF CreatedFirst, NotDestroyedTwice, StopLast
<1>14. QED BY <1>3, <1>8, <1>9, <1>10, <1>11, <1>12, <1>13 DEF QueueInv

-----------------------------------------------------------------------------
(* Every step keeps the invariant.                                         *)

(* A request to a service that is up goes behind all others.               *)
LEMMA SendToUp ==
  ASSUME ServiceInv, NEW r \in Requests, Send(r), up
  PROVE  QueueInv'
<1> DEFINE n == Len(queue)
<1>1. /\ n \in Nat /\ DOMAIN queue = 1..n /\ DOMAIN queue' = 1..(n + 1)
      /\ Len(queue') = n + 1
      /\ \A i \in 1..n : queue'[i] = queue[i]
      /\ queue'[n + 1] = r
      /\ up' = up /\ exists' = exists /\ asked' = r
  BY DEF ServiceInv, TypeOK, Send, Requests, Messages
<1>2. r \notin {"CREATE", "DESTROY", "NULL"} BY DEF Requests
<1>3. \A i \in 1..(n + 1) : i \in 1..n \/ i = n + 1 BY <1>1
<1>4. OneEach' BY <1>1, <1>2, <1>3 DEF ServiceInv, QueueInv, OneEach
<1>5. NotDestroyedTwice'
  BY <1>1, <1>2, <1>3 DEF ServiceInv, QueueInv, NotDestroyedTwice
<1>6. CreatedFirst'
  <2>1. ~exists => Has("CREATE") BY DEF ServiceInv, QueueInv, UpMeans
  <2>2. ~exists => n >= 1 /\ queue # << >> BY <1>1, <2>1
  <2>3. QED BY <1>1, <2>2 DEF ServiceInv, QueueInv, CreatedFirst
<1>7. CreatedAfter'
  <2> SUFFICES ASSUME exists, NEW i \in 1..(n + 1), queue'[i] = "CREATE"
               PROVE  i > 1 /\ queue'[i - 1] = "DESTROY"
    BY <1>1 DEF CreatedAfter
  <2>1. i \in 1..n /\ queue[i] = "CREATE" BY <1>1, <1>2, <1>3
  <2>2. i > 1 /\ queue[i - 1] = "DESTROY"
    BY <2>1 DEF ServiceInv, QueueInv, CreatedAfter
  <2>3. i - 1 \in 1..n BY <1>1, <2>1, <2>2
  <2>4. QED BY <1>1, <2>2, <2>3
<1>8. DestroyedLast'
  <2> SUFFICES ASSUME NEW i \in 1..(n + 1), queue'[i] = "DESTROY"
               PROVE  i # n + 1 /\ queue'[i + 1] = "CREATE"
    BY <1>1 DEF DestroyedLast
  <2>1. i \in 1..n /\ queue[i] = "DESTROY" /\ i # n + 1 BY <1>1, <1>2, <1>3
  <2>2. i # n /\ queue[i + 1] = "CREATE"
    BY <2>1 DEF ServiceInv, QueueInv, DestroyedLast
  <2>3. i + 1 \in 1..n BY <1>1, <2>1, <2>2, Neighbours
  <2>4. QED BY <1>1, <2>1, <2>2, <2>3
<1>9. NullFirst'
  <2> SUFFICES ASSUME NEW i \in 1..(n + 1), queue'[i] = "NULL", i # 1
               PROVE  queue'[i - 1] = "CREATE"
    BY <1>1 DEF NullFirst
  <2>1. i \in 1..n /\ queue[i - 1] = "CREATE"
    BY <1>1, <1>2, <1>3 DEF ServiceInv, QueueInv, NullFirst
  <2>2. i - 1 \in 1..n BY <1>1, <2>1
  <2>3. QED BY <1>1, <2>1, <2>2
<1>10. \A m \in {"CREATE", "DESTROY"} : Has(m)' <=> Has(m)
  BY <1>1, <1>2, <1>3
<1>11. UpMeans' BY <1>1, <1>10 DEF ServiceInv, QueueInv, UpMeans
<1>12. StopLast' BY <1>1 DEF StopLast
<1>13. QED BY <1>4, <1>5, <1>6, <1>7, <1>8, <1>9, <1>11, <1>12 DEF QueueInv

(* A request to a service that is not has it created first, behind what a  *)
(* stopped instance still gets.                                            *)
LEMMA SendToDown ==
  ASSUME ServiceInv, NEW r \in Requests, Send(r), ~up
  PROVE  QueueInv'
<1> DEFINE n == Len(queue)
<1>1. /\ n \in Nat /\ DOMAIN queue = 1..n /\ DOMAIN queue' = 1..(n + 2)
      /\ Len(queue') = n + 2
      /\ \A i \in 1..n : queue'[i] = queue[i]
      /\ queue'[n + 1] = "CREATE" /\ queue'[n + 2] = r
      /\ up' = TRUE /\ exists' = exists /\ asked' = r
  BY DEF ServiceInv, TypeOK, Send, Requests, Messages
<1>2. r \notin {"CREATE", "DESTROY", "NULL"} BY DEF Requests
<1>3. \A i \in 1..(n + 2) : i \in 1..n \/ i = n + 1 \/ i = n + 2 BY <1>1
<1>4. (exists => Doomed) /\ \A i \in 1..n : queue[i] # "CREATE"
  BY <1>1 DEF ServiceInv, QueueInv, UpMeans
<1>5. \A i \in 1..n : queue[i] = "DESTROY" => i = n
  <2> SUFFICES ASSUME NEW i \in 1..n, queue[i] = "DESTROY", i # n PROVE FALSE OBVIOUS
  <2>1. queue[i + 1] = "CREATE" BY DEF ServiceInv, QueueInv, DestroyedLast
  <2>2. i + 1 \in 1..n BY <1>1, Neighbours
  <2>3. QED BY <1>4, <2>1, <2>2
<1>6. exists => n \in 1..n /\ queue[n] = "DESTROY" BY <1>1, <1>4, <1>5
<1>7. ~exists => n = 0
  <2> SUFFICES ASSUME ~exists, n # 0 PROVE FALSE OBVIOUS
  <2>1. 1 \in 1..n /\ queue # << >> BY <1>1
  <2>2. QED BY <1>4, <2>1 DEF ServiceInv, QueueInv, CreatedFirst
<1>8. OneEach' BY <1>1, <1>2, <1>3, <1>4, <1>5 DEF OneEach
<1>9. NotDestroyedTwice' BY <1>1, <1>2, <1>3, <1>7 DEF NotDestroyedTwice
<1>10. CreatedFirst' BY <1>1, <1>7 DEF CreatedFirst
<1>11. CreatedAfter'
  <2> SUFFICES ASSUME exists, NEW i \in 1..(n + 2), queue'[i] = "CREATE"
               PROVE  i > 1 /\ queue'[i - 1] = "DESTROY"
    BY <1>1 DEF CreatedAfter
  <2>1. i = n + 1 BY <1>1, <1>2, <1>3, <1>4
  <2>2. i - 1 = n BY <1>1, <2>1
  <2>3. QED BY <1>1, <1>6, <2>1, <2>2
<1>12. DestroyedLast'
  <2> SUFFICES ASSUME NEW i \in 1..(n + 2), queue'[i] = "DESTROY"
               PROVE  i # n + 2 /\ queue'[i + 1] = "CREATE"
    BY <1>1 DEF DestroyedLast
  <2>1. i = n BY <1>1, <1>2, <1>3, <1>5
  <2>2. n \in Nat => n # n + 2 OBVIOUS
  <2>3. QED BY <1>1, <2>1, <2>2
<1>13. NullFirst'
  <2> SUFFICES ASSUME NEW i \in 1..(n + 2), queue'[i] = "NULL", i # 1
               PROVE  queue'[i - 1] = "CREATE"
    BY <1>1 DEF NullFirst
  <2>1. i \in 1..n /\ queue[i - 1] = "CREATE"
    BY <1>1, <1>2, <1>3 DEF ServiceInv, QueueInv, NullFirst
  <2>2. i - 1 \in 1..n BY <1>1, <2>1
  <2>3. QED BY <1>1, <2>1, <2>2
<1>14. UpMeans'
  <2>1. n + 1 \in DOMAIN queue' BY <1>1
  <2>2. QED BY <1>1, <2>1 DEF UpMeans
<1>15. StopLast' BY <1>1 DEF StopLast
<1>16. QED BY <1>8, <1>9, <1>10, <1>11, <1>12, <1>13, <1>14, <1>15 DEF QueueInv

LEMMA SendStep ==
  ASSUME ServiceInv, NEW r \in Requests, Send(r)
  PROVE  ServiceInv'
<1>1. QueueInv' BY SendToUp, SendToDown
<1>2. queue' \in Seq(Messages)
  <2>1. /\ queue \in Seq(Messages) /\ <<r>> \in Seq(Messages)
        /\ <<"CREATE", r>> \in Seq(Messages)
    BY DEF ServiceInv, TypeOK, Messages
  <2>2. (IF up THEN <<r>> ELSE <<"CREATE", r>>) \in Seq(Messages) BY <2>1
  <2>3. QED BY <2>1, <2>2 DEF Send
<1>3. TypeOK' BY <1>2 DEF ServiceInv, TypeOK, Send
<1>4. QED BY <1>1, <1>3 DEF ServiceInv, LockOnlyWhileMining, Send

LEMMA OnCreateStep ==
  ASSUME ServiceInv, OnCreate
  PROVE  ServiceInv'
<1> DEFINE n == Len(queue)
<1>1. /\ queue \in Seq(Messages) /\ queue # << >> /\ queue' = Tail(queue)
      /\ UNCHANGED <<up, asked>> /\ exists' = TRUE
  BY DEF ServiceInv, TypeOK, OnCreate, Handles
<1>2. /\ n \in Nat /\ n >= 1 /\ Len(queue') = n - 1 /\ queue[1] = "CREATE"
      /\ DOMAIN queue = 1..n /\ DOMAIN queue' = 1..(n - 1)
      /\ queue' \in Seq(Messages)
      /\ \A i \in 1..(n - 1) : i + 1 \in 1..n /\ queue'[i] = queue[i + 1]
  BY <1>1, Rest DEF OnCreate, Handles
<1>3. ~exists
  <2>1. 1 \in 1..n BY <1>2
  <2>2. QED BY <1>2, <2>1 DEF ServiceInv, QueueInv, CreatedAfter
<1>4. up
  <2>1. Has("CREATE")
    <3>1. 1 \in DOMAIN queue BY <1>2
    <3>2. QED BY <1>2, <3>1
  <2>2. QED BY <2>1 DEF ServiceInv, QueueInv, UpMeans
<1>5. \A i \in 1..(n - 1) : queue'[i] \notin {"CREATE", "DESTROY"}
  <2> SUFFICES ASSUME NEW i \in 1..(n - 1) PROVE queue'[i] \notin {"CREATE", "DESTROY"}
    OBVIOUS
  <2>1. i + 1 \in 1..n /\ 1 \in 1..n /\ i + 1 # 1 BY <1>2
  <2>2. queue[i + 1] # "CREATE" BY <1>2, <2>1 DEF ServiceInv, QueueInv, OneEach
  <2>3. queue[i + 1] # "DESTROY"
    BY <1>3, <2>1 DEF ServiceInv, QueueInv, NotDestroyedTwice
  <2>4. QED BY <1>2, <2>2, <2>3
<1>6. OneEach' /\ DestroyedLast' /\ NullFirst' BY <1>1, Shifts
<1>7. CreatedAfter' /\ CreatedFirst' /\ NotDestroyedTwice'
  BY <1>1, <1>2, <1>5 DEF CreatedAfter, CreatedFirst, NotDestroyedTwice
<1>8. UpMeans' BY <1>1, <1>2, <1>4, <1>5 DEF UpMeans
<1>9. StopLast' BY <1>1, <1>2, <1>4, LastStays DEF StopLast
<1>10. QueueInv' BY <1>6, <1>7, <1>8, <1>9 DEF QueueInv
<1>11. locks = 0 BY <1>3 DEF ServiceInv, LockOnlyWhileMining
<1>12. TypeOK' BY <1>1, <1>2 DEF ServiceInv, TypeOK, OnCreate
<1>13. QED BY <1>10, <1>11, <1>12 DEF ServiceInv, LockOnlyWhileMining, OnCreate

LEMMA FirstMessage ==
  ASSUME ServiceInv, NEW m, Handles(m)
  PROVE  /\ queue # << >> /\ queue[1] = m /\ Tail(queue) \in Seq(Messages)
         /\ queue \in Seq(Messages) /\ 1 \in 1..Len(queue) /\ DOMAIN queue = 1..Len(queue)
BY Rest DEF ServiceInv, TypeOK, Handles

LEMMA OnStartStep ==
  ASSUME ServiceInv, OnStart
  PROVE  ServiceInv'
<1>1. queue # << >> /\ queue[1] = "START" /\ Tail(queue) \in Seq(Messages)
  BY FirstMessage DEF OnStart
<1>2. QueueInv' /\ exists BY <1>1, Handled DEF OnStart
<1>3. CASE isMining /\ UNCHANGED <<isMining, lockVars, foreground>>
  BY <1>1, <1>2, <1>3 DEF ServiceInv, TypeOK, LockOnlyWhileMining, OnStart
<1>4. CASE ~isMining /\ isMining' = TRUE /\ Acquire /\ foreground' = (foreground \/ ~Doomed)
  <2>1. locks = 0 /\ wakeLock # "held" BY <1>4 DEF ServiceInv, LockOnlyWhileMining
  <2>2. /\ wakeLock' \in {"null", "held", "idle"}
        /\ locks' = IF wakeLock' = "held" THEN 1 ELSE 0
    BY <1>4, <2>1 DEF Acquire, ServiceInv, TypeOK
  <2>3. foreground' \in BOOLEAN BY <1>4
  <2>4. TypeOK' BY <1>1, <1>4, <2>2, <2>3 DEF ServiceInv, TypeOK, OnStart
  <2>5. QED BY <1>2, <1>4, <2>2, <2>4 DEF ServiceInv, LockOnlyWhileMining, OnStart
<1>5. QED BY <1>3, <1>4 DEF OnStart

(* Releasing returns the one lock.                                         *)
LEMMA Released ==
  ASSUME ServiceInv, Release
  PROVE  wakeLock' = "null" /\ locks' = 0
BY DEF ServiceInv, TypeOK, LockOnlyWhileMining, Release

LEMMA OnPauseStep ==
  ASSUME ServiceInv, OnPause
  PROVE  ServiceInv'
<1>1. queue # << >> /\ queue[1] = "PAUSE" /\ Tail(queue) \in Seq(Messages)
  BY FirstMessage DEF OnPause
<1>2. QueueInv' BY <1>1, Handled DEF OnPause
<1>3. wakeLock' = "null" /\ locks' = 0 BY Released DEF OnPause
<1>4. TypeOK' BY <1>1, <1>3 DEF ServiceInv, TypeOK, OnPause
<1>5. QED BY <1>2, <1>3, <1>4 DEF ServiceInv, LockOnlyWhileMining, OnPause

LEMMA OnNullIntentStep ==
  ASSUME ServiceInv, OnNullIntent
  PROVE  ServiceInv'
<1>1. queue # << >> /\ queue[1] = "NULL" /\ Tail(queue) \in Seq(Messages)
  BY FirstMessage DEF OnNullIntent
<1>2. QueueInv' BY <1>1, Handled DEF OnNullIntent
<1>3. TypeOK' BY <1>1 DEF ServiceInv, TypeOK, OnNullIntent
<1>4. QED BY <1>2, <1>3 DEF ServiceInv, LockOnlyWhileMining, OnNullIntent

LEMMA OnStopStep ==
  ASSUME ServiceInv, OnStop
  PROVE  ServiceInv'
<1>1. queue # << >> /\ queue[1] = "STOP" /\ Tail(queue) \in Seq(Messages)
  BY FirstMessage DEF OnStop
<1>2. wakeLock' = "null" /\ locks' = 0 BY Released DEF OnStop, StopMining
<1>3. QueueInv' /\ queue' \in Seq(Messages)
  <2>1. CASE Doomed
    <3>1. queue' = Tail(queue) /\ up' = up
      BY <2>1 DEF OnStop, StopMining, StopSelf, ServiceInv, TypeOK
    <3>2. QED BY <1>1, <2>1, <3>1, Handled DEF OnStop
  <2>2. CASE ~Doomed
    <3>1. queue' = Append(Tail(queue), "DESTROY") /\ up' = FALSE
      BY <2>2 DEF OnStop, StopMining, StopSelf
    <3>2. exists BY <1>1 DEF ServiceInv, QueueInv, CreatedFirst
    <3>3. Head(queue) # "NULL" BY DEF OnStop, Handles
    <3>4. QED BY <1>1, <2>2, <3>1, <3>2, <3>3, Stopped DEF OnStop
  <2>3. QED BY <2>1, <2>2
<1>4. TypeOK'
  <2>1. up' \in BOOLEAN BY DEF OnStop, StopMining, StopSelf
  <2>2. QED BY <1>2, <1>3, <2>1 DEF ServiceInv, TypeOK, OnStop, StopMining
<1>5. QED BY <1>2, <1>3, <1>4 DEF ServiceInv, LockOnlyWhileMining, OnStop, StopMining

LEMMA OnDestroyStep ==
  ASSUME ServiceInv, OnDestroy
  PROVE  ServiceInv'
<1> DEFINE n == Len(queue)
<1>1. /\ queue # << >> /\ queue[1] = "DESTROY" /\ Tail(queue) \in Seq(Messages)
      /\ queue \in Seq(Messages) /\ 1 \in 1..n /\ DOMAIN queue = 1..n
  BY FirstMessage DEF OnDestroy
<1>2. Doomed BY <1>1
<1>3. queue' = Tail(queue) /\ up' = up /\ exists' = FALSE /\ asked' = asked
  BY <1>2 DEF OnDestroy, StopMining, StopSelf, ServiceInv, TypeOK
<1>4. /\ n \in Nat /\ n >= 1 /\ Len(queue') = n - 1 /\ DOMAIN queue' = 1..(n - 1)
      /\ \A i \in 1..(n - 1) : i + 1 \in 1..n /\ queue'[i] = queue[i + 1]
      /\ queue' = << >> <=> n = 1
  BY <1>1, <1>3, Rest
<1>5. OneEach' /\ DestroyedLast' /\ NullFirst' BY <1>1, <1>3, Shifts
<1>6. NotDestroyedTwice'
  <2> SUFFICES ASSUME NEW i \in 1..(n - 1), queue[i + 1] = "DESTROY" PROVE FALSE
    BY <1>4 DEF NotDestroyedTwice
  <2>1. i + 1 = 1 BY <1>1, <1>4 DEF ServiceInv, QueueInv, OneEach
  <2>2. QED BY <1>4, <2>1
<1>7. CreatedFirst'
  <2> SUFFICES ASSUME n # 1 PROVE queue'[1] = "CREATE" BY <1>4 DEF CreatedFirst
  <2>1. queue[1 + 1] = "CREATE" BY <1>1 DEF ServiceInv, QueueInv, DestroyedLast
  <2>2. 1 \in 1..(n - 1) BY <1>4
  <2>3. QED BY <1>4, <2>1, <2>2
<1>8. CreatedAfter' BY <1>3 DEF CreatedAfter
<1>9. UpMeans'
  <2>1. Has("CREATE")' <=> Has("CREATE") BY <1>1, <1>3, StillQueued
  <2>2. QED BY <1>2, <1>3, <2>1 DEF ServiceInv, QueueInv, UpMeans
<1>10. StopLast' BY <1>1, <1>3, LastStays DEF StopLast
<1>11. QueueInv' BY <1>5, <1>6, <1>7, <1>8, <1>9, <1>10 DEF QueueInv
<1>12. wakeLock' = "null" /\ locks' = 0 BY Released DEF OnDestroy, StopMining
<1>13. TypeOK' BY <1>1, <1>3, <1>12 DEF ServiceInv, TypeOK, OnDestroy, StopMining
<1>14. QED BY <1>3, <1>11, <1>12, <1>13 DEF ServiceInv, LockOnlyWhileMining, OnDestroy, StopMining

LEMMA LockExpiresStep ==
  ASSUME ServiceInv, LockExpires
  PROVE  ServiceInv'
<1>1. locks = 1 BY DEF ServiceInv, LockOnlyWhileMining, LockExpires
<1>2. TypeOK' BY <1>1 DEF ServiceInv, TypeOK, LockExpires
<1>3. QueueInv'
  BY DEF ServiceInv, LockExpires, QueueInv, OneEach, CreatedFirst, NotDestroyedTwice,
         CreatedAfter, DestroyedLast, NullFirst, UpMeans, StopLast
<1>4. QED BY <1>1, <1>2, <1>3 DEF ServiceInv, LockOnlyWhileMining, LockExpires

(* What a restarted service is given again: intents, in their order.       *)
LEMMA Redelivered ==
  ASSUME ServiceInv, up
  PROVE  /\ Unhandled \in Seq(Messages)
         /\ \A i \in 1..Len(Unhandled) : Unhandled[i] \notin {"CREATE", "DESTROY", "NULL"}
         /\ asked = "STOP" => Unhandled # << >> /\ Unhandled[Len(Unhandled)] = "STOP"
<1> DEFINE n == Len(queue)
           k == CHOOSE i \in DOMAIN queue : queue[i] = "CREATE"
           c == IF Has("CREATE") THEN k ELSE 0
           current == IF Has("CREATE") THEN SubSeq(queue, k + 1, n) ELSE queue
<1>1. queue \in Seq(Messages) /\ n \in Nat /\ DOMAIN queue = 1..n
  BY DEF ServiceInv, TypeOK
<1>2. Has("CREATE") => k \in 1..n /\ queue[k] = "CREATE" BY <1>1
<1>3. c \in 0..n /\ (c # 0 => queue[c] = "CREATE") BY <1>1, <1>2
<1>4. /\ current \in Seq(Messages) /\ Len(current) = n - c
      /\ \A i \in 1..(n - c) : current[i] = queue[c + i]
  <2>1. CASE Has("CREATE") BY <1>1, <1>2, <2>1, Suffix
  <2>2. CASE ~Has("CREATE") BY <1>1, <2>2
  <2>3. QED BY <2>1, <2>2
<1>5. \A i \in 1..n : queue[i] = "CREATE" => i = c
  <2>1. CASE Has("CREATE") BY <1>1, <1>2, <2>1 DEF ServiceInv, QueueInv, OneEach
  <2>2. CASE ~Has("CREATE") BY <1>1, <2>2
  <2>3. QED BY <2>1, <2>2
<1> HIDE DEF c, current
<1>6. \A i \in 1..(n - c) : c + i \in 1..n /\ queue[c + i] \notin {"CREATE", "DESTROY"}
  <2> SUFFICES ASSUME NEW i \in 1..(n - c)
               PROVE  c + i \in 1..n /\ queue[c + i] \notin {"CREATE", "DESTROY"}
    OBVIOUS
  <2>1. c + i \in 1..n /\ c + i # c /\ (c + i) + 1 # c BY <1>1, <1>3
  <2>2. queue[c + i] # "CREATE" BY <1>5, <2>1
  <2>3. ASSUME queue[c + i] = "DESTROY" PROVE FALSE
    <3>1. c + i # n /\ queue[(c + i) + 1] = "CREATE"
      BY <2>1, <2>3 DEF ServiceInv, QueueInv, DestroyedLast
    <3>2. (c + i) + 1 \in 1..n BY <1>1, <2>1, <3>1, Neighbours
    <3>3. QED BY <1>5, <2>1, <3>1, <3>2
  <2>4. QED BY <2>1, <2>2, <2>3
<1>7. \A i \in 1..(n - c) : queue[c + i] = "NULL" => i = 1
  <2> SUFFICES ASSUME NEW i \in 1..(n - c), queue[c + i] = "NULL", i # 1 PROVE FALSE
    OBVIOUS
  <2>1. c + i \in 1..n /\ c + i # 1 BY <1>1, <1>3
  <2>2. queue[(c + i) - 1] = "CREATE"
    BY <2>1 DEF ServiceInv, QueueInv, NullFirst
  <2>3. (c + i) - 1 \in 1..n /\ (c + i) - 1 # c BY <1>1, <1>3, <2>1
  <2>4. QED BY <1>5, <2>2, <2>3
<1>8. asked = "STOP" => current # << >> /\ current[n - c] = "STOP" /\ n - c \in 1..(n - c)
  <2> SUFFICES ASSUME asked = "STOP"
               PROVE  current # << >> /\ current[n - c] = "STOP" /\ n - c \in 1..(n - c)
    OBVIOUS
  <2>1. queue[n] = "STOP" /\ queue # << >> BY DEF ServiceInv, QueueInv, StopLast
  <2>2. n >= 1 BY <1>1, <2>1
  <2>3. c # n BY <1>3, <2>1, <2>2
  <2>4. n - c \in 1..(n - c)
    <3>1. c \in 1..n => c \in 1..(n - 1) BY <1>1, <2>3, Neighbours
    <3>2. c = 0 \/ c \in 1..n BY <1>1, <1>3
    <3>3. QED BY <1>1, <2>2, <3>1, <3>2
  <2>5. c + (n - c) = n BY <1>1, <1>3
  <2>6. QED BY <1>1, <1>4, <2>1, <2>4, <2>5
<1>9. Unhandled = IF current # << >> /\ Head(current) = "NULL" THEN Tail(current) ELSE current
  BY DEF Unhandled, current
<1>10. CASE current # << >> /\ Head(current) = "NULL"
  <2>1. /\ Unhandled = Tail(current) /\ Unhandled \in Seq(Messages)
        /\ Len(Unhandled) = (n - c) - 1 /\ n - c >= 1 /\ current[1] = "NULL"
        /\ \A i \in 1..((n - c) - 1) : Unhandled[i] = current[i + 1]
        /\ Unhandled = << >> <=> n - c = 1
    BY <1>4, <1>9, <1>10, Rest
  <2>2. n - c \in Nat BY <1>1, <1>3
  <2>3. \A i \in 1..((n - c) - 1) :
          i + 1 \in 1..(n - c) /\ i + 1 # 1 /\ Unhandled[i] = queue[c + (i + 1)]
    <3> SUFFICES ASSUME NEW i \in 1..((n - c) - 1)
                 PROVE  /\ i + 1 \in 1..(n - c) /\ i + 1 # 1
                        /\ Unhandled[i] = queue[c + (i + 1)]
      OBVIOUS
    <3>1. i + 1 \in 1..(n - c) /\ i + 1 # 1 BY <2>2
    <3>2. QED BY <1>4, <2>1, <3>1
  <2>4. \A i \in 1..Len(Unhandled) : Unhandled[i] \notin {"CREATE", "DESTROY", "NULL"}
    <3> SUFFICES ASSUME NEW i \in 1..((n - c) - 1)
                 PROVE  Unhandled[i] \notin {"CREATE", "DESTROY", "NULL"}
      BY <2>1
    <3>1. i + 1 \in 1..(n - c) /\ i + 1 # 1 /\ Unhandled[i] = queue[c + (i + 1)] BY <2>3
    <3>2. queue[c + (i + 1)] \notin {"CREATE", "DESTROY"} BY <1>6, <3>1
    <3>3. queue[c + (i + 1)] # "NULL" BY <1>7, <3>1
    <3>4. QED BY <3>1, <3>2, <3>3
  <2>5. asked = "STOP" => Unhandled # << >> /\ Unhandled[Len(Unhandled)] = "STOP"
    <3> SUFFICES ASSUME asked = "STOP"
                 PROVE  Unhandled # << >> /\ Unhandled[Len(Unhandled)] = "STOP"
      OBVIOUS
    <3>1. n - c # 1 BY <1>8, <2>1
    <3>2. n - c \in 1..(n - c) BY <1>8
    <3>3. (n - c) - 1 \in 1..((n - c) - 1) /\ ((n - c) - 1) + 1 = n - c
      BY <2>2, <3>1, <3>2, Neighbours
    <3>4. QED BY <1>8, <2>1, <3>1, <3>3
  <2>6. QED BY <2>1, <2>4, <2>5
<1>11. CASE ~(current # << >> /\ Head(current) = "NULL")
  <2>1. Unhandled = current /\ Len(Unhandled) = n - c BY <1>4, <1>9, <1>11
  <2>2. \A i \in 1..(n - c) : current[i] # "NULL"
    <3> SUFFICES ASSUME NEW i \in 1..(n - c), current[i] = "NULL" PROVE FALSE OBVIOUS
    <3>1. i = 1 BY <1>4, <1>7
    <3>2. current # << >> /\ Head(current) = current[1] BY <1>1, <1>3, <1>4, <3>1
    <3>3. QED BY <1>11, <3>1, <3>2
  <2>3. QED BY <1>4, <1>6, <1>8, <2>1, <2>2
<1>12. QED BY <1>10, <1>11

LEMMA ProcessDiesStep ==
  ASSUME ServiceInv, ProcessDies
  PROVE  ServiceInv'
<1>1. /\ exists' = FALSE /\ isMining' = FALSE /\ foreground' = FALSE
      /\ wakeLock' = "null" /\ locks' = 0 /\ up' = up /\ asked' = asked
      /\ deaths' \in 0..MaxDeaths
  BY ServiceAssumption DEF ServiceInv, TypeOK, ProcessDies
<1>2. CASE ~up
  <2>1. queue' = << >> BY <1>2 DEF ProcessDies
  <2>2. /\ << >> \in Seq(Messages) /\ Len(<< >>) = 0 /\ DOMAIN << >> = {} OBVIOUS
  <2>3. QueueInv'
    BY <1>1, <1>2, <2>1, <2>2 DEF QueueInv, OneEach, CreatedFirst, NotDestroyedTwice,
         CreatedAfter, DestroyedLast, NullFirst, UpMeans, StopLast
  <2>4. TypeOK' BY <1>1, <2>1, <2>2 DEF ServiceInv, TypeOK
  <2>5. QED BY <1>1, <2>3, <2>4 DEF ServiceInv, LockOnlyWhileMining
<1>3. CASE up
  <2> DEFINE rest == IF Unhandled = << >> THEN <<"NULL">> ELSE Unhandled
             n == Len(rest)
  <2>1. /\ rest \in Seq(Messages) /\ rest # << >>
        /\ \A i \in 1..n : /\ rest[i] \notin {"CREATE", "DESTROY"}
                           /\ rest[i] = "NULL" => i = 1
        /\ asked = "STOP" => rest[n] = "STOP"
    <3>1. CASE Unhandled = << >>
      <4>1. rest = <<"NULL">> /\ asked # "STOP" BY <1>3, <3>1, Redelivered
      <4>2. QED BY <4>1 DEF Messages
    <3>2. CASE Unhandled # << >> BY <1>3, <3>2, Redelivered
    <3>3. QED BY <3>1, <3>2
  <2>2. queue' = <<"CREATE">> \o rest BY <1>3 DEF ProcessDies
  <2> HIDE DEF rest
  <2>3. n \in Nat /\ n >= 1 BY <2>1
  <2>4. <<"CREATE">> \in Seq(Messages) BY DEF Messages
  <2>5. /\ queue' \in Seq(Messages) /\ Len(queue') = n + 1 /\ DOMAIN queue' = 1..(n + 1)
        /\ queue'[1] = "CREATE"
        /\ \A i \in 2..(n + 1) : queue'[i] = rest[i - 1]
    BY <2>1, <2>2, <2>3, <2>4
  <2>6. \A i \in 1..(n + 1) : i = 1 \/ (i \in 2..(n + 1) /\ i - 1 \in 1..n) BY <2>3
  <2>7. \A i \in 1..(n + 1) : /\ queue'[i] = "CREATE" => i = 1
                              /\ queue'[i] # "DESTROY"
                              /\ queue'[i] = "NULL" => i - 1 = 1
    <3> SUFFICES ASSUME NEW i \in 1..(n + 1)
                 PROVE  /\ queue'[i] = "CREATE" => i = 1
                        /\ queue'[i] # "DESTROY"
                        /\ queue'[i] = "NULL" => i - 1 = 1
      OBVIOUS
    <3>1. CASE i = 1
      <4>1. queue'[i] = "CREATE" BY <2>5, <3>1
      <4>2. QED BY <3>1, <4>1
    <3>2. CASE i \in 2..(n + 1) /\ i - 1 \in 1..n
      <4>1. PICK j \in 1..n : j = i - 1 BY <3>2
      <4>2. queue'[i] = rest[j] BY <2>5, <3>2, <4>1
      <4>3. rest[j] \notin {"CREATE", "DESTROY"} /\ (rest[j] = "NULL" => j = 1) BY <2>1
      <4>4. QED BY <4>1, <4>2, <4>3
    <3>3. QED BY <2>6, <3>1, <3>2
  <2>8. OneEach' BY <2>5, <2>7 DEF OneEach
  <2>9. CreatedFirst' /\ CreatedAfter' BY <1>1, <2>5 DEF CreatedFirst, CreatedAfter
  <2>10. NotDestroyedTwice' /\ DestroyedLast' BY <2>5, <2>7 DEF NotDestroyedTwice, DestroyedLast
  <2>11. NullFirst' BY <2>5, <2>7 DEF NullFirst
  <2>12. UpMeans'
    <3>1. 1 \in DOMAIN queue' BY <2>3, <2>5
    <3>2. QED BY <1>1, <1>3, <2>5, <3>1 DEF UpMeans
  <2>13. StopLast'
    <3>1. n + 1 \in 2..(n + 1) /\ (n + 1) - 1 = n BY <2>3
    <3>2. queue' # << >> BY <2>3, <2>5
    <3>3. QED BY <1>1, <2>1, <2>5, <3>1, <3>2 DEF StopLast
  <2>14. QueueInv' BY <2>8, <2>9, <2>10, <2>11, <2>12, <2>13 DEF QueueInv
  <2>15. TypeOK' BY <1>1, <2>5 DEF ServiceInv, TypeOK
  <2>16. QED BY <1>1, <2>14, <2>15 DEF ServiceInv, LockOnlyWhileMining
<1>4. QED BY <1>2, <1>3

LEMMA ServiceStep ==
  ASSUME ServiceInv, [Next]_vars
  PROVE  ServiceInv'
<1>1. CASE OnCreate     BY <1>1, OnCreateStep
<1>2. CASE OnStart      BY <1>2, OnStartStep
<1>3. CASE OnStop       BY <1>3, OnStopStep
<1>4. CASE OnPause      BY <1>4, OnPauseStep
<1>5. CASE OnNullIntent BY <1>5, OnNullIntentStep
<1>6. CASE OnDestroy    BY <1>6, OnDestroyStep
<1>7. CASE LockExpires  BY <1>7, LockExpiresStep
<1>8. CASE ProcessDies  BY <1>8, ProcessDiesStep
<1>9. ASSUME NEW r \in Requests, Send(r) PROVE ServiceInv' BY <1>9, SendStep
<1>10. CASE UNCHANGED vars
  BY <1>10 DEF vars, ServiceInv, TypeOK, LockOnlyWhileMining, QueueInv, OneEach,
               CreatedFirst, NotDestroyedTwice, CreatedAfter, DestroyedLast, NullFirst,
               UpMeans, StopLast
<1>11. QED BY <1>1, <1>2, <1>3, <1>4, <1>5, <1>6, <1>7, <1>8, <1>9, <1>10 DEF Next, MainThread

-----------------------------------------------------------------------------
LEMMA ServiceInvariant == Spec => []ServiceInv
<1>1. Init => ServiceInv
  <2> SUFFICES ASSUME Init PROVE ServiceInv OBVIOUS
  <2>1. << >> \in Seq(Messages) /\ Len(<< >>) = 0 /\ DOMAIN << >> = {} OBVIOUS
  <2>2. TypeOK
    <3>1. 0 \in Nat /\ 0 \in 0..MaxDeaths BY ServiceAssumption
    <3>2. queue \in Seq(Messages) BY <2>1 DEF Init
    <3>3. QED BY <3>1, <3>2 DEF Init, TypeOK
  <2>3. QueueInv
    BY <2>1 DEF Init, QueueInv, OneEach, CreatedFirst, NotDestroyedTwice, CreatedAfter,
                DestroyedLast, NullFirst, UpMeans, StopLast
  <2>4. QED BY <2>2, <2>3 DEF Init, ServiceInv, LockOnlyWhileMining
<1>2. QED BY <1>1, ServiceStep, PTL DEF Spec

(* Type correctness; in particular no lock is released twice.              *)
THEOREM TypeCorrect == Spec => []TypeOK
BY ServiceInvariant, PTL DEF ServiceInv

(* No order of requests, instances, timeouts and deaths leaks a wake lock. *)
THEOREM LockSafe == Spec => []LockOnlyWhileMining
BY ServiceInvariant, PTL DEF ServiceInv

(* A stop that was the last request leaves no lock, notification, instance *)
(* or service to restart.                                                  *)
THEOREM StopFinal == Spec => []StopIsFinal
<1>1. ServiceInv => StopIsFinal
  <2> SUFFICES ASSUME ServiceInv, asked = "STOP", queue = << >>
               PROVE  ~up /\ ~exists /\ locks = 0 /\ ~foreground
    BY DEF StopIsFinal
  <2>1. ~up BY DEF ServiceInv, QueueInv, StopLast
  <2>2. ~Doomed BY DEF ServiceInv, TypeOK
  <2>3. ~exists BY <2>1, <2>2 DEF ServiceInv, QueueInv, UpMeans
  <2>4. QED BY <2>1, <2>3 DEF ServiceInv, LockOnlyWhileMining
<1>2. QED BY <1>1, ServiceInvariant, PTL
=============================================================================
