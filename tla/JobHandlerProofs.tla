-------------------------- MODULE JobHandlerProofs ---------------------------
(***************************************************************************)
(* Theorems about the managers for any jobs, history sizes, difficulties,  *)
(* workers and numbers of posts: what the history of ids holds, the order  *)
(* of callbacks, what the codecs make of a job, and what a target and the  *)
(* worker configurations are good for.                                     *)
(***************************************************************************)
EXTENDS JobHandler, WorkCodecProofs, TLAPS

Ids == {j.job_id : j \in Jobs}

(* The part of TypeOK that concerns JobManager.                            *)
JobTypes ==
  /\ posted \in Seq(Jobs) /\ recent \in Seq(Ids)
  /\ maxHistory \in limits /\ limits \subseteq Nat
  /\ running \subseteq DOMAIN posted
  /\ notified \in Seq(Nat)

(* The job whose callback has not returned is the last one posted; every   *)
(* other job's callback has returned, in order, or was never due.          *)
CallbackInv ==
  /\ \A p \in running : p = Len(posted)
  /\ \A p \in 1..Len(notified) : notified[p] \in 1..Len(posted)
  /\ \A p, q \in 1..Len(notified) : p < q => notified[p] < notified[q]
  /\ \A p \in 1..Len(notified), q \in running : notified[p] < q

JobInv == JobTypes /\ RecentWindow /\ CallbackInv

-----------------------------------------------------------------------------
(* The history after one more id: pushed, and one erased at most.          *)
LEMMA Remembered ==
  ASSUME NEW j \in Jobs, JobTypes, Remember(j.job_id)
  PROVE  /\ recent' \in Seq(Ids)
         /\ \/ /\ Len(recent) + 1 > maxHistory
               /\ Len(recent') = Len(recent)
               /\ \A i \in 1..Len(recent) :
                    recent'[i] = IF i = Len(recent) THEN j.job_id ELSE recent[i + 1]
            \/ /\ Len(recent) + 1 <= maxHistory
               /\ Len(recent') = Len(recent) + 1
               /\ \A i \in 1..(Len(recent) + 1) :
                    recent'[i] = IF i = Len(recent) + 1 THEN j.job_id ELSE recent[i]
<1> DEFINE n == Len(recent)
           pushed == Append(recent, j.job_id)
<1>1. n \in Nat /\ maxHistory \in Nat /\ recent \in Seq(Ids) /\ j.job_id \in Ids
  BY DEF JobTypes, Ids
<1>2. /\ pushed \in Seq(Ids) /\ Len(pushed) = n + 1
      /\ \A i \in 1..(n + 1) : pushed[i] = IF i = n + 1 THEN j.job_id ELSE recent[i]
  BY <1>1
<1>3. recent' = IF n + 1 > maxHistory THEN Tail(pushed) ELSE pushed
  BY <1>2 DEF Remember
<1> HIDE DEF pushed
<1>4. CASE n + 1 > maxHistory
  <2>1. /\ Tail(pushed) \in Seq(Ids) /\ Len(Tail(pushed)) = n
        /\ \A i \in 1..n : Tail(pushed)[i] = pushed[i + 1]
    BY <1>1, <1>2
  <2>2. \A i \in 1..n : i + 1 \in 1..(n + 1) /\ (i + 1 = n + 1 <=> i = n) BY <1>1
  <2>3. \A i \in 1..n : Tail(pushed)[i] = IF i = n THEN j.job_id ELSE recent[i + 1]
    BY <1>2, <2>1, <2>2
  <2>4. QED BY <1>3, <1>4, <2>1, <2>3
<1>5. CASE n + 1 <= maxHistory BY <1>1, <1>2, <1>3, <1>5
<1>6. QED BY <1>1, <1>4, <1>5

(* Positions in a list of m, of which a window of n is the end.            *)
LEMMA Positions ==
  ASSUME NEW m \in Nat, NEW n \in Nat, n <= m, NEW i \in Nat
  PROVE  /\ i \in 1..n => m - n + i \in 1..m
         /\ i \in 1..n /\ i # n => i + 1 \in 1..n /\ m - n + (i + 1) \in 1..m
         /\ i \in 1..(n + 1) /\ i # n + 1 => i \in 1..n
         /\ (m + 1) - n + i = m - n + (i + 1)
         /\ (m + 1) - (n + 1) + i = m - n + i
OBVIOUS

LEMMA PostKeepsWindow ==
  ASSUME JobInv, NEW j \in Jobs, new_job(j)
  PROVE  RecentWindow' /\ recent' \in Seq(Ids)
<1> DEFINE n == Len(recent)
           m == Len(posted)
<1>1. /\ n \in Nat /\ m \in Nat /\ n <= m
      /\ \A i \in 1..n : recent[i] = posted[m - n + i].job_id
      /\ limits \subseteq Nat /\ maxHistory \in limits /\ limits' = limits
  BY DEF JobInv, JobTypes, RecentWindow, new_job
<1>2. /\ Len(posted') = m + 1 /\ posted'[m + 1] = j
      /\ \A i \in 1..m : posted'[i] = posted[i]
  BY DEF JobInv, JobTypes, new_job
<1>3. recent' \in Seq(Ids) BY Remembered DEF JobInv, new_job
<1>4. (\E limit \in limits : n <= limit) /\ (\E limit \in limits : n >= limit \/ n = m)
  BY DEF JobInv, RecentWindow
<1>5. CASE /\ n + 1 > maxHistory
           /\ Len(recent') = n
           /\ \A i \in 1..n : recent'[i] = IF i = n THEN j.job_id ELSE recent[i + 1]
  <2>1. \A i \in 1..n : recent'[i] = posted'[(m + 1) - n + i].job_id
    <3> SUFFICES ASSUME NEW i \in 1..n PROVE recent'[i] = posted'[(m + 1) - n + i].job_id
      OBVIOUS
    <3>1. CASE i = n
      <4>1. (m + 1) - n + i = m + 1 BY <1>1, <3>1
      <4>2. QED BY <1>2, <1>5, <3>1, <4>1
    <3>2. CASE i # n
      <4>1. /\ i + 1 \in 1..n /\ m - n + (i + 1) \in 1..m
            /\ (m + 1) - n + i = m - n + (i + 1)
        BY <1>1, <3>2, Positions
      <4>2. recent'[i] = posted[m - n + (i + 1)].job_id BY <1>1, <1>5, <3>2, <4>1
      <4>3. QED BY <1>2, <4>1, <4>2
    <3>3. QED BY <3>1, <3>2
  <2>2. n >= maxHistory BY <1>1, <1>5
  <2>3. n <= m + 1 BY <1>1
  <2>4. (\E limit \in limits' : n <= limit) /\ (\E limit \in limits' : n >= limit)
    BY <1>1, <1>4, <2>2
  <2>5. \A i \in 1..Len(recent') :
          recent'[i] = posted'[Len(posted') - Len(recent') + i].job_id
    BY <1>2, <1>5, <2>1
  <2>6. Len(recent') <= Len(posted') BY <1>2, <1>5, <2>3
  <2>7. /\ \E limit \in limits' : Len(recent') <= limit
        /\ \E limit \in limits' : Len(recent') >= limit \/ Len(recent') = Len(posted')
    BY <1>5, <2>4
  <2>8. QED BY <1>3, <2>5, <2>6, <2>7 DEF RecentWindow
<1>6. CASE /\ n + 1 <= maxHistory
           /\ Len(recent') = n + 1
           /\ \A i \in 1..(n + 1) : recent'[i] = IF i = n + 1 THEN j.job_id ELSE recent[i]
  <2>1. \A i \in 1..(n + 1) : recent'[i] = posted'[(m + 1) - (n + 1) + i].job_id
    <3> SUFFICES ASSUME NEW i \in 1..(n + 1)
                 PROVE  recent'[i] = posted'[(m + 1) - (n + 1) + i].job_id
      OBVIOUS
    <3>1. CASE i = n + 1
      <4>1. (m + 1) - (n + 1) + i = m + 1 BY <1>1, <3>1
      <4>2. QED BY <1>2, <1>6, <3>1, <4>1
    <3>2. CASE i # n + 1
      <4>1. /\ i \in 1..n /\ m - n + i \in 1..m
            /\ (m + 1) - (n + 1) + i = m - n + i
        <5>1. i \in Nat /\ i \in 1..(n + 1) BY <1>1
        <5>2. i \in 1..n BY <1>1, <3>2, <5>1, Positions
        <5>3. QED BY <1>1, <5>1, <5>2, Positions
      <4>2. recent'[i] = posted[m - n + i].job_id BY <1>1, <1>6, <3>2, <4>1
      <4>3. QED BY <1>2, <4>1, <4>2
    <3>3. QED BY <3>1, <3>2
  <2>2. \E limit \in limits : n + 1 <= limit BY <1>1, <1>6
  <2>3. \E limit \in limits : n + 1 >= limit \/ n + 1 = m + 1
    <3>1. PICK limit \in limits : n >= limit \/ n = m BY <1>4
    <3>2. limit \in Nat BY <1>1
    <3>3. n >= limit => n + 1 >= limit BY <1>1, <3>2
    <3>4. QED BY <3>1, <3>3
  <2>4. n + 1 <= m + 1 BY <1>1
  <2>5. QED BY <1>1, <1>2, <1>3, <1>6, <2>1, <2>2, <2>3, <2>4 DEF RecentWindow
<1>7. QED BY <1>3, <1>5, <1>6, Remembered DEF JobInv, new_job

(* A job is posted only when no callback runs, so all that returned were   *)
(* for earlier jobs.                                                       *)
LEMMA PostStep ==
  ASSUME JobInv, NEW j \in Jobs, new_job(j)
  PROVE  JobInv'
<1> DEFINE m == Len(posted)
<1>1. /\ m \in Nat /\ posted' \in Seq(Jobs) /\ Len(posted') = m + 1
      /\ DOMAIN posted' = 1..(m + 1)
  BY DEF JobInv, JobTypes, new_job
<1>2. running' \in {{}, {m + 1}} /\ notified' = notified BY <1>1 DEF new_job
<1>3. JobTypes'
  <2>1. running' \subseteq DOMAIN posted' BY <1>1, <1>2
  <2>2. recent' \in Seq(Ids) BY PostKeepsWindow
  <2>3. QED BY <1>1, <2>1, <2>2 DEF JobInv, JobTypes, new_job
<1>4. \A p \in 1..Len(notified) : notified[p] \in 1..(m + 1) /\ notified[p] < m + 1
  BY <1>1 DEF JobInv, CallbackInv
<1>5. CallbackInv' BY <1>1, <1>2, <1>4 DEF JobInv, CallbackInv
<1>6. QED BY <1>3, <1>5, PostKeepsWindow DEF JobInv

LEMMA CallbackStep ==
  ASSUME JobInv, NEW p \in running, CallbackReturns(p)
  PROVE  JobInv'
<1> DEFINE n == Len(notified)
<1>1. /\ UNCHANGED <<posted, recent, maxHistory, limits>>
      /\ running' = {} /\ p = Len(posted) /\ p \in 1..Len(posted) /\ p \in Nat
  BY DEF JobInv, JobTypes, CallbackInv, CallbackReturns
<1>2. /\ n \in Nat /\ notified' \in Seq(Nat) /\ Len(notified') = n + 1
      /\ notified'[n + 1] = p
      /\ \A q \in 1..n : notified'[q] = notified[q]
  BY <1>1 DEF JobInv, JobTypes, CallbackReturns
<1>3. \A q \in 1..n : notified[q] < p /\ notified[q] \in 1..Len(posted)
  BY DEF JobInv, CallbackInv
<1>4. \A q \in 1..(n + 1) : q \in 1..n \/ q = n + 1 BY <1>2
<1>5. \A q \in 1..(n + 1) : notified'[q] \in 1..Len(posted) BY <1>1, <1>2, <1>3, <1>4
<1>6. ASSUME NEW q \in 1..(n + 1), NEW r \in 1..(n + 1), q < r
      PROVE  notified'[q] < notified'[r]
  <2>1. q \in 1..n BY <1>2, <1>6
  <2>2. CASE r = n + 1 BY <1>2, <1>3, <2>1, <2>2
  <2>3. CASE r \in 1..n BY <1>2, <1>6, <2>1, <2>3 DEF JobInv, CallbackInv
  <2>4. QED BY <1>4, <2>2, <2>3
<1>7. CallbackInv' BY <1>1, <1>2, <1>5, <1>6 DEF CallbackInv
<1>8. JobTypes' /\ RecentWindow'
  BY <1>1, <1>2 DEF JobInv, JobTypes, RecentWindow
<1>9. QED BY <1>7, <1>8 DEF JobInv

(* A changed limit leaves the history alone.                               *)
LEMMA SizeStep ==
  ASSUME JobInv, NEW size \in HistorySizes, set_job_history_size(size)
  PROVE  JobInv'
<1>1. /\ limits \subseteq limits' /\ limits' \subseteq Nat /\ maxHistory' \in limits'
      /\ UNCHANGED <<posted, recent, running, notified>>
  BY JobsAssumption DEF JobInv, JobTypes, set_job_history_size
<1>2. JobTypes' /\ CallbackInv' BY <1>1 DEF JobInv, JobTypes, CallbackInv
<1>3. RecentWindow' BY <1>1 DEF JobInv, RecentWindow
<1>4. QED BY <1>2, <1>3 DEF JobInv

LEMMA UnchangedStep ==
  ASSUME JobInv, UNCHANGED <<posted, recent, maxHistory, limits, running, notified>>
  PROVE  JobInv'
BY DEF JobInv, JobTypes, RecentWindow, CallbackInv

LEMMA JobStep ==
  ASSUME JobInv, [Next]_vars
  PROVE  JobInv'
<1>1. ASSUME NEW j \in Jobs, new_job(j) PROVE JobInv' BY <1>1, PostStep
<1>2. ASSUME NEW p \in running, CallbackReturns(p) PROVE JobInv' BY <1>2, CallbackStep
<1>3. ASSUME NEW size \in HistorySizes, set_job_history_size(size) PROVE JobInv'
  BY <1>3, SizeStep
<1>4. ASSUME NEW set \in BOOLEAN, set_job_callback(set) PROVE JobInv'
  BY <1>4, UnchangedStep DEF set_job_callback
<1>5. ASSUME NEW a \in BOOLEAN, record_share(a) PROVE JobInv'
  BY <1>5, UnchangedStep DEF record_share, jobVars
<1>6. CASE reset_stats BY <1>6, UnchangedStep DEF reset_stats, jobVars
<1>7. ASSUME NEW d \in Difficulties, update_target(d) PROVE JobInv'
  BY <1>7, UnchangedStep DEF update_target, jobVars
<1>8. ASSUME NEW numa \in BOOLEAN, configure_workers(numa) PROVE JobInv'
  BY <1>8, UnchangedStep DEF configure_workers, jobVars
<1>9. CASE DivisionTraps BY <1>9, UnchangedStep DEF DivisionTraps, jobVars
<1>10. CASE UNCHANGED vars BY <1>10, UnchangedStep DEF vars, jobVars
<1>11. QED
  BY <1>1, <1>2, <1>3, <1>4, <1>5, <1>6, <1>7, <1>8, <1>9, <1>10 DEF Next, Running

-----------------------------------------------------------------------------
LEMMA JobInvariant == Spec => []JobInv
<1>1. Init => JobInv
  <2> SUFFICES ASSUME Init PROVE JobInv OBVIOUS
  <2>1. posted = << >> /\ recent = << >> /\ notified = << >> /\ running = {}
    BY DEF Init
  <2>2. maxHistory \in limits /\ limits \subseteq Nat BY JobsAssumption DEF Init
  <2>3. JobTypes BY <2>1, <2>2 DEF JobTypes
  <2>4. Len(<< >>) = 0 OBVIOUS
  <2>5. RecentWindow
    <3>1. maxHistory >= 0 /\ 0 <= maxHistory BY <2>2
    <3>2. QED BY <2>1, <2>2, <2>4, <3>1 DEF RecentWindow
  <2>6. CallbackInv BY <2>1, <2>4 DEF CallbackInv
  <2>7. QED BY <2>3, <2>5, <2>6 DEF JobInv
<1>2. QED BY <1>1, JobStep, PTL DEF Spec

(* However its limit moved, the history is a gapless run of ids up to the  *)
(* current job, within the limits there have been.                         *)
THEOREM HistoryIsWindow == Spec => []RecentWindow
BY JobInvariant, PTL DEF JobInv

(* Callbacks run one at a time, in the order of their jobs, each while its *)
(* job is the current one.                                                 *)
THEOREM CallbackOrder == Spec => []CallbacksInOrder
<1>1. JobInv => CallbacksInOrder
  <2> SUFFICES ASSUME JobInv PROVE CallbacksInOrder OBVIOUS
  <2>1. DOMAIN notified = 1..Len(notified) BY DEF JobInv, JobTypes
  <2>2. QED BY <2>1 DEF JobInv, CallbackInv, CallbacksInOrder
<1>2. QED BY <1>1, JobInvariant, PTL

-----------------------------------------------------------------------------
(* The managers beside the jobs: the target is one that the difficulty     *)
(* converts to, and the workers were configured once or never.             *)
ManagerInv ==
  /\ limits \subseteq HistorySizes \cup {DefaultHistory}
  /\ hasCallback \in BOOLEAN
  /\ accepted \in Nat /\ rejected \in Nat
  /\ difficulty \in Difficulties \cup {InitialDifficulty}
  /\ target \in difficulty_to_target(difficulty)
  /\ cores \in CoreCounts /\ ended \in BOOLEAN
  /\ workers = << >> \/ \E numa \in BOOLEAN : workers = WorkerConfigs(NumWorkers, cores, numa)

LEMMA ManagerStep ==
  ASSUME ManagerInv, [Next]_vars
  PROVE  ManagerInv'
<1> USE DEF ManagerInv, poolVars
<1>1. ASSUME NEW j \in Jobs, new_job(j) PROVE ManagerInv'
  BY <1>1 DEF new_job, shareVars, difficultyVars
<1>2. ASSUME NEW p \in running, CallbackReturns(p) PROVE ManagerInv'
  BY <1>2 DEF CallbackReturns, shareVars, difficultyVars
<1>3. ASSUME NEW size \in HistorySizes, set_job_history_size(size) PROVE ManagerInv'
  BY <1>3 DEF set_job_history_size, shareVars, difficultyVars
<1>4. ASSUME NEW set \in BOOLEAN, set_job_callback(set) PROVE ManagerInv'
  BY <1>4 DEF set_job_callback, shareVars, difficultyVars
<1>5. ASSUME NEW a \in BOOLEAN, record_share(a) PROVE ManagerInv'
  BY <1>5 DEF record_share, jobVars, difficultyVars
<1>6. CASE reset_stats BY <1>6 DEF reset_stats, jobVars, difficultyVars
<1>7. ASSUME NEW d \in Difficulties, update_target(d) PROVE ManagerInv'
  BY <1>7 DEF update_target, jobVars, shareVars
<1>8. ASSUME NEW numa \in BOOLEAN, configure_workers(numa) PROVE ManagerInv'
  BY <1>8 DEF configure_workers, jobVars, shareVars, difficultyVars
<1>9. CASE DivisionTraps BY <1>9 DEF DivisionTraps, jobVars, shareVars, difficultyVars
<1>10. CASE UNCHANGED vars BY <1>10 DEF vars, jobVars, shareVars, difficultyVars
<1>11. QED
  BY <1>1, <1>2, <1>3, <1>4, <1>5, <1>6, <1>7, <1>8, <1>9, <1>10 DEF Next, Running

LEMMA ManagerInvariant == Spec => []ManagerInv
<1>1. Init => ManagerInv
  <2> SUFFICES ASSUME Init PROVE ManagerInv OBVIOUS
  <2>1. target \in difficulty_to_target(difficulty) BY DEF Init
  <2>2. limits = {DefaultHistory} /\ hasCallback \in BOOLEAN /\ accepted \in Nat /\ rejected \in Nat
    BY DEF Init
  <2>3. difficulty \in Difficulties \cup {InitialDifficulty} /\ workers = << >> BY DEF Init
  <2>4. cores \in CoreCounts /\ ended \in BOOLEAN BY DEF Init
  <2>5. QED BY <2>1, <2>2, <2>3, <2>4 DEF ManagerInv
<1>2. QED BY <1>1, ManagerStep, PTL DEF Spec

-----------------------------------------------------------------------------
(* A target fits in its word, whatever the difficulty.                     *)
LEMMA TargetType ==
  ASSUME ManagerInv
  PROVE  target \in 0..(WordSize - 1)
<1>1. IsDouble(difficulty) BY JobsAssumption DEF ManagerInv
<1>2. difficulty[1] \in Int /\ difficulty[2] \in Nat \ {0} BY <1>1 DEF IsDouble
<1>3. WordSize \in Nat \ {0} BY Sizes
<1>4. target \in difficulty_to_target(difficulty) BY DEF ManagerInv
<1>5. CASE difficulty[1] <= 0 BY <1>3, <1>4, <1>5 DEF difficulty_to_target
<1>6. CASE difficulty[1] > 0 /\ difficulty[1] <= difficulty[2]
  BY <1>2, <1>3, <1>4, <1>6 DEF difficulty_to_target
<1>7. CASE difficulty[1] > difficulty[2]
  <2>1. ~(difficulty[1] <= 0) /\ ~(difficulty[1] <= difficulty[2]) BY <1>2, <1>7
  <2>2. target = RoundedThenCut(WordSize * difficulty[2], difficulty[1])
    BY <1>4, <2>1 DEF difficulty_to_target
  <2>3. QED BY <1>1, <1>7, <2>2, TargetRounds
<1>8. QED BY <1>2, <1>5, <1>6, <1>7

LEMMA WorkersType ==
  ASSUME ManagerInv
  PROVE  workers \in Seq([cpu_affinity : CoreNumbers, numa_node : {0, 1}])
<1>1. CASE workers = << >> BY <1>1
<1>2. ASSUME NEW numa \in BOOLEAN, workers = WorkerConfigs(NumWorkers, cores, numa)
      PROVE  workers \in Seq([cpu_affinity : CoreNumbers, numa_node : {0, 1}])
  <2>1. NumWorkers \in Nat /\ cores \in Nat BY JobsAssumption DEF ManagerInv
  <2>2. \A i \in 1..NumWorkers : /\ (IF cores = 0 THEN i - 1 ELSE (i - 1) % cores) \in CoreNumbers
                                 /\ (i - 1) % 2 \in {0, 1}
    <3> SUFFICES ASSUME NEW i \in 1..NumWorkers
                 PROVE  /\ (IF cores = 0 THEN i - 1 ELSE (i - 1) % cores) \in CoreNumbers
                        /\ (i - 1) % 2 \in {0, 1}
      OBVIOUS
    <3>1. i - 1 \in Nat BY <2>1
    <3>2. cores # 0 => (i - 1) % cores \in 0..(cores - 1) BY <2>1, <3>1, Division
    <3>3. i - 1 \in 0..(NumWorkers - 1) BY <2>1
    <3>4. (i - 1) % 2 \in {0, 1} BY <3>1
    <3>5. QED BY <3>2, <3>3, <3>4 DEF CoreNumbers
  <2>3. workers \in [1..NumWorkers -> [cpu_affinity : CoreNumbers, numa_node : {0, 1}]]
    BY <1>2, <2>2 DEF WorkerConfigs
  <2>4. QED BY <2>1, <2>3, FunctionIsSequence
<1>3. QED BY <1>1, <1>2 DEF ManagerInv

(* Every variable has its type, for any sizes of words and any jobs.       *)
THEOREM TypeCorrect == Spec => []TypeOK
<1>1. JobInv /\ ManagerInv => TypeOK
  BY TargetType, WorkersType DEF JobInv, JobTypes, Ids, ManagerInv, TypeOK
<1>2. QED BY <1>1, JobInvariant, ManagerInvariant, PTL

-----------------------------------------------------------------------------
(* What the codecs make of the current job                                 *)

LEMMA CurrentJob ==
  ASSUME JobInv, posted # << >>
  PROVE  Last(posted).blob \in Seq(Char) /\ Last(posted).target \in Seq(Char)
<1>1. posted \in Seq(Jobs) BY DEF JobInv, JobTypes
<1>2. Len(posted) \in 1..Len(posted) BY <1>1
<1>3. Last(posted) \in Jobs BY <1>1, <1>2 DEF Last
<1>4. QED BY <1>3, JobsAssumption

(* For every job and every nonce the blob that is hashed carries that      *)
(* nonce and is the job's otherwise; what is too short is refused.         *)
THEOREM WorkCarriesNonce == Spec => []NonceCarried
<1>1. JobInv => NonceCarried
  <2> SUFFICES ASSUME JobInv, posted # << >>, NEW n \in Nonces
               PROVE  LET hex  == Last(posted).blob
                          blob == hex_to_bytes(hex)
                          work == construct_mining_blob(hex, n)
                      IN  IF validate_blob(blob)
                          THEN /\ extract_nonce(work) = n
                               /\ DOMAIN work = DOMAIN blob
                               /\ \A i \in DOMAIN blob :
                                    i <= NonceAt \/ i > ExtraAt => work[i] = blob[i]
                               /\ LET more == insert_extra_nonce(work, <<n % ByteSize, 0>>)
                                  IN  /\ extract_nonce(more) = n
                                      /\ extract_extra_nonce(more)
                                           = <<n % ByteSize, 0>> \o extract_extra_nonce(blob)
                          ELSE work = TooShort
    BY DEF NonceCarried
  <2>1. Last(posted).blob \in Seq(Char) BY CurrentJob
  <2>2. QED BY <2>1, WorkForNonce
<1>2. QED BY <1>1, JobInvariant, PTL

(* The miner and the helper read every target digit by digit, from         *)
(* opposite ends, whatever its length and its characters.                  *)
THEOREM TargetsByDigits == Spec => []TargetBytes
<1>1. JobInv => TargetBytes
  <2> SUFFICES ASSUME JobInv, posted # << >>, NEW i \in 0..(WordBytes - 1)
               PROVE  LET hex   == Last(posted).target
                          bytes == hex_to_bytes(WordText(hex))
                      IN  /\ DigitAt(target_to_uint64(hex), ByteSize, i)
                               = IF i < Len(bytes) THEN bytes[i + 1] ELSE 0
                          /\ DigitAt(compact_to_uint64(hex), ByteSize, i)
                               = IF i < Len(bytes) THEN bytes[Len(bytes) - i] ELSE 0
    BY DEF TargetBytes, DigitAt
  <2>1. Last(posted).target \in Seq(Char) BY CurrentJob
  <2>2. QED BY <2>1, TargetDigits
<1>2. QED BY <1>1, JobInvariant, PTL

(* Well-formed texts, and no others, survive the way to bytes or to a      *)
(* target and back; all become bytes.                                      *)
THEOREM TextsSurvive == Spec => []TextRoundTrip
<1>1. JobInv => TextRoundTrip
  <2> SUFFICES ASSUME JobInv, posted # << >>,
                      NEW hex \in {Last(posted).blob, Last(posted).target}
               PROVE  /\ \A i \in DOMAIN hex_to_bytes(hex) : hex_to_bytes(hex)[i] \in Byte
                      /\ bytes_to_hex(hex_to_bytes(hex)) = hex <=> WellFormedText(hex)
                      /\ Len(WordText(hex)) = 2 * WordBytes =>
                           (uint64_to_compact(compact_to_uint64(hex)) = WordText(hex)
                              <=> WellFormedText(WordText(hex)))
    BY DEF TextRoundTrip, WellFormedText
  <2>1. hex \in Seq(Char) BY CurrentJob
  <2>2. \A i \in DOMAIN hex_to_bytes(hex) : hex_to_bytes(hex)[i] \in Byte BY <2>1, TextBytes
  <2>3. bytes_to_hex(hex_to_bytes(hex)) = hex <=> WellFormedText(hex) BY <2>1, TextSurvives
  <2>4. WordText(hex) \in Seq(Char) BY <2>1, WordTextSize
  <2>5. Len(WordText(hex)) = 2 * WordBytes =>
          uint64_to_compact(compact_to_uint64(hex))
            = bytes_to_hex(hex_to_bytes(WordText(hex)))
    BY <2>1, CompactText
  <2>6. bytes_to_hex(hex_to_bytes(WordText(hex))) = WordText(hex)
          <=> WellFormedText(WordText(hex))
    BY <2>4, TextSurvives
  <2>7. QED BY <2>2, <2>3, <2>5, <2>6
<1>2. QED BY <1>1, JobInvariant, PTL

-----------------------------------------------------------------------------
(* At every difficulty above one the hashes that meet the target are as    *)
(* many as the difficulty says, to the precision of a double and one hash, *)
(* for every precision.                                                    *)
THEOREM OddsOfAShare == Spec => []ShareOdds
<1>1. ManagerInv => ShareOdds
  <2> SUFFICES ASSUME ManagerInv, difficulty[1] > difficulty[2]
               PROVE  ShareOdds
    BY DEF ShareOdds
  <2> DEFINE fair == WordSize * difficulty[2]
  <2>1. IsDouble(difficulty) BY JobsAssumption DEF ManagerInv
  <2>2. ~(difficulty[1] <= 0) /\ ~(difficulty[1] <= difficulty[2]) BY <2>1 DEF IsDouble
  <2>3. target = RoundedThenCut(fair, difficulty[1]) BY <2>2 DEF ManagerInv, difficulty_to_target
  <2>4. target \in 0..(WordSize - 1) /\ WordSize \in Nat BY TargetType, Sizes
  <2>5. Cardinality({h \in [1..WordBytes -> Byte] : hash_meets_target(h, target)}) = target
    <3>1. target \in 0..WordSize BY <2>4
    <3>2. QED BY <3>1, HashesThatMeet
  <2>6. /\ target * difficulty[1] * Significand <= fair * (Significand + 1)
        /\ (target + 1) * difficulty[1] * Significand > fair * (Significand - 1)
    BY <2>1, <2>3, TargetRounds
  <2>7. QED BY <2>5, <2>6 DEF ShareOdds
<1>2. QED BY <1>1, ManagerInvariant, PTL

(* Where the number of cores is known no core gets two workers more than   *)
(* another; where it is not, every worker has a number of its own.         *)
LEMMA CoresBalanced ==
  ASSUME NEW n \in Nat, NEW k \in Nat, NEW numa \in BOOLEAN,
         NEW configs, configs = WorkerConfigs(n, k, numa),
         NEW c \in 0..((IF k = 0 THEN n ELSE k) - 1), NEW d \in 0..((IF k = 0 THEN n ELSE k) - 1)
  PROVE  LET load(e) == Cardinality({i \in DOMAIN configs : configs[i].cpu_affinity = e})
         IN  load(c) <= load(d) + 1 /\ (k = 0 => load(c) <= 1)
<1> DEFINE on(e) == {i \in DOMAIN configs : configs[i].cpu_affinity = e}
<1>1. /\ DOMAIN configs = 1..n
      /\ \A i \in 1..n : configs[i].cpu_affinity = IF k = 0 THEN i - 1 ELSE (i - 1) % k
  BY DEF WorkerConfigs
<1>2. CASE k = 0
  <2>1. ASSUME NEW e \in 0..(n - 1) PROVE Cardinality(on(e)) = 1
    <3>1. e + 1 \in 1..n /\ \A i \in 1..n : i - 1 = e <=> i = e + 1 OBVIOUS
    <3>2. on(e) = {e + 1} BY <1>1, <1>2, <3>1
    <3>3. QED BY <3>2, FS_Singleton
  <2>2. Cardinality(on(c)) = 1 /\ Cardinality(on(d)) = 1 BY <1>2, <2>1
  <2> HIDE DEF on
  <2>3. Cardinality(on(c)) <= Cardinality(on(d)) + 1 /\ Cardinality(on(c)) <= 1 BY <2>2
  <2>4. QED BY <2>3 DEF on
<1>3. CASE k # 0
  <2>1. \A e : on(e) = Leaving(n, k, e) BY <1>1, <1>3 DEF Leaving
  <2>2. Cardinality(Leaving(n, k, c)) <= Cardinality(Leaving(n, k, d)) + 1
    BY <1>3, LeavingBalanced
  <2> HIDE DEF on
  <2>3. Cardinality(on(c)) <= Cardinality(on(d)) + 1 BY <2>1, <2>2
  <2>4. QED BY <1>3, <2>3 DEF on
<1>4. QED BY <1>2, <1>3

(* The first node gets as many workers as the second, or one more.         *)
LEMMA NodesBalanced ==
  ASSUME NEW n \in Nat, NEW k \in Nat, NEW numa \in BOOLEAN
  PROVE  LET configs == WorkerConfigs(n, k, numa)
             onNode(e) == Cardinality({i \in DOMAIN configs : configs[i].numa_node = e})
         IN  onNode(1) > 0 => onNode(0) - onNode(1) \in {0, 1}
<1> DEFINE configs == WorkerConfigs(n, k, numa)
           on(e) == {i \in DOMAIN configs : configs[i].numa_node = e}
<1>1. /\ DOMAIN configs = 1..n
      /\ \A i \in 1..n : configs[i].numa_node = IF numa THEN (i - 1) % 2 ELSE 0
  BY DEF WorkerConfigs
<1> HIDE DEF configs
<1>2. CASE numa
  <2>1. on(0) = Leaving(n, 2, 0) /\ on(1) = Leaving(n, 2, 1) BY <1>1, <1>2 DEF Leaving
  <2>2. 2 \in Nat \ {0} /\ 0 \in 0..(2 - 1) /\ 1 \in 0..(2 - 1) /\ 0 <= 1 OBVIOUS
  <2>3. /\ Cardinality(Leaving(n, 2, 0)) <= Cardinality(Leaving(n, 2, 1)) + 1
        /\ Cardinality(Leaving(n, 2, 1)) <= Cardinality(Leaving(n, 2, 0))
    BY <2>2, LeavingBalanced
  <2>4. Cardinality(Leaving(n, 2, 0)) \in Nat /\ Cardinality(Leaving(n, 2, 1)) \in Nat
    BY LeavingFinite
  <2>5. \A x, y \in Nat : x <= y + 1 /\ y <= x => x - y \in {0, 1} OBVIOUS
  <2> HIDE DEF on
  <2>6. Cardinality(on(0)) - Cardinality(on(1)) \in {0, 1} BY <2>1, <2>3, <2>4, <2>5
  <2>7. QED BY <2>6 DEF on, configs
<1>3. CASE ~numa
  <2>1. on(1) = {} BY <1>1, <1>3
  <2> HIDE DEF on
  <2>2. Cardinality(on(1)) = 0 BY <2>1, FS_EmptySet
  <2>3. ~(Cardinality(on(1)) > 0) BY <2>2
  <2>4. QED BY <2>3 DEF on, configs
<1>4. QED BY <1>2, <1>3

(* For every number of workers and of cores, zero included, the workers    *)
(* that a call configured are spread evenly.                               *)
THEOREM LoadBalanced == Spec => []WorkersBalanced
<1>1. ManagerInv => WorkersBalanced
  <2> SUFFICES ASSUME ManagerInv PROVE WorkersBalanced OBVIOUS
  <2>1. NumWorkers \in Nat /\ cores \in Nat BY JobsAssumption DEF ManagerInv
  <2>2. CASE workers = << >>
    <3> DEFINE load(c) == {i \in DOMAIN workers : workers[i].cpu_affinity = c}
               onNode(k) == {i \in DOMAIN workers : workers[i].numa_node = k}
    <3>1. \A c : load(c) = {} /\ onNode(c) = {} BY <2>2
    <3>2. Cardinality({}) = 0 BY FS_EmptySet
    <3>3. QED BY <3>1, <3>2 DEF WorkersBalanced
  <2>3. ASSUME NEW numa \in BOOLEAN, workers = WorkerConfigs(NumWorkers, cores, numa)
        PROVE  WorkersBalanced
    <3>1. ASSUME NEW c \in CoreNumbers, NEW d \in CoreNumbers
          PROVE  LET load(e) == Cardinality({i \in DOMAIN workers : workers[i].cpu_affinity = e})
                 IN  load(c) <= load(d) + 1 /\ (cores = 0 => load(c) <= 1)
      <4>1. /\ c \in 0..((IF cores = 0 THEN NumWorkers ELSE cores) - 1)
            /\ d \in 0..((IF cores = 0 THEN NumWorkers ELSE cores) - 1)
        BY DEF CoreNumbers
      <4>2. QED BY <2>1, <2>3, <4>1, CoresBalanced
    <3>2. LET onNode(e) == Cardinality({i \in DOMAIN workers : workers[i].numa_node = e})
          IN  onNode(1) > 0 => onNode(0) - onNode(1) \in {0, 1}
      BY <2>1, <2>3, NodesBalanced
    <3>3. QED BY <3>1, <3>2 DEF WorkersBalanced
  <2>4. QED BY <2>2, <2>3 DEF ManagerInv
<1>2. QED BY <1>1, ManagerInvariant, PTL
=============================================================================
