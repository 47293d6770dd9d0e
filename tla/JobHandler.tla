----------------------------- MODULE JobHandler ------------------------------
(***************************************************************************)
(* JobManager, DifficultyManager and WorkerPool of job_handler.cpp under   *)
(* calls from any threads.  Every call of a manager holds its mutex from   *)
(* the first line to the last, new_job() also while it runs the callback,  *)
(* so calls are single steps but for that one.  The members nobody reads   *)
(* (m_share_callback, m_auto_difficulty, total_hashes) are left out.       *)
(***************************************************************************)
EXTENDS WorkCodec, FiniteSets

CONSTANTS Jobs,             \* [job_id, blob, target], the last two texts
          HistorySizes,     \* sizes that are set
          DefaultHistory,   \* m_max_job_history at first (10)
          Difficulties,     \* as DifficultyManager gets them later
          InitialDifficulty,
          NumWorkers,
          CoreCounts,       \* what hardware_concurrency() may return; 0: unknown
          MaxPosts,         \* bound: jobs posted
          MaxShares         \* bound: shares recorded between two resets

ASSUME JobsAssumption ==
  /\ \A j \in Jobs : j.blob \in Seq(Char) /\ j.target \in Seq(Char)
  /\ HistorySizes \subseteq Nat /\ DefaultHistory \in Nat
  /\ NumWorkers \in Nat /\ CoreCounts \subseteq Nat
  /\ MaxPosts \in Nat /\ MaxShares \in Nat
  /\ \A d \in Difficulties \cup {InitialDifficulty} : IsDouble(d)

VARIABLES
  posted,       \* history: the jobs given to new_job(); the last is m_current_job
  recent,       \* m_recent_job_ids
  maxHistory,   \* m_max_job_history
  limits,       \* history: its values so far
  hasCallback,  \* m_job_callback is set
  running,      \* the posts whose callback runs, under m_mutex
  notified,     \* history: the posts whose callback has returned
  accepted, rejected,       \* m_stats
  difficulty, target,       \* DifficultyManager
  workers,                  \* m_worker_configs
  cores,                    \* hardware_concurrency() on this machine
  ended                     \* a division by zero has ended the process

jobVars == <<posted, recent, maxHistory, limits, hasCallback, running, notified>>
shareVars == <<accepted, rejected>>
difficultyVars == <<difficulty, target>>
poolVars == <<workers, cores, ended>>
vars == <<jobVars, shareVars, difficultyVars, poolVars>>

(* Core numbers; with no core known, workers are numbered through.         *)
CoreNumbers == 0..((IF cores = 0 THEN NumWorkers ELSE cores) - 1)

(* Every variable has its type: a target fits in its word, and a worker is *)
(* bound to a core there is.                                               *)
TypeOK ==
  /\ posted \in Seq(Jobs)
  /\ recent \in Seq({j.job_id : j \in Jobs})
  /\ maxHistory \in limits /\ limits \subseteq HistorySizes \cup {DefaultHistory}
  /\ hasCallback \in BOOLEAN
  /\ running \subseteq DOMAIN posted
  /\ notified \in Seq(Nat)
  /\ accepted \in Nat /\ rejected \in Nat
  /\ difficulty \in Difficulties \cup {InitialDifficulty}
  /\ target \in 0..(WordSize - 1)
  /\ workers \in Seq([cpu_affinity : CoreNumbers, numa_node : {0, 1}])
  /\ cores \in CoreCounts /\ ended \in BOOLEAN

Init ==
  /\ posted = << >> /\ recent = << >>
  /\ maxHistory = DefaultHistory /\ limits = {DefaultHistory}
  /\ hasCallback = FALSE /\ running = {} /\ notified = << >>
  /\ accepted = 0 /\ rejected = 0
  /\ difficulty = InitialDifficulty
  /\ target \in difficulty_to_target(InitialDifficulty)
  /\ workers = << >> /\ cores \in CoreCounts /\ ended = FALSE

-----------------------------------------------------------------------------
(* JobManager                                                              *)

Unlocked == running = {}

(* At most one id leaves the history, whatever its limit has become.       *)
Remember_EraseNewest(id) ==                          \* mutant: erases at the end
  recent' = IF Len(recent) + 1 > maxHistory THEN recent ELSE Append(recent, id)

Remember(id) ==
  LET pushed == Append(recent, id)
  IN  recent' = IF Len(pushed) > maxHistory THEN Tail(pushed) ELSE pushed

new_job_Unlocked(j) ==                               \* mutant: unlocks before
  /\ Len(posted) < MaxPosts                          \* the callback
  /\ posted' = Append(posted, j)
  /\ Remember(j.job_id)
  /\ running' = IF hasCallback THEN running \cup {Len(posted')} ELSE running
  /\ UNCHANGED <<maxHistory, limits, hasCallback, notified, shareVars, difficultyVars, poolVars>>

new_job(j) ==
  /\ Unlocked
  /\ Len(posted) < MaxPosts
  /\ posted' = Append(posted, j)
  /\ Remember(j.job_id)
  /\ running' = IF hasCallback THEN {Len(posted')} ELSE {}
  /\ UNCHANGED <<maxHistory, limits, hasCallback, notified, shareVars, difficultyVars, poolVars>>

(* The callback is the caller's own code; it must not call the manager     *)
(* again, whose mutex is not recursive.                                    *)
CallbackReturns(p) ==
  /\ p \in running
  /\ running' = running \ {p}
  /\ notified' = Append(notified, p)
  /\ UNCHANGED <<posted, recent, maxHistory, limits, hasCallback, shareVars,
                 difficultyVars, poolVars>>

set_job_callback(set) ==
  /\ Unlocked
  /\ hasCallback' = set
  /\ UNCHANGED <<posted, recent, maxHistory, limits, running, notified, shareVars,
                 difficultyVars, poolVars>>

set_job_history_size(size) ==
  /\ Unlocked
  /\ maxHistory' = size
  /\ limits' = limits \cup {size}
  /\ UNCHANGED <<posted, recent, hasCallback, running, notified, shareVars,
                 difficultyVars, poolVars>>

record_share(isAccepted) ==
  /\ Unlocked
  /\ accepted + rejected < MaxShares
  /\ accepted' = IF isAccepted THEN accepted + 1 ELSE accepted
  /\ rejected' = IF isAccepted THEN rejected ELSE rejected + 1
  /\ UNCHANGED <<jobVars, difficultyVars, poolVars>>

reset_stats ==
  /\ Unlocked
  /\ accepted' = 0 /\ rejected' = 0
  /\ UNCHANGED <<jobVars, difficultyVars, poolVars>>

-----------------------------------------------------------------------------
(* DifficultyManager and WorkerPool                                        *)

(* update_target(), and set_fixed_difficulty(), which does the same.       *)
update_target(d) ==
  /\ difficulty' = d
  /\ target' \in difficulty_to_target(d)
  /\ UNCHANGED <<jobVars, shareVars, poolVars>>

configure_workers_Appends(numa) ==                   \* mutant: no clear()
  /\ workers' = workers \o WorkerConfigs(NumWorkers, cores, numa)
  /\ UNCHANGED <<jobVars, shareVars, difficultyVars, cores, ended>>

configure_workers(numa) ==
  /\ workers' = WorkerConfigs(NumWorkers, cores, numa)
  /\ UNCHANGED <<jobVars, shareVars, difficultyVars, cores, ended>>

(* configure_workers() where i % 0 traps (x86): no thread goes on.         *)
DivisionTraps ==
  /\ cores = 0 /\ NumWorkers > 0
  /\ ended' = TRUE
  /\ UNCHANGED <<jobVars, shareVars, difficultyVars, workers, cores>>

Running ==
  \/ \E j \in Jobs : new_job(j)
  \/ \E p \in running : CallbackReturns(p)
  \/ \E set \in BOOLEAN : set_job_callback(set)
  \/ \E size \in HistorySizes : set_job_history_size(size)
  \/ \E a \in BOOLEAN : record_share(a)
  \/ reset_stats
  \/ \E d \in Difficulties : update_target(d)
  \/ \E numa \in BOOLEAN : configure_workers(numa)
  \/ DivisionTraps

Next == ~ended /\ Running

Spec == Init /\ [][Next]_vars

-----------------------------------------------------------------------------
(* The history is a gapless run of ids up to the current job, however its  *)
(* limit moved: as long as the smallest limit so far asks for, and never   *)
(* longer than the largest allowed (a lowered limit trims nothing).        *)
RecentWindow ==
  LET n == Len(recent)
  IN  /\ n <= Len(posted)
      /\ \A i \in 1..n : recent[i] = posted[Len(posted) - n + i].job_id
      /\ \E limit \in limits : n <= limit
      /\ \E limit \in limits : n >= limit \/ n = Len(posted)

(* Callbacks are run one at a time, in the order in which their jobs were  *)
(* posted, each while its own job is the current one.                      *)
CallbacksInOrder ==
  /\ \A p \in running : p = Len(posted)
  /\ \A p, q \in DOMAIN notified : p < q => notified[p] < notified[q]
  /\ \A p \in DOMAIN notified, q \in running : notified[p] < q

(* The blob hashed for a nonce is the current job's but for the nonce it   *)
(* carries, which the helper reads back; an extra nonce goes in behind it, *)
(* and the miner rejects exactly the blobs that do not validate.           *)
NonceCarried ==
  posted # << >> =>
    LET hex  == Last(posted).blob
        blob == hex_to_bytes(hex)
        work(n) == construct_mining_blob(hex, n)
    IN  \A n \in Nonces :
          IF validate_blob(blob)
          THEN /\ extract_nonce(work(n)) = n
               /\ DOMAIN work(n) = DOMAIN blob
               /\ \A i \in DOMAIN blob : i <= NonceAt \/ i > ExtraAt => work(n)[i] = blob[i]
               /\ LET more == insert_extra_nonce(work(n), <<n % ByteSize, 0>>)
                  IN  /\ extract_nonce(more) = n
                      /\ extract_extra_nonce(more)
                           = <<n % ByteSize, 0>> \o extract_extra_nonce(blob)
          ELSE work(n) = TooShort

(* A target's bytes, read from the lowest up by the miner and from the     *)
(* highest down by the helper: digit by digit, for short, odd and          *)
(* malformed texts too.  So the two agree on palindromes only.             *)
TargetBytes ==
  posted # << >> =>
    LET hex   == Last(posted).target
        bytes == hex_to_bytes(WordText(hex))
        digit(value, i) == (value \div Power(ByteSize, i)) % ByteSize
    IN  \A i \in 0..(WordBytes - 1) :
          /\ digit(target_to_uint64(hex), i) = IF i < Len(bytes) THEN bytes[i + 1] ELSE 0
          /\ digit(compact_to_uint64(hex), i)
               = IF i < Len(bytes) THEN bytes[Len(bytes) - i] ELSE 0

(* Texts survive the way to bytes and back, and their first word the way   *)
(* to a target and back, exactly if they are well formed; others become    *)
(* bytes of some kind.                                                     *)
TextRoundTrip ==
  posted # << >> =>
    \A hex \in {Last(posted).blob, Last(posted).target} :
      LET bytes == hex_to_bytes(hex)
          word  == WordText(hex)
          WellFormed(text) == Len(text) % 2 = 0 /\ \A i \in DOMAIN text : text[i] \in Digit
      IN  /\ \A i \in DOMAIN bytes : bytes[i] \in Byte
          /\ bytes_to_hex(bytes) = hex <=> WellFormed(hex)
          /\ Len(word) = 2 * WordBytes =>
               (uint64_to_compact(compact_to_uint64(hex)) = word <=> WellFormed(word))

(* Above difficulty 1 one hash in `difficulty` meets the target in force,  *)
(* give or take one hash and the part in Significand by which a quotient   *)
(* of doubles may err: in which direction depends on the difficulty.  At 1 *)
(* and below the conversion promises nothing.                              *)
ShareOdds ==
  difficulty[1] > difficulty[2] =>
    LET wins == Cardinality({h \in [1..WordBytes -> Byte] : hash_meets_target(h, target)})
        fair == WordSize * difficulty[2]                 \* over difficulty[1]
    IN  /\ wins * difficulty[1] * Significand <= fair * (Significand + 1)
        /\ (wins + 1) * difficulty[1] * Significand > fair * (Significand - 1)

(* No core gets two workers more than another, no NUMA node either; where  *)
(* the number of cores is not known and the call returns, no two workers   *)
(* get one number.                                                         *)
WorkersBalanced ==
  LET load(c) == Cardinality({i \in DOMAIN workers : workers[i].cpu_affinity = c})
      onNode(k) == Cardinality({i \in DOMAIN workers : workers[i].numa_node = k})
  IN  /\ \A c, d \in CoreNumbers : load(c) <= load(d) + 1
      /\ cores = 0 => \A c \in CoreNumbers : load(c) <= 1
      /\ onNode(1) > 0 => onNode(0) - onNode(1) \in {0, 1}

(* Configuring workers never ends the process.  No run checks this, for it *)
(* fails where hardware_concurrency() knows no number and division traps,  *)
(* which get_optimal_thread_count(), four lines below, provides against.   *)
ConfigureReturns == ~ended
=============================================================================
