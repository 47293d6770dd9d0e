# TLA+ models of the Monero miner

The repository is a Monero miner: a C++ core (Stratum client, RandomX miner, command line program) and an Android
application around it (a WebView page, an activity, a JNI bridge, a view model, a foreground service). This directory
holds TLA+ modules that model it, TLC configurations that check them on small instances, and TLAPS proofs for every
value of the constants. `PROJECT.json` maps each definition to the source lines it stands for.

    tlc -config MinerSession.cfg MCMinerSession.tla        # any row of the table of runs below
    tlapm MinerSessionProofs.tla                           # any module whose name ends in Proofs

## Inventory

| Component | Source | State | Operations | Talks to |
|---|---|---|---|---|
| Stratum client | `src/stratum_client.cpp` | socket, `m_connected`, `m_running`, receive thread, `m_buffer`, current job, callbacks | connect, login, start_receive_loop, stop; the receive loop | pool (socket), miner (job callback) |
| Miner session | `src/randomx_miner.cpp`, `src/main.cpp` | `m_running`, mining threads, VMs, job copy, `m_new_job`, `keep_running` | initialize, start_mining, stop_mining, destructor, on_new_job, mining_thread, signal handler | Stratum client (owns it), RandomX |
| RandomX wrapper | `libs/randomx_wrapper.cpp` | cache, dataset, VMs | initialize, initialize_android, moves, destroy, hash | RandomX library |
| View model and saved configuration | `MinerViewModel.kt`, `ConfigManager.kt` | screen state, preferences, monitoring coroutines | import, rig and subaddress calls, start, stop, monitor | foreground service (intents) |
| Page, activity, JNI bridge | `assets/miner.js`, `MainActivity.kt`, `miner_bridge.cpp` | page variables, `nativeLibraryLoaded`, `g_miner`, `g_mining` | start, stop, statistics, activity life cycle | miner session |
| Foreground service | `MinerService.kt` | `isMining`, wake lock | start, stop, pause, destroy | view model |
| Device state | `android_bridge.cpp`, `android_battery.*`, `android_thermal.*` | battery, temperature, throttle flags | updates and queries | (nobody; in no build file) |
| Helpers | `src/job_handler.cpp`, codecs of `src/randomx_miner.cpp` | job history, statistics, difficulty, worker placement | codecs, new_job, record_share, update_target, configure_workers | (nobody yet) |
| Service JNI entry points | `android_main.cpp` | a second `g_miner` | an older copy of the bridge | (nobody; in no build file) |

What is hard: two kinds of threads over one object and its order of destruction; a byte stream that arrives in any
pieces; connections that end in four different ways; exceptions half way through starting; a screen, saved settings
and a native miner that each remember something of their own; activities and processes that Android ends at any
time; ownership of native memory through failures and moves. `PROJECT.json` lists each hazard at its line, with the
properties that cover it or the reason there is none.

What makes each part correct:

- *Stratum client*: each announced line reaches the handler once, whole and in order; the socket is not closed under
  the reader; a lost connection is noticed.
- *Miner session*: no thread outlives what it uses; stopping always ends; the newest job wins.
- *Wrapper*: everything allocated has exactly one owner; a VM is used only with its own cache and dataset.
- *View model*: screen and preferences agree; a saved rig can be selected; only a validated address is mined for;
  monitors end with mining.
- *Bridge*: flag, object and page tell the same story; a stop takes hold.
- *Service*: the lock is held while mining and only then. *Device state*: neither throttling nor low power ever raises the
  recommended count above what a cool, charged phone with the same cores and memory gets. *Helpers*: decoding inverts
  encoding, up to the case of the digits; the history is the newest ids, no more than the largest limit so far allowed.

## Modules

**`LineFeed`** is the abstract promise of a pool connection: a sequence of announced lines, of which a prefix has been
delivered.

**`StratumClient`** is an action library for one connection. A line's text is one token and `\n` another, so `recv()`
may end between them and may return several lines (`RecvData` takes any prefix of what has arrived, up to `RecvMax`
tokens). Each failure of `recv()` is an action: `RecvTimeout` (EAGAIN after 30 s), `RecvReset`, `RecvInterrupted`
(EINTR; a socket with SO_RCVTIMEO does not restart), `RecvClosed` (result 0, which leaves `errno` as it was).
`errno` is a variable because the loop reads it in the last case. `handle_message` stores a blank job whatever the
line says; jobs are told apart by their `received_time`. The pool and the network are external actions: the pool
sends lines and blank lines after the login, closes, or the connection breaks and loses any suffix of what is under
way.

**`MinerSession`** extends it with the owner thread (`opc` is its place in `main()`, the constructor-to-destructor life
of `RandomXMiner`), the mining threads (`mpc`), the job callback and the signal handler. The steps of the owner are the
calls it makes or blocks in. After `DestroyMembers` the callback uses destroyed objects; that is undefined, so it
either goes unnoticed or ends the process. The Android bridge makes the same calls in the same order: its stop
request takes the place of the signal.

**`RandomXWrapper`** models ownership: an allocator that may hand out any address not in use, wrappers in fixed storage,
each member function one action. `backing` remembers which cache and dataset a VM was created on. The flags and the bytes hashed are left out.

**`MinerViewModel`** models the main thread's calls one at a time, and monitoring coroutines as a number of sleepers,
each of which writes the status when it wakes and only then looks at `isMining` again. Addresses are three sorts: full
length, short and empty; pools are valid or not. A worker name is what the user gave plus the rig names appended to it.
The list of rigs and the map of their addresses are kept apart, as in the code: adding a rig twice lists it twice, and a
user may add or remove one called "default". `RigsSelectable` is the direction of their agreement that holds (what has an
address is listed). The other does not: a rig added twice and removed once is still listed and pays the main wallet, and
`removeRig("default")` leaves "default" selected but not listed, so `selectRig("default")` is refused after another
selection. `SelectedIsListed` states the latter and is false of the code; no document of the repository promises it, so no
run checks it.

**`MinerBridge`** models the page, the interface thread with its queue of calls, and `g_miner`. A page blocks in a call.
The activity may go away during it; the call runs on and returns to nobody. A start ends as refused,
without effect (an exception before `g_miner` is assigned), failed (initialize() false), half (an exception later) or
running.

**`MinerSwitch`** is what a user may take all of that to be: a queue of requests and at most one wallet that is mined for.
`MinerBridge` implements it with the calls as requests and a running `g_miner` as what mines.

**`MinerService`** models the foreground service under Android's rules, which are external: `queue` holds the intents and
life-cycle calls its main thread has not run yet. A request sent while the service is not up (`up`) is preceded by
`CREATE`; `stopSelf()` appends `DESTROY`, so requests already queued still reach the instance that was stopped, and
later ones reach a new instance. The lock may expire, and taking it may throw before or after the field is set. When
the process dies, a service that is up is restarted with the requests it had not handled or with a null intent. The
service runs in a process of its own (`android:process=":miner"` in the manifest) and shares nothing with the view
model but the intents. Its `isMining` is a flag only; it starts no miner. No sender of `ACTION_PAUSE` exists yet; the
handler is modelled with one.

**`DeviceState`** models what the three native files remember of battery and temperature, one action per function that
changes it; each file has its own static variables, also where they share a name. The thread count is an operator
asked of every combination of cores, memory and width of `long`. Temperatures are whole degrees (the comparisons are
with whole numbers) and memory is counted in fractions of the 2 GB of a thread. `unplugged` is history: the reports
since the charger was last seen. What `android_bridge.cpp` does at 45 and at 65 degrees is less than its comments and
messages say ("Start reducing threads" :67, "Stop mining" :69, "Stopping mining!" :72, "Reducing threads" :79,
"Reduce threads by half" :80): in both bands the throttle flag keeps what it was, so a phone that warms up to 50 degrees, or
jumps from 40 to 70, is not throttled. From 55 to 64 the message says 1 thread (:76) and the count allows 2 (:124). The
formula `HeatThrottles` says what the comments promise from 45 degrees on, and is false of the code; no run checks it.
What `TrackersCompatible` checks instead is where the two trackers of the temperature contradict each other after the same
reading: in those two bands and nowhere else, and there only in that `android_thermal.cpp` limits to 2 or 0 threads while
`android_bridge.cpp` does not throttle. A new message that throttled at 65, or a tracker that stopped limiting at 45, breaks it.

**`WorkCodec`** holds the pure functions: hexadecimal texts to bytes as `strtol` reads them (signs, blanks, characters
that are no digit, an odd last digit), the two readings of a target, nonce and extra nonce in a blob, difficulty to
target, placement of workers. `bytes_to_hex` writes lower case only; upper and lower case digits are one digit here, so what a
text survives, it survives up to case. The sizes of digit, word, nonce and blob are parameters. The loops that shift bytes into
a word are a recursive function (`Shifted`), cut to the word at each turn as the C++ integer is. A difficulty is a
double and so is the quotient `double(MAX) / d` (2^64 over `d`), rounded to the nearest double before it is cut to an integer:
`difficulty_to_target` computes that with a significand of `Significand` (2^53 in the code) and the powers of two in
`Exponents`, so a target may lie above or below 2^64 / d. Where the code's conversion of the quotient is undefined, the
operator is the set of outcomes.

**`JobHandler`** models `JobManager`, `DifficultyManager` and `WorkerPool`. Each call holds a mutex throughout and is one step,
except `new_job()`, which runs the callback under it: the step that posts and `CallbackReturns` are two, and every other call of
`JobManager` waits between them. That the callback does not call the manager again, which would wait for itself, is the
caller's duty: there is no caller yet, and the model has the callback return. `hardware_concurrency()` may return 0
(`cores`): then `i % 0` either ends the process (`DivisionTraps`, x86) or leaves `i` (ARM). `ConfigureReturns`, that it never
ends it, is false of the code; no document promises it, and no run checks it.

**`MC*`** give constants their values for TLC. The modules of theorems are `MinerSessionProofs`, `RandomXWrapperProofs`,
`MinerViewModelProofs`, `MinerBridgeProofs`, `MinerServiceProofs`, `DeviceStateProofs`, `WorkCodecProofs` and
`JobHandlerProofs`.

Operators marked `mutant` are not part of the models: each is a plausible mistake in the definition below it, and the
property it is paired with in `PROJECT.json` catches it.

## Runs

| Run | What it asks | Answer and size |
|---|---|---|
| `session` | Threads, job copies, line feed refinement, shutdown, delivery, loss of connection | holds; about 285,000 states |
| `session_close` | Is an orderly close always noticed? | no: stale EAGAIN, the loop spins |
| `session_callback` | Is the callback never run on destroyed members? | no: members go before the receive thread |
| `session_mines` | Does a started miner mine? | no: no VM exists when the threads start |
| `view_model` | Screen = saved settings, saved rigs selectable, payout address, monitors | holds; about 500,000 states |
| `view_model_wallet` | Is the main wallet paid when nothing else is selected? | no: starting overwrites it |
| `wrapper` | Leaks, single ownership, VMs with their memory | holds; about 2,300 states up to symmetry |
| `bridge` | Flag, leftovers, watched miner, stop takes hold, switch refinement | holds; about 1,100 states |
| `service` | Wake lock leaks, a last stop is final and is carried out | holds; about 3,000 states |
| `service_awake` | Is the CPU kept awake while the service mines? | no: the lock expires after ten minutes |
| `device` | Low power against the history of reports, the two thermal trackers against each other, thread count against the phone | holds; about 5,000 states |
| `jobs` | History, order of callbacks, codecs against reference definitions, odds of a share, balance of workers | holds; about 296,000 states |

Runs that fail state what a document, a comment or a log line of the repository says; the sentence is quoted with the
finding.

**Bounds.** *Session*: two lines and one blank line, `recv()` of up to three tokens: a read can end inside the first
line, span two lines, or hold a blank line between; two mining threads, so starting can fail before, between and after
them. The proofs lift the bounds for the invariants. *View model*: one rig besides "default", two full addresses, one
short; two monitors, so an old and a new one meet; a rig listed twice; one suffix of the worker name. *Wrapper*: two
wrappers and six addresses: each may own a cache, a dataset and a VM, and one may reuse what the other released; at
most two threads. Addresses are model values and only wrappers are declared symmetric; no liveness is checked there.
*Bridge*: three pages and two wallets: a call of the first page can still run under the third.
*Service*: a request is sent while fewer than four messages wait, so a stopped instance can still have a start, and
the next instance its own requests, before it; two process deaths, so a restarted service can die again.
*Device*: readings on both sides of each threshold, so every band is entered from every other; cores on both sides of
each minimum, memory for no, one, two and more threads; a `long` in which 2 GB does not fit and one in which it does.
*Jobs*: digits of one bit, words of three bytes of two bits, nonces of two, so every nonce and hash is enumerated and byte
order and padding show; a job with a valid but malformed, odd blob and an odd target longer than a word, and one with a well
formed blob that is too short and a short, odd, malformed target; three posts against history sizes 0, 1 and 2, so a limit is
lowered and raised with ids in the history; five workers on two cores or an unknown number; significands of three bits, with
which 64 / 3 is rounded below its integer part and 64 / (7/2) above; difficulties of zero and below 1 besides.

**Fairness.** *Session*: the owner, the receive thread and each mining thread are weakly fair: the system schedules
every runnable thread and each socket call returns within its 30 second timeout. Nothing is asked of the pool, the
network or the user. The receive thread's fairness includes the timeout, without which `ShutdownCompletes` fails
(mutant `TimesOut_Never`). *View model*: the main looper runs due coroutines. *Bridge*: the interface thread runs its
queue and native calls end, which `ShutdownCompletes` justifies for stop and the timeouts for start.
*Service*: the main looper runs what is queued; nothing is asked of users, timeouts or Android.

`CHECK_DEADLOCK` is off in `jobs` alone, where a division by zero may end the process; a finished session stutters explicitly
(`Terminated`).

## Proofs

**Session** (`MinerSessionProofs`). From `LinesAssumption` (the terminator is not a line), `BoundAssumption` and
`NumThreadsAssumption` (naturals), for all pools, chunk sizes and numbers of threads:
`TypeCorrect`, `ReceiverSafe` (`SocketOutlivesReceiver`), `MiningThreadsSafe` (`MiningJoinedBeforeDestroyed`) and
`JobsAgree` (`JobCopiesAgree`). The invariants are not inductive alone: that the socket is open while the thread
lives depends on where the owner is. `SafetyInv` adds, per place of the owner, whether the receive thread may exist and
the socket and callback with it (`ReceiverInv`), that mining threads beyond `started` were never born, that those
below it are joined before `started` returns to zero and that members are only gone after that (`MiningInv`). One lemma
per group of actions (owner, receiver, pool, signal, mining) shows it preserved.

**Wrapper** (`RandomXWrapperProofs`). From `WrapperAssumption`: `NoLeak`, `SingleOwner`, `VmMemory`, by the inductive
invariant `OwnInv`, which adds that storage without an object holds nothing (`DeadHoldNothing`); without it an
object constructed later could seem to own what was handed away.

`TypeCorrect` there needs the same invariant: a VM is typed by the memory it was created on.

**Line feed** (also `MinerSessionProofs`). `FeedImplemented`: `MinerSession` implements `LineFeed`, for every pool, every `RecvMax`
and every way a connection or the program ends. The invariant `StreamInv` says what the tokens in `m_buffer` followed by
those on the wire are: some `g` counts the lines delivered by the time each token has been read; each text is the
announced line of that number with a newline after it, unless the stream stops there. `g` is what makes the argument
local: a read does not change the stream, a line cut off drops its first one or two tokens, a loss drops a suffix. While the
connection is up the stream is complete (it ends after a newline, with the last line announced), so what the pool sends
next is in turn. `ConnectInv` says that nothing runs before `connect()`, which is why a new connection starts empty.

**Service** (`MinerServiceProofs`). `TypeCorrect`, `LockSafe`, `StopFinal`, for queues of any length and any number of deaths.
The three are not inductive because what an instance does depends on what is queued. `QueueInv` says what may be:
`CREATE` and `DESTROY` at most once each; an instance that does not exist gets `CREATE` first; `DESTROY` is last or followed by
the `CREATE` of the next instance; a null intent is the first an instance gets; the service is up exactly while an instance
lives that was not stopped, or one is to be created; a stop that was the last request is queued last until it is handled.

**Bridge** (`MinerBridgeProofs`). `TypeCorrect`, `FlagTrue`, `StoppedLeavesNothing`, `PageWatches`, for any number of pages and
deaths. `BridgeInv` adds `CallsInv` (calls run in the order of their pages, one per page, and a page waits for its own)
and `PageInv` (a page that waits for a start shows mining and has no miner yet; a miner belongs to a page no younger than
the present one), without which a call of an old page could seem to start a miner for the new one.
`SwitchImplemented`: `MinerBridge` implements `MinerSwitch`. Besides `BridgeInv` (a start must see that a miner runs) it
needs `LibraryInv`: `RunStop` does nothing when its activity found no native library, and that is still a stop because
calls without the library come before all calls with it, so the process has had no miner yet.

**View model** (`MinerViewModelProofs`). The three invariants are inductive together with the types. **Device state**
(`DeviceStateProofs`). All four invariants, for every set of readings, cores and memory and every `long` of 32 bits or more;
`ThreadsFit` rests on what wrapped products and truncating division give (`MemoryIsThere`).

**Job handler** (`JobHandlerProofs`, over `WorkCodecProofs`). All eight invariants of the run. `HistoryIsWindow` and `CallbackOrder`
come from `JobInv` and hold for any jobs, sizes and numbers of posts. `TypeCorrect`, `OddsOfAShare` and
`LoadBalanced` need `ManagerInv`: the
target in force is one the present difficulty gives, and the workers are one configuration as a whole. `WorkCarriesNonce`,
`TargetsByDigits` and `TextsSurvive` are facts about the codecs, for every text.

What a loop over bytes computes is an induction over its length. The library's induction theorems take an operator as
parameter and cannot be cited here, so `WorkCodecProofs` starts one level lower. `Least` (a non-empty set of naturals has a least
element, from `WFMin`) gives `Induction` in set form, cited with the set of the numbers for which the claim holds.
`Recursion` builds the function a recursive definition chooses, from the approximations of each length, so `Power` and
`Shifted` obey their equations. From there:

- `DigitAt(x, b, i)` is digit `i` of `x` in base `b`; `EqualDigits`: numbers below `b^n` with the same `n` digits are equal.
- `ShiftedDigits`: digit `i` of what the loop leaves is the `i`-th byte from the end, and zero beyond the bytes, whatever was cut
  off on the way. `ReadUpwards` turns it round for the miner's reading, and `ReadBack` gives `extract_nonce` of `insert_nonce`.
- `DigitHalves` splits a digit in base `ByteSize` into two in base `Digits`, which is why a target printed digit by digit is
  the text it was read from (`CompactText`).
- `StrtolByte`, `BytesText` and `TextSurvives`: every text gives bytes, and only well formed texts come back.
- `HashesThatMeet`: hashes and numbers below `WordSize` correspond one to one, so as many hashes meet a target as there are
  numbers below it. `Nearest` and `QuotientRounded`: rounding to a significand errs by half a unit of the last place at
  most, and `TargetRounds` adds what cutting takes: the target is 2^64 / d to within one part in `Significand`, less one at most.
  So `OddsOfAShare` holds on both sides of the exact quotient.
- `LeavingBalanced`: of `1..n`, the residues modulo `m` occur equally often to within one: one class, less its first member, moves into the other.

They rest on `CodecAssumption` (sizes are positive, the nonce lies within the shortest valid blob) and `JobsAssumption` (texts
are sequences of `Char`: a digit, a sign, a blank or anything else; difficulties are doubles, `IsDouble`; the number of cores is any natural, zero included).

**Only model-checked**: the six properties under fairness (`ShutdownCompletes`, `EveryLineHandled`, `LossNoticed`, `MonitorsEnd`,
`StopTakesHold`, `StopCompletes`), which are out of the prover's reach. Every invariant of a passing run, and both
refinements, are theorems.

## Not modelled

- The mining loop beyond its entry check (`randomx_miner.cpp:188`), `initialize_randomx()`, which allocates with RandomX's own
  functions and not through the wrapper,
  `submit_share()` and `on_share_result()`: the program creates no VM before its mining threads look for one
  (`session_mines`), and the client stores a blank blob for every job, so none of it runs. A model would start from states
  the program cannot reach. Sharing of VMs, the single `m_new_job` flag and `m_message_id` are hazards of the day it
  does (see the plan), not of the code as it is. The codecs the loop would call are in `WorkCodec`.
- `load_config()` and the empty wallet check of `main()`: they end the program before there is a miner.
- `android_main.cpp`, an older copy of the bridge that no build file names and whose functions `MinerService` does not declare.
- The classes `AndroidBridge`, `BatteryManager` and `ThermalManager`: their headers declare them and no file implements
  them. `difficulty_from_target()`, which nothing calls, and members nobody reads (`m_share_callback`, `m_auto_difficulty`,
  `total_hashes`, `set_affinity`).
- Statistics of the page, logs, uptime, text formats.
- The Android layer as a build: the source directory is called `Java`, `MinerConfig` is passed as an intent extra
  although it is not parcelable, and the activity does not use the view model. The Kotlin code is modelled as written.
- `MainActivity.onReceivedError`, which replaces the page by an error text, and the notification's texts.
- Asynchronous writes of the preferences (`apply()`): a save is taken as done.

## Plan

1. *Done*: `LineFeed`, `StratumClient`, `MinerSession` (the core), `RandomXWrapper`, `MinerViewModel`, `MinerBridge`,
   `MinerService`, `DeviceState`, `WorkCodec` and `JobHandler`, checked; every invariant of their runs proved, and the
   refinements of `LineFeed` and `MinerSwitch`.
2. *When the client parses jobs and VMs are created before the threads*: the mining loop over the shared VM vector, with
   nonces partitioned among threads, the one `m_new_job` flag, `submit_share()` and `m_message_id`; one action per access
   between locks. Properties: no VM freed in use, no nonce hashed twice for a job, no share under a stale job.
3. *When the activity binds the service*: `MinerViewModel` composed with `MinerService` over the intents they exchange,
   so that the screen's state is related to the lock.
4. *Larger instances*: two pool connections in a row, once the client reconnects.
