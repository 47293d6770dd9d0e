----------------------------- MODULE DeviceState -----------------------------
(***************************************************************************)
(* What the native library knows of the phone: android_bridge.cpp tracks   *)
(* battery and temperature for the thread count it recommends,             *)
(* android_thermal.cpp tracks the temperature a second time for a thread   *)
(* limit, android_battery.cpp derives a mining intensity.  Each file has   *)
(* static variables of its own, also where they share a name.              *)
(*                                                                         *)
(* Temperatures are whole degrees, memory counts in units of               *)
(* 1 / UnitsPerThread of the 2 GB a RandomX thread needs.                  *)
(***************************************************************************)
EXTENDS Integers

CONSTANTS Readings,         \* temperatures the sensor may report
          Levels,           \* battery levels Android may report
          Cpus,             \* cores that may be on line
          Memory,           \* units that may be free; 0 if sysinfo() fails
          UnitsPerThread,   \* units in memory_per_thread
          LongRanges        \* per ABI: the values of `long`, in units,
                          \* 32 bits or more

ASSUME DeviceAssumption ==
  /\ Readings \subseteq Int /\ Levels \subseteq 0..100
  /\ Cpus \subseteq Nat /\ Memory \subseteq Nat
  /\ UnitsPerThread \in Nat \ {0}
  /\ \A long \in LongRanges : long \in Nat /\ long % 2 = 0 /\ long >= 2 * UnitsPerThread

VARIABLES
  batteryLevel, isCharging, lowPowerMode,       \* android_bridge.cpp
  cpuTemperature, thermalThrottled,             \* android_bridge.cpp
  optimization,                                 \* android_battery.cpp
  thermalTemperature, throttling, threadLimit,  \* android_thermal.cpp
  unplugged     \* history: levels reported since the last charging report

batteryVars == <<batteryLevel, isCharging, lowPowerMode, unplugged>>
bridgeThermalVars == <<cpuTemperature, thermalThrottled>>
thermalVars == <<thermalTemperature, throttling, threadLimit>>
vars == <<batteryVars, bridgeThermalVars, optimization, thermalVars>>

(* Every variable has its type.                                            *)
TypeOK ==
  /\ batteryLevel \in Levels \cup {100} /\ unplugged \subseteq Levels
  /\ isCharging \in BOOLEAN /\ lowPowerMode \in BOOLEAN
  /\ cpuTemperature \in Readings \cup {35} /\ thermalTemperature \in Readings \cup {35}
  /\ thermalThrottled \in BOOLEAN /\ throttling \in BOOLEAN
  /\ optimization \in BOOLEAN
  /\ threadLimit \in {0, 1, 2, 8}

Init ==
  /\ batteryLevel = 100 /\ isCharging = TRUE /\ lowPowerMode = FALSE
  /\ cpuTemperature = 35 /\ thermalThrottled = FALSE
  /\ optimization = TRUE
  /\ thermalTemperature = 35 /\ throttling = FALSE /\ threadLimit = 8
  /\ unplugged = {}

-----------------------------------------------------------------------------
NextLowPower_Recovers(level, charging) ==            \* mutant: else lowPower = false
  level < 20 /\ ~charging

(* Entered below 20 % on battery, left by a charger only.                  *)
NextLowPower(level, charging) ==
  (level < 20 \/ lowPowerMode) /\ ~charging

(* nativeUpdateBatteryStatus() of android_bridge.cpp                       *)
UpdateBatteryStatus(level, charging) ==
  /\ batteryLevel' = level /\ isCharging' = charging
  /\ lowPowerMode' = NextLowPower(level, charging)
  /\ unplugged' = IF charging THEN {} ELSE unplugged \cup {level}
  /\ UNCHANGED <<bridgeThermalVars, optimization, thermalVars>>

(* From 45 to 54 degrees, and from 65, only a message is logged.           *)
NextThrottled(t) ==
  \/ (t >= 55 /\ t < 65)
  \/ (t >= 65 \/ (t >= 45 /\ t < 55)) /\ thermalThrottled

(* nativeUpdateTemperature()                                               *)
UpdateTemperature(t) ==
  /\ cpuTemperature' = t
  /\ thermalThrottled' = NextThrottled(t)
  /\ UNCHANGED <<batteryVars, optimization, thermalVars>>

(* nativeUpdateThermalState()                                              *)
ThermalThreadLimit_Half(t) ==                        \* mutant: half of 8 when warm
  IF t >= 65 THEN 0 ELSE IF t >= 55 THEN 1 ELSE IF t >= 45 THEN 4 ELSE 8

ThermalThreadLimit(t) ==
  IF t >= 65 THEN 0 ELSE IF t >= 55 THEN 1 ELSE IF t >= 45 THEN 2 ELSE 8

UpdateThermalState_HotOnly(t) ==                     \* mutant: WARM only logs
  /\ thermalTemperature' = t
  /\ throttling' = (t >= 55)
  /\ threadLimit' = ThermalThreadLimit(t)
  /\ UNCHANGED <<batteryVars, bridgeThermalVars, optimization>>

UpdateThermalState(t) ==
  /\ thermalTemperature' = t
  /\ throttling' = (t >= 45)
  /\ threadLimit' = ThermalThreadLimit(t)
  /\ UNCHANGED <<batteryVars, bridgeThermalVars, optimization>>

(* nativeSetBatteryOptimization()                                          *)
SetBatteryOptimization(enabled) ==
  /\ optimization' = enabled
  /\ UNCHANGED <<batteryVars, bridgeThermalVars, thermalVars>>

Next ==
  \/ \E l \in Levels, c \in BOOLEAN : UpdateBatteryStatus(l, c)
  \/ \E t \in Readings : UpdateTemperature(t) \/ UpdateThermalState(t)
  \/ \E e \in BOOLEAN : SetBatteryOptimization(e)

Spec == Init /\ [][Next]_vars

-----------------------------------------------------------------------------
(* What is asked of this state.                                            *)

(* std::min, std::max                                                      *)
AtMost(n, cap) == IF n > cap THEN cap ELSE n
AtLeast(n, floor) == IF n < floor THEN floor ELSE n

(* What `long` makes of a product or constant; on armeabi-v7a 2 GB is the  *)
(* first that does not fit.                                                *)
Wrapped(n, long) == ((n + long \div 2) % long) - long \div 2

(* Integer division in C truncates.                                        *)
Abs(n) == IF n < 0 THEN -n ELSE n
Quotient(n, d) ==
  LET q == Abs(n) \div Abs(d) IN IF (n < 0) = (d < 0) THEN q ELSE -q

MemoryThreads(free, long) == Quotient(Wrapped(free, long), Wrapped(UnitsPerThread, long))

(* The cores left after heat, battery and the one kept for the system; of  *)
(* -1 cores if sysconf() fails.                                            *)
UsableCpus_MaxWhenLow(cpus, throttled, low) ==       \* mutant: std::max
  LET cool    == IF throttled THEN AtMost(cpus, 2) ELSE cpus
      powered == IF low THEN AtLeast(cool, 1) ELSE cool
  IN  IF powered > 4 THEN powered - 1 ELSE powered

UsableCpus(cpus, throttled, low) ==
  LET cool    == IF throttled THEN AtMost(cpus, 2) ELSE cpus
      powered == IF low THEN AtMost(cool, 1) ELSE cool
  IN  IF powered > 4 THEN powered - 1 ELSE powered

(* nativeGetOptimalThreadCount()                                           *)
OptimalThreads(cpus, free, long, throttled, low) ==
  AtLeast(AtMost(AtMost(UsableCpus(cpus, throttled, low), MemoryThreads(free, long)), 8), 1)

(* nativeGetMiningIntensity() looks at battery variables of its own file,  *)
(* which nothing assigns: the first return is the only one ever taken.     *)
OwnBattery == [level |-> 100, charging |-> TRUE]

MiningIntensity ==
  IF ~optimization \/ OwnBattery.charging \/ OwnBattery.level > 80 THEN 100
  ELSE IF OwnBattery.level > 60 THEN 75
  ELSE IF OwnBattery.level > 40 THEN 50
  ELSE IF OwnBattery.level > 20 THEN 25 ELSE 0

-----------------------------------------------------------------------------
(* Low power mode holds exactly if the battery was below 20 percent at     *)
(* some report since the charger was last seen, however much it rose.      *)
LowPowerFollowsBattery == lowPowerMode <=> \E l \in unplugged : l < 20

(* After the same reading, whatever each was told before, the two trackers *)
(* of the temperature contradict each other in one direction only, and in  *)
(* two bands only: from 45 to 54 degrees and from 65 on the bridge may     *)
(* allow all threads beside a limit of two or of none, for there it only   *)
(* keeps what it has.  Below and between, both say the same.               *)
TrackersCompatible ==
  cpuTemperature = thermalTemperature =>
    /\ thermalThrottled => throttling /\ threadLimit <= 2
    /\ throttling /\ ~thermalThrottled =>
         \/ cpuTemperature \in 45..54 /\ threadLimit = 2
         \/ cpuTemperature >= 65 /\ threadLimit = 0

(* The recommended count fits the phone on every ABI: one to eight, no     *)
(* more than cores and memory give unless that is none, at most two when   *)
(* throttled, one in low power mode; and heat or battery never raise it.   *)
ThreadsWithinMeans ==
  \A cpus \in Cpus \cup {-1}, free \in Memory, long \in LongRanges :
    LET n == OptimalThreads(cpus, free, long, thermalThrottled, lowPowerMode)
    IN  /\ n \in 1..8 /\ n <= AtLeast(cpus, 1)
        /\ n > 1 => n * UnitsPerThread <= free
        /\ thermalThrottled => n <= 2
        /\ lowPowerMode => n = 1
        /\ n <= OptimalThreads(cpus, free, long, FALSE, FALSE)

(* The bridge reduces threads from 45 degrees on, as the comments beside   *)
(* its thresholds say ("Start reducing threads", "Stop mining").  No run   *)
(* checks this: a phone that warms up to 50, or jumps from 40 to 70, is    *)
(* not throttled by the code.                                              *)
HeatThrottles == cpuTemperature >= 45 => thermalThrottled
=============================================================================
