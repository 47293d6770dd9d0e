-------------------------- MODULE DeviceStateProofs --------------------------
(***************************************************************************)
(* Theorems about DeviceState for all readings, battery levels, numbers of *)
(* cores, amounts of memory and widths of `long`: everything its run       *)
(* checks.                                                                 *)
(***************************************************************************)
EXTENDS DeviceState, TLAPS

USE DEF batteryVars, bridgeThermalVars, thermalVars, vars

-----------------------------------------------------------------------------
(* The variables keep their types in every step.                           *)
LEMMA NextTyped ==
  ASSUME TypeOK, [Next]_vars
  PROVE  TypeOK'
<1> USE DEF TypeOK
<1>1. CASE \E l \in Levels, c \in BOOLEAN : UpdateBatteryStatus(l, c)
  <2>1. PICK l \in Levels, c \in BOOLEAN : UpdateBatteryStatus(l, c) BY <1>1
  <2>2. lowPowerMode' \in BOOLEAN BY <2>1 DEF UpdateBatteryStatus, NextLowPower
  <2>3. QED BY <2>1, <2>2 DEF UpdateBatteryStatus
<1>2. ASSUME NEW t \in Readings, UpdateTemperature(t) PROVE TypeOK'
  <2>1. thermalThrottled' \in BOOLEAN BY <1>2 DEF UpdateTemperature, NextThrottled
  <2>2. QED BY <1>2, <2>1 DEF UpdateTemperature
<1>3. ASSUME NEW t \in Readings, UpdateThermalState(t) PROVE TypeOK'
  <2>1. ThermalThreadLimit(t) \in {0, 1, 2, 8} BY DEF ThermalThreadLimit
  <2>2. throttling' \in BOOLEAN BY <1>3 DEF UpdateThermalState
  <2>3. QED BY <1>3, <2>1, <2>2 DEF UpdateThermalState
<1>4. CASE \E e \in BOOLEAN : SetBatteryOptimization(e)
  BY <1>4 DEF SetBatteryOptimization
<1>5. CASE UNCHANGED vars BY <1>5
<1>6. QED BY <1>1, <1>2, <1>3, <1>4, <1>5 DEF Next

(* Type correctness of everything the native library knows of the phone.   *)
THEOREM TypeCorrect == Spec => []TypeOK
<1>1. Init => TypeOK BY DEF Init, TypeOK
<1>2. QED BY <1>1, NextTyped, PTL DEF Spec

-----------------------------------------------------------------------------
(* Battery.                                                                *)

LEMMA BatteryStep ==
  ASSUME TypeOK, LowPowerFollowsBattery, [Next]_vars
  PROVE  LowPowerFollowsBattery'
<1> USE DEF TypeOK, LowPowerFollowsBattery
<1>1. ASSUME NEW l \in Levels, NEW c \in BOOLEAN, UpdateBatteryStatus(l, c)
      PROVE  LowPowerFollowsBattery'
  <2>1. lowPowerMode' <=> NextLowPower(l, c) BY <1>1 DEF UpdateBatteryStatus
  <2>2. CASE c
    <3>1. unplugged' = {} BY <1>1, <2>2 DEF UpdateBatteryStatus
    <3>2. QED BY <2>1, <2>2, <3>1 DEF NextLowPower
  <2>3. CASE ~c
    <3>1. unplugged' = unplugged \cup {l} BY <1>1, <2>3 DEF UpdateBatteryStatus
    <3>2. QED BY <2>1, <2>3, <3>1 DEF NextLowPower
  <2>4. QED BY <2>2, <2>3
<1>2. CASE \E t \in Readings : UpdateTemperature(t) BY <1>2 DEF UpdateTemperature
<1>3. CASE \E t \in Readings : UpdateThermalState(t) BY <1>3 DEF UpdateThermalState
<1>4. CASE \E e \in BOOLEAN : SetBatteryOptimization(e)
  BY <1>4 DEF SetBatteryOptimization
<1>5. CASE UNCHANGED vars BY <1>5
<1>6. QED BY <1>1, <1>2, <1>3, <1>4, <1>5 DEF Next

(* Low power mode remembers exactly a level below 20 % since the charger.  *)
THEOREM LowPowerRemembers == Spec => []LowPowerFollowsBattery
<1>1. Init => LowPowerFollowsBattery BY DEF Init, LowPowerFollowsBattery
<1>2. QED BY <1>1, BatteryStep, TypeCorrect, PTL DEF Spec

-----------------------------------------------------------------------------
(* The two trackers of the temperature.                                    *)

(* What each keeps of its last reading.                                    *)
TrackersInv ==
  /\ thermalThrottled => cpuTemperature >= 45
  /\ cpuTemperature >= 55 /\ cpuTemperature < 65 => thermalThrottled
  /\ throttling <=> thermalTemperature >= 45
  /\ threadLimit = ThermalThreadLimit(thermalTemperature)

LEMMA TrackersStep ==
  ASSUME TypeOK, TrackersInv, [Next]_vars
  PROVE  TrackersInv'
<1> USE DEF TypeOK, TrackersInv
<1>1. ASSUME NEW t \in Readings, UpdateTemperature(t) PROVE TrackersInv'
  <2>1. t \in Int BY DeviceAssumption
  <2>2. NextThrottled(t) => t >= 45 BY <2>1 DEF NextThrottled
  <2>3. t >= 55 /\ t < 65 => NextThrottled(t) BY <2>1 DEF NextThrottled
  <2>4. QED BY <1>1, <2>2, <2>3 DEF UpdateTemperature
<1>2. ASSUME NEW t \in Readings, UpdateThermalState(t) PROVE TrackersInv'
  BY <1>2 DEF UpdateThermalState
<1>3. CASE \E l \in Levels, c \in BOOLEAN : UpdateBatteryStatus(l, c)
  BY <1>3 DEF UpdateBatteryStatus
<1>4. CASE \E e \in BOOLEAN : SetBatteryOptimization(e)
  BY <1>4 DEF SetBatteryOptimization
<1>5. CASE UNCHANGED vars BY <1>5
<1>6. QED BY <1>1, <1>2, <1>3, <1>4, <1>5 DEF Next

(* Whatever each tracker was told before, after one common reading a       *)
(* throttling bridge meets a limit of two threads or fewer, and one that   *)
(* does not meets a limit only from 45 to 54 degrees or from 65 on.        *)
THEOREM TrackersAgree == Spec => []TrackersCompatible
<1>1. Init => TrackersInv BY DEF Init, TrackersInv, ThermalThreadLimit
<1>2. TypeOK /\ TrackersInv => TrackersCompatible
  <2> SUFFICES ASSUME TypeOK, TrackersInv, cpuTemperature = thermalTemperature
               PROVE  /\ thermalThrottled => throttling /\ threadLimit <= 2
                      /\ throttling /\ ~thermalThrottled =>
                           \/ cpuTemperature \in 45..54 /\ threadLimit = 2
                           \/ cpuTemperature >= 65 /\ threadLimit = 0
    BY DEF TrackersCompatible
  <2>1. thermalTemperature \in Int BY DeviceAssumption DEF TypeOK
  <2>2. CASE thermalThrottled
    <3>1. thermalTemperature >= 45 BY <2>2 DEF TrackersInv
    <3>2. QED BY <2>1, <2>2, <3>1 DEF TrackersInv, ThermalThreadLimit
  <2>3. CASE ~thermalThrottled
    <3>1. throttling => thermalTemperature \in 45..54 \/ thermalTemperature >= 65
      BY <2>1, <2>3 DEF TrackersInv
    <3>2. QED BY <2>1, <2>3, <3>1 DEF TrackersInv, ThermalThreadLimit
  <2>4. QED BY <2>2, <2>3
<1>3. QED BY <1>1, <1>2, TrackersStep, TypeCorrect, PTL DEF Spec

-----------------------------------------------------------------------------
(* The recommended number of threads.                                      *)

(* Two or more threads' worth of memory is really there, also where 2 GB   *)
(* and the free memory wrap around.                                        *)
LEMMA MemoryIsThere ==
  ASSUME NEW free \in Nat, NEW long \in LongRanges
  PROVE  /\ MemoryThreads(free, long) \in Int
         /\ MemoryThreads(free, long) > 1
              => MemoryThreads(free, long) * UnitsPerThread <= free
<1> DEFINE h == long \div 2
           w == Wrapped(free, long)
           u == Wrapped(UnitsPerThread, long)
<1>1. /\ UnitsPerThread \in Nat /\ UnitsPerThread >= 1
      /\ long \in Nat /\ h \in Nat /\ long = 2 * h /\ h >= UnitsPerThread
  BY DeviceAssumption
<1>2. w \in Int /\ -h <= w /\ w < h /\ w <= free
  BY <1>1 DEF Wrapped
<1>3. CASE UnitsPerThread = h
  <2>1. u = -h BY <1>1, <1>3 DEF Wrapped
  <2>2. Quotient(w, u) \in {0, 1} BY <1>1, <1>2, <2>1 DEF Quotient, Abs
  <2>3. QED BY <2>2 DEF MemoryThreads
<1>4. CASE UnitsPerThread < h
  <2>1. u = UnitsPerThread BY <1>1, <1>4 DEF Wrapped
  <2>2. Abs(u) = UnitsPerThread BY <1>1, <2>1 DEF Abs
  <2>3. CASE w < 0
    <3>1. /\ Abs(w) \div UnitsPerThread \in Nat
          /\ Quotient(w, u) = -(Abs(w) \div UnitsPerThread)
      BY <1>1, <1>2, <2>1, <2>2, <2>3 DEF Quotient, Abs
    <3>2. QED BY <3>1 DEF MemoryThreads
  <2>4. CASE w >= 0
    <3>1. Quotient(w, u) = w \div UnitsPerThread
      BY <1>1, <1>2, <2>1, <2>4 DEF Quotient, Abs
    <3>2. /\ w \div UnitsPerThread \in Int
          /\ (w \div UnitsPerThread) * UnitsPerThread <= w
      BY <1>1, <1>2, <2>4
    <3>3. QED BY <1>2, <3>1, <3>2, <1>1 DEF MemoryThreads
  <2>5. QED BY <1>2, <2>3, <2>4
<1>5. QED BY <1>1, <1>3, <1>4

(* Heat and battery only ever take cores away.                             *)
LEMMA CoresLeft ==
  ASSUME NEW cpus \in Int, NEW hot \in BOOLEAN, NEW low \in BOOLEAN
  PROVE  /\ UsableCpus(cpus, hot, low) \in Int
         /\ UsableCpus(cpus, hot, low) <= cpus
         /\ UsableCpus(cpus, hot, low) <= UsableCpus(cpus, FALSE, FALSE)
         /\ UsableCpus(cpus, FALSE, FALSE) \in Int
         /\ hot => UsableCpus(cpus, hot, low) <= 2
         /\ low => UsableCpus(cpus, hot, low) <= 1
BY DEF UsableCpus, AtMost

(* The smallest of cores, memory and 8, but one at least.                  *)
LEMMA Clamped ==
  ASSUME NEW cpus \in Int, NEW usable \in Int, NEW most \in Int, NEW memory \in Int,
         usable <= cpus, usable <= most
  PROVE  LET n == AtLeast(AtMost(AtMost(usable, memory), 8), 1)
         IN  /\ n \in 1..8 /\ n <= AtLeast(cpus, 1)
             /\ n > 1 => n <= usable /\ n <= memory
             /\ n <= AtLeast(AtMost(AtMost(most, memory), 8), 1)
BY DEF AtLeast, AtMost

(* The recommended count fits cores, memory, heat and battery, for every   *)
(* phone and ABI.                                                          *)
THEOREM ThreadsFit == Spec => []ThreadsWithinMeans
<1>1. TypeOK => ThreadsWithinMeans
  <2> SUFFICES ASSUME TypeOK, NEW cpus \in Cpus \cup {-1}, NEW free \in Memory,
                      NEW long \in LongRanges
               PROVE
        LET n == OptimalThreads(cpus, free, long, thermalThrottled, lowPowerMode)
        IN  /\ n \in 1..8 /\ n <= AtLeast(cpus, 1)
            /\ n > 1 => n * UnitsPerThread <= free
            /\ thermalThrottled => n <= 2
            /\ lowPowerMode => n = 1
            /\ n <= OptimalThreads(cpus, free, long, FALSE, FALSE)
    BY DEF ThreadsWithinMeans
  <2> DEFINE usable == UsableCpus(cpus, thermalThrottled, lowPowerMode)
             most   == UsableCpus(cpus, FALSE, FALSE)
             memory == MemoryThreads(free, long)
             n == OptimalThreads(cpus, free, long, thermalThrottled, lowPowerMode)
  <2>1. /\ cpus \in Int /\ free \in Nat /\ UnitsPerThread \in Nat /\ UnitsPerThread >= 1
        /\ thermalThrottled \in BOOLEAN /\ lowPowerMode \in BOOLEAN
    BY DeviceAssumption DEF TypeOK
  <2>2. /\ usable \in Int /\ usable <= cpus /\ usable <= most /\ most \in Int
        /\ thermalThrottled => usable <= 2
        /\ lowPowerMode => usable <= 1
    BY <2>1, CoresLeft
  <2>3. memory \in Int /\ (memory > 1 => memory * UnitsPerThread <= free)
    BY <2>1, MemoryIsThere
  <2> HIDE DEF usable, most, memory
  <2>4. /\ n = AtLeast(AtMost(AtMost(usable, memory), 8), 1)
        /\ OptimalThreads(cpus, free, long, FALSE, FALSE)
             = AtLeast(AtMost(AtMost(most, memory), 8), 1)
    BY DEF OptimalThreads, usable, most, memory
  <2> HIDE DEF n
  <2>5. /\ n \in 1..8 /\ n <= AtLeast(cpus, 1)
        /\ n > 1 => n <= usable /\ n <= memory
        /\ n <= OptimalThreads(cpus, free, long, FALSE, FALSE)
    <3>1. LET k == AtLeast(AtMost(AtMost(usable, memory), 8), 1)
          IN  /\ k \in 1..8 /\ k <= AtLeast(cpus, 1)
              /\ k > 1 => k <= usable /\ k <= memory
              /\ k <= AtLeast(AtMost(AtMost(most, memory), 8), 1)
      BY <2>1, <2>2, <2>3, Clamped
    <3>2. QED BY <2>4, <3>1
  <2>6. n > 1 => n * UnitsPerThread <= free
    <3> SUFFICES ASSUME n > 1 PROVE n * UnitsPerThread <= free OBVIOUS
    <3>1. n * UnitsPerThread <= memory * UnitsPerThread BY <2>1, <2>3, <2>5
    <3>2. memory * UnitsPerThread <= free BY <2>3, <2>5
    <3>3. n * UnitsPerThread \in Int /\ memory * UnitsPerThread \in Int BY <2>1, <2>3, <2>5
    <3>4. QED BY <2>1, <3>1, <3>2, <3>3
  <2>7. (thermalThrottled => n <= 2) /\ (lowPowerMode => n = 1) BY <2>2, <2>5
  <2>8. QED BY <2>5, <2>6, <2>7 DEF n
<1>2. QED BY <1>1, TypeCorrect, PTL
=============================================================================
