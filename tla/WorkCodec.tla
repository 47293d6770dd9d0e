------------------------------ MODULE WorkCodec ------------------------------
(***************************************************************************)
(* The pure functions on job texts, targets and blobs: TargetHelper,       *)
(* BlobHelper and WorkerPool of job_handler.cpp, and the miner's own       *)
(* versions in randomx_miner.cpp.                                          *)
(*                                                                         *)
(* A text is a sequence of hexadecimal digits, whatever their case, and of *)
(* characters that are none.  The sizes of digits, words, nonces and blobs *)
(* are parameters.                                                         *)
(***************************************************************************)
EXTENDS Integers, SequencesExt

CONSTANTS Digits,       \* values of a digit (16)
          Significand,  \* values of a double's significand (2^53)
          Exponents,    \* the exponents it may have (-1074..971)
          WordBytes,    \* bytes of a target and of a hash's tested part (8)
          NonceBytes,   \* (4)
          NonceAt,      \* bytes before the nonce (39)
          MinBlob       \* bytes of the shortest valid blob (76)

ASSUME CodecAssumption ==
  /\ Digits \in Nat \ {0, 1}
  /\ Significand \in Nat \ {0} /\ Exponents \subseteq Int
  /\ WordBytes \in Nat \ {0} /\ NonceBytes \in Nat \ {0} /\ NonceAt \in Nat
  /\ MinBlob \in Nat /\ NonceAt + NonceBytes <= MinBlob

Digit == 0..(Digits - 1)
Junk  == -1
Minus == -2
Blank == -3                                          \* white space, or "+"
Char  == Digit \cup {Junk, Minus, Blank}

(* b to the power of n, by multiplication.                                 *)
Power(b, n) == LET power[k \in Nat] == IF k = 0 THEN 1 ELSE b * power[k - 1] IN power[n]

ByteSize  == Digits * Digits
Byte      == 0..(ByteSize - 1)
WordSize  == Power(ByteSize, WordBytes)
NonceSize == Power(ByteSize, NonceBytes)
Nonces    == 0..(NonceSize - 1)

ExtraAt == NonceAt + NonceBytes                      \* 43

-----------------------------------------------------------------------------
(* strtol(_, nullptr, 16) of one or two characters, cut to a byte: up to   *)
(* the first that is no digit, after a sign or a blank.                    *)
Strtol(s) ==
  CASE s[1] \in Digit /\ Len(s) = 2 /\ s[2] \in Digit -> s[1] * Digits + s[2]
    [] s[1] \in Digit /\ (Len(s) = 1 \/ s[2] \notin Digit) -> s[1]
    [] s[1] = Minus /\ Len(s) = 2 /\ s[2] \in Digit -> (ByteSize - s[2]) % ByteSize
    [] s[1] = Blank /\ Len(s) = 2 /\ s[2] \in Digit -> s[2]
    [] OTHER -> 0

(* An odd last character counts as a byte.                                 *)
hex_to_bytes(hex) ==
  [k \in 1..((Len(hex) + 1) \div 2) |->
     Strtol(SubSeq(hex, 2 * k - 1, IF 2 * k <= Len(hex) THEN 2 * k ELSE Len(hex)))]

(* Lower-case digits, whatever the case of those read.                     *)
bytes_to_hex(bytes) ==
  [i \in 1..(2 * Len(bytes)) |->
     LET b == bytes[(i + 1) \div 2] IN IF i % 2 = 1 THEN b \div Digits ELSE b % Digits]

(* value = (value << 8) | byte in an integer of that size, from the first  *)
(* byte to the last.                                                       *)
Shifted(bytes, size) ==
  LET value[k \in 0..Len(bytes)] ==
        IF k = 0 THEN 0 ELSE (value[k - 1] * ByteSize + bytes[k]) % size
  IN  value[Len(bytes)]

WordText(hex) == SubSeq(hex, 1, IF Len(hex) < 2 * WordBytes THEN Len(hex) ELSE 2 * WordBytes)

(* TargetHelper::compact_to_uint64(): the first byte weighs most, and a    *)
(* short text gives a small number.                                        *)
compact_to_uint64(hex) == Shifted(hex_to_bytes(WordText(hex)), WordSize)

uint64_to_compact_Unpadded(target) ==                \* mutant: no setw(16)
  IF target < Power(ByteSize, WordBytes - 1) THEN << >>
  ELSE [i \in 1..(2 * WordBytes) |-> (target \div Power(Digits, 2 * WordBytes - i)) % Digits]

uint64_to_compact(target) ==
  [i \in 1..(2 * WordBytes) |-> (target \div Power(Digits, 2 * WordBytes - i)) % Digits]

(* RandomXMiner::target_to_uint64(): the first byte weighs least; zeros    *)
(* stand for the bytes that are missing.                                   *)
target_to_uint64_Rightmost(hex) ==                   \* mutant: zeros in front
  LET bytes == hex_to_bytes(WordText(hex))
  IN  Shifted(Reverse([i \in 1..(WordBytes - Len(bytes)) |-> 0] \o bytes), WordSize)

target_to_uint64(hex) ==
  LET bytes  == hex_to_bytes(WordText(hex))
      padded == [i \in 1..WordBytes |-> IF i <= Len(bytes) THEN bytes[i] ELSE 0]
  IN  Shifted(Reverse(padded), WordSize)

hash_meets_target(hash, target) ==
  Shifted(Reverse(SubSeq(hash, 1, WordBytes)), WordSize) < target

(* Not defined for a blob that ends before or in its nonce.                *)
insert_nonce_BigEndian(blob, nonce) ==               \* mutant: bytes swapped
  [i \in DOMAIN blob |->
     IF i \in (NonceAt + 1)..ExtraAt
     THEN (nonce \div Power(ByteSize, ExtraAt - i)) % ByteSize ELSE blob[i]]

insert_nonce(blob, nonce) ==
  [i \in DOMAIN blob |->
     IF i \in (NonceAt + 1)..ExtraAt
     THEN (nonce \div Power(ByteSize, i - NonceAt - 1)) % ByteSize ELSE blob[i]]

(* As insert_nonce() puts it there: the first byte weighs least.           *)
extract_nonce(blob) == Shifted(Reverse(SubSeq(blob, NonceAt + 1, ExtraAt)), NonceSize)

insert_extra_nonce(blob, extra) ==
  SubSeq(blob, 1, ExtraAt) \o extra \o SubSeq(blob, ExtraAt + 1, Len(blob))

extract_extra_nonce(blob) ==
  IF Len(blob) > ExtraAt THEN SubSeq(blob, ExtraAt + 1, Len(blob)) ELSE << >>

validate_blob(blob) == Len(blob) >= MinBlob

(* RandomXMiner::construct_mining_blob() throws what is too short.         *)
TooShort == << >>
construct_mining_blob(hex, nonce) ==
  LET blob == hex_to_bytes(hex)
  IN  IF Len(blob) < MinBlob THEN TooShort ELSE insert_nonce(blob, nonce)

-----------------------------------------------------------------------------
(* Doubles: s * 2^e for an s below Significand, in its upper half unless   *)
(* the number is among the smallest.  Fractions are pairs.                 *)

(* Two to the power of e, as a fraction.                                   *)
Unit(e) == IF e < 0 THEN <<1, Power(2, -e)>> ELSE <<Power(2, e), 1>>

(* The doubles around p / q are multiples of 2^e.                          *)
Fits(e, p, q) ==
  LET u == Unit(e)
  IN  Significand * u[1] * q <= 2 * p * u[2] /\ p * u[2] < Significand * u[1] * q

(* The double nearest to p / q, cut to an integer.                         *)
RoundedThenCut(p, q) ==
  LET u == Unit(CHOOSE e \in Exponents : Fits(e, p, q))
      s == (2 * p * u[2] + u[1] * q) \div (2 * u[1] * q)
  IN  (s * u[1]) \div u[2]

(* What is used of a difficulty being a double: it is above 1 by a unit of *)
(* its last place at least, and the quotient it gives then has an exponent *)
(* (NaN and infinity are left out).                                        *)
IsDouble(d) ==
  /\ d[1] \in Int /\ d[2] \in Nat \ {0}
  /\ d[1] > d[2] => /\ (d[1] - d[2]) * Significand >= 2 * d[2]
                    /\ \E e \in Exponents : Fits(e, WordSize * d[2], d[1])

(* DifficultyManager::difficulty_to_target(): MAX, which as a double is    *)
(* 2^64, over the difficulty, rounded to a double and only then cut.  Half *)
(* way between two doubles a power of two over a double never lies.  A set *)
(* because the conversion of 2^64 or more is undefined: ARM saturates,     *)
(* x86-64 gives zero.                                                      *)
difficulty_to_target_CutFirst(d) ==                  \* mutant: MAX / uint64_t(d)
  IF d[1] <= 0 THEN {WordSize - 1}
  ELSE IF d[1] <= d[2] THEN {0, WordSize - 1}
  ELSE {WordSize \div (d[1] \div d[2])}

difficulty_to_target(d) ==
  IF d[1] <= 0 THEN {WordSize - 1}
  ELSE IF d[1] <= d[2] THEN {0, WordSize - 1}
  ELSE {RoundedThenCut(WordSize * d[2], d[1])}

(* WorkerPool::configure_workers(); its set_affinity is not looked at.  Of *)
(* zero cores, where the division does not end the program (ARM), every    *)
(* number is its own remainder.                                            *)
WorkerConfigs_Blocks(n, cores, numa) ==              \* mutant: i / cores
  [i \in 1..n |-> [cpu_affinity |-> IF cores = 0 THEN i - 1 ELSE (i - 1) \div cores,
                   numa_node    |-> IF numa THEN (i - 1) % 2 ELSE 0]]

WorkerConfigs(n, cores, numa) ==
  [i \in 1..n |-> [cpu_affinity |-> IF cores = 0 THEN i - 1 ELSE (i - 1) % cores,
                   numa_node    |-> IF numa THEN (i - 1) % 2 ELSE 0]]
=============================================================================
