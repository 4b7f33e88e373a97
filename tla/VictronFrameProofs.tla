------------------------- MODULE VictronFrameProofs -------------------------
(***************************************************************************)
(* Proofs about VictronFrame, for every report the record can hold, every  *)
(* length of an advertisement and every buffer.                            *)
(***************************************************************************)
EXTENDS VictronFrame, NatLemmas, TLAPS

(***************************************************************************)
(* What the reader returns for the widths the record uses.                 *)
(***************************************************************************)
Reads(f, d, from, bits, order) ==
  /\ f[0] = 0
  /\ \A n \in 1..bits : f[n] = f[n - 1] + Bit(d, from + n - 1, order) * 2^(n - 1)
  /\ Unsigned(d, from, bits, order) = f[bits]

LEMMA ReadUnsigned ==
  ASSUME NEW d, NEW from \in Nat, NEW bits \in Nat, NEW order
  PROVE  \E f : Reads(f, d, from, bits, order)
<1> DEFINE b == [n \in Nat |-> Bit(d, from + n - 1, order) * 2^(n - 1)]
<1>1. \E f : f = [n \in 0..bits |-> IF n = 0 THEN 0 ELSE f[n - 1] + b[n]]
  <2> HIDE DEF b
  <2> QED BY SumExists
<1>2. \E f : f = [n \in 0..bits |-> IF n = 0 THEN 0
                 ELSE f[n - 1] + Bit(d, from + n - 1, order) * 2^(n - 1)]
  BY <1>1
<1>3. \E f : /\ f = [n \in 0..bits |-> IF n = 0 THEN 0
                     ELSE f[n - 1] + Bit(d, from + n - 1, order) * 2^(n - 1)]
             /\ Unsigned(d, from, bits, order) = f[bits]
  BY <1>2 DEF Unsigned
<1> QED BY <1>3 DEF Reads

IsBits(d, from, n, order) == \A i \in from..(from + n - 1) : Bit(d, i, order) \in 0..1
Eight(d, from, order) ==
  Bit(d, from, order) + 2 * Bit(d, from + 1, order) + 4 * Bit(d, from + 2, order)
  + 8 * Bit(d, from + 3, order) + 16 * Bit(d, from + 4, order) + 32 * Bit(d, from + 5, order)
  + 64 * Bit(d, from + 6, order) + 128 * Bit(d, from + 7, order)

LEMMA Read8 ==
  ASSUME NEW d, NEW from \in Nat, NEW order, IsBits(d, from, 8, order)
  PROVE  Unsigned(d, from, 8, order) = Eight(d, from, order)
<1>1. PICK f : Reads(f, d, from, 8, order)
  BY ReadUnsigned
<1>2. \A i \in 0..7 : Bit(d, from + i, order) \in Int
  BY DEF IsBits
<1> DEFINE B(i) == Bit(d, from + i, order)
<1>3. \A i \in 0..7 : B(i) \in Int
  BY <1>2
<1>4. \A n \in 1..8 : f[n] = f[n - 1] + B(n - 1) * 2^(n - 1)
  BY <1>1 DEF Reads
<1>5. Eight(d, from, order) = B(0) + 2 * B(1) + 4 * B(2) + 8 * B(3) + 16 * B(4) + 32 * B(5)
                              + 64 * B(6) + 128 * B(7)
  BY DEF Eight
<1> HIDE DEF B
<1>6. /\ f[1] = B(0) /\ f[2] = f[1] + 2 * B(1) /\ f[3] = f[2] + 4 * B(2)
      /\ f[4] = f[3] + 8 * B(3) /\ f[5] = f[4] + 16 * B(4) /\ f[6] = f[5] + 32 * B(5)
      /\ f[7] = f[6] + 64 * B(6) /\ f[8] = f[7] + 128 * B(7)
  BY <1>1, <1>3, <1>4 DEF Reads
<1> QED BY <1>1, <1>3, <1>5, <1>6 DEF Reads

LEMMA Read9 ==
  ASSUME NEW d, NEW from \in Nat, NEW order, IsBits(d, from, 9, order)
  PROVE  Unsigned(d, from, 9, order) = Eight(d, from, order) + 256 * Bit(d, from + 8, order)
<1>1. PICK f : Reads(f, d, from, 9, order)
  BY ReadUnsigned
<1>2. \A i \in 0..8 : Bit(d, from + i, order) \in Int
  BY DEF IsBits
<1> DEFINE B(i) == Bit(d, from + i, order)
<1>3. \A i \in 0..8 : B(i) \in Int
  BY <1>2
<1>4. \A n \in 1..9 : f[n] = f[n - 1] + B(n - 1) * 2^(n - 1)
  BY <1>1 DEF Reads
<1>5. Eight(d, from, order) = B(0) + 2 * B(1) + 4 * B(2) + 8 * B(3) + 16 * B(4) + 32 * B(5)
                              + 64 * B(6) + 128 * B(7)
  BY DEF Eight
<1>6. Unsigned(d, from, 9, order) = f[9] /\ Bit(d, from + 8, order) = B(8)
  BY <1>1 DEF Reads
<1> HIDE DEF B
<1>7. /\ f[1] = B(0) /\ f[2] = f[1] + 2 * B(1) /\ f[3] = f[2] + 4 * B(2)
      /\ f[4] = f[3] + 8 * B(3) /\ f[5] = f[4] + 16 * B(4) /\ f[6] = f[5] + 32 * B(5)
      /\ f[7] = f[6] + 64 * B(6) /\ f[8] = f[7] + 128 * B(7) /\ f[9] = f[8] + 256 * B(8)
  BY <1>1, <1>3, <1>4 DEF Reads
<1> QED BY <1>3, <1>5, <1>6, <1>7

LEMMA Read16 ==
  ASSUME NEW d, NEW from \in Nat, NEW order, IsBits(d, from, 16, order)
  PROVE  Unsigned(d, from, 16, order) = Eight(d, from, order) + 256 * Eight(d, from + 8, order)
<1>1. PICK f : Reads(f, d, from, 16, order)
  BY ReadUnsigned
<1>2. \A i \in 0..15 : Bit(d, from + i, order) \in Int
  BY DEF IsBits
<1> DEFINE B(i) == Bit(d, from + i, order)
<1>3. \A i \in 0..15 : B(i) \in Int
  BY <1>2
<1>4. \A n \in 1..16 : f[n] = f[n - 1] + B(n - 1) * 2^(n - 1)
  BY <1>1 DEF Reads
<1>5. /\ Eight(d, from, order) = B(0) + 2 * B(1) + 4 * B(2) + 8 * B(3) + 16 * B(4) + 32 * B(5)
                                 + 64 * B(6) + 128 * B(7)
      /\ Eight(d, from + 8, order) = B(8) + 2 * B(9) + 4 * B(10) + 8 * B(11) + 16 * B(12)
                                     + 32 * B(13) + 64 * B(14) + 128 * B(15)
  BY DEF Eight
<1>6. Unsigned(d, from, 16, order) = f[16]
  BY <1>1 DEF Reads
<1> HIDE DEF B
<1>7. /\ f[1] = B(0) /\ f[2] = f[1] + 2 * B(1) /\ f[3] = f[2] + 4 * B(2)
      /\ f[4] = f[3] + 8 * B(3) /\ f[5] = f[4] + 16 * B(4) /\ f[6] = f[5] + 32 * B(5)
      /\ f[7] = f[6] + 64 * B(6) /\ f[8] = f[7] + 128 * B(7)
  BY <1>1, <1>3, <1>4 DEF Reads
<1>8. /\ f[9] = f[8] + 256 * B(8) /\ f[10] = f[9] + 512 * B(9) /\ f[11] = f[10] + 1024 * B(10)
      /\ f[12] = f[11] + 2048 * B(11) /\ f[13] = f[12] + 4096 * B(12)
      /\ f[14] = f[13] + 8192 * B(13) /\ f[15] = f[14] + 16384 * B(14)
      /\ f[16] = f[15] + 32768 * B(15)
  BY <1>3, <1>4, <1>7
<1> QED BY <1>3, <1>5, <1>6, <1>7, <1>8

(***************************************************************************)
(* A byte, in either order of its bits.                                    *)
(***************************************************************************)
Reversed(x) ==
  ((x \div 128) % 2) + 2 * ((x \div 64) % 2) + 4 * ((x \div 32) % 2) + 8 * ((x \div 16) % 2)
  + 16 * ((x \div 8) % 2) + 32 * ((x \div 4) % 2) + 64 * ((x \div 2) % 2) + 128 * (x % 2)

LEMMA ByteIsItsBits ==
  \A x \in 0..255 :
    x = (x % 2) + 2 * ((x \div 2) % 2) + 4 * ((x \div 4) % 2) + 8 * ((x \div 8) % 2)
        + 16 * ((x \div 16) % 2) + 32 * ((x \div 32) % 2) + 64 * ((x \div 64) % 2)
        + 128 * ((x \div 128) % 2)
BY SMTT(60)

LEMMA ReversedByte ==
  /\ \A x \in 0..255 : Reversed(x) \in Int /\ 0 <= Reversed(x) /\ Reversed(x) <= 255
  /\ Reversed(0) = 0 /\ Reversed(1) = 128
BY SMTT(60) DEF Reversed

LEMMA EightLsb ==
  ASSUME NEW d, NEW k \in 0..11, d[k + 1] \in 0..255
  PROVE  /\ IsBits(d, 8 * k, 8, "lsb") /\ Eight(d, 8 * k, "lsb") = d[k + 1]
         /\ Bit(d, 8 * k, "lsb") = d[k + 1] % 2
<1> DEFINE x == d[k + 1]
<1>1. x \in 0..255 OBVIOUS
<1>2. \A i \in 0..7 : (8 * k + i) \div 8 + 1 = k + 1 /\ (8 * k + i) % 8 = i
  OBVIOUS
<1>3. \A i \in 0..7 : Bit(d, 8 * k + i, "lsb") = (x \div 2^i) % 2
  BY <1>2 DEF Bit
<1> HIDE DEF x
<1>4. /\ Bit(d, 8 * k, "lsb") = x % 2 /\ Bit(d, 8 * k + 1, "lsb") = (x \div 2) % 2
      /\ Bit(d, 8 * k + 2, "lsb") = (x \div 4) % 2 /\ Bit(d, 8 * k + 3, "lsb") = (x \div 8) % 2
      /\ Bit(d, 8 * k + 4, "lsb") = (x \div 16) % 2 /\ Bit(d, 8 * k + 5, "lsb") = (x \div 32) % 2
      /\ Bit(d, 8 * k + 6, "lsb") = (x \div 64) % 2 /\ Bit(d, 8 * k + 7, "lsb") = (x \div 128) % 2
  BY <1>1, <1>3
<1>5. Eight(d, 8 * k, "lsb") = x
  BY <1>1, <1>4, ByteIsItsBits DEF Eight
<1>6. IsBits(d, 8 * k, 8, "lsb")
  BY <1>1, <1>4 DEF IsBits
<1> QED BY <1>4, <1>5, <1>6 DEF x

LEMMA EightMsb ==
  ASSUME NEW d, NEW k \in 0..11, d[k + 1] \in 0..255
  PROVE  /\ IsBits(d, 8 * k, 8, "msb") /\ Eight(d, 8 * k, "msb") = Reversed(d[k + 1])
<1> DEFINE x == d[k + 1]
<1>1. x \in 0..255 OBVIOUS
<1>2. \A i \in 0..7 : (8 * k + i) \div 8 + 1 = k + 1 /\ (8 * k + i) % 8 = i
  OBVIOUS
<1>3. \A i \in 0..7 : Bit(d, 8 * k + i, "msb") = (x \div 2^(7 - i)) % 2
  BY <1>2 DEF Bit
<1> HIDE DEF x
<1>4. /\ Bit(d, 8 * k, "msb") = (x \div 128) % 2 /\ Bit(d, 8 * k + 1, "msb") = (x \div 64) % 2
      /\ Bit(d, 8 * k + 2, "msb") = (x \div 32) % 2 /\ Bit(d, 8 * k + 3, "msb") = (x \div 16) % 2
      /\ Bit(d, 8 * k + 4, "msb") = (x \div 8) % 2 /\ Bit(d, 8 * k + 5, "msb") = (x \div 4) % 2
      /\ Bit(d, 8 * k + 6, "msb") = (x \div 2) % 2 /\ Bit(d, 8 * k + 7, "msb") = x % 2
  BY <1>1, <1>3
<1>5. Eight(d, 8 * k, "msb") = Reversed(x)
  BY <1>1, <1>4, SMTT(60) DEF Eight, Reversed
<1>6. IsBits(d, 8 * k, 8, "msb")
  BY <1>1, <1>4 DEF IsBits
<1> QED BY <1>5, <1>6 DEF x

Byte == 0..255
IsBytes(d) == \A i \in 1..12 : d[i] \in 0..255

(* Two bytes in a row, from byte k + 1 on.                                 *)
LEMMA TwoBytes ==
  ASSUME NEW d, IsBytes(d), NEW k \in 0..10
  PROVE  /\ Unsigned(d, 8 * k, 16, "lsb") = d[k + 1] + 256 * d[k + 2]
         /\ Unsigned(d, 8 * k, 16, "msb") = Reversed(d[k + 1]) + 256 * Reversed(d[k + 2])
<1>1. /\ k \in 0..11 /\ k + 1 \in 0..11 /\ 8 * (k + 1) = 8 * k + 8 /\ (k + 1) + 1 = k + 2
      /\ d[k + 1] \in 0..255 /\ d[k + 2] \in 0..255
  BY DEF IsBytes
<1>2. ASSUME NEW order \in {"lsb", "msb"}
      PROVE  IsBits(d, 8 * k, 8, order) /\ IsBits(d, 8 * k + 8, 8, order)
  <2>1. IsBits(d, 8 * k, 8, order)
    BY <1>1, EightLsb, EightMsb
  <2>2. IsBits(d, 8 * (k + 1), 8, order)
    BY <1>1, EightLsb, EightMsb
  <2> QED BY <1>1, <2>1, <2>2
<1>3. ASSUME NEW order \in {"lsb", "msb"}
      PROVE  Unsigned(d, 8 * k, 16, order) = Eight(d, 8 * k, order) + 256 * Eight(d, 8 * k + 8, order)
  <2>1. IsBits(d, 8 * k, 16, order)
    BY <1>2 DEF IsBits
  <2> QED BY <2>1, Read16
<1>4. /\ Eight(d, 8 * k, "lsb") = d[k + 1] /\ Eight(d, 8 * k, "msb") = Reversed(d[k + 1])
  BY <1>1, EightLsb, EightMsb
<1>5. /\ Eight(d, 8 * (k + 1), "lsb") = d[k + 2] /\ Eight(d, 8 * (k + 1), "msb") = Reversed(d[k + 2])
  BY <1>1, EightLsb, EightMsb
<1> QED BY <1>1, <1>3, <1>4, <1>5

(* The parser in terms of the twelve bytes of a record.                    *)
LEMMA ParseBytes ==
  ASSUME NEW d, IsBytes(d)
  PROVE  /\ ParseWithMode(d, "lsb") =
              [state |-> d[1], error |-> d[2],
               volts |-> Missing(Signed(d[3] + 256 * d[4], 16), 32767),
               amps  |-> Missing(Signed(d[5] + 256 * d[6], 16), 32767),
               yield |-> Missing(d[7] + 256 * d[8], 65535),
               solar |-> Missing(d[9] + 256 * d[10], 65535),
               load  |-> Missing(d[11] + 256 * (d[12] % 2), 511)]
         /\ ParseWithMode(d, "msb").volts
              = Missing(Signed(Reversed(d[3]) + 256 * Reversed(d[4]), 16), 32767)
         /\ ParseWithMode(d, "lsb") \in [Fields -> Int]
         /\ ParseWithMode(d, "msb") \in [Fields -> Int]
<1>0. \A i \in 1..12 : Reversed(d[i]) \in Int
  BY ReversedByte DEF IsBytes
<1>1. /\ Unsigned(d, 0, 8, "lsb") = d[1] /\ Unsigned(d, 8, 8, "lsb") = d[2]
      /\ Unsigned(d, 0, 8, "msb") \in Int /\ Unsigned(d, 8, 8, "msb") \in Int
  <2>1. ASSUME NEW k \in {0, 1}
        PROVE  Unsigned(d, 8 * k, 8, "lsb") = d[k + 1] /\ Unsigned(d, 8 * k, 8, "msb") \in Int
    <3>1. k \in 0..11 /\ k + 1 \in 1..12 /\ 8 * k \in Nat /\ d[k + 1] \in 0..255
      BY DEF IsBytes
    <3>2. IsBits(d, 8 * k, 8, "lsb") /\ Eight(d, 8 * k, "lsb") = d[k + 1]
      BY <3>1, EightLsb
    <3>3. IsBits(d, 8 * k, 8, "msb") /\ Eight(d, 8 * k, "msb") \in Int
      BY <1>0, <3>1, EightMsb
    <3> QED BY <3>1, <3>2, <3>3, Read8
  <2>2. 8 * 0 = 0 /\ 8 * 1 = 8 OBVIOUS
  <2> QED BY <2>1, <2>2
<1>2. /\ Unsigned(d, 16, 16, "lsb") = d[3] + 256 * d[4] /\ Unsigned(d, 32, 16, "lsb") = d[5] + 256 * d[6]
      /\ Unsigned(d, 48, 16, "lsb") = d[7] + 256 * d[8] /\ Unsigned(d, 64, 16, "lsb") = d[9] + 256 * d[10]
  <2>1. 16 = 8 * 2 /\ 32 = 8 * 4 /\ 48 = 8 * 6 /\ 64 = 8 * 8 OBVIOUS
  <2> QED BY <2>1, TwoBytes
<1>3. /\ Unsigned(d, 16, 16, "msb") = Reversed(d[3]) + 256 * Reversed(d[4])
      /\ Unsigned(d, 32, 16, "msb") \in Int /\ Unsigned(d, 48, 16, "msb") \in Int
      /\ Unsigned(d, 64, 16, "msb") \in Int
  <2>1. 16 = 8 * 2 /\ 32 = 8 * 4 /\ 48 = 8 * 6 /\ 64 = 8 * 8 OBVIOUS
  <2>2. \A k \in 0..10 : Unsigned(d, 8 * k, 16, "msb") \in Int
    <3> TAKE k \in 0..10
    <3>1. Unsigned(d, 8 * k, 16, "msb") = Reversed(d[k + 1]) + 256 * Reversed(d[k + 2])
      BY TwoBytes
    <3>2. k + 1 \in 1..12 /\ k + 2 \in 1..12
      OBVIOUS
    <3> QED BY <1>0, <3>1, <3>2
  <2> QED BY <2>1, <2>2, TwoBytes
<1>4. ASSUME NEW order \in {"lsb", "msb"}
      PROVE  Unsigned(d, 80, 9, order) = Eight(d, 80, order) + 256 * Bit(d, 88, order)
  <2>1. IsBits(d, 8 * 10, 8, order) /\ IsBits(d, 8 * 11, 8, order)
    BY EightLsb, EightMsb DEF IsBytes
  <2>2. IsBits(d, 80, 9, order)
    BY <2>1 DEF IsBits
  <2> QED BY <2>2, Read9
<1>5. /\ Eight(d, 80, "lsb") = d[11] /\ Bit(d, 88, "lsb") = d[12] % 2
      /\ Eight(d, 80, "msb") \in Int /\ Bit(d, 88, "msb") \in Int
  <2>1. Eight(d, 8 * 10, "lsb") = d[11] /\ Bit(d, 8 * 11, "lsb") = d[12] % 2
    BY EightLsb DEF IsBytes
  <2>2. Eight(d, 8 * 10, "msb") \in Int
    <3>1. Eight(d, 8 * 10, "msb") = Reversed(d[11])
      BY EightMsb DEF IsBytes
    <3> QED BY <1>0, <3>1
  <2>3. IsBits(d, 8 * 11, 8, "msb")
    BY EightMsb DEF IsBytes
  <2> QED BY <2>1, <2>2, <2>3 DEF IsBits
<1>6. /\ Unsigned(d, 80, 9, "lsb") = d[11] + 256 * (d[12] % 2)
      /\ Unsigned(d, 80, 9, "msb") \in Int
  BY <1>4, <1>5
<1>7. \A u \in Int : Missing(u, 65535) \in Int /\ Missing(u, 511) \in Int
                     /\ Missing(Signed(u, 16), 32767) \in Int
  BY DEF Missing, NaN, Signed
<1>8. Unsigned(d, 16, 16, "msb") \in Int
  BY <1>0, <1>3
<1> QED
  <2>1. \A i \in 1..12 : d[i] \in Int
    BY DEF IsBytes
  <2>2. d[12] % 2 \in Int
    BY DEF IsBytes
  <2>3. /\ d[1] \in Int /\ d[2] \in Int /\ d[3] + 256 * d[4] \in Int /\ d[5] + 256 * d[6] \in Int
        /\ d[7] + 256 * d[8] \in Int /\ d[9] + 256 * d[10] \in Int
        /\ d[11] + 256 * (d[12] % 2) \in Int
    BY <2>1, <2>2
  <2>4. ParseWithMode(d, "lsb") =
              [state |-> d[1], error |-> d[2],
               volts |-> Missing(Signed(d[3] + 256 * d[4], 16), 32767),
               amps  |-> Missing(Signed(d[5] + 256 * d[6], 16), 32767),
               yield |-> Missing(d[7] + 256 * d[8], 65535),
               solar |-> Missing(d[9] + 256 * d[10], 65535),
               load  |-> Missing(d[11] + 256 * (d[12] % 2), 511)]
    BY <1>1, <1>2, <1>6 DEF ParseWithMode
  <2>5. ParseWithMode(d, "lsb") \in [Fields -> Int]
    BY <2>3, <2>4, <1>7 DEF Fields
  <2>6. /\ ParseWithMode(d, "msb").volts
              = Missing(Signed(Reversed(d[3]) + 256 * Reversed(d[4]), 16), 32767)
        /\ ParseWithMode(d, "msb") \in [Fields -> Int]
    BY <1>1, <1>3, <1>6, <1>7, <1>8 DEF ParseWithMode, Fields
  <2> QED BY <2>4, <2>5, <2>6

(***************************************************************************)
(* The parser undoes the charger's encoding.                               *)
(***************************************************************************)
LEMMA Halves ==
  ASSUME NEW w \in Nat, w <= 65535
  PROVE  /\ Low(w) \in 0..255 /\ High(w) \in 0..255 /\ w = Low(w) + 256 * High(w)
         /\ w <= 511 => High(w) \in 0..1
<1>1. w % 256 \in 0..255 /\ w \div 256 \in Int /\ w = (w % 256) + 256 * (w \div 256)
  OBVIOUS
<1> DEFINE r == w % 256
           q == w \div 256
<1>2. r \in Int /\ 0 <= r /\ r <= 255 /\ q \in Int /\ w = r + 256 * q
  BY <1>1
<1> HIDE DEF r, q
<1>3. 0 <= q /\ q <= 255 /\ (w <= 511 => q <= 1)
  BY <1>2
<1> QED BY <1>2, <1>3 DEF Low, High, r, q

LEMMA OptionalValue ==
  ASSUME NEW lo \in Int, NEW hi \in Int, NEW v
  PROVE  v \in Optional(lo, hi) <=> v = NaN \/ (v \in Int /\ lo <= v /\ v <= hi)
BY DEF Optional

LEMMA ReportFields ==
  ASSUME NEW r \in Report
  PROVE  /\ r.state \in 0..255 /\ r.error \in 0..255
         /\ r.volts = NaN \/ (r.volts \in Int /\ -32768 <= r.volts /\ r.volts <= 32766)
         /\ r.amps  = NaN \/ (r.amps  \in Int /\ -32768 <= r.amps  /\ r.amps  <= 32766)
         /\ r.yield = NaN \/ (r.yield \in Int /\ 0 <= r.yield /\ r.yield <= 65534)
         /\ r.solar = NaN \/ (r.solar \in Int /\ 0 <= r.solar /\ r.solar <= 65534)
         /\ r.load  = NaN \/ (r.load  \in Int /\ 0 <= r.load  /\ r.load  <= 510)
         /\ r = [state |-> r.state, error |-> r.error, volts |-> r.volts, amps |-> r.amps,
                 yield |-> r.yield, solar |-> r.solar, load |-> r.load]
<1>1. /\ r.state \in 0..255 /\ r.error \in 0..255
      /\ r.volts \in Optional(-32768, 32766) /\ r.amps \in Optional(-32768, 32766)
      /\ r.yield \in Optional(0, 65534) /\ r.solar \in Optional(0, 65534) /\ r.load \in Optional(0, 510)
      /\ r = [state |-> r.state, error |-> r.error, volts |-> r.volts, amps |-> r.amps,
              yield |-> r.yield, solar |-> r.solar, load |-> r.load]
  BY DEF Report
<1> QED BY <1>1, OptionalValue

(* What is sent for a field, and that the parser takes it for what it was. *)
LEMMA SignReturns ==
  ASSUME NEW v, v = NaN \/ (v \in Int /\ -32768 <= v /\ v <= 32766)
  PROVE  LET u == Word(Raw(v, 32767))
         IN u \in Nat /\ u <= 65535 /\ Missing(Signed(u, 16), 32767) = v
BY DEF Word, Raw, Signed, Missing, NaN

LEMMA UnsignedReturns ==
  ASSUME NEW na \in Nat, na < NaN, NEW v, v = NaN \/ (v \in Int /\ 0 <= v /\ v < na)
  PROVE  Raw(v, na) \in Nat /\ Raw(v, na) <= na /\ Missing(Raw(v, na), na) = v
BY DEF Raw, Missing, NaN

IsRecord(d, r, spare) == \A i \in 1..12 : d[i] = Encode(r, spare)[i]

LEMMA EncodeBytes ==
  ASSUME NEW r \in Report, NEW spare \in 0..127, NEW d, IsRecord(d, r, spare)
  PROVE  /\ IsBytes(d) /\ d[1] = r.state /\ d[2] = r.error
         /\ d[3] + 256 * d[4] = Word(Raw(r.volts, 32767))
         /\ d[5] + 256 * d[6] = Word(Raw(r.amps, 32767))
         /\ d[7] + 256 * d[8] = Raw(r.yield, 65535) /\ d[9] + 256 * d[10] = Raw(r.solar, 65535)
         /\ d[11] + 256 * (d[12] % 2) = Raw(r.load, 511)
<1> DEFINE volts == Word(Raw(r.volts, 32767))
           amps  == Word(Raw(r.amps, 32767))
           yield == Raw(r.yield, 65535)
           solar == Raw(r.solar, 65535)
           load  == Raw(r.load, 511)
<1>1. /\ d[1] = r.state /\ d[2] = r.error /\ d[3] = Low(volts) /\ d[4] = High(volts)
      /\ d[5] = Low(amps) /\ d[6] = High(amps) /\ d[7] = Low(yield) /\ d[8] = High(yield)
      /\ d[9] = Low(solar) /\ d[10] = High(solar) /\ d[11] = Low(load)
      /\ d[12] = High(load) + 2 * spare
  BY DEF IsRecord, Encode
<1>2. r.state \in 0..255 /\ r.error \in 0..255
  BY ReportFields
<1>3. volts \in Nat /\ volts <= 65535 /\ amps \in Nat /\ amps <= 65535
  BY ReportFields, SignReturns
<1>4. yield \in Nat /\ yield <= 65535 /\ solar \in Nat /\ solar <= 65535
      /\ load \in Nat /\ load <= 511
  BY ReportFields, UnsignedReturns DEF NaN
<1> HIDE DEF volts, amps, yield, solar, load
<1>5. /\ Low(volts) \in 0..255 /\ High(volts) \in 0..255 /\ volts = Low(volts) + 256 * High(volts)
      /\ Low(amps) \in 0..255 /\ High(amps) \in 0..255 /\ amps = Low(amps) + 256 * High(amps)
      /\ Low(yield) \in 0..255 /\ High(yield) \in 0..255 /\ yield = Low(yield) + 256 * High(yield)
      /\ Low(solar) \in 0..255 /\ High(solar) \in 0..255 /\ solar = Low(solar) + 256 * High(solar)
  BY <1>3, <1>4, Halves
<1>6. /\ Low(load) \in 0..255 /\ High(load) \in 0..1 /\ load = Low(load) + 256 * High(load)
  BY <1>4, Halves
<1>7. d[12] \in 0..255 /\ d[12] % 2 = High(load)
  BY <1>1, <1>6
<1>8. IsBytes(d)
  <2>1. /\ d[1] \in 0..255 /\ d[2] \in 0..255 /\ d[3] \in 0..255 /\ d[4] \in 0..255
        /\ d[5] \in 0..255 /\ d[6] \in 0..255 /\ d[7] \in 0..255 /\ d[8] \in 0..255
        /\ d[9] \in 0..255 /\ d[10] \in 0..255 /\ d[11] \in 0..255
    BY <1>1, <1>2, <1>5, <1>6
  <2>2. \A i \in 1..12 : d[i] \in Byte
    BY <2>1, <1>7 DEF Byte
  <2> QED BY <2>2 DEF IsBytes, Byte
<1> QED
  BY <1>1, <1>5, <1>6, <1>7, <1>8 DEF volts, amps, yield, solar, load

(* Whatever a report holds, and whatever is in the spare bits behind it,   *)
(* the parser's first attempt returns the report (victron_parser.c:81-147).*)
THEOREM RoundTrip ==
  ASSUME NEW r \in Report, NEW spare \in 0..127, NEW d, IsRecord(d, r, spare)
  PROVE  ParseWithMode(d, "lsb") = r
<1>1. ParseWithMode(d, "lsb") =
        [state |-> r.state, error |-> r.error,
         volts |-> Missing(Signed(Word(Raw(r.volts, 32767)), 16), 32767),
         amps  |-> Missing(Signed(Word(Raw(r.amps, 32767)), 16), 32767),
         yield |-> Missing(Raw(r.yield, 65535), 65535),
         solar |-> Missing(Raw(r.solar, 65535), 65535),
         load  |-> Missing(Raw(r.load, 511), 511)]
  BY EncodeBytes, ParseBytes
<1>2. /\ Missing(Signed(Word(Raw(r.volts, 32767)), 16), 32767) = r.volts
      /\ Missing(Signed(Word(Raw(r.amps, 32767)), 16), 32767) = r.amps
  BY ReportFields, SignReturns
<1>3. /\ Missing(Raw(r.yield, 65535), 65535) = r.yield /\ Missing(Raw(r.solar, 65535), 65535) = r.solar
      /\ Missing(Raw(r.load, 511), 511) = r.load
  <2>1. 65535 \in Nat /\ 65535 < NaN /\ 511 \in Nat /\ 511 < NaN
    BY DEF NaN
  <2>2. /\ r.yield = NaN \/ (r.yield \in Int /\ 0 <= r.yield /\ r.yield < 65535)
        /\ r.solar = NaN \/ (r.solar \in Int /\ 0 <= r.solar /\ r.solar < 65535)
        /\ r.load  = NaN \/ (r.load  \in Int /\ 0 <= r.load  /\ r.load  < 511)
    BY ReportFields
  <2> QED BY <2>1, <2>2, UnsignedReturns
<1> QED BY <1>1, <1>2, <1>3, ReportFields

(* The fallback reads no voltage below 5 V, for which it is tried, as a    *)
(* plausible one (victron_parser.c:149-177).                               *)
THEOREM FallbackIsNotFooled ==
  ASSUME NEW r \in Report, NEW spare \in 0..127, NEW d, IsRecord(d, r, spare),
         r.volts \in Nat, r.volts < 500
  PROVE  ~Plausible(ParseWithMode(d, "msb"))
<1>1. Word(Raw(r.volts, 32767)) = r.volts
  BY DEF Word, Raw, NaN
<1>2. d[3] + 256 * d[4] = r.volts /\ IsBytes(d)
  BY <1>1, EncodeBytes
<1>3. d[3] \in 0..255 /\ d[4] \in 0..255
  BY <1>2 DEF IsBytes
<1>4. d[4] = 0 \/ d[4] = 1
  <2>1. d[3] \in Nat /\ d[4] \in Nat
    BY <1>3
  <2> QED BY <1>2, <2>1
<1> DEFINE lo == Reversed(d[3])
           hi == Reversed(d[4])
           u  == lo + 256 * hi
<1>5. (hi = 0 \/ hi = 128) /\ lo \in Int /\ 0 <= lo /\ lo <= 255
  BY <1>3, <1>4, ReversedByte
<1>6. ParseWithMode(d, "msb").volts = Missing(Signed(u, 16), 32767)
  BY EncodeBytes, ParseBytes
<1> HIDE DEF lo, hi
<1>7. u \in Int /\ ((0 <= u /\ u <= 255) \/ (32768 <= u /\ u <= 33023))
  BY <1>5
<1> HIDE DEF u
<1>8. Missing(Signed(u, 16), 32767) # NaN /\ ~(500 <= Missing(Signed(u, 16), 32767))
  BY <1>7 DEF Missing, Signed, NaN
<1>9. Missing(Signed(u, 16), 32767) \notin Optional(500, 10000)
  BY <1>8, OptionalValue
<1> QED BY <1>6, <1>9 DEF Plausible

-----------------------------------------------------------------------------
(***************************************************************************)
(* The inductive invariant.  The frame carries the bits of the report, cut *)
(* where the advertisement ends; the decrypted text is what it carries; a  *)
(* text that was parsed once holds all twelve bytes; and the second        *)
(* attempt is made only for a report that was not plausible.               *)
(***************************************************************************)
Carried ==
  \E spare \in Spares :
    frame.bytes = Fit(Encode(sent, spare), IF frame.n > HeaderLen THEN frame.n - HeaderLen ELSE 0)
Decrypted ==
  /\ frame.from = "ours" /\ frame.n >= HeaderLen /\ len = frame.n - HeaderLen
  /\ \A i \in 1..len : i <= BlockLen => buf[i] = frame.bytes[i]
Taken ==
  out = sent \/ (~Plausible(sent) /\ Plausible(out) /\ out = ParseWithMode(buf, "msb"))
FrameInv ==
  /\ TypeOK
  /\ pc # "idle" => Carried /\ frame.n \in Nat
  /\ pc = "decrypt" => err = "OK"
  /\ pc \in {"lsb", "msb", "posted"} => Decrypted
  /\ pc \in {"msb", "posted"} => len >= RecordLen
  /\ pc = "msb" => ~Plausible(sent)
  /\ pc = "posted" => Taken
  /\ pc = "dropped" /\ Whole => err \in {"NO_MEM", "FAIL"} \/ ~Plausible(sent)

LEMMA TextIsRecord ==
  ASSUME Carried, Decrypted, len >= RecordLen, frame.n \in Nat
  PROVE  \E spare \in 0..127 : IsRecord(buf, sent, spare)
<1>1. PICK spare \in Spares :
        frame.bytes = Fit(Encode(sent, spare), IF frame.n > HeaderLen THEN frame.n - HeaderLen ELSE 0)
  BY DEF Carried
<1>2. spare \in 0..127
  BY BytesAssumption
<1>3. len \in Nat /\ len >= 12 /\ frame.bytes = Fit(Encode(sent, spare), len)
  BY <1>1 DEF Decrypted, RecordLen, HeaderLen
<1>4. Len(Encode(sent, spare)) = 12
  BY DEF Encode
<1>5. \A i \in 1..12 : frame.bytes[i] = Encode(sent, spare)[i]
  BY <1>3, <1>4 DEF Fit
<1>6. \A i \in 1..12 : buf[i] = frame.bytes[i]
  BY <1>3 DEF Decrypted, BlockLen
<1>7. IsRecord(buf, sent, spare)
  BY <1>5, <1>6 DEF IsRecord
<1> QED BY <1>2, <1>7

(* What either attempt makes of the text.                                  *)
LEMMA TextParsed ==
  ASSUME Carried, Decrypted, len >= RecordLen, frame.n \in Nat, sent \in Report
  PROVE  /\ ParseWithMode(buf, "lsb") = sent /\ sent \in [Fields -> Int]
         /\ ParseWithMode(buf, "msb") \in [Fields -> Int]
         /\ sent.volts \in Nat /\ sent.volts < 500 => ~Plausible(ParseWithMode(buf, "msb"))
<1>1. PICK spare \in 0..127 : IsRecord(buf, sent, spare)
  BY TextIsRecord
<1>2. IsBytes(buf)
  BY <1>1, EncodeBytes
<1> QED BY <1>1, <1>2, RoundTrip, ParseBytes, FallbackIsNotFooled

LEMMA EmptyIsReport == Empty \in Report /\ Empty \in [Fields -> Int]
<1>1. 0 \in Optional(-32768, 32766) /\ 0 \in Optional(0, 65534) /\ 0 \in Optional(0, 510)
  BY OptionalValue
<1>2. Empty = [state |-> 0, error |-> 0, volts |-> 0, amps |-> 0, yield |-> 0, solar |-> 0, load |-> 0]
  BY DEF Empty, Fields
<1>3. Empty \in Report
  BY <1>1, <1>2 DEF Report
<1> QED BY <1>3 DEF Empty

LEMMA FrameInit == Init => FrameInv
BY EmptyIsReport, LengthsAssumption DEF Init, FrameInv, TypeOK, Nothing

(* The text of an advertisement, and the blocks it is padded to.           *)
LEMMA Blocks ==
  ASSUME NEW n \in Nat
  PROVE  Padded(n) \in Nat /\ n <= Padded(n)
<1>1. (n + 15) \div 16 \in Int /\ (n + 15) % 16 \in 0..15
      /\ n + 15 = ((n + 15) % 16) + 16 * ((n + 15) \div 16)
  OBVIOUS
<1> DEFINE q == (n + 15) \div 16
           r == (n + 15) % 16
<1>2. q \in Int /\ r \in Int /\ 0 <= r /\ r <= 15 /\ n + 15 = r + 16 * q
  BY <1>1
<1> HIDE DEF q, r
<1>3. q * 16 \in Nat /\ n <= q * 16
  BY <1>2
<1> QED BY <1>3 DEF Padded, BlockLen, q

LEMMA CarriedLen ==
  ASSUME Carried, frame.n \in Nat
  PROVE  Len(frame.bytes) = IF frame.n > HeaderLen THEN frame.n - HeaderLen ELSE 0
<1> DEFINE m == IF frame.n > HeaderLen THEN frame.n - HeaderLen ELSE 0
<1>1. PICK spare \in Spares : frame.bytes = Fit(Encode(sent, spare), m)
  BY DEF Carried
<1>2. m \in Nat
  BY DEF HeaderLen
<1> HIDE DEF m
<1>3. Len(Fit(Encode(sent, spare), m)) = m
  BY <1>2 DEF Fit
<1> QED BY <1>1, <1>3 DEF m

LEMMA DropKeeps ==
  ASSUME FrameInv, pc # "idle", NEW why \in {"SIZE", "RESPONSE", "NO_MEM", "FAIL", "PARSE"}, Drop(why),
         Whole => why \in {"NO_MEM", "FAIL"} \/ ~Plausible(sent)
  PROVE  FrameInv'
<1>1. TypeOK'
  BY DEF FrameInv, TypeOK, Drop
<1>2. Carried' /\ frame'.n \in Nat
  BY DEF FrameInv, Carried, Drop
<1>3. pc' = "dropped" /\ err' = why /\ (Whole' <=> Whole) /\ (Plausible(sent)' <=> Plausible(sent))
  BY DEF Drop, Whole
<1> QED BY <1>1, <1>2, <1>3 DEF FrameInv

LEMMA FrameStep == FrameInv /\ [Next]_vars => FrameInv'
<1> SUFFICES ASSUME FrameInv, [Next]_vars PROVE FrameInv'
  OBVIOUS
<1>1. ASSUME pc = "idle", NEW r \in Reports, NEW n \in Lengths, NEW spare \in Spares,
             NEW from \in {"ours", "other charger", "other product"}, Receive(r, n, spare, from)
      PROVE  FrameInv'
  <2>1. TypeOK'
    <3>1. /\ pc' = "decrypt" /\ sent' = r /\ err' = "OK" /\ frame'.n = n /\ buf' = <<>>
          /\ len' = BufferLen /\ out' = Empty
      BY <1>1 DEF Receive
    <3>2. r \in Report /\ BufferLen \in Nat
      BY ReportsAssumption, LengthsAssumption
    <3>3. Len(buf') = 0
      BY <3>1
    <3>4. len' \in 0..BufferLen /\ Len(buf') <= BufferLen
      <4>1. BufferLen \in 0..BufferLen /\ 0 <= BufferLen
        BY LengthsAssumption, UpToItself
      <4>2. len' = BufferLen
        BY <3>1
      <4> QED BY <3>3, <4>1, <4>2
    <3>5. frame'.n \in Lengths \union {0} /\ sent' \in Report /\ out' \in [Fields -> Int]
      BY <3>1, <3>2, EmptyIsReport
    <3> QED BY <3>1, <3>4, <3>5 DEF TypeOK
  <2>2. Carried' /\ frame'.n \in Nat
    BY <1>1, LengthsAssumption DEF Carried, Receive
  <2>3. pc' = "decrypt" /\ err' = "OK"
    BY <1>1 DEF Receive
  <2> QED BY <2>1, <2>2, <2>3 DEF FrameInv
<1>2. CASE Refuse
  <2>1. ~Whole
    <3>1. pc = "decrypt" /\ frame.n \in Nat
      BY <1>2 DEF Refuse, FrameInv
    <3>2. frame.n < 8 \/ frame.from # "ours"
      <4>1. CASE frame.n < HeaderLen - 1
        BY <3>1, <4>1 DEF HeaderLen
      <4>2. CASE frame.n = HeaderLen - 1
        BY <4>2 DEF HeaderLen
      <4> QED BY <1>2, <4>1, <4>2 DEF Refuse
    <3> QED BY <3>1, <3>2 DEF Whole, HeaderLen, RecordLen
  <2>2. pc # "idle"
    BY <1>2 DEF Refuse
  <2>3. \E why \in {"SIZE", "RESPONSE"} : Drop(why)
    BY <1>2 DEF Refuse
  <2> QED BY <2>1, <2>2, <2>3, DropKeeps
<1>3. CASE NoMemory
  BY <1>3, DropKeeps DEF NoMemory, Accepted
<1>4. CASE CipherFails
  BY <1>4, DropKeeps DEF CipherFails, Accepted
<1>5. ASSUME NEW junk \in Junk, Decrypt(junk) PROVE FrameInv'
  <2> DEFINE n == Len(frame.bytes)
  <2>1. /\ pc = "decrypt" /\ frame.n >= HeaderLen /\ frame.from = "ours" /\ Carried /\ frame.n \in Nat
    BY <1>5 DEF Decrypt, Accepted, FrameInv
  <2>2. n = frame.n - HeaderLen /\ n \in Nat
    BY <2>1, CarriedLen DEF HeaderLen
  <2> HIDE DEF n
  <2>3. /\ pc' = "lsb" /\ len' = n /\ len >= Padded(n)
        /\ buf' = Plain(n, junk)
        /\ UNCHANGED <<sent, frame, out, err>>
    BY <1>5 DEF Decrypt, n
  <2>4. Padded(n) \in Nat /\ n <= Padded(n)
    BY <2>2, Blocks
  <2>5. Len(buf') = Padded(n)
    BY <2>3, <2>4 DEF Plain
  <2>6. TypeOK'
    BY <2>2, <2>3, <2>4, <2>5, LengthsAssumption DEF FrameInv, TypeOK
  <2>7. Carried' /\ frame'.n \in Nat
    BY <2>1, <2>3 DEF Carried
  <2>8. Decrypted'
    BY <2>1, <2>2, <2>3, <2>4 DEF Decrypted, Plain
  <2> QED BY <2>3, <2>6, <2>7, <2>8 DEF FrameInv
<1>6. CASE TooShort
  <2>1. ~Whole
    BY <1>6 DEF TooShort, FrameInv, Decrypted, Whole, RequiredBits, HeaderLen, RecordLen
  <2> QED BY <1>6, <2>1, DropKeeps DEF TooShort
<1>7. CASE ParseLsb
  <2>1. Carried /\ Decrypted /\ frame.n \in Nat /\ sent \in Report
    BY <1>7 DEF ParseLsb, FrameInv, TypeOK
  <2>2. len >= RecordLen
    BY <1>7 DEF ParseLsb, RequiredBits, RecordLen, FrameInv, TypeOK
  <2>3. ParseWithMode(buf, "lsb") = sent /\ sent \in [Fields -> Int]
    BY <2>1, <2>2, TextParsed
  <2>4. /\ out' = sent /\ pc' = (IF Plausible(sent) THEN "posted" ELSE "msb")
        /\ UNCHANGED <<sent, frame, buf, len, err>>
    BY <1>7, <2>3 DEF ParseLsb
  <2>5. TypeOK'
    BY <2>3, <2>4 DEF FrameInv, TypeOK
  <2>6. Carried' /\ Decrypted' /\ frame'.n \in Nat /\ (len >= RecordLen)'
    BY <2>1, <2>2, <2>4 DEF Carried, Decrypted
  <2>7. pc' = "msb" => ~Plausible(sent)'
    BY <2>4
  <2>8. Taken' /\ pc' \in {"msb", "posted"}
    BY <2>4 DEF Taken
  <2> QED BY <2>5, <2>6, <2>7, <2>8 DEF FrameInv
<1>8. CASE ParseMsb
  <2>1. pc = "msb" /\ Carried /\ Decrypted /\ frame.n \in Nat /\ sent \in Report /\ len >= RecordLen
        /\ ~Plausible(sent)
    BY <1>8 DEF ParseMsb, FrameInv, TypeOK
  <2>2. CASE Drop("PARSE")
    BY <2>1, <2>2, DropKeeps
  <2>3. CASE /\ Plausible(ParseWithMode(buf, "msb")) /\ out' = ParseWithMode(buf, "msb")
             /\ pc' = "posted" /\ UNCHANGED <<sent, frame, buf, len, err>>
    <3>1. ParseWithMode(buf, "msb") \in [Fields -> Int]
      BY <2>1, TextParsed
    <3>2. TypeOK'
      BY <2>3, <3>1 DEF FrameInv, TypeOK
    <3>3. Carried' /\ Decrypted' /\ frame'.n \in Nat /\ (len >= RecordLen)'
      BY <2>1, <2>3 DEF Carried, Decrypted
    <3>4. Taken'
      BY <2>1, <2>3 DEF Taken
    <3> QED BY <2>3, <3>2, <3>3, <3>4 DEF FrameInv
  <2> QED BY <1>8, <2>2, <2>3 DEF ParseMsb
<1>9. CASE Return
  <2>1. TypeOK'
    BY <1>9, EmptyIsReport, LengthsAssumption DEF Return, TypeOK, Nothing
  <2> QED BY <1>9, <2>1 DEF Return, FrameInv
<1>10. CASE UNCHANGED vars
  BY <1>10 DEF vars, FrameInv, TypeOK, Carried, Decrypted, Taken, Whole
<1> QED
  BY <1>1, <1>2, <1>3, <1>4, <1>5, <1>6, <1>7, <1>8, <1>9, <1>10 DEF Next

LEMMA FrameAlways == Spec => []FrameInv
BY FrameInit, FrameStep, PTL DEF Spec

(* The decrypted text, padding included, stays inside the caller's buffer, *)
(* whatever its size and however long the advertisement                    *)
(* (victron_crypto.c:147-152), and each variable has its type.             *)
THEOREM FrameTypeCorrect == Spec => []TypeOK
<1>1. FrameInv => TypeOK
  BY DEF FrameInv
<1> QED BY <1>1, FrameAlways, PTL

(* For a battery of at most 100 V, what is posted is what our charger      *)
(* sent, for every report the record can hold, every length of the         *)
(* advertisement, whatever is behind the report and in the padding         *)
(* (victron_parser.c:81-180, victron_crypto.c:116-205).                    *)
THEOREM PostsWhatWasSentHolds == Spec => []PostsWhatWasSent
<1>1. ASSUME FrameInv, pc = "posted", sent.volts \in Optional(0, 10000)
      PROVE  Whole /\ out = sent
  <2>1. /\ Carried /\ Decrypted /\ frame.n \in Nat /\ sent \in Report /\ len >= RecordLen /\ Taken
    BY <1>1 DEF FrameInv, TypeOK
  <2>2. Whole
    BY <2>1 DEF Decrypted, Whole, HeaderLen, RecordLen
  <2>3. out = sent
    <3>1. SUFFICES ASSUME ~Plausible(sent), Plausible(ParseWithMode(buf, "msb")) PROVE FALSE
      BY <2>1 DEF Taken
    <3>2. sent.volts = NaN \/ (sent.volts \in Int /\ 0 <= sent.volts /\ sent.volts <= 10000)
      BY <1>1, OptionalValue
    <3>3. ~(sent.volts = NaN \/ (sent.volts \in Int /\ 500 <= sent.volts /\ sent.volts <= 10000))
      BY <3>1, OptionalValue DEF Plausible
    <3>4. sent.volts \in Nat /\ sent.volts < 500
      BY <3>2, <3>3
    <3> QED BY <2>1, <3>1, <3>4, TextParsed
  <2> QED BY <2>2, <2>3
<1>2. FrameInv => PostsWhatWasSent
  BY <1>1 DEF PostsWhatWasSent
<1> QED BY <1>2, FrameAlways, PTL

(* No whole and plausible report of our charger is dropped, unless there   *)
(* is no room or memory, or the cipher fails (ble_task.c:51-64).           *)
THEOREM PlausibleIsPostedHolds == Spec => []PlausibleIsPosted
<1>1. FrameInv => PlausibleIsPosted
  BY DEF FrameInv, PlausibleIsPosted
<1> QED BY <1>1, FrameAlways, PTL
=============================================================================
