----------------------------- MODULE SensorProofs -----------------------------
(***************************************************************************)
(* The safety of SensorPrograms, for any number of sensors, any set of     *)
(* temperatures, and any noise of an odd number of bits or within eight.   *)
(*                                                                         *)
(* crc8 comes first: it computes the remainder it is meant to, of any      *)
(* message, and tells such noise.                                          *)
(***************************************************************************)
EXTENDS SensorPrograms, FiniteSetTheorems, WellFoundedInduction, TLAPS

(* crc8: first, induction and loops.  A set of numbers has a least one. *)
LEMMA LeastNumber ==
    ASSUME NEW T \in SUBSET Nat, T # {}
    PROVE  \E x \in T : \A y \in T : x <= y
<1> DEFINE R == OpToRel(<, Nat)
<1>1. IsWellFoundedOn(R, Nat)
  BY NatLessThanWellFounded
<1>2. \A x \in Nat, y \in Nat : y < x => <<y, x>> \in R
  BY DEF OpToRel
<1> HIDE DEF R
<1>3. PICK x \in T : \A y \in T : ~(<<y, x>> \in R)
  BY <1>1, WFMin
<1>4. ASSUME NEW y \in T PROVE x <= y
  <2>1. ~(<<y, x>> \in R)
    BY <1>3
  <2>2. x \in Nat /\ y \in Nat
    OBVIOUS
  <2>3. ~(y < x)
    BY <1>2, <2>1, <2>2
  <2> QED
    BY <2>2, <2>3
<1> QED
  BY <1>4

(* Induction from 0 up to n.                                               *)
LEMMA UpTo ==
    ASSUME NEW n \in Nat, NEW T, 0 \in T,
           \A i \in 0 .. n : i < n /\ i \in T => i + 1 \in T
    PROVE  \A i \in 0 .. n : i \in T
<1> DEFINE U == (0 .. n) \ T
<1> SUFFICES ASSUME U # {} PROVE FALSE
  OBVIOUS
<1>1. U \in SUBSET Nat
  OBVIOUS
<1> HIDE DEF U
<1>2. PICK x \in U : \A y \in U : x <= y
  BY <1>1, LeastNumber
<1>3. x \in 0 .. n /\ x \notin T /\ x # 0
  BY <1>2 DEF U
<1>4. x - 1 \in 0 .. n /\ x - 1 < n /\ (x - 1) + 1 = x /\ ~(x <= x - 1)
  BY <1>3
<1>5. x - 1 \in T
  BY <1>2, <1>4 DEF U
<1> QED
  BY <1>3, <1>4, <1>5

(* What a loop of n rounds computes: F[i][x] is what round i makes of x.   *)
Runs(f, n, S, a, F) ==
    f \in [0 .. n -> S] /\ f[0] = a /\ \A i \in 1 .. n : f[i] = F[i][f[i - 1]]

(* Such a loop has a result, whatever its rounds ... *)
LEMMA LoopExists ==
    ASSUME NEW n \in Nat, NEW S, NEW a \in S, NEW F,
           \A i \in 1 .. n : \A x \in S : F[i][x] \in S
    PROVE  \E f : Runs(f, n, S, a, F)
<1> DEFINE P(m) == \E f : Runs(f, m, S, a, F)
           T == {m \in 0 .. n : P(m)}
<1>1. 0 \in T
  <2> DEFINE f == [i \in 0 .. 0 |-> a]
  <2>1. Runs(f, 0, S, a, F)
    BY DEF Runs
  <2>2. P(0)
    BY <2>1
  <2> QED
    BY <2>2
<1>2. ASSUME NEW m \in 0 .. n, m < n, m \in T PROVE m + 1 \in T
  <2>1. PICK f : Runs(f, m, S, a, F)
    BY <1>2
  <2>8. f \in [0 .. m -> S] /\ f[0] = a /\ \A i \in 1 .. m : f[i] = F[i][f[i - 1]]
    BY <2>1 DEF Runs
  <2> DEFINE g == [i \in 0 .. m + 1 |-> IF i = m + 1 THEN F[m + 1][f[m]] ELSE f[i]]
  <2>2. f[m] \in S /\ F[m + 1][f[m]] \in S
    <3>1. m \in 0 .. m /\ m + 1 \in 1 .. n
      BY <1>2
    <3>2. f[m] \in S
      BY <2>8, <3>1
    <3> QED
      BY <3>1, <3>2
  <2>3. g \in [0 .. m + 1 -> S]
    BY <2>2, <2>8
  <2>4. g[0] = a
    BY <2>8
  <2>5. ASSUME NEW i \in 1 .. m + 1 PROVE g[i] = F[i][g[i - 1]]
    <3>1. CASE i = m + 1
      BY <3>1
    <3>2. CASE i # m + 1
      <4>1. i \in 1 .. m /\ i - 1 \in 0 .. m /\ i - 1 # m + 1
        BY <3>2
      <4> QED
        BY <2>8, <3>2, <4>1
    <3> QED
      BY <3>1, <3>2
  <2> HIDE DEF g
  <2>9. Runs(g, m + 1, S, a, F)
    BY <2>3, <2>4, <2>5 DEF Runs
  <2>6. P(m + 1)
    BY <2>9
  <2>7. m + 1 \in 0 .. n
    BY <1>2
  <2> QED
    BY <2>6, <2>7
<1> HIDE DEF T
<1>3. n \in T
  BY <1>1, <1>2, UpTo
<1> QED
  BY <1>3 DEF T

Follows(g, n, S, a, F) ==
    /\ g = [i \in 0 .. n |-> g[i]] /\ g[0] = a
    /\ \A i \in 1 .. n : g[i - 1] \in S => g[i] = F[i][g[i - 1]]

(* ... and what does what it does is it. *)
LEMMA RunsOnce ==
    ASSUME NEW n \in Nat, NEW S, NEW a \in S, NEW F, NEW f, Runs(f, n, S, a, F),
           NEW g, Follows(g, n, S, a, F)
    PROVE  g = f
<1>6. /\ g = [i \in 0 .. n |-> g[i]] /\ g[0] = a
      /\ \A i \in 1 .. n : g[i - 1] \in S => g[i] = F[i][g[i - 1]]
  BY DEF Follows
<1>1. f \in [0 .. n -> S] /\ f[0] = a /\ \A i \in 1 .. n : f[i] = F[i][f[i - 1]]
  BY DEF Runs
<1> DEFINE T == {i \in 0 .. n : g[i] = f[i]}
<1>2. 0 \in T
  BY <1>1, <1>6
<1>3. ASSUME NEW i \in 0 .. n, i < n, i \in T PROVE i + 1 \in T
  <2>1. i + 1 \in 1 .. n /\ (i + 1) - 1 = i /\ i + 1 \in 0 .. n
    BY <1>3
  <2>2. g[i] = f[i] /\ f[i] \in S
    BY <1>1, <1>3
  <2>3. g[i + 1] = F[i + 1][g[i]]
    BY <1>6, <2>1, <2>2
  <2>4. f[i + 1] = F[i + 1][f[i]]
    BY <1>1, <2>1
  <2> QED
    BY <2>1, <2>2, <2>3, <2>4
<1> HIDE DEF T
<1>4. \A i \in 0 .. n : i \in T
  BY <1>2, <1>3, UpTo
<1>5. \A i \in 0 .. n : g[i] = f[i]
  BY <1>4 DEF T
<1> QED
  BY <1>1, <1>5, <1>6

Bit01 == {0, 1}
Registers == [1 .. 8 -> Bit01]
Clear == [k \in 1 .. 8 |-> 0]

(* A bit of a byte. *)
LEMMA BitType ==
    ASSUME NEW b \in Int, NEW k \in 0 .. 7
    PROVE  BitOf(b, k) \in Bit01
<1>1. /\ 2^0 = 1 /\ 2^1 = 2 /\ 2^2 = 4 /\ 2^3 = 8
      /\ 2^4 = 16 /\ 2^5 = 32 /\ 2^6 = 64 /\ 2^7 = 128
  OBVIOUS
<1>2. PICK d \in {1, 2, 4, 8, 16, 32, 64, 128} : d = 2^k
  <2>1. k \in {0, 1, 2, 3, 4, 5, 6, 7}
    OBVIOUS
  <2>2. CASE k = 0
    BY <1>1, <2>2
  <2>3. CASE k = 1
    BY <1>1, <2>3
  <2>4. CASE k = 2
    BY <1>1, <2>4
  <2>5. CASE k = 3
    BY <1>1, <2>5
  <2>6. CASE k = 4
    BY <1>1, <2>6
  <2>7. CASE k = 5
    BY <1>1, <2>7
  <2>8. CASE k = 6
    BY <1>1, <2>8
  <2>9. CASE k = 7
    BY <1>1, <2>9
  <2> QED
    BY <2>1, <2>2, <2>3, <2>4, <2>5, <2>6, <2>7, <2>8, <2>9
<1>3. (b \div d) % 2 \in Bit01
  BY DEF Bit01
<1> QED
  BY <1>2, <1>3 DEF BitOf

(* The divisor has the bits 3, 4 and 8 of the register. *)
LEMMA DivisorBits ==
    ASSUME NEW k \in 1 .. 8
    PROVE  BitOf(140, k - 1) = IF k \in {3, 4, 8} THEN 1 ELSE 0
<1>1. /\ 2^0 = 1 /\ 2^1 = 2 /\ 2^2 = 4 /\ 2^3 = 8
      /\ 2^4 = 16 /\ 2^5 = 32 /\ 2^6 = 64 /\ 2^7 = 128
  OBVIOUS
<1>2. k \in {1, 2, 3, 4, 5, 6, 7, 8}
  OBVIOUS
<1>3. CASE k = 1
  BY <1>1, <1>3 DEF BitOf
<1>4. CASE k = 2
  BY <1>1, <1>4 DEF BitOf
<1>5. CASE k = 3
  BY <1>1, <1>5 DEF BitOf
<1>6. CASE k = 4
  BY <1>1, <1>6 DEF BitOf
<1>7. CASE k = 5
  BY <1>1, <1>7 DEF BitOf
<1>8. CASE k = 6
  BY <1>1, <1>8 DEF BitOf
<1>9. CASE k = 7
  BY <1>1, <1>9 DEF BitOf
<1>10. CASE k = 8
  BY <1>1, <1>10 DEF BitOf
<1> QED
  BY <1>2, <1>3, <1>4, <1>5, <1>6, <1>7, <1>8, <1>9, <1>10

(* The bits of a message, in the order of the wire. *)
LEMMA BitsType ==
    ASSUME NEW bytes \in Seq(Bytes), NEW n \in Nat, n = 8 * Len(bytes)
    PROVE  /\ Bits(bytes) \in [1 .. n -> Bit01]
           /\ Len(Bits(bytes)) = n
           /\ \A i \in 1 .. n : Bits(bytes)[i] = BitOf(bytes[(i - 1) \div 8 + 1], (i - 1) % 8)
<1>1. ASSUME NEW i \in 1 .. n
      PROVE  BitOf(bytes[(i - 1) \div 8 + 1], (i - 1) % 8) \in Bit01
  <2>1. (i - 1) \div 8 + 1 \in 1 .. Len(bytes) /\ (i - 1) % 8 \in 0 .. 7
    OBVIOUS
  <2>2. bytes[(i - 1) \div 8 + 1] \in Bytes
    BY <2>1
  <2>3. \A b \in Bytes : b \in Int
    BY DEF Bytes
  <2>4. bytes[(i - 1) \div 8 + 1] \in Int
    BY <2>2, <2>3, Zenon
  <2> QED
    BY <2>1, <2>4, BitType
<1>2. Bits(bytes) = [i \in 1 .. n |-> BitOf(bytes[(i - 1) \div 8 + 1], (i - 1) % 8)]
  BY DEF Bits
<1> QED
  BY <1>1, <1>2

(* A step of the register: one place down, and the bits 3, 4 and 8 turned  *)
(* over if the bit it loses is not that of the message.                    *)
LEMMA ShiftIs ==
    ASSUME NEW c \in Registers, NEW x \in Bit01
    PROVE  /\ Shift(c, x) \in Registers
           /\ \A k \in 1 .. 7 : Shift(c, x)[k] =
                  IF c[1] = x \/ k \notin {3, 4} THEN c[k + 1] ELSE 1 - c[k + 1]
           /\ Shift(c, x)[8] = IF c[1] = x THEN 0 ELSE 1
<1>1. PICK m : m = [k \in 1 .. 8 |-> IF k = 8 THEN 0 ELSE c[k + 1]]
  OBVIOUS
<1>2. m \in Registers /\ m[8] = 0 /\ \A k \in 1 .. 7 : m[k] = c[k + 1]
  BY <1>1 DEF Registers, Bit01
<1>3. CASE c[1] = x
  BY <1>1, <1>2, <1>3 DEF Shift
<1>4. CASE c[1] # x
  <2>1. Shift(c, x) = [k \in 1 .. 8 |-> (m[k] + BitOf(140, k - 1)) % 2]
    BY <1>1, <1>4 DEF Shift
  <2>2. ASSUME NEW k \in 1 .. 8
        PROVE  (m[k] + BitOf(140, k - 1)) % 2 = IF k \in {3, 4, 8} THEN 1 - m[k] ELSE m[k]
    <3>1. BitOf(140, k - 1) = IF k \in {3, 4, 8} THEN 1 ELSE 0
      BY DivisorBits
    <3>2. m[k] \in {0, 1}
      BY <1>2 DEF Registers, Bit01
    <3> QED
      BY <3>1, <3>2
  <2>3. \A k \in 1 .. 8 : Shift(c, x)[k] = IF k \in {3, 4, 8} THEN 1 - m[k] ELSE m[k]
    BY <2>1, <2>2
  <2>4. Shift(c, x) \in Registers
    BY <1>2, <2>1, <2>2 DEF Registers, Bit01
  <2> QED
    BY <1>2, <1>4, <2>3, <2>4
<1> QED
  BY <1>3, <1>4

(* f[i]: the register after i bits. *)
Registered(f, bits, n) ==
    /\ f \in [0 .. n -> Registers]
    /\ f[0] = Clear
    /\ \A i \in 1 .. n : f[i] = Shift(f[i - 1], bits[i])

ShiftBy(bits, n) == [i \in 1 .. n |-> [c \in Registers |-> Shift(c, bits[i])]]

(* The registers of a message exist. *)
LEMMA RegisterRuns ==
    ASSUME NEW n \in Nat, NEW bits \in [1 .. n -> Bit01]
    PROVE  /\ \E f : Runs(f, n, Registers, Clear, ShiftBy(bits, n))
           /\ \A f : Runs(f, n, Registers, Clear, ShiftBy(bits, n)) <=> Registered(f, bits, n)
<1>1. Clear \in Registers
  BY DEF Clear, Registers, Bit01
<1>2. PICK F : F = ShiftBy(bits, n)
  OBVIOUS
<1>3. \A i \in 1 .. n : \A c \in Registers : F[i][c] = Shift(c, bits[i])
  BY <1>2 DEF ShiftBy
<1>4. \A i \in 1 .. n : \A c \in Registers : F[i][c] \in Registers
  <2> SUFFICES ASSUME NEW i \in 1 .. n, NEW c \in Registers PROVE F[i][c] \in Registers
    OBVIOUS
  <2>1. bits[i] \in Bit01
    OBVIOUS
  <2>2. Shift(c, bits[i]) \in Registers
    BY <2>1, ShiftIs
  <2> QED
    BY <1>3, <2>2
<1>5. \E f : Runs(f, n, Registers, Clear, F)
  BY <1>1, <1>4, LoopExists
<1>6. ASSUME NEW f PROVE Runs(f, n, Registers, Clear, F) <=> Registered(f, bits, n)
  <2>1. CASE f \in [0 .. n -> Registers]
    <3>1. \A i \in 1 .. n : f[i - 1] \in Registers
      <4>1. \A i \in 1 .. n : i - 1 \in 0 .. n
        OBVIOUS
      <4> QED
        BY <2>1, <4>1
    <3>2. \A i \in 1 .. n : F[i][f[i - 1]] = Shift(f[i - 1], bits[i])
      BY <1>3, <3>1
    <3> QED
      BY <3>2, Zenon DEF Runs, Registered
  <2>2. CASE ~(f \in [0 .. n -> Registers])
    BY <2>2, Zenon DEF Runs, Registered
  <2> QED
    BY <2>1, <2>2
<1> QED
  BY <1>2, <1>5, <1>6

(* crc8 is that loop. *)
LEMMA Crc8Is ==
    ASSUME NEW bytes \in Seq(Bytes), NEW n \in Nat, n = 8 * Len(bytes)
    PROVE  \E f : Registered(f, Bits(bytes), n) /\ Crc8(bytes) = ByteOf(f[n])
<1>1. PICK bits \in [1 .. n -> Bit01] : bits = Bits(bytes) /\ Len(bits) = n
  BY BitsType
<1>2. PICK f : Runs(f, n, Registers, Clear, ShiftBy(bits, n))
  BY RegisterRuns
<1>3. Registered(f, bits, n)
  BY <1>2, RegisterRuns
<1>4. f \in [0 .. n -> Registers] /\ f[0] = Clear /\ \A i \in 1 .. n : f[i] = Shift(f[i - 1], bits[i])
  BY <1>3, Zenon DEF Registered
<1> DEFINE Round(g) == [i \in 0 .. Len(bits) |->
               IF i = 0 THEN [k \in 1 .. 8 |-> 0] ELSE Shift(g[i - 1], bits[i])]
<1>5. Crc8(bytes) = ByteOf((CHOOSE g : g = Round(g))[Len(bits)])
  BY <1>1, Zenon DEF Crc8
<1>6. \A g : Round(g) = [i \in 0 .. n |-> Round(g)[i]] /\ Round(g)[0] = Clear
  BY <1>1 DEF Clear
<1>7. \A g : \A i \in 1 .. n : Round(g)[i] = Shift(g[i - 1], bits[i])
  BY <1>1
<1> HIDE DEF Round
<1>8. f = Round(f)
  <2>1. \A i \in 0 .. n : f[i] = Round(f)[i]
    <3> SUFFICES ASSUME NEW i \in 0 .. n PROVE f[i] = Round(f)[i]
      OBVIOUS
    <3>1. CASE i = 0
      BY <1>4, <1>6, <3>1
    <3>2. CASE i # 0
      <4>1. i \in 1 .. n
        BY <3>2
      <4> QED
        BY <1>4, <1>7, <4>1
    <3> QED
      BY <3>1, <3>2
  <2>2. f = [i \in 0 .. n |-> f[i]]
    BY <1>4
  <2> QED
    BY <1>6, <2>1, <2>2
<1>9. PICK g : g = (CHOOSE x : x = Round(x)) /\ g = Round(g)
  BY <1>8
<1>10. g = f
  <2>1. g = [i \in 0 .. n |-> g[i]] /\ g[0] = Clear
    BY <1>6, <1>9, Zenon
  <2>2. \A i \in 1 .. n : g[i] = Shift(g[i - 1], bits[i])
    BY <1>7, <1>9, Zenon
  <2>3. \A i \in 1 .. n : g[i - 1] \in Registers => g[i] = ShiftBy(bits, n)[i][g[i - 1]]
    BY <2>2 DEF ShiftBy
  <2>4. Follows(g, n, Registers, Clear, ShiftBy(bits, n))
    BY <2>1, <2>3, Zenon DEF Follows
  <2>5. Clear \in Registers
    BY DEF Clear, Registers, Bit01
  <2> QED
    BY <1>2, <2>4, <2>5, RunsOnce
<1>11. Crc8(bytes) = ByteOf(f[n])
  BY <1>1, <1>5, <1>9, <1>10, Zenon
<1> QED
  BY <1>1, <1>3, <1>11, Zenon

(* Long division, by the register: after k of its steps the rest has, in   *)
(* the eight places below those that are gone, the bits of the message     *)
(* turned over by the register, and below them the bits of the message.    *)
Divided(r, c, bits, n, k) ==
    /\ \A j \in 1 .. 8 : n + 8 - k - j \in r <=>
           ~(c[j] = 1 <=> n + 8 - k - j \in Polynomial(bits))
    /\ \A e \in 0 .. n + 7 :
           /\ e >= n + 8 - k => e \notin r
           /\ e < n - k => (e \in r <=> e \in Polynomial(bits))

(* The exponents of a message. *)
LEMMA PolynomialIs ==
    ASSUME NEW n \in Nat, NEW bits \in [1 .. n -> Bit01], Len(bits) = n
    PROVE  /\ \A k \in 1 .. n : n + 8 - k \in Polynomial(bits) <=> bits[k] = 1
           /\ \A e \in Polynomial(bits) : e \in 8 .. n + 7
<1>1. \A e : e \in Polynomial(bits) <=> \E k \in 1 .. n : bits[k] = 1 /\ e = n + 8 - k
  BY DEF Polynomial
<1> QED
  BY <1>1

(* A step of the division turns over four coefficients, or none. *)
LEMMA ReducedIs ==
    ASSUME NEW p \in SUBSET Int, NEW e \in Int
    PROVE  /\ Reduced(p, e) \in SUBSET Int
           /\ \A x : x \in Reduced(p, e) <=>
                  IF e \in p /\ x \in {e, e - 3, e - 4, e - 8} THEN x \notin p ELSE x \in p
BY DEF Reduced, Plus, Divisor

(* A step of the register does a step of the division. *)
LEMMA DivisionStep ==
    ASSUME NEW n \in Nat, NEW bits \in [1 .. n -> Bit01], Len(bits) = n,
           NEW k \in Nat, k < n, NEW c \in Registers, NEW r \in SUBSET Int,
           Divided(r, c, bits, n, k)
    PROVE  Divided(Reduced(r, n + 7 - k), Shift(c, bits[k + 1]), bits, n, k + 1)
<1>1. PICK M : M = Polynomial(bits)
  OBVIOUS
<1>2. PICK E \in Int : E = n + 7 - k
  OBVIOUS
<1>3. PICK x \in Bit01 : x = bits[k + 1]
  OBVIOUS
<1>4. E \in M <=> x = 1
  <2>1. k + 1 \in 1 .. n /\ n + 8 - (k + 1) = E
    BY <1>2
  <2>2. n + 8 - (k + 1) \in M <=> bits[k + 1] = 1
    BY <1>1, <2>1, PolynomialIs
  <2> QED
    BY <1>3, <2>1, <2>2
<1>5. \A j \in 1 .. 8 : E + 1 - j \in r <=> ~(c[j] = 1 <=> E + 1 - j \in M)
  <2>1. n + 8 - k = E + 1
    BY <1>2
  <2>2. \A j \in 1 .. 8 : n + 8 - k - j \in r <=> ~(c[j] = 1 <=> n + 8 - k - j \in M)
    BY <1>1, Zenon DEF Divided
  <2> QED
    BY <2>1, <2>2
<1>6. \A e \in 0 .. E + k : /\ e >= E + 1 => e \notin r
                            /\ e < E - 7 => (e \in r <=> e \in M)
  <2>1. n + 8 - k = E + 1 /\ n + 7 = E + k /\ n - k = E - 7
    BY <1>2
  <2>2. \A e \in 0 .. n + 7 : /\ e >= n + 8 - k => e \notin r
                              /\ e < n - k => (e \in r <=> e \in M)
    BY <1>1, Zenon DEF Divided
  <2> QED
    BY <2>1, <2>2
<1>7. c[1] \in {0, 1} /\ x \in {0, 1}
  BY DEF Registers, Bit01
<1>8. E \in r <=> c[1] # x
  <2>1. E + 1 - 1 = E /\ 1 \in 1 .. 8
    OBVIOUS
  <2>2. E \in r <=> ~(c[1] = 1 <=> E \in M)
    BY <1>5, <2>1
  <2> QED
    BY <1>4, <1>7, <2>2
<1>9. PICK q : q = Reduced(r, E)
  OBVIOUS
<1>10. \A e : e \in q <=> IF c[1] # x /\ e \in {E, E - 3, E - 4, E - 8} THEN e \notin r ELSE e \in r
  BY <1>8, <1>9, ReducedIs
<1>11. PICK d : d = Shift(c, x)
  OBVIOUS
<1>12. d \in Registers
  BY <1>11, ShiftIs
<1>13. \A j \in 1 .. 7 : d[j] = IF c[1] = x \/ j \notin {3, 4} THEN c[j + 1] ELSE 1 - c[j + 1]
  BY <1>11, ShiftIs
<1>14. d[8] = IF c[1] = x THEN 0 ELSE 1
  BY <1>11, ShiftIs
<1>15. ASSUME NEW j \in 1 .. 8
       PROVE  E - j \in q <=> ~(d[j] = 1 <=> E - j \in M)
  <2>1. CASE j = 8
    <3>1. E - 8 \in q <=> IF c[1] # x THEN E - 8 \notin r ELSE E - 8 \in r
      BY <1>10
    <3>2. E - 8 \in r <=> E - 8 \in M
      <4>1. E - 8 \in 0 .. E + k /\ E - 8 < E - 7
        BY <1>2
      <4> QED
        BY <1>6, <4>1
    <3> QED
      BY <1>14, <2>1, <3>1, <3>2
  <2>2. CASE j # 8
    <3>1. j \in 1 .. 7 /\ j + 1 \in 1 .. 8 /\ E + 1 - (j + 1) = E - j
      BY <2>2
    <3>2. E - j \in r <=> ~(c[j + 1] = 1 <=> E - j \in M)
      BY <1>5, <3>1
    <3>3. E - j \in {E, E - 3, E - 4, E - 8} <=> j \in {3, 4}
      BY <3>1
    <3>4. E - j \in q <=> IF c[1] # x /\ j \in {3, 4} THEN E - j \notin r ELSE E - j \in r
      BY <1>10, <3>3
    <3>5. c[j + 1] \in {0, 1}
      BY <3>1 DEF Registers, Bit01
    <3>6. d[j] = IF c[1] = x \/ j \notin {3, 4} THEN c[j + 1] ELSE 1 - c[j + 1]
      BY <1>13, <3>1
    <3> QED
      BY <3>2, <3>4, <3>5, <3>6
  <2> QED
    BY <2>1, <2>2
<1>16. ASSUME NEW e \in 0 .. n + 7
       PROVE  /\ e >= n + 8 - (k + 1) => e \notin q
              /\ e < n - (k + 1) => (e \in q <=> e \in M)
  <2>1. e \in 0 .. E + k
    BY <1>2
  <2>2. CASE e > E
    <3>1. ~(e \in {E, E - 3, E - 4, E - 8}) /\ e >= E + 1
      BY <2>2
    <3>2. e \notin q
      BY <1>6, <1>10, <2>1, <3>1
    <3> QED
      BY <1>2, <2>2, <3>2
  <2>3. CASE e = E
    <3>1. e \notin q
      BY <1>8, <1>10, <2>3
    <3> QED
      BY <1>2, <2>3, <3>1
  <2>4. CASE e < E - 8
    <3>1. ~(e \in {E, E - 3, E - 4, E - 8}) /\ e < E - 7
      BY <2>4
    <3>2. e \in q <=> e \in M
      BY <1>6, <1>10, <2>1, <3>1
    <3> QED
      BY <1>2, <2>4, <3>2
  <2>5. CASE e < E /\ ~(e < E - 8)
    BY <1>2, <2>5
  <2> QED
    BY <2>2, <2>3, <2>4, <2>5
<1>17. n + 8 - (k + 1) = E
  BY <1>2
<1>18. Divided(q, d, bits, n, k + 1)
  <2>1. \A j \in 1 .. 8 : n + 8 - (k + 1) - j \in q <=>
            ~(d[j] = 1 <=> n + 8 - (k + 1) - j \in M)
    <3> SUFFICES ASSUME NEW j \in 1 .. 8
                 PROVE  n + 8 - (k + 1) - j \in q <=>
                            ~(d[j] = 1 <=> n + 8 - (k + 1) - j \in M)
      OBVIOUS
    <3>1. PICK a : a = E - j /\ a = n + 8 - (k + 1) - j
      BY <1>17
    <3>2. a \in q <=> ~(d[j] = 1 <=> a \in M)
      BY <1>15, <3>1
    <3> QED
      BY <3>1, <3>2
  <2>2. \A e \in 0 .. n + 7 : /\ e >= n + 8 - (k + 1) => e \notin q
                              /\ e < n - (k + 1) => (e \in q <=> e \in M)
    BY <1>16, Zenon
  <2> QED
    BY <1>1, <2>1, <2>2, Zenon DEF Divided
<1> QED
  BY <1>2, <1>3, <1>9, <1>11, <1>18, Zenon

(* The division as a loop. *)
ReduceBy(n) == [k \in 1 .. n |-> [p \in SUBSET Int |-> Reduced(p, n + 8 - k)]]

(* Remainder is what that loop leaves. *)
LEMMA RemainderIs ==
    ASSUME NEW n \in Nat, NEW p \in SUBSET Int
    PROVE  \E r \in [0 .. n -> SUBSET Int] :
               /\ r[0] = p /\ Remainder(p, n) = r[n]
               /\ \A k \in 1 .. n : r[k] = Reduced(r[k - 1], n + 8 - k)
<1>1. PICK F : F = ReduceBy(n)
  OBVIOUS
<1>2. \A k \in 1 .. n : \A x \in SUBSET Int : F[k][x] = Reduced(x, n + 8 - k)
  BY <1>1 DEF ReduceBy
<1>3. \A k \in 1 .. n : \A x \in SUBSET Int : F[k][x] \in SUBSET Int
  <2> SUFFICES ASSUME NEW k \in 1 .. n, NEW x \in SUBSET Int PROVE F[k][x] \in SUBSET Int
    OBVIOUS
  <2>1. n + 8 - k \in Int
    OBVIOUS
  <2>2. Reduced(x, n + 8 - k) \in SUBSET Int
    BY <2>1, ReducedIs
  <2> QED
    BY <1>2, <2>2
<1>4. PICK r : Runs(r, n, SUBSET Int, p, F)
  BY <1>3, LoopExists
<1>5. r \in [0 .. n -> SUBSET Int] /\ r[0] = p /\ \A k \in 1 .. n : r[k] = F[k][r[k - 1]]
  BY <1>4, Zenon DEF Runs
<1>6. ASSUME NEW k \in 1 .. n PROVE r[k] = Reduced(r[k - 1], n + 8 - k)
  <2>1. k - 1 \in 0 .. n
    OBVIOUS
  <2>2. r[k - 1] \in SUBSET Int
    BY <1>5, <2>1
  <2> QED
    BY <1>2, <1>5, <2>2
<1> DEFINE Round(g) == [k \in 0 .. n |->
               IF k = 0 THEN p ELSE Reduced(g[k - 1], n + 8 - k)]
<1>7. Remainder(p, n) = (CHOOSE g : g = Round(g))[n]
  BY Zenon DEF Remainder
<1>8. \A g : Round(g) = [k \in 0 .. n |-> Round(g)[k]] /\ Round(g)[0] = p
  OBVIOUS
<1>9. \A g : \A k \in 1 .. n : Round(g)[k] = Reduced(g[k - 1], n + 8 - k)
  OBVIOUS
<1> HIDE DEF Round
<1>10. r = Round(r)
  <2>1. \A k \in 0 .. n : r[k] = Round(r)[k]
    <3> SUFFICES ASSUME NEW k \in 0 .. n PROVE r[k] = Round(r)[k]
      OBVIOUS
    <3>1. CASE k = 0
      BY <1>5, <1>8, <3>1
    <3>2. CASE k # 0
      <4>1. k \in 1 .. n
        BY <3>2
      <4> QED
        BY <1>6, <1>9, <4>1
    <3> QED
      BY <3>1, <3>2
  <2>2. r = [k \in 0 .. n |-> r[k]]
    BY <1>5
  <2> QED
    BY <1>8, <2>1, <2>2
<1>11. PICK g : g = (CHOOSE x : x = Round(x)) /\ g = Round(g)
  BY <1>10
<1>12. g = r
  <2>1. g = [k \in 0 .. n |-> g[k]] /\ g[0] = p
    BY <1>8, <1>11, Zenon
  <2>2. \A k \in 1 .. n : g[k] = Reduced(g[k - 1], n + 8 - k)
    BY <1>9, <1>11, Zenon
  <2>3. \A k \in 1 .. n : g[k - 1] \in SUBSET Int => g[k] = F[k][g[k - 1]]
    BY <1>2, <2>2
  <2>4. Follows(g, n, SUBSET Int, p, F)
    BY <2>1, <2>3, Zenon DEF Follows
  <2> QED
    BY <1>4, <2>4, RunsOnce
<1>13. Remainder(p, n) = r[n]
  BY <1>7, <1>11, <1>12, Zenon
<1> QED
  BY <1>5, <1>6, <1>13

(* The register holds the remainder of what it has seen, and at the end of *)
(* all.                                                                    *)
LEMMA RegisterDivides ==
    ASSUME NEW n \in Nat, NEW bits \in [1 .. n -> Bit01], Len(bits) = n,
           NEW f, Registered(f, bits, n)
    PROVE  \A j \in 1 .. 8 : 8 - j \in Remainder(Polynomial(bits), n) <=> f[n][j] = 1
<1>1. f \in [0 .. n -> Registers] /\ f[0] = Clear /\ \A i \in 1 .. n : f[i] = Shift(f[i - 1], bits[i])
  BY Zenon DEF Registered
<1>2. PICK M : M = Polynomial(bits)
  OBVIOUS
<1>3. \A e \in M : e \in 8 .. n + 7
  BY <1>2, PolynomialIs
<1>4. M \in SUBSET Int
  BY <1>3
<1>5. PICK r \in [0 .. n -> SUBSET Int] :
          /\ r[0] = M /\ Remainder(M, n) = r[n]
          /\ \A k \in 1 .. n : r[k] = Reduced(r[k - 1], n + 8 - k)
  BY <1>4, RemainderIs
<1> DEFINE T == {k \in 0 .. n : Divided(r[k], f[k], bits, n, k)}
<1>6. 0 \in T
  <2>1. PICK c : c = f[0]
    OBVIOUS
  <2>2. \A j \in 1 .. 8 : c[j] # 1
    BY <1>1, <2>1 DEF Clear
  <2>3. \A j \in 1 .. 8 : n + 8 - 0 - j \in M <=> ~(c[j] = 1 <=> n + 8 - 0 - j \in M)
    BY <2>2
  <2>4. \A e \in 0 .. n + 7 : /\ e >= n + 8 - 0 => e \notin M
                              /\ e < n - 0 => (e \in M <=> e \in M)
    OBVIOUS
  <2>5. Divided(M, c, bits, n, 0)
    BY <1>2, <2>3, <2>4, Zenon DEF Divided
  <2>6. 0 \in 0 .. n
    OBVIOUS
  <2> QED
    BY <1>5, <2>1, <2>5, <2>6
<1>7. ASSUME NEW k \in 0 .. n, k < n, k \in T PROVE k + 1 \in T
  <2>1. k + 1 \in 1 .. n /\ k + 1 \in 0 .. n /\ (k + 1) - 1 = k /\ k \in Nat
        /\ n + 8 - (k + 1) = n + 7 - k
    BY <1>7
  <2>2. Divided(r[k], f[k], bits, n, k)
    BY <1>7
  <2>3. f[k] \in Registers /\ r[k] \in SUBSET Int
    BY <1>1, <1>5
  <2>4. Divided(Reduced(r[k], n + 7 - k), Shift(f[k], bits[k + 1]), bits, n, k + 1)
    BY <1>7, <2>1, <2>2, <2>3, DivisionStep
  <2>5. f[k + 1] = Shift(f[k], bits[k + 1])
    BY <1>1, <2>1
  <2>6. r[k + 1] = Reduced(r[k], n + 7 - k)
    BY <1>5, <2>1
  <2> QED
    BY <2>1, <2>4, <2>5, <2>6
<1> HIDE DEF T
<1>8. \A k \in 0 .. n : k \in T
  BY <1>6, <1>7, UpTo
<1>9. n \in T
  BY <1>8
<1>10. PICK c : c = f[n] /\ Divided(r[n], c, bits, n, n)
  BY <1>9 DEF T
<1>11. \A j \in 1 .. 8 : n + 8 - n - j \in r[n] <=> ~(c[j] = 1 <=> n + 8 - n - j \in M)
  BY <1>2, <1>10, Zenon DEF Divided
<1>12. ASSUME NEW j \in 1 .. 8 PROVE 8 - j \in r[n] <=> c[j] = 1
  <2>1. n + 8 - n - j = 8 - j
    OBVIOUS
  <2>2. 8 - j \in r[n] <=> ~(c[j] = 1 <=> 8 - j \in M)
    BY <1>11, <2>1
  <2>3. 8 - j \notin M
    BY <1>3
  <2> QED
    BY <2>2, <2>3
<1> QED
  BY <1>2, <1>5, <1>10, <1>12, Zenon

(* crc8 computes the remainder it is meant to, of every message.           *)
THEOREM Crc8IsRemainder == \A bytes \in Seq(Bytes) : Crc8(bytes) = MaximCrc(bytes)
<1> SUFFICES ASSUME NEW bytes \in Seq(Bytes) PROVE Crc8(bytes) = MaximCrc(bytes)
  OBVIOUS
<1>1. PICK n \in Nat : n = 8 * Len(bytes)
  OBVIOUS
<1>2. PICK bits \in [1 .. n -> Bit01] : bits = Bits(bytes) /\ Len(bits) = n
  BY <1>1, BitsType
<1>3. PICK f : Registered(f, bits, n) /\ Crc8(bytes) = ByteOf(f[n])
  BY <1>1, <1>2, Crc8Is
<1>4. PICK c \in Registers : c = f[n]
  BY <1>3 DEF Registered
<1>5. PICK r : r = Remainder(Polynomial(bits), n)
  OBVIOUS
<1>6. \A j \in 1 .. 8 : 8 - j \in r <=> c[j] = 1
  BY <1>2, <1>3, <1>4, <1>5, RegisterDivides
<1>7. [k \in 1 .. 8 |-> IF 8 - k \in r THEN 1 ELSE 0] = c
  <2>1. \A j \in 1 .. 8 : c[j] = IF 8 - j \in r THEN 1 ELSE 0
    BY <1>6 DEF Registers, Bit01
  <2>2. c = [j \in 1 .. 8 |-> c[j]]
    BY DEF Registers
  <2> QED
    BY <2>1, <2>2
<1>8. MaximCrc(bytes) = ByteOf([k \in 1 .. 8 |-> IF 8 - k \in r THEN 1 ELSE 0])
  BY <1>2, <1>5, Zenon DEF MaximCrc
<1> QED
  BY <1>3, <1>4, <1>7, <1>8, Zenon

(* Where two messages differ, and their registers. *)
Differ(x, y) == IF x = y THEN 0 ELSE 1
Difference(a, b) == [k \in 1 .. 8 |-> Differ(a[k], b[k])]

(* A step of the register is linear. *)
LEMMA DifferenceShifts ==
    ASSUME NEW a \in Registers, NEW b \in Registers, NEW x \in Bit01, NEW y \in Bit01
    PROVE  Difference(Shift(a, x), Shift(b, y)) = Shift(Difference(a, b), Differ(x, y))
<1>1. PICK c : c = Difference(a, b)
  OBVIOUS
<1>2. PICK z \in Bit01 : z = Differ(x, y)
  BY DEF Differ, Bit01
<1>3. c \in Registers /\ \A k \in 1 .. 8 : c[k] = Differ(a[k], b[k])
  BY <1>1 DEF Difference, Registers, Bit01, Differ
<1>4. PICK s : s = Shift(a, x) /\ s \in Registers
  BY ShiftIs
<1>5. PICK t : t = Shift(b, y) /\ t \in Registers
  BY ShiftIs
<1>6. PICK d : d = Shift(c, z) /\ d \in Registers
  BY <1>3, ShiftIs
<1>7. /\ \A k \in 1 .. 8 : a[k] \in {0, 1} /\ b[k] \in {0, 1}
      /\ x \in {0, 1} /\ y \in {0, 1}
  BY DEF Registers, Bit01
<1>8. c[1] = z <=> (a[1] = x <=> b[1] = y)
  <2>1. 1 \in 1 .. 8
    OBVIOUS
  <2> QED
    BY <1>2, <1>3, <1>7, <2>1 DEF Differ
<1>9. ASSUME NEW k \in 1 .. 7 PROVE d[k] = Differ(s[k], t[k])
  <2>1. s[k] = IF a[1] = x \/ k \notin {3, 4} THEN a[k + 1] ELSE 1 - a[k + 1]
    BY <1>4, ShiftIs
  <2>2. t[k] = IF b[1] = y \/ k \notin {3, 4} THEN b[k + 1] ELSE 1 - b[k + 1]
    BY <1>5, ShiftIs
  <2>3. d[k] = IF c[1] = z \/ k \notin {3, 4} THEN c[k + 1] ELSE 1 - c[k + 1]
    BY <1>3, <1>6, ShiftIs
  <2>4. k + 1 \in 1 .. 8
    OBVIOUS
  <2>5. c[k + 1] = Differ(a[k + 1], b[k + 1]) /\ a[k + 1] \in {0, 1} /\ b[k + 1] \in {0, 1}
    BY <1>3, <1>7, <2>4
  <2> QED
    BY <1>8, <2>1, <2>2, <2>3, <2>5 DEF Differ
<1>10. d[8] = Differ(s[8], t[8])
  <2>1. s[8] = IF a[1] = x THEN 0 ELSE 1
    BY <1>4, ShiftIs
  <2>2. t[8] = IF b[1] = y THEN 0 ELSE 1
    BY <1>5, ShiftIs
  <2>3. d[8] = IF c[1] = z THEN 0 ELSE 1
    BY <1>3, <1>6, ShiftIs
  <2> QED
    BY <1>8, <2>1, <2>2, <2>3 DEF Differ
<1>11. \A k \in 1 .. 8 : d[k] = Differ(s[k], t[k])
  <2>1. \A k \in 1 .. 8 : k \in 1 .. 7 \/ k = 8
    OBVIOUS
  <2> QED
    BY <1>9, <1>10, <2>1
<1>12. d = [k \in 1 .. 8 |-> d[k]]
  BY <1>6 DEF Registers
<1>13. d = Difference(s, t)
  BY <1>11, <1>12 DEF Difference
<1> QED
  BY <1>1, <1>2, <1>4, <1>5, <1>6, <1>13, Zenon

(* The difference of two registers is the register of the difference.      *)
LEMMA DifferenceRuns ==
    ASSUME NEW n \in Nat, NEW u \in [1 .. n -> Bit01], NEW v \in [1 .. n -> Bit01],
           NEW f, Registered(f, u, n), NEW g, Registered(g, v, n)
    PROVE  Registered([i \in 0 .. n |-> Difference(f[i], g[i])],
                      [i \in 1 .. n |-> Differ(u[i], v[i])], n)
<1>1. f \in [0 .. n -> Registers] /\ f[0] = Clear /\ \A i \in 1 .. n : f[i] = Shift(f[i - 1], u[i])
  BY Zenon DEF Registered
<1>2. g \in [0 .. n -> Registers] /\ g[0] = Clear /\ \A i \in 1 .. n : g[i] = Shift(g[i - 1], v[i])
  BY Zenon DEF Registered
<1>3. PICK h : h = [i \in 0 .. n |-> Difference(f[i], g[i])]
  OBVIOUS
<1>4. PICK w : w = [i \in 1 .. n |-> Differ(u[i], v[i])]
  OBVIOUS
<1>5. h \in [0 .. n -> Registers]
  <2>1. \A a, b \in Registers : Difference(a, b) \in Registers
    BY DEF Difference, Differ, Registers, Bit01
  <2> QED
    BY <1>1, <1>2, <1>3, <2>1
<1>6. h[0] = Clear
  <2>1. Difference(Clear, Clear) = Clear
    BY DEF Difference, Differ, Clear
  <2> QED
    BY <1>1, <1>2, <1>3, <2>1
<1>7. ASSUME NEW i \in 1 .. n PROVE h[i] = Shift(h[i - 1], w[i])
  <2>1. i - 1 \in 0 .. n /\ i \in 0 .. n
    OBVIOUS
  <2>2. f[i - 1] \in Registers /\ g[i - 1] \in Registers /\ u[i] \in Bit01 /\ v[i] \in Bit01
    BY <1>1, <1>2, <2>1
  <2>3. Difference(Shift(f[i - 1], u[i]), Shift(g[i - 1], v[i])) =
            Shift(Difference(f[i - 1], g[i - 1]), Differ(u[i], v[i]))
    BY <2>2, DifferenceShifts
  <2>4. h[i] = Difference(f[i], g[i]) /\ h[i - 1] = Difference(f[i - 1], g[i - 1])
        /\ w[i] = Differ(u[i], v[i])
    BY <1>3, <1>4, <2>1
  <2> QED
    BY <1>1, <1>2, <2>3, <2>4
<1>8. Registered(h, w, n)
  BY <1>5, <1>6, <1>7, Zenon DEF Registered
<1> QED
  BY <1>3, <1>4, <1>8, Zenon

(* x + 1 divides the divisor: the register keeps the parity of the bits.   *)
Parity(c) == (c[1] + c[2] + c[3] + c[4] + c[5] + c[6] + c[7] + c[8]) % 2

(* ... so a step adds the bit to the parity. *)
LEMMA ParityShifts ==
    ASSUME NEW c \in Registers, NEW x \in Bit01
    PROVE  Parity(Shift(c, x)) = (Parity(c) + x) % 2
<1>1. PICK d : d = Shift(c, x)
  OBVIOUS
<1>2. \A k \in 1 .. 7 : d[k] = IF c[1] = x \/ k \notin {3, 4} THEN c[k + 1] ELSE 1 - c[k + 1]
  BY <1>1, ShiftIs
<1>3. d[8] = IF c[1] = x THEN 0 ELSE 1
  BY <1>1, ShiftIs
<1>4. /\ c[1] \in {0, 1} /\ c[2] \in {0, 1} /\ c[3] \in {0, 1} /\ c[4] \in {0, 1}
      /\ c[5] \in {0, 1} /\ c[6] \in {0, 1} /\ c[7] \in {0, 1} /\ c[8] \in {0, 1}
      /\ x \in {0, 1}
  BY DEF Registers, Bit01
<1>5. /\ d[1] = c[2] /\ d[2] = c[3] /\ d[5] = c[6] /\ d[6] = c[7] /\ d[7] = c[8]
      /\ d[3] = (IF c[1] = x THEN c[4] ELSE 1 - c[4])
      /\ d[4] = (IF c[1] = x THEN c[5] ELSE 1 - c[5])
  BY <1>2
<1>6. CASE c[1] = x
  BY <1>1, <1>3, <1>4, <1>5, <1>6 DEF Parity
<1>7. CASE c[1] # x
  <2>1. PICK s \in Int : s = c[1] + c[2] + c[3] + c[4] + c[5] + c[6] + c[7] + c[8]
    BY <1>4
  <2>2. PICK q \in Int : q = 1 - c[4] - c[5]
    BY <1>4
  <2>3. PICK p \in Int : p = s + x
    BY <1>4
  <2>4. d[1] + d[2] + d[3] + d[4] + d[5] + d[6] + d[7] + d[8] = p + 2 * q
    <3>1. c[1] = 1 - x
      BY <1>4, <1>7
    <3>2. d[3] = 1 - c[4] /\ d[4] = 1 - c[5] /\ d[8] = 1
      BY <1>3, <1>5, <1>7
    <3>3. PICK c1 \in Int, c2 \in Int, c3 \in Int, c4 \in Int :
             c1 = c[1] /\ c2 = c[2] /\ c3 = c[3] /\ c4 = c[4]
      BY <1>4
    <3>4. PICK c5 \in Int, c6 \in Int, c7 \in Int, c8 \in Int :
             c5 = c[5] /\ c6 = c[6] /\ c7 = c[7] /\ c8 = c[8]
      BY <1>4
    <3>5. /\ d[1] = c2 /\ d[2] = c3 /\ d[3] = 1 - c4 /\ d[4] = 1 - c5
          /\ d[5] = c6 /\ d[6] = c7 /\ d[7] = c8 /\ d[8] = 1
      BY <1>5, <3>2, <3>3, <3>4
    <3>6. d[1] + d[2] + d[3] + d[4] + d[5] + d[6] + d[7] + d[8]
          = c2 + c3 + (1 - c4) + (1 - c5) + c6 + c7 + c8 + 1
      BY <3>5
    <3>7. s = c1 + c2 + c3 + c4 + c5 + c6 + c7 + c8 /\ q = 1 - c4 - c5 /\ p = s + x /\ c1 = 1 - x
      BY <2>1, <2>2, <2>3, <3>1, <3>3, <3>4
    <3>8. x \in Int
      BY <1>4
    <3>9. p = 1 + c2 + c3 + c4 + c5 + c6 + c7 + c8
      BY <3>7, <3>8
    <3> QED
      BY <3>6, <3>7, <3>9
  <2>5. (p + 2 * q) % 2 = p % 2
    OBVIOUS
  <2>6. ((s % 2) + x) % 2 = p % 2
    BY <1>4, <2>3
  <2>7. Parity(d) = (p + 2 * q) % 2 /\ Parity(c) = s % 2
    BY <2>1, <2>4 DEF Parity
  <2> QED
    BY <1>1, <2>5, <2>6, <2>7
<1> QED
  BY <1>6, <1>7

(* The bits that a noise turns over. *)
NoiseBits(noise, n) == [i \in 1 .. n |-> IF i - 1 \in noise THEN 1 ELSE 0]

(* They are bits. *)
LEMMA NoiseBitsType ==
    ASSUME NEW n \in Nat, NEW noise
    PROVE  NoiseBits(noise, n) \in [1 .. n -> Bit01]
BY DEF NoiseBits, Bit01

(* The bits turned over among the first i. *)
SeenBits(noise, i) == {x \in noise : x < i}
ParityTold(noise, h, i) ==
    /\ IsFiniteSet(SeenBits(noise, i))
    /\ Cardinality(SeenBits(noise, i)) \in Nat
    /\ Parity(h[i]) = Cardinality(SeenBits(noise, i)) % 2

(* The next bit is one of them or not. *)
LEMMA SeenBitsGrow ==
    ASSUME NEW noise \in SUBSET Int, NEW i \in Int
    PROVE  /\ i \in noise => /\ SeenBits(noise, i + 1) = SeenBits(noise, i) \union {i}
                             /\ i \notin SeenBits(noise, i)
           /\ i \notin noise => SeenBits(noise, i + 1) = SeenBits(noise, i)
<1>1. \A x \in noise : x \in Int
  OBVIOUS
<1>2. \A x \in Int : (x < i + 1) <=> (x < i \/ x = i)
  OBVIOUS
<1>3. ~(i < i)
  OBVIOUS
<1> QED
  BY <1>1, <1>2, <1>3, Zenon DEF SeenBits

(* Before the first bit none is seen, after the last all are. *)
LEMMA NoneSeen ==
    ASSUME NEW n \in Nat, NEW noise \in SUBSET (0 .. n - 1)
    PROVE  SeenBits(noise, 0) = {} /\ SeenBits(noise, n) = noise
<1>1. \A x \in noise : ~(x < 0) /\ x < n
  OBVIOUS
<1> QED
  BY <1>1, Zenon DEF SeenBits

(* The register has the parity of the bits turned over so far. *)
LEMMA ParityGoesOn ==
    ASSUME NEW noise \in SUBSET Int, NEW i \in Int, NEW h, NEW bit,
           bit = IF i \in noise THEN 1 ELSE 0,
           h[i] \in Registers, h[i + 1] = Shift(h[i], bit), ParityTold(noise, h, i)
    PROVE  ParityTold(noise, h, i + 1)
<1>1. PICK s : s = SeenBits(noise, i)
  OBVIOUS
<1>2. PICK t : t = SeenBits(noise, i + 1)
  OBVIOUS
<1>3. IsFiniteSet(s) /\ Cardinality(s) \in Nat /\ Parity(h[i]) = Cardinality(s) % 2
  BY <1>1, Zenon DEF ParityTold
<1>4. bit \in Bit01
  BY DEF Bit01
<1>5. Parity(h[i + 1]) = (Parity(h[i]) + bit) % 2
  BY <1>4, ParityShifts, Zenon
<1>6. CASE i \in noise
  <2>1. t = s \union {i} /\ i \notin s
    BY <1>1, <1>2, <1>6, SeenBitsGrow, Zenon
  <2>2. IsFiniteSet(t) /\ Cardinality(t) = Cardinality(s) + 1
    BY <1>3, <2>1, FS_AddElement
  <2>3. PICK c \in Nat : c = Cardinality(s)
    BY <1>3
  <2>4. Parity(h[i + 1]) = ((c % 2) + 1) % 2
    BY <1>3, <1>5, <1>6, <2>3
  <2>5. ((c % 2) + 1) % 2 = (c + 1) % 2 /\ c + 1 \in Nat
    OBVIOUS
  <2>6. IsFiniteSet(t) /\ Cardinality(t) \in Nat /\ Parity(h[i + 1]) = Cardinality(t) % 2
    BY <2>2, <2>3, <2>4, <2>5, Zenon
  <2> QED
    BY <1>2, <2>6, Zenon DEF ParityTold
<1>7. CASE i \notin noise
  <2>1. t = s
    BY <1>1, <1>2, <1>7, SeenBitsGrow, Zenon
  <2>3. PICK c \in Nat : c = Cardinality(s)
    BY <1>3
  <2>4. Parity(h[i + 1]) = ((c % 2) + 0) % 2
    BY <1>3, <1>5, <1>7, <2>3
  <2>5. ((c % 2) + 0) % 2 = c % 2
    OBVIOUS
  <2>6. IsFiniteSet(t) /\ Cardinality(t) \in Nat /\ Parity(h[i + 1]) = Cardinality(t) % 2
    BY <1>3, <2>1, <2>3, <2>4, <2>5, Zenon
  <2> QED
    BY <1>2, <2>6, Zenon DEF ParityTold
<1> QED
  BY <1>6, <1>7

(* An odd number of bits leaves a register that is not clear. *)
LEMMA OddTold ==
    ASSUME NEW n \in Nat, NEW noise \in SUBSET (0 .. n - 1),
           NEW h, Registered(h, NoiseBits(noise, n), n), h[n] = Clear
    PROVE  Cardinality(noise) % 2 = 0
<1>1. PICK w \in [1 .. n -> Bit01] : w = NoiseBits(noise, n)
  BY NoiseBitsType
<1>2. h \in [0 .. n -> Registers] /\ h[0] = Clear /\ \A i \in 1 .. n : h[i] = Shift(h[i - 1], w[i])
  BY <1>1, Zenon DEF Registered
<1>3. \A i \in 1 .. n : w[i] = IF i - 1 \in noise THEN 1 ELSE 0
  BY <1>1, Zenon DEF NoiseBits
<1>4. Parity(Clear) = 0
  BY DEF Parity, Clear
<1> DEFINE T == {i \in 0 .. n : ParityTold(noise, h, i)}
<1>5. 0 \in T
  <2>1. SeenBits(noise, 0) = {}
    BY NoneSeen, Zenon
  <2>2. IsFiniteSet({}) /\ Cardinality({}) = 0
    BY FS_EmptySet
  <2>3. 0 \in 0 .. n /\ 0 \in Nat /\ 0 % 2 = 0
    OBVIOUS
  <2>4. ParityTold(noise, h, 0)
    BY <1>2, <1>4, <2>1, <2>2, <2>3, Zenon DEF ParityTold
  <2> QED
    BY <2>3, <2>4
<1>6. ASSUME NEW i \in 0 .. n, i < n, i \in T PROVE i + 1 \in T
  <2>1. /\ i + 1 \in 1 .. n /\ i + 1 \in 0 .. n /\ (i + 1) - 1 = i
        /\ i \in Int /\ noise \in SUBSET Int
    BY <1>6
  <2>2. ParityTold(noise, h, i)
    BY <1>6
  <2>3. h[i] \in Registers
    BY <1>2
  <2>4. PICK bit : bit = w[i + 1]
    OBVIOUS
  <2>5. h[i + 1] = Shift(h[i], bit)
    BY <1>2, <2>1, <2>4, Zenon
  <2>6. bit = IF i \in noise THEN 1 ELSE 0
    BY <1>3, <2>1, <2>4, Zenon
  <2>7. ParityTold(noise, h, i + 1)
    BY <2>1, <2>2, <2>3, <2>5, <2>6, ParityGoesOn, Zenon
  <2> QED
    BY <2>1, <2>7
<1>7. \A i \in 0 .. n : i \in T
  <2> HIDE DEF T
  <2> QED
    BY <1>5, <1>6, UpTo
<1>8. ParityTold(noise, h, n)
  BY <1>7
<1>9. SeenBits(noise, n) = noise
  BY NoneSeen, Zenon
<1>10. Parity(h[n]) = Cardinality(noise) % 2
  BY <1>8, <1>9, Zenon DEF ParityTold
<1> QED
  BY <1>4, <1>10, Zenon

(* What is left of a register that will be clear: the bits still to come.  *)
Behind(c, w, i, m) == \A k \in 1 .. 8 : c[k] = IF k <= m THEN w[i + k] ELSE 0

(* The step before: one bit more is still to come. *)
LEMMA ShiftBack ==
    ASSUME NEW c \in Registers, NEW i \in Int, NEW w, w[i] \in Bit01,
           NEW m \in 0 .. 7, Behind(Shift(c, w[i]), w, i, m)
    PROVE  Behind(c, w, i - 1, m + 1)
<1>1. PICK x \in Bit01 : x = w[i]
  OBVIOUS
<1>2. PICK d : d = Shift(c, x)
  OBVIOUS
<1>3. \A k \in 1 .. 7 : d[k] = IF c[1] = x \/ k \notin {3, 4} THEN c[k + 1] ELSE 1 - c[k + 1]
  BY <1>2, ShiftIs
<1>4. d[8] = IF c[1] = x THEN 0 ELSE 1
  BY <1>2, ShiftIs
<1>5. \A k \in 1 .. 8 : d[k] = IF k <= m THEN w[i + k] ELSE 0
  BY <1>1, <1>2, Zenon DEF Behind
<1>6. d[8] = 0
  BY <1>5
<1>7. c[1] = x
  BY <1>4, <1>6
<1>8. \A k \in 1 .. 7 : d[k] = c[k + 1]
  BY <1>3, <1>7
<1>9. ASSUME NEW k \in 1 .. 8
      PROVE  c[k] = IF k <= m + 1 THEN w[(i - 1) + k] ELSE 0
  <2>1. CASE k = 1
    <3>1. (i - 1) + 1 = i /\ 1 <= m + 1
      OBVIOUS
    <3> QED
      BY <1>1, <1>7, <2>1, <3>1
  <2>2. CASE k # 1
    <3>1. k - 1 \in 1 .. 7 /\ k - 1 \in 1 .. 8 /\ (k - 1) + 1 = k /\ (i - 1) + k = i + (k - 1)
      BY <2>2
    <3>2. d[k - 1] = c[k]
      BY <1>8, <3>1
    <3>3. d[k - 1] = IF k - 1 <= m THEN w[i + (k - 1)] ELSE 0
      BY <1>5, <3>1
    <3>4. k - 1 <= m <=> k <= m + 1
      OBVIOUS
    <3> QED
      BY <3>1, <3>2, <3>3, <3>4
  <2> QED
    BY <2>1, <2>2
<1> QED
  BY <1>9, Zenon DEF Behind

(* A zero keeps a clear register clear, and no other step with a zero clears *)
(* one.                                                                    *)
LEMMA ClearStays ==
    ASSUME NEW c \in Registers
    PROVE  Shift(c, 0) = Clear <=> c = Clear
<1>1. PICK d : d = Shift(c, 0) /\ d \in Registers
  BY ShiftIs DEF Bit01
<1>2. 0 \in Bit01
  BY DEF Bit01
<1>3. \A k \in 1 .. 7 : d[k] = IF c[1] = 0 \/ k \notin {3, 4} THEN c[k + 1] ELSE 1 - c[k + 1]
  BY <1>1, <1>2, ShiftIs
<1>4. d[8] = IF c[1] = 0 THEN 0 ELSE 1
  BY <1>1, <1>2, ShiftIs
<1>5. ASSUME NEW e \in Registers PROVE e = Clear <=> \A k \in 1 .. 8 : e[k] = 0
  BY DEF Registers, Clear
<1>6. (\A k \in 1 .. 8 : d[k] = 0) => (\A k \in 1 .. 8 : c[k] = 0)
  <2> SUFFICES ASSUME \A k \in 1 .. 8 : d[k] = 0, NEW k \in 1 .. 8 PROVE c[k] = 0
    OBVIOUS
  <2>1. c[1] = 0
    BY <1>4
  <2>2. CASE k # 1
    <3>1. k - 1 \in 1 .. 7 /\ k - 1 \in 1 .. 8 /\ (k - 1) + 1 = k
      BY <2>2
    <3>2. d[k - 1] = c[k]
      BY <1>3, <2>1, <3>1
    <3> QED
      BY <3>1, <3>2
  <2> QED
    BY <2>1, <2>2
<1>7. (\A k \in 1 .. 8 : c[k] = 0) => (\A k \in 1 .. 8 : d[k] = 0)
  <2> SUFFICES ASSUME \A k \in 1 .. 8 : c[k] = 0, NEW k \in 1 .. 8 PROVE d[k] = 0
    OBVIOUS
  <2>1. c[1] = 0
    OBVIOUS
  <2>2. CASE k = 8
    BY <1>4, <2>1, <2>2
  <2>3. CASE k # 8
    <3>1. k \in 1 .. 7 /\ k + 1 \in 1 .. 8
      BY <2>3
    <3> QED
      BY <1>3, <2>1, <3>1
  <2> QED
    BY <2>2, <2>3
<1> QED
  BY <1>1, <1>5, <1>6, <1>7

(* Bits within eight that follow each other leave one that is not either. *)
LEMMA ClearAfter ==
    ASSUME NEW n \in Nat, NEW first \in 0 .. n - 8, NEW w, NEW h,
           Registered(h, w, n), h[n] = Clear,
           \A i \in first + 9 .. n : w[i] = 0
    PROVE  h[first + 8] = Clear
<1>1. h \in [0 .. n -> Registers] /\ \A i \in 1 .. n : h[i] = Shift(h[i - 1], w[i])
  BY Zenon DEF Registered
<1>2. PICK m \in Nat : m = n - (first + 8)
  OBVIOUS
<1> DEFINE T == {k \in 0 .. m : h[n - k] = Clear}
<1>3. 0 \in T
  <2>1. n - 0 = n /\ 0 \in 0 .. m
    OBVIOUS
  <2> QED
    BY <2>1
<1>4. ASSUME NEW k \in 0 .. m, k < m, k \in T PROVE k + 1 \in T
  <2>1. /\ k + 1 \in 0 .. m /\ n - k \in 1 .. n /\ n - k \in first + 9 .. n
        /\ n - (k + 1) \in 0 .. n /\ (n - k) - 1 = n - (k + 1)
    BY <1>2, <1>4
  <2>2. h[n - k] = Clear /\ w[n - k] = 0
    BY <1>4, <2>1
  <2>3. PICK c \in Registers : c = h[n - (k + 1)]
    BY <1>1, <2>1
  <2>4. Clear = Shift(c, 0)
    BY <1>1, <2>1, <2>2, <2>3
  <2>5. c = Clear
    BY <2>4, ClearStays, Zenon
  <2> QED
    BY <2>1, <2>3, <2>5
<1>5. \A k \in 0 .. m : k \in T
  <2> HIDE DEF T
  <2> QED
    BY <1>3, <1>4, UpTo
<1>6. n - m = first + 8 /\ m \in 0 .. m
  BY <1>2
<1> QED
  BY <1>5, <1>6

(* Nor is there anything in the register before them. *)
LEMMA ClearBefore ==
    ASSUME NEW n \in Nat, NEW first \in 0 .. n, NEW w, NEW h,
           Registered(h, w, n), \A i \in 1 .. first : w[i] = 0
    PROVE  h[first] = Clear
<1>1. h \in [0 .. n -> Registers] /\ h[0] = Clear /\ \A i \in 1 .. n : h[i] = Shift(h[i - 1], w[i])
  BY Zenon DEF Registered
<1> DEFINE T == {k \in 0 .. first : h[k] = Clear}
<1>3. 0 \in T
  BY <1>1
<1>4. ASSUME NEW k \in 0 .. first, k < first, k \in T PROVE k + 1 \in T
  <2>1. k + 1 \in 0 .. first /\ k + 1 \in 1 .. n /\ k + 1 \in 1 .. first /\ (k + 1) - 1 = k
    BY <1>4
  <2>2. h[k] = Clear /\ w[k + 1] = 0
    BY <1>4, <2>1
  <2>3. h[k + 1] = Shift(Clear, 0)
    BY <1>1, <2>1, <2>2
  <2>4. Clear \in Registers
    BY DEF Clear, Registers, Bit01
  <2>5. Shift(Clear, 0) = Clear
    BY <2>4, ClearStays, Zenon
  <2> QED
    BY <2>1, <2>3, <2>5
<1>5. \A k \in 0 .. first : k \in T
  <2> HIDE DEF T
  <2> QED
    BY <1>3, <1>4, UpTo
<1> QED
  BY <1>5

(* So what comes between is nothing. *)
LEMMA BurstTold ==
    ASSUME NEW n \in Nat, NEW first \in 0 .. n - 8,
           NEW noise \in SUBSET (first .. first + 7),
           NEW h, Registered(h, NoiseBits(noise, n), n), h[n] = Clear
    PROVE  noise = {}
<1>1. PICK w \in [1 .. n -> Bit01] : w = NoiseBits(noise, n)
  BY NoiseBitsType
<1>2. h \in [0 .. n -> Registers] /\ \A i \in 1 .. n : h[i] = Shift(h[i - 1], w[i])
  BY <1>1, Zenon DEF Registered
<1>3. \A i \in 1 .. n : w[i] = IF i - 1 \in noise THEN 1 ELSE 0
  BY <1>1, Zenon DEF NoiseBits
<1>4. \A i \in first + 9 .. n : w[i] = 0
  BY <1>3
<1>5. \A i \in 1 .. first : w[i] = 0
  BY <1>3
<1>6. Registered(h, w, n)
  BY <1>1
<1>7. h[first + 8] = Clear
  BY <1>4, <1>6, ClearAfter
<1>8. h[first] = Clear
  <2>1. first \in 0 .. n
    OBVIOUS
  <2> QED
    BY <1>5, <1>6, <2>1, ClearBefore
<1> DEFINE T == {m \in 0 .. 8 : Behind(h[first + 8 - m], w, first + 8 - m, m)}
<1>9. 0 \in T
  <2>1. first + 8 - 0 = first + 8 /\ 0 \in 0 .. 8
    OBVIOUS
  <2>2. PICK i : i = first + 8
    OBVIOUS
  <2>3. \A k \in 1 .. 8 : Clear[k] = IF k <= 0 THEN w[i + k] ELSE 0
    BY DEF Clear
  <2>4. Behind(Clear, w, i, 0)
    BY <2>3, Zenon DEF Behind
  <2> QED
    BY <1>7, <2>1, <2>2, <2>4
<1>10. ASSUME NEW m \in 0 .. 8, m < 8, m \in T PROVE m + 1 \in T
  <2>1. PICK i \in 1 .. n : i = first + 8 - m
    BY <1>10
  <2>2. /\ m + 1 \in 0 .. 8 /\ m \in 0 .. 7 /\ i - 1 \in 0 .. n /\ i \in Int
        /\ first + 8 - (m + 1) = i - 1
    BY <1>10, <2>1
  <2>3. Behind(h[i], w, i, m)
    BY <1>10, <2>1
  <2>4. PICK c \in Registers : c = h[i - 1]
    BY <1>2, <2>2
  <2>5. h[i] = Shift(c, w[i]) /\ w[i] \in Bit01
    BY <1>2, <2>4
  <2>6. Behind(Shift(c, w[i]), w, i, m)
    BY <2>3, <2>5, Zenon
  <2>7. Behind(c, w, i - 1, m + 1)
    BY <2>2, <2>5, <2>6, ShiftBack
  <2> QED
    BY <2>2, <2>4, <2>7
<1>11. \A m \in 0 .. 8 : m \in T
  <2>1. 8 \in Nat
    OBVIOUS
  <2> HIDE DEF T
  <2> QED
    BY <1>9, <1>10, <2>1, UpTo
<1>12. Behind(Clear, w, first, 8)
  <2>1. 8 \in 0 .. 8 /\ first + 8 - 8 = first
    OBVIOUS
  <2> QED
    BY <1>8, <1>11, <2>1
<1>13. \A k \in 1 .. 8 : w[first + k] = 0
  <2>1. \A k \in 1 .. 8 : Clear[k] = IF k <= 8 THEN w[first + k] ELSE 0
    BY <1>12, Zenon DEF Behind
  <2>2. \A k \in 1 .. 8 : Clear[k] = 0 /\ k <= 8
    BY DEF Clear
  <2> QED
    BY <2>1, <2>2
<1>14. ASSUME NEW x \in noise PROVE FALSE
  <2>1. x + 1 - first \in 1 .. 8 /\ first + (x + 1 - first) = x + 1 /\ x + 1 \in 1 .. n /\ (x + 1) - 1 = x
    OBVIOUS
  <2>2. w[x + 1] = 0
    BY <1>13, <2>1
  <2>3. w[x + 1] = 1
    BY <1>3, <2>1
  <2> QED
    BY <2>2, <2>3
<1> QED
  BY <1>14

(* Registers and bytes. *)
LEMMA ByteOfRegister ==
    ASSUME NEW c \in Registers
    PROVE  /\ ByteOf(c) \in Bytes
           /\ ByteOf(c) = 0 => c = Clear
           /\ \A k \in 1 .. 8 : BitOf(ByteOf(c), k - 1) = c[k]
<1>1. PICK c1 \in {0, 1}, c2 \in {0, 1}, c3 \in {0, 1}, c4 \in {0, 1} :
        c1 = c[1] /\ c2 = c[2] /\ c3 = c[3] /\ c4 = c[4]
  BY DEF Registers, Bit01
<1>2. PICK c5 \in {0, 1}, c6 \in {0, 1}, c7 \in {0, 1}, c8 \in {0, 1} :
        c5 = c[5] /\ c6 = c[6] /\ c7 = c[7] /\ c8 = c[8]
  BY DEF Registers, Bit01
<1>3. PICK b : b = ByteOf(c)
  OBVIOUS
<1>4. b = c1 + 2 * c2 + 4 * c3 + 8 * c4 + 16 * c5 + 32 * c6 + 64 * c7 + 128 * c8
  BY <1>1, <1>2, <1>3 DEF ByteOf
<1>5. b \in 0 .. 255
  BY <1>4
<1>6. ASSUME b = 0 PROVE c = Clear
  <2>1. /\ c1 = 0 /\ c2 = 0 /\ c3 = 0 /\ c4 = 0
        /\ c5 = 0 /\ c6 = 0 /\ c7 = 0 /\ c8 = 0
    BY <1>4, <1>6
  <2>2. \A k \in 1 .. 8 : k \in {1, 2, 3, 4, 5, 6, 7, 8}
    OBVIOUS
  <2>3. \A k \in 1 .. 8 : c[k] = 0
    BY <1>1, <1>2, <2>1, <2>2
  <2>4. c = [k \in 1 .. 8 |-> c[k]]
    BY DEF Registers
  <2> QED
    BY <2>3, <2>4 DEF Clear
<1>7. /\ 2^0 = 1 /\ 2^1 = 2 /\ 2^2 = 4 /\ 2^3 = 8
      /\ 2^4 = 16 /\ 2^5 = 32 /\ 2^6 = 64 /\ 2^7 = 128
  OBVIOUS
<1>8. ASSUME NEW k \in 1 .. 8 PROVE BitOf(b, k - 1) = c[k]
  <2>0. k \in {1, 2, 3, 4, 5, 6, 7, 8}
    OBVIOUS
  <2>1. CASE k = 1
    <3>1. b = 1 * (c1 + 2 * (c2 + 2 * c3 + 4 * c4 + 8 * c5 + 16 * c6 + 32 * c7 + 64 * c8)) + 0
      BY <1>4
    <3>2. (b \div 1) % 2 = c1
      BY <3>1
    <3> QED
      BY <1>1, <1>7, <2>1, <3>2 DEF BitOf
  <2>2. CASE k = 2
    <3>1. b = 2 * (c2 + 2 * (c3 + 2 * c4 + 4 * c5 + 8 * c6 + 16 * c7 + 32 * c8)) + c1
      BY <1>4
    <3>2. b \div 2 = c2 + 2 * (c3 + 2 * c4 + 4 * c5 + 8 * c6 + 16 * c7 + 32 * c8)
      BY <3>1
    <3>3. (b \div 2) % 2 = c2
      BY <3>2
    <3> QED
      BY <1>1, <1>7, <2>2, <3>3 DEF BitOf
  <2>3. CASE k = 3
    <3>1. b = 4 * (c3 + 2 * (c4 + 2 * c5 + 4 * c6 + 8 * c7 + 16 * c8)) + (c1 + 2 * c2)
      BY <1>4
    <3>2. b \div 4 = c3 + 2 * (c4 + 2 * c5 + 4 * c6 + 8 * c7 + 16 * c8)
      BY <3>1
    <3>3. (b \div 4) % 2 = c3
      BY <3>2
    <3> QED
      BY <1>1, <1>7, <2>3, <3>3 DEF BitOf
  <2>4. CASE k = 4
    <3>1. b = 8 * (c4 + 2 * (c5 + 2 * c6 + 4 * c7 + 8 * c8)) + (c1 + 2 * c2 + 4 * c3)
      BY <1>4
    <3>2. b \div 8 = c4 + 2 * (c5 + 2 * c6 + 4 * c7 + 8 * c8)
      BY <3>1
    <3>3. (b \div 8) % 2 = c4
      BY <3>2
    <3> QED
      BY <1>1, <1>7, <2>4, <3>3 DEF BitOf
  <2>5. CASE k = 5
    <3>1. b = 16 * (c5 + 2 * (c6 + 2 * c7 + 4 * c8)) + (c1 + 2 * c2 + 4 * c3 + 8 * c4)
      BY <1>4
    <3>2. b \div 16 = c5 + 2 * (c6 + 2 * c7 + 4 * c8)
      BY <3>1
    <3>3. (b \div 16) % 2 = c5
      BY <3>2
    <3> QED
      BY <1>2, <1>7, <2>5, <3>3 DEF BitOf
  <2>6. CASE k = 6
    <3>1. b = 32 * (c6 + 2 * (c7 + 2 * c8)) + (c1 + 2 * c2 + 4 * c3 + 8 * c4 + 16 * c5)
      BY <1>4
    <3>2. b \div 32 = c6 + 2 * (c7 + 2 * c8)
      BY <3>1
    <3>3. (b \div 32) % 2 = c6
      BY <3>2
    <3> QED
      BY <1>2, <1>7, <2>6, <3>3 DEF BitOf
  <2>7. CASE k = 7
    <3>1. b = 64 * (c7 + 2 * c8) + (c1 + 2 * c2 + 4 * c3 + 8 * c4 + 16 * c5 + 32 * c6)
      BY <1>4
    <3>2. b \div 64 = c7 + 2 * c8
      BY <3>1
    <3>3. (b \div 64) % 2 = c7
      BY <3>2
    <3> QED
      BY <1>2, <1>7, <2>7, <3>3 DEF BitOf
  <2>8. CASE k = 8
    <3>1. b = 128 * c8 + (c1 + 2 * c2 + 4 * c3 + 8 * c4 + 16 * c5 + 32 * c6 + 64 * c7)
      BY <1>4
    <3>2. b \div 128 = c8
      BY <3>1
    <3>3. (b \div 128) % 2 = c8
      BY <3>2
    <3> QED
      BY <1>2, <1>7, <2>8, <3>3 DEF BitOf
  <2> QED
    BY <2>0, <2>1, <2>2, <2>3, <2>4, <2>5, <2>6, <2>7, <2>8
<1> QED
  BY <1>3, <1>5, <1>6, <1>8 DEF Bytes

(* ... and back. *)
LEMMA BitsOfByte ==
    ASSUME NEW b \in Bytes
    PROVE  /\ [k \in 1 .. 8 |-> BitOf(b, k - 1)] \in Registers
           /\ ByteOf([k \in 1 .. 8 |-> BitOf(b, k - 1)]) = b
<1>1. PICK c : c = [k \in 1 .. 8 |-> BitOf(b, k - 1)]
  OBVIOUS
<1>2. b \in Int /\ b \in 0 .. 255
  BY DEF Bytes
<1>3. c \in Registers
  <2>1. ASSUME NEW k \in 1 .. 8 PROVE BitOf(b, k - 1) \in Bit01
    <3>1. k - 1 \in 0 .. 7
      OBVIOUS
    <3> QED
      BY <1>2, <3>1, BitType
  <2> QED
    BY <1>1, <2>1 DEF Registers
<1>4. /\ 2^0 = 1 /\ 2^1 = 2 /\ 2^2 = 4 /\ 2^3 = 8
      /\ 2^4 = 16 /\ 2^5 = 32 /\ 2^6 = 64 /\ 2^7 = 128
  OBVIOUS
<1>5. \A k \in 1 .. 8 : c[k] = (b \div 2^(k - 1)) % 2
  BY <1>1, Zenon DEF BitOf
<1>6. /\ 1 - 1 = 0 /\ 2 - 1 = 1 /\ 3 - 1 = 2 /\ 4 - 1 = 3
      /\ 5 - 1 = 4 /\ 6 - 1 = 5 /\ 7 - 1 = 6 /\ 8 - 1 = 7
      /\ 1 \in 1 .. 8 /\ 2 \in 1 .. 8 /\ 3 \in 1 .. 8 /\ 4 \in 1 .. 8
      /\ 5 \in 1 .. 8 /\ 6 \in 1 .. 8 /\ 7 \in 1 .. 8 /\ 8 \in 1 .. 8
  OBVIOUS
<1>7. c[1] = (b \div 2^0) % 2 /\ c[2] = (b \div 2^1) % 2 /\ c[3] = (b \div 2^2) % 2 /\ c[4] = (b \div 2^3) % 2
  BY <1>5, <1>6
<1>8. c[5] = (b \div 2^4) % 2 /\ c[6] = (b \div 2^5) % 2 /\ c[7] = (b \div 2^6) % 2 /\ c[8] = (b \div 2^7) % 2
  BY <1>5, <1>6
<1>9. /\ c[1] = b % 2 /\ c[2] = (b \div 2) % 2 /\ c[3] = (b \div 4) % 2
      /\ c[4] = (b \div 8) % 2 /\ c[5] = (b \div 16) % 2 /\ c[6] = (b \div 32) % 2
      /\ c[7] = (b \div 64) % 2 /\ c[8] = (b \div 128) % 2
  <2>1. b \div 1 = b
    BY <1>2
  <2> QED
    BY <1>4, <1>7, <1>8, <2>1
<1>10. b = (b % 2) + 2 * ((b \div 2) % 2) + 4 * ((b \div 4) % 2) + 8 * ((b \div 8) % 2)
           + 16 * ((b \div 16) % 2) + 32 * ((b \div 32) % 2) + 64 * ((b \div 64) % 2)
           + 128 * ((b \div 128) % 2)
  <2>1. b = (b % 2) + 2 * (b \div 2) /\ b \div 2 \in 0 .. 127
    BY <1>2
  <2>2. b \div 2 = ((b \div 2) % 2) + 2 * (b \div 4) /\ b \div 4 \in 0 .. 63
    BY <1>2
  <2>3. b \div 4 = ((b \div 4) % 2) + 2 * (b \div 8)
    BY <1>2
  <2>4. b \div 8 = ((b \div 8) % 2) + 2 * (b \div 16)
    BY <1>2
  <2>5. b \div 16 = ((b \div 16) % 2) + 2 * (b \div 32)
    BY <1>2
  <2>6. b \div 32 = ((b \div 32) % 2) + 2 * (b \div 64)
    BY <1>2
  <2>7. b \div 64 = ((b \div 64) % 2) + 2 * (b \div 128)
    BY <1>2
  <2>8. b \div 128 = (b \div 128) % 2
    BY <1>2
  <2> QED
    BY <1>2, <2>1, <2>2, <2>3, <2>4, <2>5, <2>6, <2>7, <2>8
<1>11. ByteOf(c) = b
  BY <1>9, <1>10 DEF ByteOf
<1> QED
  BY <1>1, <1>3, <1>11, Zenon

(* A disturbed message: of its bits, those of the noise are turned over. *)
DisturbedByte(b, noise, i) ==
    [k \in 1 .. 8 |->
        IF 8 * (i - 1) + k - 1 \in noise THEN 1 - BitOf(b, k - 1) ELSE BitOf(b, k - 1)]

(* A byte of it. *)
LEMMA DisturbedByteIs ==
    ASSUME NEW b \in Bytes, NEW noise, NEW i \in Int
    PROVE  /\ DisturbedByte(b, noise, i) \in Registers
           /\ \A k \in 1 .. 8 : DisturbedByte(b, noise, i)[k] =
                  IF 8 * (i - 1) + k - 1 \in noise THEN 1 - BitOf(b, k - 1) ELSE BitOf(b, k - 1)
<1>1. ASSUME NEW k \in 1 .. 8 PROVE BitOf(b, k - 1) \in {0, 1}
  <2>1. k - 1 \in 0 .. 7 /\ b \in Int
    BY DEF Bytes
  <2> QED
    BY <2>1, BitType DEF Bit01
<1>2. \A k \in 1 .. 8 : DisturbedByte(b, noise, i)[k] =
          IF 8 * (i - 1) + k - 1 \in noise THEN 1 - BitOf(b, k - 1) ELSE BitOf(b, k - 1)
  BY Zenon DEF DisturbedByte
<1>3. \A k \in 1 .. 8 : DisturbedByte(b, noise, i)[k] \in Bit01
  BY <1>1, <1>2 DEF Bit01
<1>4. PICK c : c = DisturbedByte(b, noise, i)
  OBVIOUS
<1>5. c = [k \in 1 .. 8 |-> c[k]]
  BY <1>4 DEF DisturbedByte
<1>6. c \in Registers
  BY <1>3, <1>4, <1>5 DEF Registers
<1> QED
  BY <1>2, <1>4, <1>6

(* All of its bytes. *)
LEMMA DisturbedIs ==
    ASSUME NEW bytes \in Seq(Bytes), NEW m \in Nat, m = Len(bytes), NEW noise
    PROVE  /\ Disturbed(bytes, noise) \in [1 .. m -> Bytes]
           /\ \A i \in 1 .. m : Disturbed(bytes, noise)[i] = ByteOf(DisturbedByte(bytes[i], noise, i))
<1>1. PICK d : d = Disturbed(bytes, noise)
  OBVIOUS
<1>2. d = [i \in 1 .. m |-> ByteOf([k \in 1 .. 8 |->
            LET bit == BitOf(bytes[i], k - 1) IN
            IF 8 * (i - 1) + k - 1 \in noise THEN 1 - bit ELSE bit])]
  BY <1>1, Zenon DEF Disturbed
<1>3. \A i \in 1 .. m : d[i] = ByteOf(DisturbedByte(bytes[i], noise, i))
  BY <1>2, Zenon DEF DisturbedByte
<1>4. ASSUME NEW i \in 1 .. m PROVE d[i] \in Bytes
  <2>1. bytes[i] \in Bytes /\ i \in Int
    OBVIOUS
  <2>2. DisturbedByte(bytes[i], noise, i) \in Registers
    BY <2>1, DisturbedByteIs
  <2> QED
    BY <1>3, <2>2, ByteOfRegister
<1>5. d = [i \in 1 .. m |-> d[i]]
  BY <1>2
<1> QED
  BY <1>1, <1>3, <1>4, <1>5

(* No noise, the same message. *)
LEMMA QuietIs ==
    ASSUME NEW bytes \in Seq(Bytes)
    PROVE  Disturbed(bytes, {}) = bytes
<1>1. PICK m \in Nat : m = Len(bytes)
  OBVIOUS
<1>2. PICK d \in [1 .. m -> Bytes] : /\ d = Disturbed(bytes, {})
          /\ \A i \in 1 .. m : d[i] = ByteOf(DisturbedByte(bytes[i], {}, i))
  BY <1>1, DisturbedIs
<1>3. ASSUME NEW i \in 1 .. m PROVE d[i] = bytes[i]
  <2>1. bytes[i] \in Bytes
    BY <1>1
  <2>2. DisturbedByte(bytes[i], {}, i) = [k \in 1 .. 8 |-> BitOf(bytes[i], k - 1)]
    BY DEF DisturbedByte
  <2> QED
    BY <1>2, <2>1, <2>2, BitsOfByte
<1>4. bytes = [i \in 1 .. m |-> bytes[i]]
  BY <1>1
<1>5. d = [i \in 1 .. m |-> d[i]]
  OBVIOUS
<1> QED
  BY <1>2, <1>3, <1>4, <1>5

(* Its bits, in the order of the wire. *)
LEMMA DisturbedBits ==
    ASSUME NEW bytes \in Seq(Bytes), NEW n \in Nat, n = 8 * Len(bytes),
           NEW noise, NEW i \in 1 .. n
    PROVE  Bits(Disturbed(bytes, noise))[i]
               = IF i - 1 \in noise THEN 1 - Bits(bytes)[i] ELSE Bits(bytes)[i]
<1>1. PICK m \in Nat : m = Len(bytes) /\ n = 8 * m
  OBVIOUS
<1>2. PICK d \in [1 .. m -> Bytes] : /\ d = Disturbed(bytes, noise)
          /\ \A j \in 1 .. m : d[j] = ByteOf(DisturbedByte(bytes[j], noise, j))
  BY <1>1, DisturbedIs
<1>3. d \in Seq(Bytes) /\ Len(d) = m
  BY <1>2
<1>4. PICK j \in 1 .. m : j = (i - 1) \div 8 + 1
  BY <1>1
<1>5. PICK k \in 1 .. 8 : k = ((i - 1) % 8) + 1
  OBVIOUS
<1>6. 8 * (j - 1) + k - 1 = i - 1 /\ (i - 1) % 8 = k - 1
  BY <1>4, <1>5
<1>7. Bits(bytes)[i] = BitOf(bytes[j], k - 1)
  BY <1>4, <1>6, BitsType
<1>8. Bits(d)[i] = BitOf(d[j], k - 1)
  BY <1>1, <1>3, <1>4, <1>6, BitsType
<1>9. PICK c \in Registers : /\ c = DisturbedByte(bytes[j], noise, j)
          /\ c[k] = IF i - 1 \in noise THEN 1 - BitOf(bytes[j], k - 1) ELSE BitOf(bytes[j], k - 1)
  <2>1. bytes[j] \in Bytes /\ j \in Int
    BY <1>1
  <2>2. PICK b \in Bytes : b = bytes[j]
    BY <2>1
  <2>3. PICK c : c = DisturbedByte(b, noise, j)
    OBVIOUS
  <2>4. c \in Registers
    BY <2>1, <2>3, DisturbedByteIs
  <2>5. c[k] = IF 8 * (j - 1) + k - 1 \in noise THEN 1 - BitOf(b, k - 1) ELSE BitOf(b, k - 1)
    BY <2>3, Zenon DEF DisturbedByte
  <2> QED
    BY <1>6, <2>2, <2>3, <2>4, <2>5
<1>10. BitOf(d[j], k - 1) = c[k]
  BY <1>2, <1>9, ByteOfRegister
<1> QED
  BY <1>2, <1>7, <1>8, <1>9, <1>10

(* The noise is the difference of what is sent and what arrives. *)
LEMMA NoiseIsDifference ==
    ASSUME NEW bytes \in Seq(Bytes), NEW n \in Nat, n = 8 * Len(bytes), NEW noise
    PROVE  \A i \in 1 .. n :
              NoiseBits(noise, n)[i] = Differ(Bits(bytes)[i], Bits(Disturbed(bytes, noise))[i])
<1> SUFFICES ASSUME NEW i \in 1 .. n
             PROVE NoiseBits(noise, n)[i] = Differ(Bits(bytes)[i], Bits(Disturbed(bytes, noise))[i])
  OBVIOUS
<1>1. PICK x : x = Bits(bytes)[i]
  OBVIOUS
<1>2. x \in {0, 1}
  <2>1. Bits(bytes) \in [1 .. n -> Bit01]
    BY BitsType
  <2> QED
    BY <1>1, <2>1 DEF Bit01
<1>3. PICK y : y = Bits(Disturbed(bytes, noise))[i]
  OBVIOUS
<1>4. y = IF i - 1 \in noise THEN 1 - x ELSE x
  BY <1>1, <1>3, DisturbedBits
<1>5. NoiseBits(noise, n)[i] = IF i - 1 \in noise THEN 1 ELSE 0
  BY Zenon DEF NoiseBits
<1>6. Differ(x, y) = IF i - 1 \in noise THEN 1 ELSE 0
  BY <1>2, <1>4 DEF Differ
<1> QED
  BY <1>1, <1>3, <1>5, <1>6

(* A message that passes crc8, and of whose bits an odd number or some     *)
(* within eight that follow each other are turned over, does not pass any  *)
(* longer.                                                                 *)
LEMMA NoiseTold ==
    ASSUME NEW bytes \in Seq(Bytes), NEW n \in Nat, n = 8 * Len(bytes),
           NEW noise \in SUBSET (0 .. n - 1),
           \/ Cardinality(noise) % 2 = 1
           \/ \E first \in 0 .. n - 8 : noise \subseteq first .. first + 7,
           Crc8(bytes) = 0, Crc8(Disturbed(bytes, noise)) = 0
    PROVE  Disturbed(bytes, noise) = bytes
<1>1. PICK d : /\ d = Disturbed(bytes, noise) /\ d \in Seq(Bytes)
               /\ Len(d) = Len(bytes)
  <2>1. PICK m \in Nat : m = Len(bytes)
    OBVIOUS
  <2>2. Disturbed(bytes, noise) \in [1 .. m -> Bytes]
    BY <2>1, DisturbedIs
  <2> QED
    BY <2>1, <2>2
<1>2. PICK u \in [1 .. n -> Bit01] : u = Bits(bytes)
  BY BitsType
<1>3. PICK v \in [1 .. n -> Bit01] : v = Bits(d)
  BY <1>1, BitsType
<1>4. PICK w \in [1 .. n -> Bit01] : w = NoiseBits(noise, n)
  BY NoiseBitsType
<1>5. PICK f : Registered(f, u, n) /\ Crc8(bytes) = ByteOf(f[n])
  BY <1>2, Crc8Is
<1>6. PICK g : Registered(g, v, n) /\ Crc8(d) = ByteOf(g[n])
  BY <1>1, <1>3, Crc8Is
<1>7. f[n] \in Registers /\ g[n] \in Registers
  <2>1. f \in [0 .. n -> Registers] /\ g \in [0 .. n -> Registers] /\ n \in 0 .. n
    BY <1>5, <1>6 DEF Registered
  <2> QED
    BY <2>1
<1>8. f[n] = Clear /\ g[n] = Clear
  BY <1>1, <1>5, <1>6, <1>7, ByteOfRegister
<1>9. \A i \in 1 .. n : w[i] = Differ(u[i], v[i])
  BY <1>1, <1>2, <1>3, <1>4, NoiseIsDifference
<1>10. PICK h : Registered(h, w, n) /\ h[n] = Difference(f[n], g[n])
  <2>1. [i \in 1 .. n |-> Differ(u[i], v[i])] = w
    BY <1>9
  <2>2. Registered([i \in 0 .. n |-> Difference(f[i], g[i])], w, n)
    BY <1>5, <1>6, <2>1, DifferenceRuns, Zenon
  <2>3. [i \in 0 .. n |-> Difference(f[i], g[i])][n] = Difference(f[n], g[n])
    OBVIOUS
  <2> QED
    BY <2>2, <2>3
<1>11. h[n] = Clear
  BY <1>8, <1>10 DEF Difference, Differ, Clear
<1>12. Registered(h, NoiseBits(noise, n), n)
  BY <1>4, <1>10, Zenon
<1>13. CASE Cardinality(noise) % 2 = 1
  <2>1. Cardinality(noise) % 2 = 0
    BY <1>11, <1>12, OddTold
  <2> QED
    BY <1>13, <2>1
<1>14. CASE \E first \in 0 .. n - 8 : noise \subseteq first .. first + 7
  <2>1. PICK first \in 0 .. n - 8 : noise \in SUBSET (first .. first + 7)
    BY <1>14
  <2>2. noise = {}
    BY <1>11, <1>12, <2>1, BurstTold
  <2> QED
    BY <2>2, QuietIs, Zenon
<1> QED
  BY <1>13, <1>14

(* What is left of a register c after m of its own bits.                   *)
Left(d, c, m) == \A k \in 1 .. 8 : d[k] = IF k + m <= 8 THEN c[k + m] ELSE 0

(* A register that is sent loses its own bit, which leaves no carry. *)
LEMMA OwnBit ==
    ASSUME NEW c \in Registers, NEW d \in Registers, NEW m \in 0 .. 7, Left(d, c, m)
    PROVE  Left(Shift(d, c[m + 1]), c, m + 1)
<1>1. \A k \in 1 .. 8 : d[k] = IF k + m <= 8 THEN c[k + m] ELSE 0
  BY Zenon DEF Left
<1>2. PICK x \in Bit01 : x = c[m + 1]
  <2>1. m + 1 \in 1 .. 8
    OBVIOUS
  <2> QED
    BY <2>1 DEF Registers
<1>3. d[1] = x
  <2>1. 1 \in 1 .. 8 /\ 1 + m <= 8 /\ 1 + m = m + 1
    OBVIOUS
  <2> QED
    BY <1>1, <1>2, <2>1
<1>4. PICK e : e = Shift(d, x)
  OBVIOUS
<1>5. \A k \in 1 .. 7 : e[k] = IF d[1] = x \/ k \notin {3, 4} THEN d[k + 1] ELSE 1 - d[k + 1]
  BY <1>4, ShiftIs
<1>6. e[8] = IF d[1] = x THEN 0 ELSE 1
  BY <1>4, ShiftIs
<1>7. ASSUME NEW k \in 1 .. 8 PROVE e[k] = IF k + (m + 1) <= 8 THEN c[k + (m + 1)] ELSE 0
  <2>1. CASE k = 8
    BY <1>3, <1>6, <2>1
  <2>2. CASE k # 8
    <3>1. k \in 1 .. 7 /\ k + 1 \in 1 .. 8 /\ k + (m + 1) = (k + 1) + m
      BY <2>2
    <3>2. e[k] = d[k + 1]
      BY <1>3, <1>5, <3>1
    <3>3. d[k + 1] = IF (k + 1) + m <= 8 THEN c[(k + 1) + m] ELSE 0
      BY <1>1, <3>1
    <3> QED
      BY <3>1, <3>2, <3>3
  <2> QED
    BY <2>1, <2>2
<1> QED
  BY <1>2, <1>4, <1>7, Zenon DEF Left

(* A message with the code of crc8 after it passes.                        *)
LEMMA WholePasses ==
    ASSUME NEW bytes \in Seq(Bytes)
    PROVE  /\ Append(bytes, Crc8(bytes)) \in Seq(Bytes)
           /\ Crc8(Append(bytes, Crc8(bytes))) = 0
<1>1. PICK len \in Nat : len = Len(bytes)
  OBVIOUS
<1>2. PICK n \in Nat : n = 8 * len
  OBVIOUS
<1>3. PICK u \in [1 .. n -> Bit01] : u = Bits(bytes)
          /\ \A i \in 1 .. n : u[i] = BitOf(bytes[(i - 1) \div 8 + 1], (i - 1) % 8)
  BY <1>1, <1>2, BitsType
<1>4. PICK f : Registered(f, u, n) /\ Crc8(bytes) = ByteOf(f[n])
  BY <1>1, <1>2, <1>3, Crc8Is
<1>5. f \in [0 .. n -> Registers] /\ f[0] = Clear /\ \A i \in 1 .. n : f[i] = Shift(f[i - 1], u[i])
  BY <1>4, Zenon DEF Registered
<1>6. PICK c \in Registers : c = f[n]
  BY <1>5
<1>7. PICK b \in Bytes : b = ByteOf(c) /\ \A k \in 1 .. 8 : BitOf(b, k - 1) = c[k]
  BY ByteOfRegister
<1>8. PICK all \in Seq(Bytes) : /\ all = Append(bytes, b) /\ Len(all) = len + 1
          /\ all[len + 1] = b /\ \A j \in 1 .. len : all[j] = bytes[j]
  <2>1. PICK all : all = Append(bytes, b)
    OBVIOUS
  <2>2. all \in Seq(Bytes) /\ Len(all) = len + 1
    BY <1>1, <2>1
  <2>3. all[len + 1] = b
    BY <1>1, <2>1
  <2>4. \A j \in 1 .. len : all[j] = bytes[j]
    BY <1>1, <2>1
  <2> QED
    BY <2>1, <2>2, <2>3, <2>4
<1>9. PICK t \in Nat : t = n + 8 /\ t = 8 * Len(all)
  BY <1>2, <1>8
<1>10. PICK v \in [1 .. t -> Bit01] : v = Bits(all)
          /\ \A i \in 1 .. t : v[i] = BitOf(all[(i - 1) \div 8 + 1], (i - 1) % 8)
  BY <1>8, <1>9, BitsType
<1>11. PICK g : Registered(g, v, t) /\ Crc8(all) = ByteOf(g[t])
  BY <1>8, <1>9, <1>10, Crc8Is
<1>12. g \in [0 .. t -> Registers] /\ g[0] = Clear /\ \A i \in 1 .. t : g[i] = Shift(g[i - 1], v[i])
  BY <1>11, Zenon DEF Registered
<1>13. ASSUME NEW i \in 1 .. n PROVE v[i] = u[i]
  <2>1. (i - 1) \div 8 + 1 \in 1 .. len /\ i \in 1 .. t
    BY <1>2, <1>9
  <2>2. all[(i - 1) \div 8 + 1] = bytes[(i - 1) \div 8 + 1]
    BY <1>8, <2>1
  <2> QED
    BY <1>3, <1>10, <2>1, <2>2
<1>14. ASSUME NEW k \in 1 .. 8 PROVE v[n + k] = c[k]
  <2>1. n + k \in 1 .. t /\ (n + k - 1) \div 8 + 1 = len + 1 /\ (n + k - 1) % 8 = k - 1
    BY <1>2, <1>9
  <2>2. v[n + k] = BitOf(all[len + 1], k - 1)
    BY <1>10, <2>1
  <2> QED
    BY <1>7, <1>8, <2>2
<1> DEFINE S == {i \in 0 .. n : g[i] = f[i]}
<1>15. 0 \in S
  BY <1>5, <1>12
<1>16. ASSUME NEW i \in 0 .. n, i < n, i \in S PROVE i + 1 \in S
  <2>1. i + 1 \in 1 .. n /\ i + 1 \in 0 .. n /\ i + 1 \in 1 .. t /\ (i + 1) - 1 = i
    BY <1>9, <1>16
  <2>2. g[i + 1] = Shift(g[i], v[i + 1]) /\ f[i + 1] = Shift(f[i], u[i + 1])
    BY <1>5, <1>12, <2>1
  <2> QED
    BY <1>13, <1>16, <2>1, <2>2
<1>17. \A i \in 0 .. n : i \in S
  <2> HIDE DEF S
  <2> QED
    BY <1>15, <1>16, UpTo
<1>18. g[n] = c
  BY <1>6, <1>17
<1> DEFINE T == {m \in 0 .. 8 : Left(g[n + m], c, m)}
<1>19. 0 \in T
  <2>1. n + 0 = n /\ 0 \in 0 .. 8
    OBVIOUS
  <2>2. \A k \in 1 .. 8 : c[k] = IF k + 0 <= 8 THEN c[k + 0] ELSE 0
    OBVIOUS
  <2>3. Left(c, c, 0)
    BY <2>2, Zenon DEF Left
  <2> QED
    BY <1>18, <2>1, <2>3
<1>20. ASSUME NEW m \in 0 .. 8, m < 8, m \in T PROVE m + 1 \in T
  <2>1. /\ m \in 0 .. 7 /\ m + 1 \in 0 .. 8 /\ m + 1 \in 1 .. 8
        /\ n + m \in 0 .. t /\ n + (m + 1) \in 1 .. t /\ n + (m + 1) - 1 = n + m
    BY <1>9, <1>20
  <2>2. PICK d \in Registers : d = g[n + m]
    BY <1>12, <2>1
  <2>3. Left(d, c, m)
    BY <1>20, <2>2
  <2>4. g[n + (m + 1)] = Shift(d, c[m + 1])
    <3>1. PICK i \in 1 .. t : i = n + (m + 1) /\ i - 1 = n + m
      BY <2>1
    <3>2. g[i] = Shift(g[i - 1], v[i])
      BY <1>12
    <3>3. v[i] = c[m + 1]
      BY <1>14, <2>1, <3>1
    <3> QED
      BY <2>2, <3>1, <3>2, <3>3
  <2>5. Left(Shift(d, c[m + 1]), c, m + 1)
    BY <2>1, <2>3, OwnBit
  <2> QED
    BY <2>1, <2>4, <2>5
<1>21. \A m \in 0 .. 8 : m \in T
  <2>1. 8 \in Nat
    OBVIOUS
  <2> HIDE DEF T
  <2> QED
    BY <1>19, <1>20, <2>1, UpTo
<1>22. PICK d \in Registers : d = g[t] /\ Left(d, c, 8)
  <2>1. 8 \in 0 .. 8 /\ n + 8 = t /\ t \in 0 .. t
    BY <1>9
  <2> QED
    BY <1>12, <1>21, <2>1
<1>23. \A k \in 1 .. 8 : d[k] = 0
  <2>1. \A k \in 1 .. 8 : d[k] = IF k + 8 <= 8 THEN c[k + 8] ELSE 0
    BY <1>22, Zenon DEF Left
  <2> QED
    BY <2>1
<1>24. ByteOf(d) = 0
  BY <1>23 DEF ByteOf
<1>25. Crc8(bytes) = b
  BY <1>4, <1>6, <1>7, Zenon
<1>26. Append(bytes, Crc8(bytes)) = all /\ Crc8(all) = 0
  BY <1>8, <1>11, <1>22, <1>24, <1>25, Zenon
<1> QED
  BY <1>8, <1>26, Zenon

(* A message with its code passes, and of those that differ from it in an  *)
(* odd number of bits, or in bits within eight that follow each other,     *)
(* none does.                                                              *)
THEOREM Crc8TellsNoise ==
    ASSUME NEW bytes \in Seq(Bytes), NEW whole, whole = Append(bytes, MaximCrc(bytes)),
           NEW noise \in SUBSET (0 .. 8 * Len(bytes) + 7),
           \/ Cardinality(noise) % 2 = 1
           \/ \E first \in 0 .. 8 * Len(bytes) : noise \subseteq first .. first + 7
    PROVE  /\ Crc8(whole) = 0
           /\ Crc8(Disturbed(whole, noise)) = 0 => Disturbed(whole, noise) = whole
<1>1. whole \in Seq(Bytes) /\ Crc8(whole) = 0
  <2>1. Crc8(bytes) = MaximCrc(bytes)
    BY Crc8IsRemainder
  <2> QED
    BY <2>1, WholePasses, Zenon
<1>2. PICK m \in Nat : m = Len(bytes)
  OBVIOUS
<1>3. Len(whole) = m + 1
  <2>1. PICK b : b = MaximCrc(bytes)
    OBVIOUS
  <2>2. whole = Append(bytes, b)
    BY <2>1
  <2>3. Len(Append(bytes, b)) = m + 1
    BY <1>2
  <2> QED
    BY <2>2, <2>3
<1>4. PICK n \in Nat : n = 8 * m + 8
  BY <1>2
<1>5. n = 8 * Len(whole)
  BY <1>3, <1>4
<1>6. 0 .. 8 * Len(bytes) + 7 = 0 .. n - 1 /\ 0 .. 8 * Len(bytes) = 0 .. n - 8
  BY <1>2, <1>4
<1>7. noise \in SUBSET (0 .. n - 1)
  BY <1>6
<1>8. \/ Cardinality(noise) % 2 = 1
      \/ \E first \in 0 .. n - 8 : noise \subseteq first .. first + 7
  BY <1>6
<1>9. ASSUME Crc8(Disturbed(whole, noise)) = 0 PROVE Disturbed(whole, noise) = whole
  BY <1>1, <1>5, <1>7, <1>8, <1>9, NoiseTold
<1> QED
  BY <1>1, <1>9
-------------------------------------------------------------------------------
(* The wire as the driver found it at the asked device's ds1820_init.      *)
Untouched == asked \notin disturbed /\ ~shorted
Present == asked \in plugged

(* Where the driver stands while app_main is where it is, and when the     *)
(* variables of a reading hold something.                                  *)
Stage ==
    /\ at = "init" => pc \in {"none", "rom", "power"}
    /\ at = "found" => pc \in {"none", "ready"}
    /\ at \in {"report", "pause"} => pc = "ready"

Reporting ==
    /\ at \in {"init", "found"} => value = Unset /\ heard = Unset
    /\ pc \in {"convert", "poll", "pullup", "converted", "read", "padRead"}
        => value = Unset
    /\ at \notin {"off", "pause"} => report = Unset
    /\ report # Unset => report = value

(* A bus that has been reset listens. *)
CleanInv ==
    /\ ResetBeforeAddress
    /\ at = "found" => clean

ListenInv ==
    clean /\ disturbed # Devices =>
        listening = IF shorted THEN {} ELSE plugged

(* What ds1820_init has found: nothing yet, for the devices to come; and   *)
(* never a supply of its own for a sensor that has none.                   *)
SupplyKnown ==
    \A d \in Devices :
        /\ dev[d] # "null"
        /\ d \notin disturbed /\ ~shorted /\ d \in plugged
        /\ sensor[d].parasite
        => dev[d] = "parasite"

PowerInv ==
    /\ at = "init" => \A d \in Devices : d >= asked => dev[d] = "null"
    /\ at = "found" => \A d \in Devices : d > asked => dev[d] = "null"
    /\ SupplyKnown
    /\ pc = "convert" => dev[asked] # "null"
    /\ pc = "poll" => dev[asked] = "other"
    /\ pc = "pullup" => dev[asked] = "parasite"

(* The measurement that was asked for: under way or ended until the wait   *)
(* is over, and ended after it.                                            *)
MeasureInv ==
    Untouched /\ Present =>
        /\ pc \in {"pullup", "poll"} => sensor[asked].busy \/ measured
        /\ ~PullUpMayFail /\ pc \in {"converted", "read", "padRead", "decoded"}
            => measured

HeardInv ==
    Untouched =>
        /\ heard # Unset => Present
        /\ value # Unset => heard # Unset
        /\ value # Unset /\ ~PullUpMayFail => measured
        /\ pc = "padRead" /\ scratchpad # Ones => heard # Unset

(* What has become of the scratchpad the sensor sent. *)
ValueInv ==
    heard # Unset =>
        /\ pc = "padRead" => scratchpad \in Delivered[sensor[asked].family][heard]
        /\ value # Unset /\ InRange(heard) => value = heard

ControlInv == Stage /\ Reporting /\ CleanInv
ReadingInv == MeasureInv /\ HeardInv /\ ValueInv

IInv == TypeOK /\ ControlInv /\ ListenInv /\ PowerInv /\ ReadingInv

-------------------------------------------------------------------------------
(* Sensors. *)
LEMMA DevicesAreKnown ==
    /\ 0 \in Devices
    /\ Devices \subseteq DOMAIN Roms
    /\ Devices \subseteq Nat
<1>1. DOMAIN Roms # {} /\ DOMAIN Roms = 0 .. Cardinality(DOMAIN Roms) - 1
  BY DsAssumption DEF DsAssumption
<1>2. Cardinality(DOMAIN Roms) \in Nat
  BY DsAssumption, FS_CardinalityType DEF DsAssumption
<1>3. 0 \in DOMAIN Roms /\ DOMAIN Roms \subseteq Nat
  BY <1>1, <1>2
<1> QED
  BY <1>3 DEF Devices

LEMMA SameDevices == program' = program => Devices' = Devices
  BY DEF Devices

LEMMA UnsetIsInt == Unset \in Int
  BY DEF Unset

LEMMA PadsAre ==
    ASSUME NEW t \in Pads
    PROVE  t \in Int /\ t # Unset /\ t \in -880 .. 2000
  BY DsAssumption DEF DsAssumption, Pads, PowerOnTemp, Unset

LEMMA TempsAre ==
    ASSUME NEW d \in Devices, NEW t \in Temps[d]
    PROVE  t \in Pads
<1>1. d \in DOMAIN Temps
  BY DevicesAreKnown, DsAssumption DEF DsAssumption
<1> QED
  BY <1>1 DEF Pads, AllTemps, Range

(* What happens to a sensor leaves its kind and the other sensors alone.   *)
KindsKept ==
    \A e \in Devices : /\ sensor'[e].family = sensor[e].family
                      /\ sensor'[e].parasite = sensor[e].parasite

OthersKept(d) == \A e \in Devices \ {d} : sensor'[e] = sensor[e]

LEMMA SensorHas ==
    ASSUME sensor \in [Devices -> Sensors], NEW d \in Devices,
           NEW t \in Pads, NEW b \in BOOLEAN,
           sensor' = [sensor EXCEPT ![d].busy = b, ![d].pad = t]
    PROVE  /\ sensor' \in [Devices -> Sensors]
           /\ sensor'[d].busy = b /\ sensor'[d].pad = t
           /\ KindsKept /\ OthersKept(d)
<1>1. sensor[d] \in Sensors
  OBVIOUS
<1>2. /\ [sensor[d] EXCEPT !.busy = b, !.pad = t] \in Sensors
      /\ [sensor[d] EXCEPT !.busy = b, !.pad = t].busy = b
      /\ [sensor[d] EXCEPT !.busy = b, !.pad = t].pad = t
      /\ [sensor[d] EXCEPT !.busy = b, !.pad = t].family = sensor[d].family
      /\ [sensor[d] EXCEPT !.busy = b, !.pad = t].parasite = sensor[d].parasite
  BY <1>1 DEF Sensors
<1>3. sensor' = [sensor EXCEPT ![d] = [sensor[d] EXCEPT !.busy = b, !.pad = t]]
  OBVIOUS
<1> QED
  BY <1>1, <1>2, <1>3 DEF KindsKept, OthersKept
-------------------------------------------------------------------------------
(* The conversion of a scratchpad to a temperature. *)
LEMMA SignedByte ==
    ASSUME NEW b \in Bytes
    PROVE  Signed8(b) \in Int /\ (b < 128 => Signed8(b) = b)
                            /\ (b >= 128 => Signed8(b) = b - 256)
  BY DEF Signed8, Bytes

LEMMA HalvedIs ==
    ASSUME NEW n \in Int
    PROVE  Halved(n) \in Int /\ (n >= 0 => Halved(n) = n \div 2)
  BY DEF Halved

LEMMA QuotientIsInt ==
    ASSUME NEW a \in Int, NEW b \in Int, b > 0
    PROVE  a \div b \in Int
  OBVIOUS

LEMMA BytesTogether ==
    ASSUME NEW a \in Int, NEW b \in Int PROVE 256 * a + b \in Int
  OBVIOUS

LEMMA DecodeIsInt ==
    ASSUME NEW family, NEW pad \in [1 .. 9 -> Bytes]
    PROVE  Decode(family, pad) \in Int
<1>1. /\ pad[1] \in 0 .. 255 /\ pad[2] \in 0 .. 255
      /\ pad[7] \in 0 .. 255 /\ pad[8] \in 0 .. 255
  BY DEF Bytes
<1>2. /\ Signed8(pad[2]) \in Int
      /\ Halved(Signed8(pad[1])) \in Int
  BY SignedByte, HalvedIs DEF Bytes
<1>3. HighRes(pad) \in Int
  <2>1. ASSUME pad[8] # 0
        PROVE  (16 * (pad[8] - pad[7])) \div pad[8] \in Int
    <3>1. pad[8] \in Int /\ pad[8] > 0 /\ 16 * (pad[8] - pad[7]) \in Int
      BY <1>1, <2>1 DEF Bytes
    <3> QED
      BY <3>1, QuotientIsInt
  <2> QED
    BY <1>1, <1>2, <2>1 DEF HighRes, NotANumber
<1>4. 256 * pad[2] + pad[1] \in Int /\ 256 * Signed8(pad[2]) + pad[1] \in Int
  <2>1. pad[1] \in Int /\ pad[2] \in Int
    BY <1>1
  <2> QED
    BY <1>2, <2>1, BytesTogether
<1> QED
  BY <1>3, <1>4 DEF Decode, DecodeOld

(* What the registers hold of a temperature. *)
LEMMA RegistersB ==
    ASSUME NEW t \in Int, NEW pad, pad = PadOf("DS18B20", t)
    PROVE  pad[1] = t % 256 /\ pad[2] = (t \div 256) % 256
  BY DEF PadOf, Low8

LEMMA RegistersS ==
    ASSUME NEW t \in Int, NEW pad, pad = PadOf("DS18S20", t)
    PROVE  /\ pad[1] = ((t + 4) \div 8) % 256
           /\ pad[7] = 16 - ((t + 4) % 16)
           /\ pad[8] = 16
  BY DEF PadOf, Low8

LEMMA DS18B20IsRight ==
    ASSUME NEW t \in Int, t >= -880, t <= 2000,
           NEW pad, pad = PadOf("DS18B20", t)
    PROVE  program = "node" \/ t >= 0 => Decode("DS18B20", pad) = t
<1>1. pad[1] = t % 256 /\ pad[2] = (t \div 256) % 256
  BY RegistersB
<1>2. t % 256 \in 0 .. 255 /\ t = 256 * (t \div 256) + (t % 256)
  OBVIOUS
<1>3. ASSUME t >= 0 PROVE Decode("DS18B20", pad) = t
  <2>1. (t \div 256) % 256 = t \div 256 /\ t \div 256 \in 0 .. 127
    BY <1>3
  <2>2. Signed8(pad[2]) = t \div 256
    BY <1>1, <2>1, SignedByte DEF Bytes
  <2>3. 256 * Signed8(pad[2]) + pad[1] = t /\ 256 * pad[2] + pad[1] = t
    BY <1>1, <1>2, <2>1, <2>2
  <2> QED
    BY <2>3 DEF Decode, DecodeOld
<1>4. ASSUME t < 0, program = "node" PROVE Decode("DS18B20", pad) = t
  <2>1. /\ (t \div 256) % 256 = t \div 256 + 256
        /\ (t \div 256) % 256 \in 128 .. 255
    BY <1>4
  <2>2. Signed8(pad[2]) = t \div 256
    BY <1>1, <2>1, SignedByte DEF Bytes
  <2>3. 256 * Signed8(pad[2]) + pad[1] = t
    BY <1>1, <1>2, <2>1, <2>2
  <2> QED
    BY <1>4, <2>3 DEF Decode
<1> QED
  BY <1>3, <1>4

LEMMA DS18S20IsRight ==
    ASSUME NEW t \in Int, t >= -4, t <= 1019,
           NEW pad, pad = PadOf("DS18S20", t)
    PROVE  Decode("DS18S20", pad) = t
<1> DEFINE q == t + 4
           whole == q \div 8
<1>1. /\ pad[1] = whole % 256
      /\ pad[7] = 16 - (q % 16)
      /\ pad[8] = 16
  BY RegistersS
<1>2. /\ whole \in 0 .. 127
      /\ q % 16 \in 0 .. 15
      /\ q = 16 * (whole \div 2) + (q % 16)
  OBVIOUS
<1>3. pad[1] = whole
  BY <1>1, <1>2
<1>4. Halved(Signed8(pad[1])) = whole \div 2
  BY <1>2, <1>3, SignedByte, HalvedIs DEF Bytes
<1>5. (16 * (pad[8] - pad[7])) \div pad[8] = q % 16
  BY <1>1, <1>2
<1>6. HighRes(pad) = q - 4
  BY <1>1, <1>2, <1>4, <1>5 DEF HighRes
<1> QED
  BY <1>6 DEF Decode, DecodeOld

(* In the range of its kind and copy, a temperature comes out of the       *)
(* conversion as it went into the scratchpad.                              *)
LEMMA DecodeInvertsPadOf ==
    ASSUME NEW family \in Families, NEW t \in Pads,
           IF family = "DS18S20" THEN t \in -4 .. 1019
           ELSE program = "node" \/ t >= 0
    PROVE  Decode(family, PadOf(family, t)) = t
<1>1. t \in Int /\ t >= -880 /\ t <= 2000
  BY PadsAre
<1>2. CASE family = "DS18S20"
  BY <1>1, <1>2, DS18S20IsRight
<1>3. CASE family = "DS18B20"
  BY <1>1, <1>3, DS18B20IsRight
<1> QED
  BY <1>2, <1>3 DEF Families
-------------------------------------------------------------------------------
(* Type correctness. *)
(* What is read from the wire are bytes. *)
LEMMA FillsAreBytes == Zeros \in [1 .. 9 -> Bytes] /\ Ones \in [1 .. 9 -> Bytes]
  BY DEF Zeros, Ones, Bytes

(* A scratchpad is eight bytes and their code. *)
LEMMA PadOfIs ==
    ASSUME NEW family \in Families, NEW t \in Pads
    PROVE  \E bytes \in Seq(Bytes) :
              Len(bytes) = 8 /\ PadOf(family, t) = Append(bytes, MaximCrc(bytes))
<1>1. t \in Int
  BY PadsAre
<1>2. /\ Low8(t) \in Bytes /\ Low8(t \div 256) \in Bytes
      /\ Low8((t + 4) \div 8) \in Bytes /\ Low8((t + 4) \div 2048) \in Bytes
      /\ 16 - ((t + 4) % 16) \in Bytes
      /\ 75 \in Bytes /\ 70 \in Bytes /\ 127 \in Bytes /\ 255 \in Bytes
      /\ 12 \in Bytes /\ 16 \in Bytes
  BY <1>1 DEF Low8, Bytes
<1>3. PICK lo \in Bytes, hi \in Bytes, part \in Bytes :
         /\ lo = Low8((t + 4) \div 8) /\ hi = Low8((t + 4) \div 2048)
         /\ part = 16 - ((t + 4) % 16)
  BY <1>2
<1>4. PICK B : B = <<Low8(t), Low8(t \div 256), 75, 70, 127, 255, 12, 16>>
  OBVIOUS
<1>5. PICK S : S = <<lo, hi, 75, 70, 255, 255, part, 16>>
  OBVIOUS
<1>6. PICK bytes : bytes = IF family = "DS18B20" THEN B ELSE S
  OBVIOUS
<1>7. bytes \in Seq(Bytes) /\ Len(bytes) = 8
  <2>1. B \in Seq(Bytes) /\ Len(B) = 8
    BY <1>2, <1>4
  <2>2. S \in Seq(Bytes) /\ Len(S) = 8
    BY <1>2, <1>5
  <2> QED
    BY <1>6, <2>1, <2>2
<1>8. PadOf(family, t) = Append(bytes, MaximCrc(bytes))
  BY <1>3, <1>4, <1>6, <1>5 DEF PadOf
<1> QED
  BY <1>7, <1>8

(* One byte more. *)
LEMMA AppendLength ==
    ASSUME NEW bytes \in Seq(Bytes), NEW b, NEW m \in Nat, m = Len(bytes)
    PROVE  Len(Append(bytes, b)) = m + 1
  OBVIOUS

(* What passes crc8 is what was sent.                                      *)
LEMMA DeliveredAre ==
    ASSUME sensor \in [Devices -> Sensors], NEW d \in Devices,
           NEW t \in Pads, NEW pad \in Delivered[sensor[d].family][t]
    PROVE  /\ pad \in [1 .. 9 -> Bytes]
           /\ Verdict(pad) = "ok" => pad = PadOf(sensor[d].family, t)
<1>1. PICK family \in Families : family = sensor[d].family
  BY DEF Sensors
<1>2. PICK bytes \in Seq(Bytes) :
           Len(bytes) = 8 /\ PadOf(family, t) = Append(bytes, MaximCrc(bytes))
  BY PadOfIs, Zenon
<1>3. PICK whole : whole = PadOf(family, t)
  OBVIOUS
<1>4. /\ Len(bytes) = 8
      /\ whole = Append(bytes, MaximCrc(bytes)) /\ whole = PadOf(family, t)
  BY <1>2, <1>3, Zenon
<1>5. PICK noise \in Noises : pad = Disturbed(whole, noise)
  BY <1>1, <1>4 DEF Delivered
<1>6. noise \in SUBSET (0 .. 71)
  BY DsAssumption DEF DsAssumption
<1>7. \/ Cardinality(noise) % 2 = 1
      \/ \E first \in 0 .. 64 : noise \subseteq first .. first + 7
  BY NoiseAssumption, Zenon DEF NoiseAssumption
<1>8. /\ Crc8(Disturbed(whole, noise)) = 0 => Disturbed(whole, noise) = whole
  <2>1. 0 .. 8 * Len(bytes) + 7 = 0 .. 71 /\ 0 .. 8 * Len(bytes) = 0 .. 64
    BY <1>4
  <2>2. noise \in SUBSET (0 .. 8 * Len(bytes) + 7)
    BY <1>6, <2>1
  <2>3. \/ Cardinality(noise) % 2 = 1
        \/ \E first \in 0 .. 8 * Len(bytes) : noise \subseteq first .. first + 7
    BY <1>7, <2>1
  <2> QED
    BY <1>4, <2>2, <2>3, Crc8TellsNoise
<1>9. whole \in Seq(Bytes) /\ Len(whole) = 9
  <2>1. Crc8(bytes) = MaximCrc(bytes)
    BY Crc8IsRemainder
  <2>2. whole \in Seq(Bytes)
    BY <1>4, <2>1, WholePasses, Zenon
  <2>3. PICK b : b = MaximCrc(bytes)
    OBVIOUS
  <2>4. PICK m \in Nat : m = Len(bytes) /\ m = 8
    BY <1>4
  <2>5. Len(Append(bytes, b)) = m + 1
    BY <2>4, AppendLength, Zenon
  <2>6. Len(Append(bytes, b)) = 9
    BY <2>4, <2>5
  <2> QED
    BY <1>4, <2>2, <2>3, <2>6
<1>10. pad \in [1 .. 9 -> Bytes]
  <2>1. 9 \in Nat
    OBVIOUS
  <2> QED
    BY <1>5, <1>9, <2>1, DisturbedIs
<1>11. Remainders[pad] = Crc8(pad)
  <2>1. pad \in UNION UNION {Range(Delivered[x]) : x \in Families}
    <3>1. pad \in Delivered[family][t] /\ Delivered[family][t] \in Range(Delivered[family])
      BY <1>1 DEF Delivered, Range
    <3> QED
      BY <3>1
  <2> QED
    BY <2>1 DEF Remainders
<1>12. ASSUME Verdict(pad) = "ok" PROVE pad = PadOf(family, t)
  <2>1. Crc8(pad) = 0
    BY <1>11, <1>12 DEF Verdict
  <2> QED
    BY <1>4, <1>5, <1>8, <2>1
<1> QED
  BY <1>1, <1>10, <1>12

LEMMA InitTypeOK == Init => TypeOK
<1>1. ASSUME Init PROVE sensor \in [Devices -> Sensors]
  BY <1>1 DEF Init, DsInit
<1> QED
  BY <1>1, DevicesAreKnown, UnsetIsInt, FillsAreBytes
     DEF Init, DsInit, TypeOK, DsTypeOK, Stages

LEMMA BootTypeOK == TypeOK /\ Boot => TypeOK'
  BY SameDevices, DevicesAreKnown, UnsetIsInt, FillsAreBytes
     DEF TypeOK, DsTypeOK, Boot, wire, Stages

LEMMA ProbeTypeOK == DsTypeOK /\ Probe => DsTypeOK'
  BY SameDevices DEF DsTypeOK, Probe, Reset, wire, Stages

LEMMA LearnRomTypeOK == DsTypeOK /\ LearnRom => DsTypeOK'
  BY SameDevices DEF DsTypeOK, LearnRom, Reset, wire, call, Stages

LEMMA LearnPowerTypeOK == DsTypeOK /\ LearnPower => DsTypeOK'
<1> SUFFICES ASSUME DsTypeOK, LearnPower PROVE DsTypeOK'
  OBVIOUS
<1>1. PICK power \in {"parasite", "other"} : dev' = [dev EXCEPT ![asked] = power]
  BY DEF LearnPower
<1>2. dev' \in [Devices -> {"null", "parasite", "other"}]
  BY <1>1 DEF DsTypeOK
<1> QED
  BY <1>2, SameDevices DEF DsTypeOK, LearnPower, Reset, wire, call, Stages

LEMMA CallTypeOK == DsTypeOK /\ Call => DsTypeOK'
  BY SameDevices, UnsetIsInt DEF DsTypeOK, Call, wire, Stages

(* Every change of a sensor. *)
LEMMA PadStays ==
    ASSUME sensor \in [Devices -> Sensors], NEW d \in Devices
    PROVE  sensor[d].pad \in Pads /\ sensor[d].busy \in BOOLEAN
  BY DEF Sensors

LEMMA ConversionStarts ==
    ASSUME DsTypeOK, StartConversion
    PROVE  /\ sensor' \in [Devices -> Sensors]
           /\ KindsKept /\ OthersKept(asked)
           /\ sensor'[asked].busy =
                (/\ Reached \/ (sensor[asked].busy /\ ~sensor[asked].parasite)
                 /\ sensor[asked].parasite => dev[asked] = "parasite")
<1> DEFINE b == /\ Reached \/ (sensor[asked].busy /\ ~sensor[asked].parasite)
                /\ sensor[asked].parasite => dev[asked] = "parasite"
<1>1. b \in BOOLEAN
  OBVIOUS
<1>2. sensor[asked] \in Sensors /\ sensor \in [Devices -> Sensors] /\ asked \in Devices
  BY DEF DsTypeOK
<1>3. sensor' = [sensor EXCEPT ![asked].busy = b]
  BY DEF StartConversion
<1> HIDE DEF b
<1>4. /\ [sensor[asked] EXCEPT !.busy = b] \in Sensors
      /\ [sensor[asked] EXCEPT !.busy = b].busy = b
      /\ [sensor[asked] EXCEPT !.busy = b].family = sensor[asked].family
      /\ [sensor[asked] EXCEPT !.busy = b].parasite = sensor[asked].parasite
  BY <1>1, <1>2 DEF Sensors
<1>5. sensor' = [sensor EXCEPT ![asked] = [sensor[asked] EXCEPT !.busy = b]]
  BY <1>3
<1>6. /\ sensor' \in [Devices -> Sensors]
      /\ KindsKept /\ OthersKept(asked)
      /\ sensor'[asked].busy = b
  BY <1>2, <1>4, <1>5 DEF KindsKept, OthersKept
<1> QED
  BY <1>6 DEF b

LEMMA MeasuresSets ==
    ASSUME sensor \in [Devices -> Sensors], NEW d \in Devices, Measures(d)
    PROVE  /\ sensor' \in [Devices -> Sensors]
           /\ ~sensor'[d].busy
           /\ KindsKept /\ OthersKept(d)
<1>1. PICK t \in Temps[d], b \in {FALSE} :
        sensor' = [sensor EXCEPT ![d].busy = b, ![d].pad = t]
  BY DEF Measures
<1>2. t \in Pads /\ b \in BOOLEAN
  BY TempsAre
<1> QED
  BY <1>1, <1>2, SensorHas

LEMMA FailsSets ==
    ASSUME sensor \in [Devices -> Sensors], NEW d \in Devices, Fails(d)
    PROVE  /\ sensor' \in [Devices -> Sensors]
           /\ ~sensor'[d].busy
           /\ KindsKept /\ OthersKept(d)
<1>1. PICK t \in {sensor[d].pad, PowerOnTemp}, b \in {FALSE} :
        sensor' = [sensor EXCEPT ![d].busy = b, ![d].pad = t]
  BY DEF Fails
<1>2. t \in Pads /\ b \in BOOLEAN
  BY PadStays DEF Pads
<1> QED
  BY <1>1, <1>2, SensorHas

LEMMA UnplugSets ==
    ASSUME sensor \in [Devices -> Sensors], NEW d \in Devices, Unplug(d)
    PROVE  /\ sensor' \in [Devices -> Sensors]
           /\ ~sensor'[d].busy
           /\ KindsKept /\ OthersKept(d)
<1>1. PICK t \in {PowerOnTemp}, b \in {FALSE} :
        sensor' = [sensor EXCEPT ![d].busy = b, ![d].pad = t]
  BY DEF Unplug
<1>2. t \in Pads /\ b \in BOOLEAN
  BY DEF Pads
<1> QED
  BY <1>1, <1>2, SensorHas

LEMMA CommandSets ==
    ASSUME Command, plugged' = plugged
    PROVE  listening' \subseteq plugged' /\ clean' \in BOOLEAN
  BY DEF Command

LEMMA ResetSets ==
    ASSUME Reset, plugged' = plugged
    PROVE  listening' \subseteq plugged' /\ clean' \in BOOLEAN
  BY DEF Reset

LEMMA StartConversionTypeOK == DsTypeOK /\ StartConversion => DsTypeOK'
<1> SUFFICES ASSUME DsTypeOK, StartConversion PROVE DsTypeOK'
  OBVIOUS
<1>1. sensor' \in [Devices -> Sensors]
  BY ConversionStarts
<1>2. /\ Command /\ pc' \in Stages
      /\ UNCHANGED <<wire, asked, dev, call, measured, disturbed>>
  BY DEF StartConversion, Stages
<1>3. UNCHANGED <<program, shorted, plugged, asked, dev, scratchpad, result,
                  value, heard, measured, disturbed>>
  BY <1>2 DEF wire, call
<1> QED
  BY <1>1, <1>2, <1>3, SameDevices, CommandSets DEF DsTypeOK

LEMMA PullUpTypeOK == DsTypeOK /\ PullUp => DsTypeOK'
<1> SUFFICES ASSUME DsTypeOK, PullUp PROVE DsTypeOK'
  OBVIOUS
<1>0. sensor \in [Devices -> Sensors] /\ asked \in Devices /\ measured \in BOOLEAN
  BY DEF DsTypeOK
<1>1. sensor' \in [Devices -> Sensors] /\ measured' \in BOOLEAN
  <2>1. CASE Measures(asked)
    BY <1>0, <2>1, MeasuresSets DEF Measures
  <2>2. CASE Fails(asked)
    BY <1>0, <2>2, FailsSets DEF Fails
  <2>3. CASE UNCHANGED <<sensor, measured>>
    BY <1>0, <2>3
  <2> QED
    BY <2>1, <2>2, <2>3 DEF PullUp
<1>2. /\ pc' \in Stages
      /\ UNCHANGED <<program, shorted, plugged, listening, asked, dev, clean,
                     scratchpad, result, value, heard, disturbed>>
  BY DEF PullUp, Stages, wire, call
<1> QED
  BY <1>1, <1>2, SameDevices DEF DsTypeOK

LEMMA PollTypeOK == DsTypeOK /\ Poll => DsTypeOK'
  BY SameDevices DEF DsTypeOK, Poll, Waited, wire, call, Stages

LEMMA EndConversionTypeOK == DsTypeOK /\ EndConversion => DsTypeOK'
  BY SameDevices
     DEF DsTypeOK, EndConversion, Returns, Reset, wire, Stages, Errors

LEMMA ReadScratchpadTypeOK == DsTypeOK /\ ReadScratchpad => DsTypeOK'
<1> SUFFICES ASSUME DsTypeOK, ReadScratchpad PROVE DsTypeOK'
  OBVIOUS
<1>0. sensor \in [Devices -> Sensors] /\ asked \in Devices
  BY DEF DsTypeOK
<1>1. scratchpad' \in [1 .. 9 -> Bytes] /\ heard' \in Pads \union {Unset}
  <2>1. CASE Reached
    <3>1. sensor[asked].pad \in Pads
      BY <1>0, PadStays
    <3>2. /\ scratchpad' \in Delivered[sensor[asked].family][sensor[asked].pad]
          /\ heard' = sensor[asked].pad
      BY <2>1 DEF ReadScratchpad
    <3> QED
      BY <1>0, <3>1, <3>2, DeliveredAre
  <2>2. CASE ~Reached
    BY <2>2, FillsAreBytes DEF ReadScratchpad
  <2> QED
    BY <2>1, <2>2
<1>2. /\ Command /\ pc' \in Stages
      /\ UNCHANGED <<program, shorted, plugged, sensor, asked, dev, result,
                     value, measured, disturbed>>
  BY DEF ReadScratchpad, Stages, wire
<1> QED
  BY <1>1, <1>2, SameDevices, CommandSets DEF DsTypeOK

(* Judge comes to one of two ends. *)
LEMMA JudgeEnds ==
    ASSUME Judge
    PROVE  /\ pc = "padRead" /\ Reset /\ scratchpad' = Zeros
           /\ UNCHANGED <<program, shorted, plugged, sensor, asked, dev, heard,
                          measured, disturbed>>
           /\ \/ /\ pc' = "ready" /\ result' \in Errors \ {"ok"}
                 /\ value' = value
              \/ /\ pc' = "decoded" /\ result' = result
                 /\ value' = Decode(sensor[asked].family, scratchpad)
                 /\ Verdict(scratchpad) = "ok"
<1> DEFINE verdict == IF Presence THEN Verdict(scratchpad) ELSE "emptyBus"
<1>1. /\ verdict \in Errors
      /\ verdict = "ok" => Verdict(scratchpad) = "ok"
  BY DEF Verdict, Errors
<1>2. pc = "padRead" /\ Reset /\ Settle(verdict)
  BY DEF Judge
<1> HIDE DEF verdict
<1>3. /\ scratchpad' = Zeros
      /\ UNCHANGED <<program, shorted, plugged, sensor, asked, dev, heard,
                     measured, disturbed>>
      /\ \/ verdict # "ok" /\ pc' = "ready" /\ result' = verdict /\ value' = value
         \/ /\ verdict = "ok" /\ pc' = "decoded" /\ result' = result
            /\ value' = Decode(sensor[asked].family, scratchpad)
  BY <1>2 DEF Settle, Returns, wire
<1> QED
  BY <1>1, <1>2, <1>3

LEMMA JudgeTypeOK == DsTypeOK /\ Judge => DsTypeOK'
<1> SUFFICES ASSUME DsTypeOK, Judge PROVE DsTypeOK'
  OBVIOUS
<1>1. value' \in Int
  BY JudgeEnds, DecodeIsInt DEF DsTypeOK
<1>2. /\ result' \in Errors \union {"none"} /\ pc' \in Stages
      /\ scratchpad' \in [1 .. 9 -> Bytes]
  BY JudgeEnds, FillsAreBytes DEF DsTypeOK, Stages
<1> QED
  BY <1>1, <1>2, JudgeEnds, ResetSets, SameDevices DEF DsTypeOK

LEMMA FinishTypeOK == DsTypeOK /\ Finish => DsTypeOK'
  BY SameDevices DEF DsTypeOK, Finish, Returns, Reset, wire, Stages, Errors

LEMMA WorldTypeOK == DsTypeOK /\ World => DsTypeOK'
<1> SUFFICES ASSUME DsTypeOK, World PROVE DsTypeOK'
  OBVIOUS
<1>0. sensor \in [Devices -> Sensors]
  BY DEF DsTypeOK
<1>1. CASE Short
  BY <1>1, SameDevices DEF DsTypeOK, Short, BusChanges, driverVars, call
<1>2. ASSUME NEW d \in Devices, Plug(d) PROVE DsTypeOK'
  BY <1>2, SameDevices DEF DsTypeOK, Plug, BusChanges, driverVars, call
<1>3. ASSUME NEW d \in Devices, Unplug(d) PROVE DsTypeOK'
  <2>1. sensor' \in [Devices -> Sensors]
    BY <1>0, <1>3, UnplugSets
  <2>2. /\ plugged' = plugged \ {d} /\ listening' = listening \ {d}
        /\ disturbed' = Devices
        /\ UNCHANGED <<program, shorted, asked, pc, dev, clean, scratchpad,
                       result, value, heard, measured>>
    BY <1>3 DEF Unplug, BusChanges, driverVars, call
  <2> QED
    BY <2>1, <2>2, SameDevices DEF DsTypeOK
<1>4. ASSUME NEW d \in Devices, SensorMeasures(d) PROVE DsTypeOK'
  <2>1. sensor' \in [Devices -> Sensors]
    BY <1>0, <1>4, MeasuresSets DEF SensorMeasures
  <2>2. /\ measured' \in BOOLEAN
        /\ UNCHANGED <<program, shorted, plugged, listening, asked, pc, dev,
                       clean, scratchpad, result, value, heard, disturbed>>
    BY <1>4 DEF SensorMeasures, Measures, DsTypeOK, wire, driverVars, call
  <2> QED
    BY <2>1, <2>2, SameDevices DEF DsTypeOK
<1> QED
  BY <1>1, <1>2, <1>3, <1>4 DEF World
LEMMA NextTypeOK == TypeOK /\ [Next]_vars => TypeOK'
<1> SUFFICES ASSUME TypeOK, [Next]_vars PROVE TypeOK'
  OBVIOUS
<1> USE DEF TypeOK
<1>1. CASE Boot
  BY <1>1, BootTypeOK
<1>2. CASE FindDevice
  BY <1>2, ProbeTypeOK, LearnRomTypeOK, LearnPowerTypeOK DEF FindDevice, InitSensor
<1>3. CASE InitNext
  BY <1>3, SameDevices DEF InitNext, DsTypeOK, wire, call, Stages
<1>4. CASE InitDone
  BY <1>4, SameDevices, DevicesAreKnown DEF InitDone, DsTypeOK, wire, call, Stages
<1>5. CASE StartReading
  BY <1>5, CallTypeOK DEF StartReading
<1>6. CASE Read
  BY <1>6, StartConversionTypeOK, PullUpTypeOK, PollTypeOK, EndConversionTypeOK,
     ReadScratchpadTypeOK, JudgeTypeOK, FinishTypeOK DEF Read, ReadTemp
<1>7. CASE Outside
  BY <1>7, WorldTypeOK DEF Outside
<1>8. ASSUME UNCHANGED dsVars PROVE DsTypeOK'
  BY <1>8, SameDevices DEF DsTypeOK, dsVars, wire, driverVars, call
<1>9. CASE ReadNull
  BY <1>8, <1>9 DEF ReadNull
<1>10. CASE Send
  BY <1>8, <1>10, UnsetIsInt DEF Send, DsTypeOK
<1>11. CASE Publish
  BY <1>8, <1>11, UnsetIsInt DEF Publish, DsTypeOK
<1>12. CASE NextTurn
  <2>1. asked' \in Devices
    BY <1>12, DevicesAreKnown DEF NextTurn
  <2> QED
    BY <1>12, <2>1, SameDevices, UnsetIsInt DEF NextTurn, DsTypeOK, wire
<1>13. CASE UNCHANGED vars
  BY <1>8, <1>13 DEF vars
<1> QED
  BY <1>1, <1>2, <1>3, <1>4, <1>5, <1>6, <1>7, <1>9, <1>10, <1>11, <1>12, <1>13
     DEF Next, AppMain

(* Every state of every program is well-typed: the driver's variables, the *)
(* sensors and what app_main reports.                                      *)
THEOREM TypeCorrect == Spec => []TypeOK
  BY InitTypeOK, NextTypeOK, PTL DEF Spec

-------------------------------------------------------------------------------
(* The control of app_main and of the driver. *)
LEMMA InitControl == Init => ControlInv
  BY DEF Init, DsInit, ControlInv, Stage, Reporting, CleanInv, ResetBeforeAddress

LEMMA WorldLeavesDriver ==
    ASSUME World
    PROVE  UNCHANGED <<program, asked, pc, dev, clean, scratchpad, result, value,
                       heard>>
  BY DEF World, Short, Plug, Unplug, SensorMeasures, BusChanges, wire, driverVars,
         call

LEMMA NextControl == ControlInv /\ [Next]_vars => ControlInv'
<1> SUFFICES ASSUME ControlInv, [Next]_vars PROVE ControlInv'
  OBVIOUS
<1> USE DEF ControlInv, Stage, Reporting, CleanInv, ResetBeforeAddress
<1>1. CASE Boot
  BY <1>1 DEF Boot
<1>2. CASE FindDevice
  <2>1. CASE Probe
    BY <1>2, <2>1 DEF FindDevice, Probe, Reset
  <2>2. CASE LearnRom
    BY <1>2, <2>2 DEF FindDevice, LearnRom, Reset, call
  <2>3. CASE LearnPower
    BY <1>2, <2>3 DEF FindDevice, LearnPower, Reset, call
  <2> QED
    BY <1>2, <2>1, <2>2, <2>3 DEF FindDevice, InitSensor
<1>3. CASE InitNext
  BY <1>3 DEF InitNext, call
<1>4. CASE InitDone
  BY <1>4 DEF InitDone, call
<1>5. CASE StartReading
  BY <1>5 DEF StartReading, Call
<1>6. CASE ReadNull
  BY <1>6 DEF ReadNull, dsVars, driverVars, call
<1>7. CASE Read
  <2>0. /\ at = "read" /\ UNCHANGED report
        /\ at' = IF pc' = "ready" THEN "report" ELSE "read"
    BY <1>7 DEF Read
  <2>1. CASE StartConversion
    BY <2>0, <2>1 DEF StartConversion, Command, call
  <2>2. CASE PullUp
    BY <2>0, <2>2 DEF PullUp, call
  <2>3. CASE Poll
    BY <2>0, <2>3 DEF Poll, Waited, call
  <2>4. CASE EndConversion
    BY <2>0, <2>4 DEF EndConversion, Returns, Reset
  <2>5. CASE ReadScratchpad
    BY <2>0, <2>5 DEF ReadScratchpad, Command
  <2>6. CASE Judge
    BY <2>0, <2>6, JudgeEnds DEF Reset
  <2>7. CASE Finish
    BY <2>0, <2>7 DEF Finish, Returns, Reset
  <2> QED
    BY <1>7, <2>1, <2>2, <2>3, <2>4, <2>5, <2>6, <2>7 DEF Read, ReadTemp
<1>8. CASE Send
  BY <1>8 DEF Send, dsVars, driverVars, call
<1>9. CASE Publish
  BY <1>9 DEF Publish, dsVars, driverVars, call
<1>10. CASE NextTurn
  BY <1>10 DEF NextTurn
<1>11. CASE Outside
  BY <1>11, WorldLeavesDriver DEF Outside
<1>12. CASE UNCHANGED vars
  BY <1>12 DEF vars, dsVars, driverVars, call
<1> QED
  BY <1>1, <1>2, <1>3, <1>4, <1>5, <1>6, <1>7, <1>8, <1>9, <1>10, <1>11, <1>12
     DEF Next, AppMain

(* Every address goes out on a bus that has just been reset, whichever way *)
(* the call before it ended: ds1820_init and every return of               *)
(* ds1820_read_temp leave it so.                                           *)
THEOREM AddressAfterReset == Spec => []ResetBeforeAddress
<1>1. ControlInv => ResetBeforeAddress
  BY DEF ControlInv, CleanInv
<1> QED
  BY <1>1, InitControl, NextControl, PTL DEF Spec
-------------------------------------------------------------------------------
(* What never changes: the program, and the kind and the supply of a       *)
(* sensor.                                                                 *)
SameKinds == program' = program /\ KindsKept

LEMMA KindsStay == TypeOK /\ [Next]_vars => SameKinds
<1> SUFFICES ASSUME TypeOK, [Next]_vars PROVE SameKinds
  OBVIOUS
<1>0. sensor \in [Devices -> Sensors] /\ asked \in Devices /\ DsTypeOK
  BY DEF TypeOK, DsTypeOK
<1>1. CASE UNCHANGED <<program, sensor>>
  BY <1>1 DEF SameKinds, KindsKept
<1>2. CASE StartConversion
  BY <1>0, <1>2, ConversionStarts DEF StartConversion, wire, SameKinds
<1>3. CASE PullUp
  <2>1. program' = program
    BY <1>3 DEF PullUp, wire
  <2>2. CASE Measures(asked)
    BY <1>0, <2>1, <2>2, MeasuresSets DEF SameKinds
  <2>3. CASE Fails(asked)
    BY <1>0, <2>1, <2>3, FailsSets DEF SameKinds
  <2> QED
    BY <1>1, <1>3, <2>1, <2>2, <2>3 DEF PullUp
<1>4. ASSUME NEW d \in Devices, Unplug(d) PROVE SameKinds
  BY <1>0, <1>4, UnplugSets DEF Unplug, BusChanges, SameKinds
<1>5. ASSUME NEW d \in Devices, SensorMeasures(d) PROVE SameKinds
  BY <1>0, <1>5, MeasuresSets DEF SensorMeasures, wire, SameKinds
<1>6. CASE Outside
  BY <1>1, <1>4, <1>5, <1>6 DEF Outside, World, Short, Plug, BusChanges
<1>7. CASE Read
  BY <1>1, <1>2, <1>3, <1>7
     DEF Read, ReadTemp, Poll, Waited, EndConversion, ReadScratchpad, Judge,
         Settle, Finish, wire
<1>8. CASE FindDevice
  BY <1>1, <1>8 DEF FindDevice, InitSensor, Probe, LearnRom, LearnPower, wire
<1>9. ASSUME ~Outside, ~Read, ~FindDevice PROVE UNCHANGED <<program, sensor>>
  BY <1>9 DEF Next, AppMain, Boot, InitNext, InitDone, StartReading, Call,
              ReadNull, Send, Publish, NextTurn, vars, dsVars, wire
<1> QED
  BY <1>1, <1>6, <1>7, <1>8, <1>9

(* The bus changes, and every device is disturbed; or a sensor measures.   *)
LEMMA WorldSteps ==
    ASSUME World
    PROVE  \/ /\ disturbed' = Devices /\ program' = program
              /\ measured' = measured
           \/ \E d \in Devices : SensorMeasures(d)
  BY DEF World, Short, Plug, Unplug, BusChanges

-------------------------------------------------------------------------------
(* Who listens. *)
LEMMA ListenAgain == Reset /\ UNCHANGED wire => ListenInv'
  BY DEF Reset, wire, ListenInv

LEMMA ListenSame ==
    ListenInv /\ UNCHANGED <<wire, listening, clean, disturbed>> => ListenInv'
  BY SameDevices DEF ListenInv, wire

LEMMA InitListen == Init => ListenInv
  BY DEF Init, DsInit, ListenInv

LEMMA NextListen == ListenInv /\ [Next]_vars => ListenInv'
<1> SUFFICES ASSUME ListenInv, [Next]_vars PROVE ListenInv'
  OBVIOUS
<1>1. CASE Boot \/ StartConversion \/ ReadScratchpad
  <2>1. ~clean'
    BY <1>1 DEF Boot, StartConversion, ReadScratchpad, Command
  <2> QED
    BY <2>1 DEF ListenInv
<1>2. CASE \/ Probe \/ LearnRom \/ LearnPower
           \/ EndConversion \/ Judge \/ Finish
  BY <1>2, ListenAgain
     DEF Probe, LearnRom, LearnPower, EndConversion, Judge, Settle, Finish
<1>3. CASE InitNext \/ InitDone \/ StartReading \/ NextTurn \/ PullUp \/ Poll
  BY <1>3, ListenSame
     DEF InitNext, InitDone, StartReading, Call, NextTurn, PullUp, Poll, Waited
<1>4. CASE UNCHANGED dsVars
  BY <1>4, ListenSame DEF dsVars, driverVars
<1>5. CASE Outside
  <2>1. CASE disturbed' = Devices /\ program' = program
    BY <2>1, SameDevices DEF ListenInv
  <2>2. ASSUME NEW d \in Devices, SensorMeasures(d) PROVE ListenInv'
    BY <2>2, ListenSame DEF SensorMeasures, driverVars
  <2> QED
    BY <1>5, <2>1, <2>2, WorldSteps DEF Outside
<1> QED
  BY <1>1, <1>2, <1>3, <1>4, <1>5
     DEF Next, AppMain, FindDevice, InitSensor, Read, ReadTemp, ReadNull, Send,
         Publish, vars

(* So a sensor on a sound wire hears the address that is sent to it.       *)
LEMMA AddressReaches ==
    ASSUME TypeOK, ListenInv, clean, Untouched, Present
    PROVE  Reached
  BY DEF TypeOK, DsTypeOK, ListenInv, Untouched, Present, Reached
-------------------------------------------------------------------------------
(* What dev->power tells. *)
LEMMA InitPower == Init => PowerInv
  BY DEF Init, DsInit, PowerInv, SupplyKnown

LEMMA PowerSame ==
    ASSUME TypeOK, PowerInv, SameKinds,
           UNCHANGED <<shorted, plugged, asked, dev, disturbed>>,
           at' \in {"init", "found"} => at' = at,
           pc' \notin {"convert", "poll", "pullup"}
    PROVE  PowerInv'
  BY SameDevices DEF TypeOK, DsTypeOK, PowerInv, SupplyKnown, SameKinds, KindsKept

LEMMA FindDevicePower ==
    ASSUME TypeOK, ControlInv, ListenInv, PowerInv, SameKinds, FindDevice
    PROVE  PowerInv'
<1>0. /\ at = "init" /\ at' \in {"init", "found"}
      /\ \A d \in Devices : d >= asked => dev[d] = "null"
      /\ asked \in Devices /\ Devices' = Devices /\ Devices \subseteq Nat
      /\ dev \in [Devices -> {"null", "parasite", "other"}]
  BY SameDevices, DevicesAreKnown
     DEF FindDevice, PowerInv, TypeOK, DsTypeOK, SameKinds
<1>1. CASE Probe
  <2>1. /\ UNCHANGED <<shorted, plugged, asked, dev>>
        /\ disturbed' = disturbed \ {asked}
        /\ pc' \notin {"convert", "poll", "pullup"}
    BY <1>1 DEF Probe, wire
  <2>2. dev[asked] = "null"
    BY <1>0
  <2>3. SupplyKnown'
    BY <1>0, <2>1, <2>2 DEF PowerInv, SupplyKnown, SameKinds, KindsKept
  <2> QED
    BY <1>0, <2>1, <2>3 DEF PowerInv
<1>2. CASE LearnRom
  <2>1. /\ UNCHANGED <<shorted, plugged, asked, dev, disturbed>>
        /\ pc' \notin {"convert", "poll", "pullup"}
    BY <1>2 DEF LearnRom, wire
  <2>2. SupplyKnown'
    BY <1>0, <2>1 DEF PowerInv, SupplyKnown, SameKinds, KindsKept
  <2> QED
    BY <1>0, <2>1, <2>2 DEF PowerInv
<1>3. CASE LearnPower
  <2>1. /\ UNCHANGED <<shorted, plugged, asked>>
        /\ pc' = "ready" /\ at' = "found"
    BY <1>3 DEF LearnPower, FindDevice, wire
  <2>2. PICK power \in {"parasite", "other"} :
            /\ dev' = [dev EXCEPT ![asked] = power]
            /\ IF SaysParasite /\ power = "other"
               THEN disturbed' = disturbed \union {asked}
               ELSE disturbed' = disturbed
    BY <1>3 DEF LearnPower
  <2>3. clean
    BY <1>3 DEF LearnPower, ControlInv, CleanInv, ResetBeforeAddress
  <2>4. ASSUME asked \notin disturbed', ~shorted, Present, sensor[asked].parasite
        PROVE  dev'[asked] = "parasite"
    <3>1. Untouched
      BY <2>2, <2>4 DEF Untouched, Present
    <3>2. SaysParasite
      BY <2>3, <2>4, <3>1, AddressReaches DEF SaysParasite
    <3> QED
      BY <1>0, <2>2, <2>4, <3>2
  <2>5. \A d \in Devices : d # asked => dev'[d] = dev[d]
    BY <1>0, <2>2
  <2>6. SupplyKnown'
    <3> SUFFICES ASSUME NEW d \in Devices, d \notin disturbed', ~shorted,
                        d \in plugged, sensor[d].parasite, dev'[d] # "null"
                 PROVE  dev'[d] = "parasite"
      BY <1>0, <2>1 DEF SupplyKnown, SameKinds, KindsKept
    <3>1. CASE d = asked
      BY <2>4, <3>1 DEF Present
    <3>2. CASE d # asked
      BY <2>2, <2>5, <3>2 DEF PowerInv, SupplyKnown
    <3> QED
      BY <3>1, <3>2
  <2> QED
    BY <1>0, <2>1, <2>5, <2>6 DEF PowerInv
<1> QED
  BY <1>1, <1>2, <1>3 DEF FindDevice, InitSensor

LEMMA NextPower ==
    TypeOK /\ ControlInv /\ ListenInv /\ PowerInv /\ [Next]_vars => PowerInv'
<1> SUFFICES ASSUME TypeOK, ControlInv, ListenInv, PowerInv, [Next]_vars
             PROVE  PowerInv'
  OBVIOUS
<1>0. /\ SameKinds /\ Devices' = Devices /\ Devices \subseteq Nat
      /\ asked \in Devices /\ dev \in [Devices -> {"null", "parasite", "other"}]
  BY KindsStay, SameDevices, DevicesAreKnown DEF SameKinds, TypeOK, DsTypeOK
<1>1. CASE Boot
  BY <1>0, <1>1 DEF Boot, PowerInv, SupplyKnown
<1>2. CASE FindDevice
  BY <1>0, <1>2, FindDevicePower
<1>3. CASE InitNext
  <2>1. /\ at = "found" /\ at' = "init" /\ asked' = asked + 1 /\ pc' = "none"
        /\ UNCHANGED <<shorted, plugged, dev, disturbed>>
    BY <1>3 DEF InitNext, wire
  <2>2. \A d \in Devices : d >= asked' => dev'[d] = "null"
    BY <1>0, <2>1 DEF PowerInv
  <2> QED
    BY <1>0, <2>1, <2>2 DEF PowerInv, SupplyKnown, SameKinds, KindsKept
<1>4. CASE InitDone
  <2>1. /\ at' \in {"off", "read"} /\ pc' = "ready"
        /\ UNCHANGED <<shorted, plugged, dev, disturbed>>
    BY <1>4 DEF InitDone, wire
  <2> QED
    BY <1>0, <2>1 DEF PowerInv, SupplyKnown, SameKinds, KindsKept
<1>5. CASE StartReading
  <2>1. /\ at = "read" /\ at' = "read" /\ pc' = "convert" /\ dev[asked] # "null"
        /\ UNCHANGED <<shorted, plugged, asked, dev, disturbed>>
    BY <1>5 DEF StartReading, Call, wire
  <2> QED
    BY <1>0, <2>1 DEF PowerInv, SupplyKnown, SameKinds, KindsKept
<1>6. CASE Read
  <2>1. at = "read" /\ at' \in {"read", "report"}
    BY <1>6 DEF Read
  <2>2. CASE StartConversion
    <3>1. /\ pc = "convert"
          /\ pc' = IF dev[asked] = "parasite" THEN "pullup" ELSE "poll"
          /\ UNCHANGED <<shorted, plugged, asked, dev, disturbed>>
      BY <2>2 DEF StartConversion, wire
    <3>2. /\ pc' = "poll" => dev[asked] = "other"
          /\ pc' = "pullup" => dev[asked] = "parasite"
      BY <1>0, <3>1 DEF PowerInv
    <3> QED
      BY <1>0, <2>1, <3>1, <3>2 DEF PowerInv, SupplyKnown, SameKinds, KindsKept
  <2>3. CASE ~StartConversion
    <3>1. /\ pc' \notin {"convert", "poll", "pullup"}
          /\ UNCHANGED <<shorted, plugged, asked, dev, disturbed>>
      BY <1>6, <2>3, JudgeEnds
         DEF Read, ReadTemp, PullUp, Poll, Waited, EndConversion, ReadScratchpad,
             Finish, Returns, wire
    <3> QED
      BY <1>0, <2>1, <3>1, PowerSame
  <2> QED
    BY <2>2, <2>3
<1>7. CASE NextTurn
  <2>1. /\ at' = "read" /\ pc' = "ready"
        /\ UNCHANGED <<shorted, plugged, dev, disturbed>>
    BY <1>7 DEF NextTurn, wire, ControlInv, Stage
  <2> QED
    BY <1>0, <2>1 DEF PowerInv, SupplyKnown, SameKinds, KindsKept
<1>8. CASE Outside
  <2>1. UNCHANGED <<asked, pc, dev, at>>
    BY <1>8, WorldLeavesDriver DEF Outside
  <2>2. CASE disturbed' = Devices
    BY <1>0, <2>1, <2>2 DEF PowerInv, SupplyKnown
  <2>3. ASSUME NEW d \in Devices, SensorMeasures(d) PROVE PowerInv'
    <3>1. UNCHANGED <<shorted, plugged, disturbed>>
      BY <2>3 DEF SensorMeasures, wire
    <3> QED
      BY <1>0, <2>1, <3>1 DEF PowerInv, SupplyKnown, SameKinds, KindsKept
  <2> QED
    BY <1>8, <2>2, <2>3, WorldSteps DEF Outside
<1>9. ASSUME UNCHANGED dsVars, at' \in {at, "off", "pause"} PROVE PowerInv'
  <2>1. UNCHANGED <<shorted, plugged, asked, dev, disturbed, pc>>
    BY <1>9 DEF dsVars, driverVars, wire
  <2> QED
    BY <1>0, <1>9, <2>1 DEF PowerInv, SupplyKnown, SameKinds, KindsKept
<1> QED
  BY <1>1, <1>2, <1>3, <1>4, <1>5, <1>6, <1>7, <1>8, <1>9
     DEF Next, AppMain, ReadNull, Send, Publish, vars
-------------------------------------------------------------------------------
(* The measurement and what is heard of it. *)
(* What all the steps need that leave the device in hand alone.            *)
LEMMA AskedKinds ==
    ASSUME SameKinds, asked \in Devices, asked' = asked
    PROVE  /\ sensor'[asked].family = sensor[asked].family
           /\ sensor'[asked].parasite = sensor[asked].parasite
           /\ \A t : InRange(t)' = InRange(t)
           /\ dev' = dev => PullUpMayFail' = PullUpMayFail
  BY DEF SameKinds, KindsKept, PullUpMayFail, InRange

(* Nothing is claimed of a reading that has not begun. *)
LEMMA NoReading ==
    ASSUME heard' = Unset, value' = Unset,
           pc' \in {"none", "rom", "power", "ready", "convert"}
    PROVE  ReadingInv'
  BY DEF ReadingInv, MeasureInv, HeardInv, ValueInv

LEMMA InitReading == Init => ReadingInv
  BY DEF Init, DsInit, ReadingInv, MeasureInv, HeardInv, ValueInv

LEMMA StartConversionReading ==
    ASSUME TypeOK, ControlInv, ListenInv, PowerInv, ReadingInv, SameKinds,
           StartConversion
    PROVE  ReadingInv'
<1>0. /\ asked \in Devices /\ DsTypeOK
      /\ pc = "convert" /\ pc' \in {"pullup", "poll"}
      /\ UNCHANGED <<shorted, plugged, asked, dev, heard, value, measured, disturbed>>
  BY DEF StartConversion, wire, call, TypeOK, DsTypeOK
<1>1. value = Unset /\ clean
  BY <1>0 DEF ControlInv, Reporting, CleanInv, ResetBeforeAddress
<1>2. ASSUME Untouched, Present PROVE sensor'[asked].busy
  <2>1. Reached
    BY <1>1, <1>2, AddressReaches
  <2>2. sensor[asked].parasite => dev[asked] = "parasite"
    BY <1>0, <1>2 DEF PowerInv, SupplyKnown, Untouched, Present
  <2> QED
    BY <1>0, <2>1, <2>2, ConversionStarts
<1>3. MeasureInv'
  BY <1>0, <1>2 DEF MeasureInv, Untouched, Present
<1>4. HeardInv'
  BY <1>0, <1>1 DEF ReadingInv, HeardInv, Untouched, Present
<1>5. ValueInv'
  BY <1>0, <1>1 DEF ReadingInv, ValueInv
<1> QED
  BY <1>3, <1>4, <1>5 DEF ReadingInv

LEMMA PullUpReading ==
    ASSUME TypeOK, ControlInv, PowerInv, ReadingInv, SameKinds, PullUp
    PROVE  ReadingInv'
<1>0. /\ asked \in Devices /\ sensor \in [Devices -> Sensors]
      /\ pc = "pullup" /\ pc' = "converted"
      /\ UNCHANGED <<shorted, plugged, asked, dev, heard, value, disturbed>>
  BY DEF PullUp, wire, call, TypeOK, DsTypeOK
<1>1. value = Unset
  BY <1>0 DEF ControlInv, Reporting
<1>2. ASSUME Untouched, Present, ~PullUpMayFail PROVE measured'
  <2>1. sensor[asked].busy \/ measured
    BY <1>0, <1>2 DEF ReadingInv, MeasureInv
  <2>2. asked \notin Slow \union disturbed
    <3>1. dev[asked] = "parasite"
      BY <1>0 DEF PowerInv
    <3> QED
      BY <1>2, <3>1 DEF Untouched, PullUpMayFail
  <2>3. Measures(asked) => measured'
    BY DEF Measures
  <2>4. ~sensor[asked].busy /\ UNCHANGED measured => measured'
    BY <2>1
  <2> QED
    BY <2>2, <2>3, <2>4 DEF PullUp
<1>3. MeasureInv'
  BY <1>0, <1>2, AskedKinds DEF MeasureInv, Untouched, Present
<1>4. HeardInv'
  BY <1>0, <1>1 DEF ReadingInv, HeardInv, Untouched, Present
<1>5. ValueInv'
  BY <1>0, <1>1 DEF ReadingInv, ValueInv
<1> QED
  BY <1>3, <1>4, <1>5 DEF ReadingInv

LEMMA PollReading ==
    ASSUME TypeOK, ControlInv, PowerInv, ReadingInv, SameKinds, Poll
    PROVE  ReadingInv'
<1>0. /\ asked \in Devices
      /\ pc = "poll" /\ pc' = "converted" /\ ~Busy
      /\ UNCHANGED <<shorted, plugged, asked, dev, heard, value, measured, disturbed>>
  BY DEF Poll, Waited, wire, call, TypeOK, DsTypeOK
<1>1. value = Unset
  BY <1>0 DEF ControlInv, Reporting
<1>2. ASSUME Untouched, Present PROVE measured
  <2>1. dev[asked] = "other"
    BY <1>0 DEF PowerInv
  <2>2. ~sensor[asked].parasite
    BY <1>0, <1>2, <2>1 DEF PowerInv, SupplyKnown, Untouched, Present
  <2>3. ~sensor[asked].busy
    BY <1>0, <1>2, <2>2 DEF Busy, Present
  <2> QED
    BY <1>0, <1>2, <2>3 DEF ReadingInv, MeasureInv
<1>3. MeasureInv'
  BY <1>0, <1>2 DEF MeasureInv, Untouched, Present
<1>4. HeardInv'
  BY <1>0, <1>1 DEF ReadingInv, HeardInv, Untouched, Present
<1>5. ValueInv'
  BY <1>0, <1>1 DEF ReadingInv, ValueInv
<1> QED
  BY <1>3, <1>4, <1>5 DEF ReadingInv

(* The reset after the conversion, and the last one. *)
LEMMA EndsReading ==
    ASSUME TypeOK, ControlInv, ReadingInv, SameKinds, EndConversion \/ Finish
    PROVE  ReadingInv'
<1>0. /\ asked \in Devices
      /\ pc \in {"converted", "decoded"} /\ pc' \in {"read", "ready"}
      /\ UNCHANGED <<program, shorted, plugged, sensor, asked, dev, scratchpad,
                     heard, value, measured, disturbed>>
  BY DEF EndConversion, Finish, Returns, wire, TypeOK, DsTypeOK
<1>3. MeasureInv'
  BY <1>0, AskedKinds DEF ReadingInv, MeasureInv, Untouched, Present
<1>4. HeardInv'
  BY <1>0, AskedKinds DEF ReadingInv, HeardInv, Untouched, Present
<1>5. ValueInv'
  BY <1>0, AskedKinds DEF ReadingInv, ValueInv
<1> QED
  BY <1>3, <1>4, <1>5 DEF ReadingInv

LEMMA ReadScratchpadReading ==
    ASSUME TypeOK, ControlInv, ListenInv, ReadingInv, SameKinds, ReadScratchpad
    PROVE  ReadingInv'
<1>0. /\ asked \in Devices /\ sensor \in [Devices -> Sensors]
      /\ pc = "read" /\ pc' = "padRead"
      /\ UNCHANGED <<program, shorted, plugged, sensor, asked, dev, value,
                     measured, disturbed>>
  BY DEF ReadScratchpad, wire, TypeOK, DsTypeOK
<1>1. value = Unset /\ clean
  BY <1>0 DEF ControlInv, Reporting, CleanInv, ResetBeforeAddress
<1>2. heard' # Unset =>
        scratchpad' \in Delivered[sensor[asked].family][heard'] /\ Reached
  BY DEF ReadScratchpad
<1>3. MeasureInv'
  BY <1>0, AskedKinds DEF ReadingInv, MeasureInv, Untouched, Present
<1>4. HeardInv'
  <2>1. ASSUME Untouched PROVE /\ heard' # Unset => Present
                               /\ scratchpad' # Ones => heard' # Unset
    <3>1. sensor[asked].pad # Unset
      BY <1>0, PadStays, PadsAre
    <3>2. Reached => Present
      BY DEF Reached, TypeOK, DsTypeOK, Present
    <3> QED
      BY <2>1, <3>1, <3>2 DEF ReadScratchpad, Untouched
  <2> QED
    BY <1>0, <1>1, <2>1 DEF HeardInv, Untouched, Present
<1>5. ValueInv'
  BY <1>0, <1>1, <1>2 DEF ValueInv
<1> QED
  BY <1>3, <1>4, <1>5 DEF ReadingInv

LEMMA JudgeReading ==
    ASSUME TypeOK, ControlInv, ReadingInv, SameKinds, Judge
    PROVE  ReadingInv'
<1>0. /\ asked \in Devices /\ sensor \in [Devices -> Sensors]
      /\ heard \in Pads \union {Unset}
      /\ pc = "padRead" /\ pc' \in {"ready", "decoded"}
      /\ UNCHANGED <<program, shorted, plugged, sensor, asked, dev, heard,
                     measured, disturbed>>
  BY JudgeEnds DEF TypeOK, DsTypeOK
<1>1. value = Unset
  BY <1>0 DEF ControlInv, Reporting
<1>2. ASSUME value' # Unset
      PROVE  /\ Verdict(scratchpad) = "ok" /\ scratchpad # Ones
             /\ value' = Decode(sensor[asked].family, scratchpad)
  BY <1>1, <1>2, JudgeEnds DEF Verdict
<1>3. MeasureInv'
  BY <1>0, AskedKinds DEF ReadingInv, MeasureInv, Untouched, Present
<1>4. HeardInv'
  BY <1>0, <1>2, AskedKinds
     DEF ReadingInv, HeardInv, MeasureInv, Untouched, Present
<1>5. ValueInv'
  <2>1. ASSUME heard # Unset, value' # Unset, InRange(heard)
        PROVE  value' = heard
    <3>1. heard \in Pads /\ sensor[asked].family \in Families
      BY <1>0, <2>1 DEF Sensors
    <3>2. scratchpad \in Delivered[sensor[asked].family][heard]
      BY <1>0, <2>1 DEF ReadingInv, ValueInv
    <3>3. scratchpad = PadOf(sensor[asked].family, heard)
      BY <1>0, <1>2, <2>1, <3>1, <3>2, DeliveredAre
    <3> QED
      BY <1>2, <2>1, <3>1, <3>3, DecodeInvertsPadOf DEF InRange
  <2> QED
    BY <1>0, <2>1, AskedKinds DEF ValueInv
<1> QED
  BY <1>3, <1>4, <1>5 DEF ReadingInv
(* The world either disturbs the asked device, or lets a sensor measure.   *)
LEMMA WorldReading ==
    ASSUME TypeOK, ReadingInv, SameKinds, World
    PROVE  ReadingInv'
<1>0. /\ asked \in Devices /\ sensor \in [Devices -> Sensors]
      /\ UNCHANGED <<asked, pc, dev, scratchpad, value, heard>>
  BY WorldLeavesDriver DEF TypeOK, DsTypeOK
<1>1. ValueInv'
  BY <1>0, AskedKinds DEF ReadingInv, ValueInv
<1>2. CASE disturbed' = Devices
  <2>1. ~Untouched'
    BY <1>0, <1>2 DEF Untouched
  <2> QED
    BY <1>1, <2>1 DEF ReadingInv, MeasureInv, HeardInv
<1>3. ASSUME NEW d \in Devices, SensorMeasures(d) PROVE ReadingInv'
  <2>1. /\ UNCHANGED <<shorted, plugged, disturbed>>
        /\ Measures(d)
    BY <1>3 DEF SensorMeasures, wire
  <2>2. /\ d = asked => measured'
        /\ measured => measured'
    BY <2>1 DEF Measures
  <2>3. d # asked => sensor'[asked] = sensor[asked]
    BY <1>0, <2>1, MeasuresSets DEF OthersKept
  <2>4. MeasureInv'
    BY <1>0, <2>1, <2>2, <2>3, AskedKinds
       DEF ReadingInv, MeasureInv, Untouched, Present
  <2>5. HeardInv'
    BY <1>0, <2>1, <2>2, AskedKinds DEF ReadingInv, HeardInv, Untouched, Present
  <2> QED
    BY <1>1, <2>4, <2>5 DEF ReadingInv
<1> QED
  BY <1>2, <1>3, WorldSteps

LEMMA NextReading ==
    /\ TypeOK /\ ControlInv /\ ListenInv /\ PowerInv /\ ReadingInv
    /\ [Next]_vars
    => ReadingInv'
<1> SUFFICES ASSUME TypeOK, ControlInv, ListenInv, PowerInv, ReadingInv,
                    [Next]_vars
             PROVE  ReadingInv'
  OBVIOUS
<1>0. SameKinds
  BY KindsStay
<1>1. CASE Boot \/ NextTurn
  BY <1>1, NoReading DEF Boot, NextTurn, ControlInv, Stage
<1>2. CASE FindDevice
  <2>1. /\ UNCHANGED <<value, heard>> /\ at = "init"
        /\ pc' \in {"none", "rom", "power", "ready"}
    BY <1>2 DEF FindDevice, InitSensor, Probe, LearnRom, LearnPower, call
  <2> QED
    BY <2>1, NoReading DEF ControlInv, Reporting
<1>3. CASE InitNext \/ InitDone
  <2>1. /\ UNCHANGED <<value, heard>> /\ at = "found"
        /\ pc' \in {"none", "ready"}
    BY <1>3 DEF InitNext, InitDone, call
  <2> QED
    BY <2>1, NoReading DEF ControlInv, Reporting
<1>4. CASE StartReading
  BY <1>4, NoReading DEF StartReading, Call
<1>5. CASE Read
  BY <1>0, <1>5, StartConversionReading, PullUpReading, PollReading, EndsReading,
     ReadScratchpadReading, JudgeReading DEF Read, ReadTemp
<1>6. CASE Outside
  BY <1>0, <1>6, WorldReading DEF Outside
<1>7. CASE UNCHANGED dsVars
  <2>1. UNCHANGED <<program, shorted, plugged, sensor, asked, pc, dev, scratchpad,
                    value, heard, measured, disturbed>>
    BY <1>7 DEF dsVars, wire, driverVars, call
  <2>2. asked \in Devices
    BY DEF TypeOK, DsTypeOK
  <2>3. MeasureInv'
    BY <1>0, <2>1, <2>2, AskedKinds DEF ReadingInv, MeasureInv, Untouched, Present
  <2>4. HeardInv'
    BY <1>0, <2>1, <2>2, AskedKinds DEF ReadingInv, HeardInv, Untouched, Present
  <2>5. ValueInv'
    BY <1>0, <2>1, <2>2, AskedKinds DEF ReadingInv, ValueInv
  <2> QED
    BY <2>3, <2>4, <2>5 DEF ReadingInv
<1> QED
  BY <1>1, <1>2, <1>3, <1>4, <1>5, <1>6, <1>7
     DEF Next, AppMain, ReadNull, Send, Publish, vars

-------------------------------------------------------------------------------
LEMMA Invariance == Spec => []IInv
<1>1. Init => IInv
  BY InitTypeOK, InitControl, InitListen, InitPower, InitReading
     DEF IInv
<1>2. IInv /\ [Next]_vars => IInv'
  BY NextTypeOK, NextControl, NextListen, NextPower, NextReading
     DEF IInv
<1> QED
  BY <1>1, <1>2, PTL DEF Spec

(* What is reported is the temperature in the scratchpad of the sensor     *)
(* that was asked, in the range its kind and the copy of the driver read   *)
(* right: no disturbed bit passes, and negative temperatures have their    *)
(* sign.                                                                   *)
THEOREM ReportIsRight == Spec => []ValueRight
<1>1. IInv => ValueRight
  BY DEF IInv, ControlInv, Reporting, ReadingInv, ValueInv, ValueRight
<1> QED
  BY <1>1, Invariance, PTL

(* On a wire that has been left alone since ds1820_init, whose power bit   *)
(* was read right, a report tells a temperature measured for it, however   *)
(* malloc left dev->power - but for a slow sensor that is given the strong *)
(* pull-up, with a supply of its own or without.                           *)
THEOREM ReportIsFresh == Spec => []FreshReading
<1>1. IInv => FreshReading
  BY DEF IInv, ControlInv, Reporting, ReadingInv, HeardInv, Untouched,
         FreshReading
<1> QED
  BY <1>1, Invariance, PTL
===============================================================================
