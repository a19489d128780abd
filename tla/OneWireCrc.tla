------------------------------ MODULE OneWireCrc ------------------------------
(***************************************************************************)
(* crc8 of ds1820.c, as it computes, and the code it is meant to compute:  *)
(* the remainder of a message by x^8 + x^5 + x^4 + 1.  Bytes travel and    *)
(* are processed with their least significant bit first.                   *)
(***************************************************************************)
EXTENDS Integers, Sequences

Bytes == 0 .. 255

BitOf(byte, k) == (byte \div 2^k) % 2

(* The bits of a message in the order of the wire. *)
Bits(bytes) ==
    [n \in 1 .. 8 * Len(bytes) |-> BitOf(bytes[(n - 1) \div 8 + 1], (n - 1) % 8)]

-------------------------------------------------------------------------------
(* crc8: the register, least significant bit first, moves one place and is *)
(* combined with the rotated polynomial 10001100 when the bit it loses     *)
(* differs from the bit of the message.                                    *)
Shift(crc, bit) ==
    LET moved == [k \in 1 .. 8 |-> IF k = 8 THEN 0 ELSE crc[k + 1]] IN
    IF crc[1] = bit THEN moved
    ELSE [k \in 1 .. 8 |-> (moved[k] + BitOf(140, k - 1)) % 2]

(* The byte of a register. *)
ByteOf(register) ==
    register[1] + 2 * register[2] + 4 * register[3] + 8 * register[4]
    + 16 * register[5] + 32 * register[6] + 64 * register[7] + 128 * register[8]

Crc8(bytes) ==
    LET bits == Bits(bytes)
        register[n \in 0 .. Len(bits)] ==
            IF n = 0 THEN [k \in 1 .. 8 |-> 0] ELSE Shift(register[n - 1], bits[n])
    IN  ByteOf(register[Len(bits)])

-------------------------------------------------------------------------------
(* The reference: polynomials over GF(2) as sets of exponents, whose sum   *)
(* is the symmetric difference.                                            *)
Plus(p, q) == (p \ q) \union (q \ p)
Divisor(e) == {e, e - 3, e - 4, e - 8}

(* Long division: the n highest exponents go, from the top.                *)
Reduced(p, e) == IF e \in p THEN Plus(p, Divisor(e)) ELSE p

Remainder(p, n) ==
    LET rest[k \in 0 .. n] ==
            IF k = 0 THEN p ELSE Reduced(rest[k - 1], n + 8 - k)
    IN  rest[n]

(* The message with eight zero bits after it; its first bit has the        *)
(* highest exponent.  The remainder is sent highest exponent first.        *)
Polynomial(bits) == {Len(bits) + 8 - k : k \in {j \in 1 .. Len(bits) : bits[j] = 1}}

MaximCrc(bytes) ==
    LET bits == Bits(bytes)
        r == Remainder(Polynomial(bits), Len(bits))
    IN  ByteOf([k \in 1 .. 8 |-> IF 8 - k \in r THEN 1 ELSE 0])

(* A message on the wire with the bits of a noise turned over. *)
Disturbed(bytes, noise) ==
    [i \in 1 .. Len(bytes) |->
        ByteOf([k \in 1 .. 8 |->
            LET bit == BitOf(bytes[i], k - 1) IN
            IF 8 * (i - 1) + k - 1 \in noise THEN 1 - bit ELSE bit])]
===============================================================================
