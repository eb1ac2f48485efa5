---------------------------- MODULE PrintedCodes ----------------------------
(***************************************************************************)
(* sheets/uid_code.py and core/uid.py: what is printed in the cells of a   *)
(* page's grid and what comes back from them.  Layout v1 names a pupil     *)
(* under a CRC-8; v2 also the page, the year and the render, under a       *)
(* CRC-16.                                                                 *)
(***************************************************************************)
EXTENDS Integers, Sequences

CONSTANT Unreadable   \* what an inconsistent grid decodes to

LetterAbsent == 26
CantonUnset == 31

\* A UID: the school year of the class, its one or two letters, the number.
Uids == [year : 1 .. 15, letter1 : 0 .. 25, letter2 : 0 .. LetterAbsent,
         number : 1 .. 99]
WellFormed(u) == u \in Uids

\* Most significant bit first.
Halves(value, width) ==
    LET halved[n \in 0 .. width] ==
          IF n = 0 THEN value ELSE halved[n - 1] \div 2
    IN halved

Bits(value, width) == [k \in 1 .. width |-> Halves(value, width)[width - k] % 2]

ValueUpTo(bits) ==
    LET upTo[k \in 0 .. Len(bits)] ==
          IF k = 0 THEN 0 ELSE 2 * upTo[k - 1] + bits[k]
    IN upTo

Value(bits) == ValueUpTo(bits)[Len(bits)]

\* A shift register is the set of its bits that are on, counted from the least
\* significant, as is the polynomial; exclusive or takes one from the other.
Xor(a, b) == (a \ b) \union (b \ a)

Doubled(register, width) == {n + 1 : n \in register} \ {width}

Shift(register, bit, width, poly) ==
    IF (width - 1 \in register) = (bit = 1) THEN Doubled(register, width)
    ELSE Xor(Doubled(register, width), poly)

Registers(bits, start, width, poly) ==
    LET after[k \in 0 .. Len(bits)] ==
          IF k = 0 THEN start ELSE Shift(after[k - 1], bits[k], width, poly)
    IN after

Crc(bits, start, width, poly) == Registers(bits, start, width, poly)[Len(bits)]

\* The checksum as it is printed, and as it is read.
Cells(register, width) ==
    [k \in 1 .. width |-> IF width - k \in register THEN 1 ELSE 0]
Register(bits) == {Len(bits) - k : k \in {n \in DOMAIN bits : bits[n] = 1}}

\* x^8 + x^2 + x + 1 from zero, and x^16 + x^12 + x^5 + 1 from all ones.
Crc8(bits) == Crc(bits, {}, 8, {0, 1, 2})
Crc16(bits) == Crc(bits, 0 .. 15, 16, {0, 5, 12})

-----------------------------------------------------------------------------
(* Layout v1                                                               *)

UidBits(u) == Bits(u.year, 4) \o Bits(u.letter1, 5) \o Bits(u.letter2, 5)
                \o Bits(u.number, 7)

EncodeUid(u) ==
    LET payload == UidBits(u) \o <<0, 0, 0>>
    IN payload \o Cells(Crc8(payload), 8)

UidOf(bits) == [year |-> Value(SubSeq(bits, 1, 4)),
                letter1 |-> Value(SubSeq(bits, 5, 9)),
                letter2 |-> Value(SubSeq(bits, 10, 14)),
                number |-> Value(SubSeq(bits, 15, 21))]

DecodeUid(bits) ==
    IF Crc8(SubSeq(bits, 1, 24)) = Register(SubSeq(bits, 25, 32))
       /\ WellFormed(UidOf(bits))
    THEN UidOf(bits) ELSE Unreadable

-----------------------------------------------------------------------------
(* Layout v2                                                               *)

\* Pages count from one on paper and from zero in the four bits.
EncodePageCode(c) ==
    LET payload == UidBits(c.uid) \o Bits(c.schoolYear, 3)
                     \o Bits(c.page - 1, 4) \o Bits(c.canton, 5)
                     \o Bits(c.nonce, 23)
    IN payload \o Cells(Crc16(payload), 16)

PageCodeOf(bits) == [uid |-> UidOf(bits),
                     schoolYear |-> Value(SubSeq(bits, 22, 24)),
                     page |-> Value(SubSeq(bits, 25, 28)) + 1,
                     canton |-> Value(SubSeq(bits, 29, 33)),
                     nonce |-> Value(SubSeq(bits, 34, 56))]

\* Faulty variant: the fields are checked, the checksum is not.
DecodeAnyPageCode(bits) ==
    IF WellFormed(UidOf(bits)) THEN PageCodeOf(bits) ELSE Unreadable

DecodePageCode(bits) ==
    IF Crc16(SubSeq(bits, 1, 56)) = Register(SubSeq(bits, 57, 72))
       /\ WellFormed(UidOf(bits))
    THEN PageCodeOf(bits) ELSE Unreadable

-----------------------------------------------------------------------------
(* A photocopy: up to two cells are read as the opposite of what was       *)
(* printed                                                                 *)

Misread(bits, cells) ==
    [k \in DOMAIN bits |-> IF k \in cells THEN 1 - bits[k] ELSE bits[k]]

Misreads(bits) ==
    {Misread(bits, d) : d \in {{}} \union {{j, k} : j, k \in DOMAIN bits}}

ReadsOfUid(u) == {DecodeUid(bits) : bits \in Misreads(EncodeUid(u))}

ReadsOfPageCode(c) ==
    {DecodePageCode(bits) : bits \in Misreads(EncodePageCode(c))}
=============================================================================
