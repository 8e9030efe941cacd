----------------------------- MODULE Encodings -----------------------------
(***************************************************************************)
(* Functions from data to bytes and words, against what they are for.      *)
(*                                                                         *)
(* Integers as they are written to be read back and to be sorted:          *)
(* CompressedInt (flow/CompressedInt.h) and BinaryWriter::serializeAsTuple *)
(* (flow/serialize.h).  A byte has B bits and an integer W bytes; with     *)
(* small bytes the unary length of an encoding runs over several of them,  *)
(* as it does in the code for the largest integers.  A behaviour runs      *)
(* through all integers.                                                   *)
(*                                                                         *)
(* The hash functions of flow/Hash3.c: hashlittle, hashlittle2, hashbig,   *)
(* hashword and hashword2.  They read the key by bytes, by 16-bit or by    *)
(* 32-bit words, as its alignment and the machine allow, and must compute  *)
(* the same hash.  A 32-bit word is the pair of its high and low half.     *)
(* A state is a buffer and the length of the key at its start; a step      *)
(* takes one more byte of the buffer into the key.                         *)
(***************************************************************************)
EXTENDS Integers, Sequences, SequencesExt, Bitwise

CONSTANTS B, W

\* What the constants have to be.
EncodingsAssumption == B \in Nat /\ B >= 2 /\ W \in Nat \ {0}

VARIABLE x

Base == 2^B
MaxInt == 2^(B * W - 1) - 1
MinInt == -(2^(B * W - 1))

InitInt == x = MinInt
NextInt == x < MaxInt /\ x' = x + 1

-----------------------------------------------------------------------------
\* The n bits of v, and the integer they are; the bytes of a string of bits.
Bits(v, n) == [i \in 1..n |-> (v \div 2^(n - i)) % 2]
Value(bits) == FoldLeft(LAMBDA sum, bit : 2 * sum + bit, 0, bits)
Bytes(bits) == [k \in 1..(Len(bits) \div B) |-> Value(SubSeq(bits, B * (k - 1) + 1, B * k))]
Flip(bits) == [i \in DOMAIN bits |-> 1 - bits[i]]

(***************************************************************************)
(* CompressedInt::serialize, writing.  The value, its bits inverted if it  *)
(* is negative, gets as many leading ones as there are bytes (the sign bit *)
(* and a one for each further byte).                                       *)
(***************************************************************************)
bitlen(v) == CHOOSE n \in 0..(B * W) : v < 2^n /\ \A m \in 0..(n - 1) : v >= 2^m

encodedLen(v) == bitlen(v) \div (B - 1) + 1

WithHeader(v, len) == [i \in 1..(B * len) |-> IF i <= len THEN 1 ELSE Bits(v, B * len)[i]]

\* Fault: a negative value is written like its complement, but for the sign.
WrittenSignOnly(value) ==
    IF value < 0
    THEN [WithHeader(-value - 1, encodedLen(-value - 1)) EXCEPT ![1] = 0]
    ELSE WithHeader(value, encodedLen(value))

Written(value) ==
    IF value < 0 THEN Flip(WithHeader(-value - 1, encodedLen(-value - 1)))
    ELSE WithHeader(value, encodedLen(value))

CompressedInt(value) == Bytes(Written(value))

(***************************************************************************)
(* Reading: the first zero after the sign bit ends the ones; the bits of   *)
(* the byte it is in, and of the bytes that are left, are the value.       *)
(***************************************************************************)
bytesToRead(bits) == (CHOOSE i \in 2..Len(bits) : bits[i] = 0 /\ \A j \in 2..(i - 1) : bits[j] = 1) - 2

ReadPositive(bits) == Value(SubSeq(bits, bytesToRead(bits) + 3, B * (bytesToRead(bits) + 1)))

Read(bits) == IF bits[1] = 1 THEN ReadPositive(bits) ELSE -ReadPositive(Flip(bits)) - 1

-----------------------------------------------------------------------------
(***************************************************************************)
(* serializeAsTuple(int64_t): a byte that holds the sign and the length,   *)
(* and the bytes that are needed.                                          *)
(***************************************************************************)
bytesNeeded(val) == CHOOSE n \in 1..W : (n = W \/ val < Base^n) /\ \A m \in 1..(n - 1) : val >= Base^m

lowBytes(v, n) == [k \in 1..n |-> (v \div Base^(n - k)) % Base]

NegativeBytes(t) == lowBytes(t - 1 + Base^W, bytesNeeded(-t))

AsTuple(t) ==
    IF t = 0 THEN <<20>>
    ELSE IF t > 0 THEN <<20 + bytesNeeded(t)>> \o lowBytes(t, bytesNeeded(t))
    ELSE <<20 - bytesNeeded(-t)>> \o NegativeBytes(t)

-----------------------------------------------------------------------------
\* The order of byte strings.
Less(s, t) ==
    \/ Len(s) < Len(t) /\ IsPrefix(s, t)
    \/ \E n \in 1..Len(s) : /\ n <= Len(t) /\ s[n] < t[n]
                            /\ \A m \in 1..(n - 1) : s[m] = t[m]

(***************************************************************************)
(* An integer that was written is read back, and the encoding has as many  *)
(* bytes as the reader consumes.                                           *)
(***************************************************************************)
ReadsBack ==
    /\ Read(Written(x)) = x
    /\ Len(CompressedInt(x)) = bytesToRead(IF x < 0 THEN Flip(Written(x)) ELSE Written(x)) + 1

(***************************************************************************)
(* Encodings sort like the integers ("to maintain sort order in encoded    *)
(* form"), across the lengths and the sign.                                *)
(***************************************************************************)
SortsLikeIntegers == x < MaxInt => Less(CompressedInt(x), CompressedInt(x + 1))

(***************************************************************************)
(* So do the keys that serializeAsTuple makes.                             *)
(***************************************************************************)
TuplesSortLikeIntegers == x < MaxInt => Less(AsTuple(x), AsTuple(x + 1))

(***************************************************************************)
(* What the encodings are for.                                             *)
(***************************************************************************)
EncodingRight == ReadsBack /\ SortsLikeIntegers /\ TuplesSortLikeIntegers

-----------------------------------------------------------------------------
CONSTANTS Keys,      \* contents of the buffer
          Seeds      \* pairs of seeds, halves included: <<pc, pb>>

VARIABLES buffer, length, seed

H == 65536
Zero == <<0, 0>>
Add(u, v) == <<(u[1] + v[1] + ((u[2] + v[2]) \div H)) % H, (u[2] + v[2]) % H>>
Neg(u) == Add(<<H - 1 - u[1], H - 1 - u[2]>>, <<0, 1>>)
Sub(u, v) == Add(u, Neg(v))
XorWords(u, v) == <<u[1] ^^ v[1], u[2] ^^ v[2]>>
RotHalf(u, k) == <<((u[1] * 2^k) % H) + (u[2] \div 2^(16 - k)), ((u[2] * 2^k) % H) + (u[1] \div 2^(16 - k))>>
rot(u, k) == IF k >= 16 THEN RotHalf(<<u[2], u[1]>>, k - 16) ELSE RotHalf(u, k)

-----------------------------------------------------------------------------
(***************************************************************************)
(* mix and final, on the state <<a, b, c>>.  A line of mix is x -= z;      *)
(* x ^= rot(z, k); z += y, and one of final x ^= y; x -= rot(y, k).        *)
(***************************************************************************)
a == 1
b == 2
c == 3

MixLines == <<<<a, c, b, 4>>, <<b, a, c, 6>>, <<c, b, a, 8>>, <<a, c, b, 16>>, <<b, a, c, 19>>, <<c, b, a, 4>>>>

MixLine(s, l) == [s EXCEPT ![l[1]] = XorWords(Sub(s[l[1]], s[l[2]]), rot(s[l[2]], l[4])),
                           ![l[2]] = Add(s[l[2]], s[l[3]])]
mix(s) == FoldLeft(MixLine, s, MixLines)

FinalLines == <<<<c, b, 14>>, <<a, c, 11>>, <<b, a, 25>>, <<c, b, 16>>, <<a, c, 4>>, <<b, a, 14>>, <<c, b, 24>>>>
FinalLine(s, l) == [s EXCEPT ![l[1]] = Sub(XorWords(s[l[1]], s[l[2]]), rot(s[l[2]], l[3]))]
final(s) == FoldLeft(FinalLine, s, FinalLines)

-----------------------------------------------------------------------------
(***************************************************************************)
(* The bytes at an offset of the key: Little and Big make a word of four.  *)
(* A reader gives the word at offset o of which the key has n bytes; the   *)
(* rest of the buffer is not zero.                                         *)
(***************************************************************************)
ByteAt(o) == IF o < Len(buffer) THEN buffer[o + 1] ELSE 255
Little(x0, x1, x2, x3) == <<x2 + 256 * x3, x0 + 256 * x1>>
Big(x0, x1, x2, x3) == Little(x3, x2, x1, x0)
Within(o, i, n) == IF i < n THEN ByteAt(o + i) ELSE 0

\* One byte at a time.
LittleBytes(o, n) == Little(Within(o, 0, n), Within(o, 1, n), Within(o, 2, n), Within(o, 3, n))
BigBytes(o, n) == Big(Within(o, 0, n), Within(o, 1, n), Within(o, 2, n), Within(o, 3, n))

\* Words of 16 bits, as far as the key has whole ones.
Half(o) == ByteAt(o) + 256 * ByteAt(o + 1)

LittleHalves(o, n) ==
    CASE n = 0 -> Zero [] n = 1 -> <<0, ByteAt(o)>> [] n = 2 -> <<0, Half(o)>>
      [] n = 3 -> <<ByteAt(o + 2), Half(o)>> [] n = 4 -> <<Half(o + 2), Half(o)>>

\* Whole words of 32 bits, whose bytes beyond the key are masked off.
WordAt(big, o) == IF big THEN Big(ByteAt(o), ByteAt(o + 1), ByteAt(o + 2), ByteAt(o + 3))
                  ELSE Little(ByteAt(o), ByteAt(o + 1), ByteAt(o + 2), ByteAt(o + 3))
LowBytes(w, n) ==
    CASE n = 0 -> Zero [] n = 1 -> <<0, w[2] % 256>> [] n = 2 -> <<0, w[2]>>
      [] n = 3 -> <<w[1] % 256, w[2]>> [] n = 4 -> w
HighBytes(w, n) ==
    CASE n = 0 -> Zero [] n = 1 -> <<w[1] - (w[1] % 256), 0>> [] n = 2 -> <<w[1], 0>>
      [] n = 3 -> <<w[1], w[2] - (w[2] % 256)>> [] n = 4 -> w

\* The word at o, of which the key has n bytes, as the machine and the
\* alignment of the key let hashlittle and hashbig read it.
ReadLittle(big, align, o, n) ==
    IF ~big /\ align % 4 = 0 THEN LowBytes(WordAt(FALSE, o), n)
    ELSE IF ~big /\ align % 2 = 0 THEN LittleHalves(o, n)
    ELSE LittleBytes(o, n)
ReadBig(big, align, o, n) ==
    IF big /\ align % 4 = 0 THEN HighBytes(WordAt(TRUE, o), n) ELSE BigBytes(o, n)

-----------------------------------------------------------------------------
(***************************************************************************)
(* The loop: blocks of 12 bytes are mixed in, the last one, which may be   *)
(* whole, goes into final.  Reader(o, n) gives a word.                     *)
(***************************************************************************)
InWord(n, w) == IF n <= 4 * w THEN 0 ELSE IF n >= 4 * w + 4 THEN 4 ELSE n - 4 * w
AddBlock(Reader(_, _), s, o, n) == [w \in 1..3 |-> Add(s[w], Reader(o + 4 * (w - 1), InWord(n, w - 1)))]
WholeBlocks(len) == IF len = 0 THEN 0 ELSE (len - 1) \div 12

HashLoop(Reader(_, _), len, s0) ==
    LET Blocks(k) == [i \in 1..k |-> 12 * (i - 1)]
        whole == FoldLeft(LAMBDA s, o : mix(AddBlock(Reader, s, o, 12)), s0, Blocks(WholeBlocks(len)))
    IN IF len = 0 THEN s0
       ELSE final(AddBlock(Reader, whole, 12 * WholeBlocks(len), len - 12 * WholeBlocks(len)))

WordSeed(words) == 4 * words

DEADBEEF == <<57005, 48879>>
Seeded(len, pc, pb) ==
    LET s == Add(Add(DEADBEEF, <<0, len>>), pc) IN <<s, s, Add(s, pb)>>

hashlittle(big, align, len, initval) ==
    HashLoop(LAMBDA o, n : ReadLittle(big, align, o, n), len, Seeded(len, initval, Zero))[c]
hashbig(big, align, len, initval) ==
    HashLoop(LAMBDA o, n : ReadBig(big, align, o, n), len, Seeded(len, initval, Zero))[c]
hashword(big, words, initval) ==
    HashLoop(LAMBDA o, n : IF n = 0 THEN Zero ELSE WordAt(big, o), 4 * words,
             Seeded(WordSeed(words), initval, Zero))[c]

Results(s) == <<s[c], s[b]>>

\* The two results, *pc and *pb.
hashlittle2(big, align, len, pc, pb) ==
    Results(HashLoop(LAMBDA o, n : ReadLittle(big, align, o, n), len, Seeded(len, pc, pb)))
hashword2(big, words, pc, pb) ==
    Results(HashLoop(LAMBDA o, n : IF n = 0 THEN Zero ELSE WordAt(big, o), 4 * words,
                     Seeded(WordSeed(words), pc, pb)))

InitHash == buffer \in Keys /\ length = 0 /\ seed \in Seeds
NextHash == length < Len(buffer) /\ length' = length + 1 /\ UNCHANGED <<buffer, seed>>

-----------------------------------------------------------------------------
(***************************************************************************)
(* The hash of a key does not depend on where it is in memory, on the      *)
(* machine, nor on the bytes that follow it (driver3).                     *)
(***************************************************************************)
PlaceDoesNotMatter ==
    /\ \A big \in BOOLEAN, align \in 0..2 :
         hashlittle(big, align, length, seed[1]) = hashlittle(FALSE, 3, length, seed[1])
    /\ \A big \in BOOLEAN : hashbig(big, 0, length, seed[1]) = hashbig(FALSE, 3, length, seed[1])

(***************************************************************************)
(* hashword is hashlittle on little-endian machines and hashbig on         *)
(* big-endian ones, for a key of whole words.                              *)
(***************************************************************************)
HashwordSame ==
    length % 4 = 0 =>
      /\ hashword(FALSE, length \div 4, seed[1]) = hashlittle(FALSE, 0, length, seed[1])
      /\ hashword(TRUE, length \div 4, seed[1]) = hashbig(TRUE, 0, length, seed[1])

(***************************************************************************)
(* With a second seed of 0, the first of two results is the single one.    *)
(***************************************************************************)
TwoHashesSame ==
    /\ hashlittle2(FALSE, 0, length, seed[1], Zero)[1] = hashlittle(FALSE, 0, length, seed[1])
    /\ length % 4 = 0 =>
         hashword2(FALSE, length \div 4, seed[1], Zero)[1] = hashword(FALSE, length \div 4, seed[1])

(***************************************************************************)
(* The functions agree wherever they have to.                              *)
(***************************************************************************)
HashesAgree == PlaceDoesNotMatter /\ HashwordSame /\ TwoHashesSame

(***************************************************************************)
(* The known hashes of driver5, for a key of 30 bytes, "Four score and     *)
(* seven years ago", and for none.                                         *)
(***************************************************************************)
KnownVectors ==
    /\ length = 30 =>
         CASE seed = <<Zero, Zero>> -> hashlittle2(FALSE, 0, 30, Zero, Zero) = <<<<6007, 1361>>, <<52850, 9958>>>>
           [] seed = <<Zero, <<0, 1>>>> -> hashlittle2(FALSE, 0, 30, Zero, <<0, 1>>) = <<<<58208, 31918>>, <<48439, 7652>>>>
           [] seed = <<<<0, 1>>, Zero>> -> hashlittle2(FALSE, 0, 30, <<0, 1>>, Zero) = <<<<52578, 33121>>, <<27838, 42163>>>>
           [] OTHER -> TRUE
    /\ (length = 0 /\ seed = <<DEADBEEF, DEADBEEF>>) =>
         hashlittle2(FALSE, 0, 0, DEADBEEF, DEADBEEF) = <<<<39945, 15565>>, <<48475, 32222>>>>
=============================================================================
