------------------------------- MODULE Numbers -------------------------------
(***************************************************************************)
(* The number primitives of src/vm/primitives.cc on integers: each tries   *)
(* the operands as small integers, then as int64, then as digit strings    *)
(* (module LargeIntegers), and returns the smallest object that holds the  *)
(* result or fails.  One behaviour is one call: the operands on the stack, *)
(* one primitive, its result.                                              *)
(*                                                                         *)
(* Floats appear as the receiver of asInteger and the result of asDouble;  *)
(* arithmetic on them is the host's.                                       *)
(***************************************************************************)
EXTENDS LargeIntegers

CONSTANTS
    Receivers,      \* the integers that are the receiver, Stack(1)
    Arguments,      \* the integers that are the argument, Stack(0)
    kByteBits,      \* 8: digitAt: and digitLength count bytes
    TestSlowPath    \* the values of TEST_SLOW_PATH to build with

ASSUME OperandsAssumption ==
    /\ Receivers \subseteq Int /\ Arguments \subseteq Int
    /\ kByteBits \in Nat \ {0} /\ kDigitBits % kByteBits = 0
    /\ TestSlowPath \in SUBSET BOOLEAN

VARIABLES left, right, primitive, result

vars == <<left, right, primitive, result>>

Failure == [kind |-> "failure"]
OutOfMemory == [kind |-> "out of memory"]
FallThrough == [kind |-> "fall through"]
Nothing == [kind |-> "nothing"]
Bool(b) == [kind |-> "boolean", value |-> b]

IsMint(object) == object.kind \in {"small", "medium"}
IsInteger(object) == IsMint(object) \/ object.kind = "large"

\* LINT_VALUES: both operands as digits.
large_left == Expand(left)
large_right == Expand(right)

ReturnLint(large) == IF large = Inexact THEN Failure ELSE Reduce(large)

\* IS_SMI_OP, IS_MINT_OP and IS_LINT_OP in turn, where FallThrough leaves the
\* call to the next.
Attempts(smi, mint, lint) ==
    CASE left.kind = "small" /\ right.kind = "small" /\ smi # FallThrough -> smi
      [] IsMint(left) /\ IsMint(right) /\ mint # FallThrough -> mint
      [] OTHER -> lint

-----------------------------------------------------------------------------
(* Sum, difference, product: v is computed with an overflow check, on the  *)
(* tagged words first and then on int64.  slow is TEST_SLOW_PATH.          *)

HasOverflow(slow, v, words) == slow \/ v \notin words

Overflowing(slow, v, lint) ==
    Attempts(IF HasOverflow(slow, v, -(2^kSmiBits)..SmiMax) THEN FallThrough ELSE Small(v),
             IF HasOverflow(slow, v, MediumMin..MediumMax) THEN FallThrough ELSE FromInt64(v),
             ReturnLint(lint))

AddPrimitive(slow) == Overflowing(slow, left.value + right.value, Add(large_left, large_right))
SubtractPrimitive(slow) ==
    Overflowing(slow, left.value - right.value, Subtract(large_left, large_right))
MultiplyPrimitive(slow) ==
    Overflowing(slow, left.value * right.value, Multiply(large_left, large_right))

-----------------------------------------------------------------------------
(* Division of words.  C++ rounds towards zero. *)

TruncDiv(dividend, divisor) ==
    LET q == AbsOf(dividend) \div AbsOf(divisor)
    IN IF (dividend < 0) # (divisor < 0) THEN -q ELSE q
TruncMod(dividend, divisor) == dividend - divisor * TruncDiv(dividend, divisor)

FloorDiv(dividend, divisor) ==
    IF TruncMod(dividend, divisor) # 0 /\ (dividend < 0) # (divisor < 0)
    THEN TruncDiv(dividend, divisor) - 1 ELSE TruncDiv(dividend, divisor)

FloorMod(dividend, divisor) ==
    LET remainder == TruncMod(dividend, divisor)
    IN IF remainder # 0 /\ (remainder < 0) # (divisor < 0) THEN remainder + divisor ELSE remainder

\* f on words; the most negative int64 by -1 does not fit.
Dividing(f(_, _), op, type) ==
    LET word == FromInt64(f(left.value, right.value))
        overflow == right.value = -1 /\ left.value = MediumMin
    IN IF large_right.size = 0 THEN Failure
       ELSE Attempts(word, IF overflow THEN FallThrough ELSE word,
                     ReturnLint(Divide(op, type, large_left, large_right)))

\* `/`, which fails unless the division is exact.
DividePrimitive ==
    LET word == IF TruncMod(left.value, right.value) # 0 THEN Failure
                ELSE FromInt64(TruncDiv(left.value, right.value))
        overflow == right.value = -1 /\ left.value = MediumMin
    IN IF large_right.size = 0 THEN Failure
       ELSE Attempts(word, IF overflow THEN FallThrough ELSE word,
                     ReturnLint(Divide("exact", "quotient", large_left, large_right)))

DivPrimitive == Dividing(FloorDiv, "floored", "quotient")
ModPrimitive == Dividing(FloorMod, "floored", "remainder")
QuoPrimitive == Dividing(TruncDiv, "truncated", "quotient")
RemPrimitive == Dividing(TruncMod, "truncated", "remainder")

-----------------------------------------------------------------------------
(* Comparison: compare is positive when the argument is the greater one.   *)

Comparing(words(_, _), sign(_)) ==
    LET word == Bool(words(left.value, right.value))
    IN Attempts(word, word, Bool(sign(Compare(large_left, large_right))))

EqualPrimitive == Comparing(LAMBDA l, r : l = r, LAMBDA c : c = 0)
LessPrimitive == Comparing(LAMBDA l, r : l < r, LAMBDA c : c > 0)
GreaterPrimitive == Comparing(LAMBDA l, r : l > r, LAMBDA c : c < 0)
LessOrEqualPrimitive == Comparing(LAMBDA l, r : l <= r, LAMBDA c : c >= 0)
GreaterOrEqualPrimitive == Comparing(LAMBDA l, r : l >= r, LAMBDA c : c <= 0)

-----------------------------------------------------------------------------
(* Bits. *)

\* The int64 with these bits.
Word(bit(_)) ==
    SumTo(Int64Bits - 1, LAMBDA i : bit(i) * 2^i) - bit(Int64Bits - 1) * 2^(Int64Bits - 1)

Bitwise(bit(_, _), lint) ==
    LET word == FromInt64(Word(LAMBDA i : bit(Bit(left.value, i), Bit(right.value, i))))
    IN Attempts(word, word, ReturnLint(lint))

AndBit(x, y) == x * y
OrBit(x, y) == x + y - x * y
XorBit(x, y) == (x + y) % 2

BitAndPrimitive == Bitwise(AndBit, And(large_left, large_right))
BitOrPrimitive == Bitwise(OrBit, Or(large_left, large_right))
BitXorPrimitive == Bitwise(XorBit, Xor(large_left, large_right))

BitLength(v) == Least({n \in 0..(Int64Bits - 1) : v \in -(2^n)..(2^n - 1)})

Negative(integer) == IF integer.kind = "large" THEN integer.negative ELSE integer.value < 0

BitShiftLeftPrimitive ==
    LET moved == left.value * 2^right.value
    IN CASE Negative(right) -> Failure
         [] ~Negative(right) /\ right.kind # "small" -> OutOfMemory
         [] OTHER ->
              Attempts(IF BitLength(left.value) + right.value < kSmiBits THEN Small(moved)
                       ELSE FallThrough,
                       IF BitLength(left.value) <= Int64Bits - 1 - right.value
                       THEN FromInt64(moved) ELSE FallThrough,
                       ReturnLint(ShiftLeft(large_left, right.value)))

SignOnly == IF Negative(left) THEN Small(-1) ELSE Small(0)
Lesser(x, y) == IF x < y THEN x ELSE y

\* Beyond the width of its words a machine shift is not defined, so the
\* distance is lowered to where only the sign is left.
BitShiftRightPrimitive ==
    CASE Negative(right) -> Failure
      [] ~Negative(right) /\ IsMint(left) /\ IsMint(right) ->
           FromInt64(left.value \div 2^Lesser(right.value,
               IF left.kind = "small" /\ right.kind = "small" THEN kSmiBits ELSE Int64Bits - 1))
      [] ~Negative(right) /\ (right.kind # "small" \/ right.value >= large_left.size * kDigitBits) ->
           SignOnly
      [] OTHER -> ReturnLint(ShiftRight(large_left, right.value))

-----------------------------------------------------------------------------
(* Bytes of the magnitude, numbered from 1. *)

kDigitBytes == kDigitBits \div kByteBits
BytesIn(v) == Least({n \in 0..(Int64Bits \div kByteBits) : v < 2^(kByteBits * n)})
ByteOf(v, i) == (v \div 2^(kByteBits * i)) % 2^kByteBits

DigitLength(integer) ==
    IF integer.kind = "large"
    THEN (integer.size - 1) * kDigitBytes + BytesIn(integer.digit[integer.size - 1])
    ELSE BytesIn(AbsOf(integer.value))

DigitAtPrimitive ==
    LET index == right.value - 1
    IN CASE right.kind # "small" -> Failure
         [] right.kind = "small" /\ index \notin 0..(DigitLength(left) - 1) -> Failure
         [] right.kind = "small" /\ index \in 0..(DigitLength(left) - 1) ->
              IF IsMint(left) THEN Small(ByteOf(AbsOf(left.value), index))
              ELSE Small(ByteOf(left.digit[index \div kDigitBytes], index % kDigitBytes))

-----------------------------------------------------------------------------
(* Strings and doubles. *)

\* What the host's printf prints and what its conversion to double rounds to:
\* the digits of a value, and the nearest double, the even one of two.
NumeralSize(v) == Least({n \in 0..(2 * Int64Bits) : v < kRadix^n})
Numeral(negative, v) ==
    LET size == IF v = 0 THEN 1 ELSE NumeralSize(v)
    IN [kind |-> "string", negative |-> negative,
        chars |-> [c \in 1..size |-> (v \div kRadix^(size - c)) % kRadix], fits |-> TRUE]

Rounded(v) ==    \* v \in Nat, to kSignificandSize bits
    LET drop == Least({n \in 0..(4 * Int64Bits) : v < 2^(kSignificandSize + n)})
        floor == v \div 2^drop
        twice_rest == 2 * (v % 2^drop)
    IN CASE twice_rest < 2^drop -> floor * 2^drop
         [] twice_rest > 2^drop -> (floor + 1) * 2^drop
         [] OTHER -> (floor + (floor % 2)) * 2^drop
NearestDouble(negative, v) ==
    LET r == Rounded(v)
        top == Greatest({b \in 0..(4 * Int64Bits) : b = 0 \/ r >= 2^b})
        exponent == top - kPhysicalSignificandSize
        significand == IF exponent < 0 THEN r * 2^(-exponent) ELSE r \div 2^exponent
    IN CASE r = 0 -> Double(negative, 0)
         [] r # 0 /\ exponent >= kMaxExponent -> Infinity(negative)
         [] OTHER -> Double(negative, (exponent + kExponentBias - 1) * 2^kPhysicalSignificandSize
                                      + significand)

AsStringPrimitive ==
    IF left.kind = "large" THEN PrintString(left) ELSE Numeral(left.value < 0, AbsOf(left.value))

AsDoublePrimitive ==
    IF left.kind = "large" THEN AsDouble(left)
    ELSE NearestDouble(left.value < 0, AbsOf(left.value))

-----------------------------------------------------------------------------
(* One action per primitive. *)

Return(name, object) ==
    /\ primitive = "none" /\ primitive' = name /\ result' = object
    /\ UNCHANGED <<left, right>>

Binary == IsInteger(left) /\ IsInteger(right)
Unary == IsInteger(left) /\ right = Nothing

Number_add == \E slow \in TestSlowPath : Binary /\ Return("add", AddPrimitive(slow))
Number_subtract == \E slow \in TestSlowPath : Binary /\ Return("subtract", SubtractPrimitive(slow))
Number_multiply == \E slow \in TestSlowPath : Binary /\ Return("multiply", MultiplyPrimitive(slow))
Number_divide == Binary /\ Return("divide", DividePrimitive)
Number_div == Binary /\ Return("div", DivPrimitive)
Number_mod == Binary /\ Return("mod", ModPrimitive)
Number_quo == Binary /\ Return("quo", QuoPrimitive)
Number_rem == Binary /\ Return("rem", RemPrimitive)
Number_equal == Binary /\ Return("equal", EqualPrimitive)
Number_less == Binary /\ Return("less", LessPrimitive)
Number_greater == Binary /\ Return("greater", GreaterPrimitive)
Number_lessOrEqual == Binary /\ Return("lessOrEqual", LessOrEqualPrimitive)
Number_greaterOrEqual == Binary /\ Return("greaterOrEqual", GreaterOrEqualPrimitive)
Integer_bitAnd == Binary /\ Return("bitAnd", BitAndPrimitive)
Integer_bitOr == Binary /\ Return("bitOr", BitOrPrimitive)
Integer_bitXor == Binary /\ Return("bitXor", BitXorPrimitive)
Integer_bitShiftLeft == Binary /\ Return("bitShiftLeft", BitShiftLeftPrimitive)
Integer_bitShiftRight == Binary /\ Return("bitShiftRight", BitShiftRightPrimitive)
Integer_digitAt == Binary /\ Return("digitAt", DigitAtPrimitive)
Integer_digitLength == Unary /\ Return("digitLength", Small(DigitLength(left)))
Number_asString == Unary /\ Return("asString", AsStringPrimitive)
Number_asDouble == Unary /\ Return("asDouble", AsDoublePrimitive)
Number_asInteger == left.kind = "float" /\ Return("asInteger", FromDouble(left))

\* The eight bytes that uint64At: reads, and those that uint64At:put: writes.
Bytes_uint64At == left.kind = "uint64" /\ Return("uint64At", FromUint64(left.value))
Bytes_uint64AtPut == Unary /\ Return("uint64AtPut", AsUint64(left))

Arithmetic ==
    \/ Number_add \/ Number_subtract \/ Number_multiply
    \/ Number_divide \/ Number_div \/ Number_mod \/ Number_quo \/ Number_rem
Comparisons ==
    \/ Number_equal \/ Number_less \/ Number_greater
    \/ Number_lessOrEqual \/ Number_greaterOrEqual
Bits ==
    \/ Integer_bitAnd \/ Integer_bitOr \/ Integer_bitXor
    \/ Integer_bitShiftLeft \/ Integer_bitShiftRight
    \/ Integer_digitAt \/ Integer_digitLength
Conversions ==
    \/ Number_asString \/ Number_asDouble \/ Number_asInteger
    \/ Bytes_uint64At \/ Bytes_uint64AtPut

Next == Arithmetic \/ Comparisons \/ Bits \/ Conversions

\* The object every result with this value must be.
Canonical(v) ==
    IF v \in MediumMin..MediumMax THEN FromInt64(v)
    ELSE LET size == Least({n \in 0..10 : AbsOf(v) < kDigitBase^n})
         IN NewLarge(v < 0, size, LAMBDA i : (AbsOf(v) \div kDigitBase^i) % kDigitBase)

Doubles ==
    {[Double(sign, bits) EXCEPT !.kind = "float"] :
        sign \in BOOLEAN, bits \in 0..(2^(kExponentSize + kPhysicalSignificandSize) - 1)}

Init ==
    /\ \/ \E v \in Receivers, w \in Arguments : left = Canonical(v) /\ right = Canonical(w)
       \/ \E v \in Receivers \cup Arguments : left = Canonical(v) /\ right = Nothing
       \/ \E d \in Doubles : left = d /\ right = Nothing
       \/ \E raw \in 0..(2^Int64Bits - 1) :
            left = [kind |-> "uint64", value |-> raw] /\ right = Nothing
    /\ primitive = "none" /\ result = Nothing

Spec == Init /\ [][Next]_vars

-----------------------------------------------------------------------------
(* Properties. *)

ValueOf(integer) ==
    IF integer.kind = "large"
    THEN IF integer.negative THEN -Magnitude(integer) ELSE Magnitude(integer)
    ELSE integer.value

l == ValueOf(left)
r == ValueOf(right)

FloorQuotient == IF r > 0 THEN l \div r ELSE (-l) \div (-r)
TruncatedQuotient == TruncDiv(l, r)

kBitsCompared == 8 * kDigitBits
Combined(bit(_, _)) ==
    SumTo(kBitsCompared, LAMBDA i : bit(Bit(l, i), Bit(r, i)) * 2^i)
    - bit(Bit(l, kBitsCompared), Bit(r, kBitsCompared)) * 2^kBitsCompared
FullWidth == kDigitBase^Longer(large_left, large_right).size
ShiftedOut == l \div 2^Lesser(r, 10 * kDigitBits)

\* A magnitude whose digits are all full: adding one carries out of it.
AllOnes(v) == \E n \in 1..10 : v = kDigitBase^n - 1

\* A negative result that is rounded down, or complemented, by adding one to a
\* magnitude of all ones: it needs a digit more than AbsAddOneInPlace, And and Xor
\* have room for, and without the carry it is wrong.
DroppedCarry ==
    \/ primitive = "div" /\ FloorQuotient # TruncatedQuotient /\ AllOnes(-TruncatedQuotient)
    \/ primitive = "bitShiftRight" /\ l < 0 /\ ShiftedOut * 2^r # l /\ AllOnes(-ShiftedOut - 1)
    \/ primitive = "bitAnd" /\ Combined(AndBit) = -FullWidth
    \/ primitive = "bitXor" /\ Combined(XorBit) = -FullWidth

\* But for a dropped carry, results are exact and are the one object of their
\* value, whichever of the three paths computed them (with TEST_SLOW_PATH too); the
\* order of integers does not depend on how they are represented; division by zero
\* fails, and dividend = quotient * divisor + remainder with the rounding that the
\* name of the division promises.
ArithmeticExact ==
    /\ primitive = "add" => result = Canonical(l + r)
    /\ primitive = "subtract" => result = Canonical(l - r)
    /\ primitive = "multiply" => result = Canonical(l * r)
    /\ primitive \in {"divide", "div", "mod", "quo", "rem"} /\ r = 0 => result = Failure
    /\ primitive = "divide" /\ r # 0 =>
         result = IF TruncatedQuotient * r = l THEN Canonical(TruncatedQuotient) ELSE Failure
    /\ primitive = "div" /\ r # 0 =>
         result = Canonical(FloorQuotient) \/ DroppedCarry
    /\ primitive = "mod" /\ r # 0 => result = Canonical(l - FloorQuotient * r)
    /\ primitive = "quo" /\ r # 0 => result = Canonical(TruncatedQuotient)
    /\ primitive = "rem" /\ r # 0 => result = Canonical(l - TruncatedQuotient * r)
    /\ primitive = "equal" => result = Bool(l = r)
    /\ primitive = "less" => result = Bool(l < r)
    /\ primitive = "greater" => result = Bool(l > r)
    /\ primitive = "lessOrEqual" => result = Bool(l <= r)
    /\ primitive = "greaterOrEqual" => result = Bool(l >= r)

\* Bit operations see every integer as an endless two's complement; shifting left
\* multiplies; shifting right is the floored division, however far.  Excepted, as
\* above, is a dropped carry.
BitwiseExact ==
    /\ primitive = "bitAnd" =>
         result = Canonical(Combined(AndBit)) \/ DroppedCarry
    /\ primitive = "bitOr" => result = Canonical(Combined(OrBit))
    /\ primitive = "bitXor" =>
         result = Canonical(Combined(XorBit)) \/ DroppedCarry
    /\ primitive = "bitShiftLeft" =>
         result = IF r < 0 THEN Failure
                  ELSE IF r > SmiMax THEN OutOfMemory ELSE Canonical(l * 2^r)
    /\ primitive = "bitShiftRight" =>
         \/ result = IF r < 0 THEN Failure ELSE Canonical(ShiftedOut)
         \/ DroppedCarry

\* ASSERT(carry == 0) of AbsAddOneInPlace and ASSERT(r1_carry == 0) of And and
\* Xor: adding one to a magnitude never needs a digit more than were allocated,
\* so what they return is the exact result.  It does not hold (DroppedCarry).
CarriesAbsorbed ==
    /\ primitive = "div" /\ r # 0 => result = Canonical(FloorQuotient)
    /\ primitive = "bitShiftRight" /\ r >= 0 => result = Canonical(ShiftedOut)
    /\ primitive = "bitAnd" => result = Canonical(Combined(AndBit))
    /\ primitive = "bitXor" => result = Canonical(Combined(XorBit))

\* The printed digits, the bytes counted and read one by one, and the unsigned
\* words written all denote the integer; the print buffer is never overrun.  An
\* integer becomes the nearest double; a double loses its fraction, nothing else.
\* An unsigned word read is the integer of its value, but the largest small one is
\* read as a medium one and the largest medium one as a large one (FromUint64).
ConversionsExact ==
    /\ primitive = "asString" =>
         /\ result = Numeral(l < 0, AbsOf(l))
    /\ primitive = "digitLength" => result = Small(Least({n \in 0..30 : AbsOf(l) < 2^(kByteBits * n)}))
    /\ primitive = "digitAt" =>
         result = IF right.kind = "small" /\ r >= 1 /\ AbsOf(l) >= 2^(kByteBits * (r - 1))
                  THEN Small(ByteOf(AbsOf(l), r - 1)) ELSE Failure
    /\ primitive = "uint64AtPut" =>
         result = IF l \in 0..(2^Int64Bits - 1) THEN [kind |-> "uint64", value |-> l] ELSE Failure
    /\ primitive = "uint64At" =>
         /\ AsUint64(result) = left
         /\ left.value \in {SmiMax, MediumMax} \/ result = Canonical(left.value)
    /\ primitive = "asDouble" => result = NearestDouble(l < 0, AbsOf(l))
    /\ primitive = "asInteger" =>
         result = IF IsSpecial(left) THEN Failure
                  ELSE LET e == Exponent(left)
                           v == IF e >= 0 THEN Significand(left) * 2^e
                                ELSE Significand(left) \div 2^(-e)
                       IN Canonical(IF left.negative THEN -v ELSE v)

\* docs/design.md:33, "Integer operations produce the smallest representation that
\* can fit the result."  It does not hold of FromUint64 (large_integer.cc:1573).
SmallestRepresentation == IsInteger(result) => result = Canonical(ValueOf(result))
=============================================================================
