---------------------------- MODULE LargeIntegers ----------------------------
(***************************************************************************)
(* The digit algorithms of src/vm/large_integer.cc.  An integer object is  *)
(* a small integer (tagged), a medium integer (int64) or a large integer:  *)
(* a sign and digits, the least significant first.  The algorithms are     *)
(* written for any digit width; the program's are 32 bits (16 on a 32-bit  *)
(* host), two (four) of which make an int64.                               *)
(*                                                                         *)
(* Left out: the handles that keep an operand alive while the result is    *)
(* allocated, and the free list element Truncate leaves behind a result    *)
(* whose leading digits were zero (module Heap has both mechanisms).       *)
(***************************************************************************)
EXTENDS Integers, Sequences

CONSTANTS
    kDigitBits,        \* bits of a digit_t
    kMintDigits,       \* digits of an int64
    kSmiBits,          \* 62 (30 on a 32-bit host): a word is two bits wider
    kSignificandSize,  \* bits of a double's significand, the hidden one included
    kExponentSize,     \* bits of a double's exponent
    kRadix,            \* 10: the radix numbers are printed in
    kDivisorLog,       \* 9: characters printed per division
    kLog2Dividend,     \* 30103, kLog2Divisor 100000: the logarithm of two in the
    kLog2Divisor       \* radix, rounded up

ASSUME WidthsAssumption ==
    /\ kDigitBits \in Nat \ {0} /\ kMintDigits \in Nat \ {0, 1}
    /\ kSmiBits \in Nat /\ kSmiBits + 2 <= kDigitBits * kMintDigits
    \* AsDouble takes the bits it needs from two digits, or from more than two
    /\ kSignificandSize \in Nat /\ kSignificandSize + 1 < kDigitBits * kMintDigits
    /\ kExponentSize \in Nat \ {0, 1}
    /\ kRadix \in Nat \ {0, 1} /\ kDivisorLog \in Nat \ {0} /\ kRadix^kDivisorLog < 2^kDigitBits
    \* two <= kRadix^(kLog2Dividend / kLog2Divisor)
    /\ kLog2Divisor \in Nat \ {0} /\ 2^kLog2Divisor <= kRadix^kLog2Dividend

kDigitBase == 2^kDigitBits
kDigitMask == kDigitBase - 1
Int64Bits == kDigitBits * kMintDigits
MediumMax == 2^(Int64Bits - 1) - 1
MediumMin == -(2^(Int64Bits - 1))
SmiMax == 2^kSmiBits - 1

AbsOf(v) == IF v < 0 THEN -v ELSE v
Least(S) == CHOOSE x \in S : \A y \in S : x <= y
Greatest(S) == CHOOSE x \in S : \A y \in S : y <= x

SumTo(n, f(_)) ==
    LET sum[i \in 0..n] == IF i = 0 THEN 0 ELSE sum[i - 1] + f(i - 1) IN sum[n]

-----------------------------------------------------------------------------
(* Objects. *)

Small(v) == [kind |-> "small", value |-> v]
Medium(v) == [kind |-> "medium", value |-> v]

NewLarge(negative, size, digit(_)) ==
    [kind |-> "large", negative |-> negative, size |-> size,
     digit |-> [i \in 0..(size - 1) |-> digit(i)]]

IsSmiValue(v) == v \in -(2^kSmiBits)..SmiMax

\* The smallest object for a value an int64 holds.
FromInt64(v) == IF IsSmiValue(v) THEN Small(v) ELSE Medium(v)

Digit(large, i) == IF i < large.size THEN large.digit[i] ELSE 0
Magnitude(large) == SumTo(large.size, LAMBDA i : large.digit[i] * kDigitBase^i)

Expand(integer) ==
    IF integer.kind = "large" THEN integer
    ELSE LET absolute_value == AbsOf(integer.value)
             size == Least({n \in 0..kMintDigits : absolute_value < kDigitBase^n})
         IN NewLarge(integer.value < 0, size,
                     LAMBDA i : (absolute_value \div kDigitBase^i) % kDigitBase)

Reduce(large) ==
    LET limit == IF large.negative THEN MediumMax + 1 ELSE MediumMax
    IN IF large.size > kMintDigits \/ Magnitude(large) > limit THEN large
       ELSE FromInt64(IF large.negative THEN -Magnitude(large) ELSE Magnitude(large))

Truncate(large, new_size) == NewLarge(large.negative, new_size, LAMBDA i : large.digit[i])

Clamp(large) ==
    LET used == {i \in 0..(large.size - 1) : large.digit[i] # 0}
    IN IF used = {} THEN NewLarge(FALSE, 0, LAMBDA i : 0)
       ELSE Truncate(large, Greatest(used) + 1)

\* What the debug build asserts of every operand and result.
Verify(large) == IF large.size = 0 THEN ~large.negative ELSE large.digit[large.size - 1] # 0

-----------------------------------------------------------------------------
(* Comparison: positive when right is the greater one. *)

AbsCompare(left, right) ==
    LET differing == {i \in 0..(left.size - 1) : left.digit[i] # right.digit[i]}
        top == Greatest(differing)
    IN CASE left.size # right.size -> right.size - left.size
         [] left.size = right.size /\ differing = {} -> 0
         [] OTHER -> IF right.digit[top] < left.digit[top] THEN -1 ELSE 1

AbsGreater(left, right) == AbsCompare(left, right) < 0

Compare(left, right) ==
    CASE left.negative /\ right.negative -> AbsCompare(right, left)
      [] left.negative /\ ~right.negative -> 1
      [] ~left.negative /\ right.negative -> -1
      [] OTHER -> AbsCompare(left, right)

-----------------------------------------------------------------------------
(* Carries.  The loops of the source keep a carry (or a borrow of 0 or -1),*)
(* add to it what the digits at i contribute, store its low digit and      *)
(* shift it down.                                                          *)

Ripple(n, initial, term(_)) ==
    LET carry[i \in 0..n] ==
            IF i = 0 THEN initial ELSE (carry[i - 1] + term(i - 1)) \div kDigitBase
    IN [digit |-> [i \in 0..(n - 1) |-> (carry[i] + term(i)) % kDigitBase],
        carry |-> carry[n]]

AddAbsolutesWithSign(left, right, negative) ==
    LET longer == IF left.size <= right.size THEN right ELSE left
        shorter == IF left.size <= right.size THEN left ELSE right
        sum == Ripple(longer.size, 0, LAMBDA i : Digit(shorter, i) + longer.digit[i])
    IN Clamp(NewLarge(negative, longer.size + 1,
                      LAMBDA i : IF i = longer.size THEN sum.carry ELSE sum.digit[i]))

SubtractAbsolutesWithSign(left, right, negative) ==
    LET difference == Ripple(left.size, 0, LAMBDA i : left.digit[i] - Digit(right, i))
    IN Clamp(NewLarge(negative, left.size, LAMBDA i : difference.digit[i]))

\* A carry out of the last digit has no digit to go to: the source asserts
\* that there is none, and a release build drops it.
AbsAddOneInPlace(large) ==
    IF large.size = 0 THEN NewLarge(large.negative, 1, LAMBDA i : 1)
    ELSE LET sum == Ripple(large.size, 1, LAMBDA i : large.digit[i])
         IN NewLarge(large.negative, large.size, LAMBDA i : sum.digit[i])

\* One row of the school method: left * right_digit is added at position i.
MultiplyRow(product, left, right_digit, i) ==
    LET row == Ripple(left.size, 0, LAMBDA j : left.digit[j] * right_digit + product[i + j])
    IN [k \in DOMAIN product |->
          IF k \in i..(i + left.size - 1) THEN row.digit[k - i]
          ELSE IF k = i + left.size THEN row.carry ELSE product[k]]

RECURSIVE MultiplyRows(_, _, _, _)
MultiplyRows(product, left, right, i) ==
    IF i = right.size THEN product
    ELSE MultiplyRows(MultiplyRow(product, left, right.digit[i], i), left, right, i + 1)

MultiplyAbsolutesWithSign(left, right, negative) ==
    LET zeros == [k \in 0..(left.size + right.size - 1) |-> 0]
        product == MultiplyRows(zeros, left, right, 0)
    IN Clamp(NewLarge(negative, left.size + right.size, LAMBDA k : product[k]))

-----------------------------------------------------------------------------

Add(left, right) ==
    IF left.negative = right.negative
    THEN AddAbsolutesWithSign(left, right, left.negative)
    ELSE IF AbsGreater(left, right)
         THEN SubtractAbsolutesWithSign(left, right, left.negative)
         ELSE SubtractAbsolutesWithSign(right, left, right.negative)

Subtract(left, right) ==
    IF left.negative # right.negative
    THEN AddAbsolutesWithSign(left, right, left.negative)
    ELSE IF AbsGreater(left, right)
         THEN SubtractAbsolutesWithSign(left, right, left.negative)
         ELSE SubtractAbsolutesWithSign(right, left, ~left.negative)

Multiply(left, right) ==
    MultiplyAbsolutesWithSign(left, right, left.negative # right.negative)

-----------------------------------------------------------------------------
(* The bitwise operations work on sign and magnitude: a negative operand   *)
(* -x stands for ~(x - 1), and a result ~r is stored as -(r + 1).          *)

Digits == 0..kDigitMask
Bit(v, i) == (v \div 2^i) % 2      \* of the two's complement of v
NotDigit(d) == kDigitMask - d
AndDigit == [x, y \in Digits |-> SumTo(kDigitBits, LAMBDA i : 2^i * Bit(x, i) * Bit(y, i))]
OrDigit == [x, y \in Digits |-> x + y - AndDigit[x, y]]
XorDigit == [x, y \in Digits |-> x + y - 2 * AndDigit[x, y]]
Shorter(left, right) == IF left.size > right.size THEN right ELSE left
Longer(left, right) == IF left.size > right.size THEN left ELSE right

(* mutant: the borrow stops at the lowest digit *)
LessOne_NoBorrow(x, n) ==
    [i \in 0..(n - 1) |-> IF i = 0 THEN (Digit(x, 0) - 1) % kDigitBase ELSE Digit(x, i)]

\* The digits of x - 1, extended with zeros to n digits.
LessOne(x, n) == Ripple(n, -1, LAMBDA i : Digit(x, i)).digit

NonNegative(n, digit(_)) == Clamp(NewLarge(FALSE, n, digit))
NegativePlusOne(n, digit(_)) ==
    LET r == Ripple(n, 1, digit) IN Clamp(NewLarge(TRUE, n, LAMBDA i : r.digit[i]))

And(left, right) ==
    LET s == Shorter(left, right)
        l == Longer(left, right)
        n == l.size
        s1 == LessOne(s, n)
        l1 == LessOne(l, n)
    IN CASE ~s.negative /\ ~l.negative ->
              NonNegative(n, LAMBDA i : IF i < s.size THEN AndDigit[s.digit[i], l.digit[i]] ELSE 0)
         [] ~s.negative /\ l.negative ->
              NonNegative(n, LAMBDA i : IF i < s.size THEN AndDigit[s.digit[i], NotDigit(l1[i])] ELSE 0)
         [] s.negative /\ ~l.negative ->
              NonNegative(n, LAMBDA i :
                  IF i < s.size THEN AndDigit[NotDigit(s1[i]), l.digit[i]] ELSE l.digit[i])
         [] s.negative /\ l.negative ->
              NegativePlusOne(n, LAMBDA i : OrDigit[s1[i], l1[i]])

Or(left, right) ==
    LET s == Shorter(left, right)
        l == Longer(left, right)
        n == l.size
        s1 == LessOne(s, n)
        l1 == LessOne(l, n)
    IN CASE ~s.negative /\ ~l.negative ->
              NonNegative(n, LAMBDA i : IF i < s.size THEN OrDigit[s.digit[i], l.digit[i]] ELSE l.digit[i])
         [] ~s.negative /\ l.negative ->
              NegativePlusOne(n, LAMBDA i : AndDigit[NotDigit(Digit(s, i)), l1[i]])
         [] s.negative /\ ~l.negative ->
              NegativePlusOne(n, LAMBDA i : AndDigit[NotDigit(l.digit[i]), s1[i]])
         [] s.negative /\ l.negative ->
              NegativePlusOne(n, LAMBDA i : AndDigit[s1[i], l1[i]])

Xor(left, right) ==
    LET s == Shorter(left, right)
        l == Longer(left, right)
        n == l.size
        s1 == LessOne(s, n)
        l1 == LessOne(l, n)
    IN CASE ~s.negative /\ ~l.negative -> NonNegative(n, LAMBDA i : XorDigit[Digit(s, i), l.digit[i]])
         [] ~s.negative /\ l.negative -> NegativePlusOne(n, LAMBDA i : XorDigit[Digit(s, i), l1[i]])
         [] s.negative /\ ~l.negative -> NegativePlusOne(n, LAMBDA i : XorDigit[s1[i], l.digit[i]])
         [] s.negative /\ l.negative -> NonNegative(n, LAMBDA i : XorDigit[s1[i], l1[i]])

-----------------------------------------------------------------------------
(* Shifts by a number of bits. *)

\* The digit that position i receives when the digits d are moved up by
\* `bits` bits: the high part of d[i] joined with what falls out of d[i - 1].
ShiftedUp(d(_), i, bits) ==
    ((d(i) * 2^bits) % kDigitBase) + (d(i - 1) \div 2^(kDigitBits - bits))

ShiftLeft(left, right) ==
    LET digit_shift == right \div kDigitBits
        bit_shift_up == right % kDigitBits
        d(i) == IF i < 0 THEN 0 ELSE Digit(left, i)
        shifted(i) == ShiftedUp(d, i - digit_shift, bit_shift_up)
        wide == left.size + digit_shift + 1
        carry == shifted(wide - 1)
    IN CASE left.size = 0 -> left
         [] left.size # 0 /\ bit_shift_up = 0 ->
              NewLarge(left.negative, wide - 1, LAMBDA i : d(i - digit_shift))
         [] OTHER ->
              NewLarge(left.negative, IF carry = 0 THEN wide - 1 ELSE wide, shifted)

\* Only called with fewer bits than left has.
ShiftRight(left, right) ==
    LET digit_shift == right \div kDigitBits
        bit_shift_down == right % kDigitBits
        bit_shift_up == kDigitBits - bit_shift_down
        size == left.size - digit_shift
        shifted(i) == IF bit_shift_down = 0 THEN left.digit[i + digit_shift]
                      ELSE ShiftedUp(LAMBDA j : Digit(left, j), i + digit_shift + 1, bit_shift_up)
        result_size == IF bit_shift_down # 0 /\ shifted(size - 1) = 0 THEN size - 1 ELSE size
        result == NewLarge(left.negative, result_size, shifted)
        shifted_out_a_bit ==
            \/ bit_shift_down # 0 /\ (left.digit[digit_shift] * 2^bit_shift_up) % kDigitBase # 0
            \/ \E i \in 0..(digit_shift - 1) : left.digit[i] # 0
    IN IF left.negative /\ shifted_out_a_bit THEN AbsAddOneInPlace(result) ELSE result

-----------------------------------------------------------------------------
(* Division.  op is "truncated", "floored" or "exact", type is "quotient"  *)
(* or "remainder"; an exact division that leaves a remainder gives         *)
(* Inexact.                                                                *)

Inexact == [kind |-> "inexact"]
Zero == NewLarge(FALSE, 0, LAMBDA i : 0)

\* The dividend has fewer digits than the divisor: the quotient is 0 or -1.
DivideShorter(op, type, dividend, divisor) ==
    LET is_zero == dividend.size = 0 \/ dividend.negative = divisor.negative
    IN CASE type = "quotient" /\ op = "truncated" -> Zero
         [] type = "quotient" /\ op = "floored" ->
              IF is_zero THEN Zero ELSE NewLarge(TRUE, 1, LAMBDA i : 1)
         [] type = "quotient" /\ op = "exact" ->
              IF dividend.size = 0 THEN dividend ELSE Inexact
         [] type = "remainder" /\ op = "truncated" -> dividend
         [] type = "remainder" /\ op = "floored" ->
              IF is_zero THEN dividend ELSE Add(dividend, divisor)

DivideByDigit(op, type, dividend, divisor) ==
    LET d == divisor.digit[0]
        differ == dividend.negative # divisor.negative
        m == dividend.size
        \* remainder[k] is left after the k highest digits
        remainder[k \in 0..m] ==
            IF k = 0 THEN 0 ELSE (remainder[k - 1] * kDigitBase + dividend.digit[m - k]) % d
        quotient == Clamp(NewLarge(differ, m, LAMBDA j :
            (remainder[m - 1 - j] * kDigitBase + dividend.digit[j]) \div d))
        r == remainder[m]
    IN CASE type = "quotient" /\ op = "truncated" -> quotient
         [] type = "quotient" /\ op = "floored" ->
              IF r # 0 /\ differ THEN AbsAddOneInPlace(quotient) ELSE quotient
         [] type = "quotient" /\ op = "exact" -> IF r = 0 THEN quotient ELSE Inexact
         [] type = "remainder" /\ r = 0 -> Zero
         [] type = "remainder" /\ r # 0 /\ op = "truncated" ->
              NewLarge(dividend.negative, 1, LAMBDA i : r)
         [] type = "remainder" /\ r # 0 /\ op = "floored" ->
              NewLarge(divisor.negative, 1, LAMBDA i : IF differ THEN d - r ELSE r)

\* Knuth's algorithm D on operands moved up until the top bit of the divisor is
\* set.  norm_div and norm_rem are functions from positions to digits.
NormalizeShift(divisor) ==
    Least({s \in 0..(kDigitBits - 1) : divisor.digit[divisor.size - 1] * 2^(s + 1) >= kDigitBase})
Normalized(x, size, shift) ==
    [i \in 0..(size - 1) |-> ShiftedUp(LAMBDA j : IF j < 0 THEN 0 ELSE Digit(x, j), i, shift)]

(* mutant: an estimate is lowered only when it exceeds a digit *)
CorrectEstimate_OneDigit(q_est, r_est, norm_div, n, next_digit) ==
    IF q_est >= kDigitBase THEN kDigitBase - 1 ELSE q_est

\* The estimate from the two top digits is lowered until it agrees with a third.
RECURSIVE CorrectEstimate(_, _, _, _, _)
CorrectEstimate(q_est, r_est, norm_div, n, next_digit) ==
    IF q_est >= kDigitBase \/ q_est * norm_div[n - 2] > kDigitBase * r_est + next_digit
    THEN IF r_est + norm_div[n - 1] < kDigitBase
         THEN CorrectEstimate(q_est - 1, r_est + norm_div[n - 1], norm_div, n, next_digit)
         ELSE q_est - 1
    ELSE q_est

DivideStep(norm_rem, norm_div, n, j) ==
    LET p == norm_rem[j + n] * kDigitBase + norm_rem[j + n - 1]
        top == norm_div[n - 1]
        q_est == CorrectEstimate(p \div top, p % top, norm_div, n, norm_rem[j + n - 2])
        subtracted == Ripple(n, 0, LAMBDA i : norm_rem[i + j] - q_est * norm_div[i])
        t == norm_rem[j + n] + subtracted.carry
        added_back == Ripple(n, 0, LAMBDA i : subtracted.digit[i] + norm_div[i])
        low == IF t < 0 THEN added_back.digit ELSE subtracted.digit
        high == (IF t < 0 THEN t + added_back.carry ELSE t) % kDigitBase
    IN [digit |-> IF t < 0 THEN q_est - 1 ELSE q_est,
        rem |-> [i \in DOMAIN norm_rem |->
                   IF i \in j..(j + n - 1) THEN low[i - j]
                   ELSE IF i = j + n THEN high ELSE norm_rem[i]]]

\* Quotient digits j, j - 1, ..., 0 and what then remains.
RECURSIVE DivideSteps(_, _, _, _, _)
DivideSteps(quotient, norm_rem, norm_div, n, j) ==
    IF j < 0 THEN [quotient |-> quotient, rem |-> norm_rem]
    ELSE LET step == DivideStep(norm_rem, norm_div, n, j)
         IN DivideSteps([quotient EXCEPT ![j] = step.digit], step.rem, norm_div, n, j - 1)

\* What the digits found answer, once the remainder is moved back down.
DivideLongResult(op, type, differ, divisor, quotient, remainder_is_zero, remainder) ==
    CASE type = "quotient" /\ op = "truncated" -> quotient
      [] type = "quotient" /\ op = "floored" ->
           IF ~remainder_is_zero /\ differ
           THEN [AbsAddOneInPlace(quotient) EXCEPT !.negative = TRUE]
           ELSE quotient
      [] type = "quotient" /\ op = "exact" -> IF remainder_is_zero THEN quotient ELSE Inexact
      [] type = "remainder" /\ op = "truncated" -> remainder
      [] type = "remainder" /\ op = "floored" ->
           IF remainder.size # 0 /\ differ THEN Add(remainder, divisor) ELSE remainder
DivideLongDigits(op, type, dividend, divisor, shift, steps) ==
    LET m == dividend.size
        n == divisor.size
        differ == dividend.negative # divisor.negative
    IN DivideLongResult(op, type, differ, divisor,
           Clamp(NewLarge(differ, m - n + 1, LAMBDA j : steps.quotient[j])),
           \A i \in 0..n : steps.rem[i] = 0,
           Clamp(NewLarge(dividend.negative, n, LAMBDA i :
               (steps.rem[i] \div 2^shift) +
               (IF i = n - 1 THEN 0 ELSE (steps.rem[i + 1] * 2^(kDigitBits - shift)) % kDigitBase))))
DivideLong(op, type, dividend, divisor) ==
    LET m == dividend.size
        n == divisor.size
        shift == NormalizeShift(divisor)
    IN DivideLongDigits(op, type, dividend, divisor, shift,
           DivideSteps([j \in 0..(m - n) |-> 0], Normalized(dividend, m + 1, shift),
                       Normalized(divisor, n, shift), n, m - n))

Divide(op, type, dividend, divisor) ==
    CASE dividend.size < divisor.size -> DivideShorter(op, type, dividend, divisor)
      [] dividend.size >= divisor.size /\ divisor.size = 1 ->
           DivideByDigit(op, type, dividend, divisor)
      [] OTHER -> DivideLong(op, type, dividend, divisor)

-----------------------------------------------------------------------------
(* Printing: a scratch copy is divided by the largest power of the radix   *)
(* that is less than a digit (10^9), and each remainder gives kDivisorLog  *)
(* characters, written from the end of the buffer.                         *)

kDivisor == kRadix^kDivisorLog

\* The quotient digits and the remainder of the `used` low digits of scratch.
DivideScratch(scratch, used) ==
    LET remainder[k \in 0..used] ==
            IF k = 0 THEN 0
            ELSE (remainder[k - 1] * kDigitBase + scratch[used - k]) % kDivisor
    IN [remainder |-> remainder[used],
        scratch |-> [i \in 0..(used - 1) |->
            (remainder[used - 1 - i] * kDigitBase + scratch[i]) \div kDivisor]]

RECURSIVE PrintChunks(_, _)
PrintChunks(scratch, used) ==
    IF used = 0 THEN <<>>
    ELSE LET step == DivideScratch(scratch, used)
             left == {i \in 0..(used - 1) : step.scratch[i] # 0}
         IN PrintChunks(step.scratch, IF left = {} THEN 0 ELSE Greatest(left) + 1)
            \o [c \in 1..kDivisorLog |-> (step.remainder \div kRadix^(kDivisorLog - c)) % kRadix]

\* Whether the characters, with the leading zeros of the first chunk, fit.
FitsBuffer(large, chars) ==
    Len(chars) <= ((large.size * kDigitBits * kLog2Dividend) \div kLog2Divisor) + 1 + kDivisorLog

\* The characters as numbers, with the sign apart.
PrintString(large) ==
    LET chars == PrintChunks(large.digit, large.size)
        first == Least({c \in 1..Len(chars) : chars[c] # 0})
    IN [kind |-> "string", negative |-> large.negative,
        chars |-> SubSeq(chars, first, Len(chars)), fits |-> FitsBuffer(large, chars)]

-----------------------------------------------------------------------------
(* Doubles, as their bits: a sign, a biased exponent and the significand   *)
(* without its hidden bit.                                                 *)

kPhysicalSignificandSize == kSignificandSize - 1
kExponentBias == (2^(kExponentSize - 1) - 1) + kPhysicalSignificandSize
kSpecialExponent == 2^kExponentSize - 1
kMaxExponent == kSpecialExponent - kExponentBias

Double(negative, bits) ==
    [kind |-> "float", negative |-> negative,
     biased |-> bits \div 2^kPhysicalSignificandSize,
     fraction |-> bits % 2^kPhysicalSignificandSize]
Infinity(negative) == Double(negative, kSpecialExponent * 2^kPhysicalSignificandSize)

IsSpecial(double) == double.biased = kSpecialExponent
IsDenormal(double) == double.biased = 0
Exponent(double) == IF IsDenormal(double) THEN 1 - kExponentBias ELSE double.biased - kExponentBias
Significand(double) ==
    IF IsDenormal(double) THEN double.fraction
    ELSE double.fraction + 2^kPhysicalSignificandSize

HighestBit(d) == Greatest({b \in 0..(Int64Bits - 1) : b = 0 \/ d >= 2^b})

\* The kSignificandSize + 1 leading bits, where they end, and whether a bit
\* that is set follows them.
LeadingBits(large) ==
    LET top == large.size - 1
        needed == kSignificandSize - HighestBit(large.digit[top])
        whole == top - (needed \div kDigitBits)     \* lowest digit taken entirely
        part == needed % kDigitBits               \* bits taken of the digit below it
        rest == 2^(kDigitBits - part)
        digits == SumTo(large.size - whole, LAMBDA i : large.digit[whole + i] * kDigitBase^i)
        below == IF part = 0 THEN whole ELSE whole - 1
    IN [twice_significand |->
            IF part = 0 THEN digits ELSE digits * 2^part + (large.digit[below] \div rest),
        exponent |-> whole * kDigitBits - part,
        discarded_nonzero |-> \/ part # 0 /\ large.digit[below] % rest # 0
                              \/ \E i \in 0..(below - 1) : large.digit[i] # 0]

(* mutant: a half is always rounded up *)
AsDouble_HalfUp(large) ==
    LET l == LeadingBits(large)
        significand == (l.twice_significand \div 2) + (l.twice_significand % 2)
    IN IF \/ (large.size - 1) * kDigitBits > kMaxExponent + kSignificandSize
          \/ l.exponent + 1 >= kMaxExponent
       THEN Infinity(large.negative)
       ELSE Double(large.negative,
                   (l.exponent + kExponentBias) * 2^kPhysicalSignificandSize + significand)

AsDouble(large) ==
    LET l == LeadingBits(large)
        significand == l.twice_significand \div 2
        round_up == l.twice_significand % 2 = 1 /\ (significand % 2 = 1 \/ l.discarded_nonzero)
        exponent == l.exponent + 1
    IN IF \/ (large.size - 1) * kDigitBits > kMaxExponent + kSignificandSize
          \/ exponent >= kMaxExponent
       THEN Infinity(large.negative)
       \* The hidden bit and a carry of the rounding count the exponent up.
       ELSE Double(large.negative,
                   (exponent + kExponentBias - 1) * 2^kPhysicalSignificandSize
                   + significand + (IF round_up THEN 1 ELSE 0))

NewFromShiftedInt64(value, shift) ==
    LET digit_shift == shift \div kDigitBits
        bit_shift_up == shift % kDigitBits
        d(i) == IF i < 0 THEN 0 ELSE (AbsOf(value) \div kDigitBase^i) % kDigitBase
        shifted(i) == ShiftedUp(d, i - digit_shift, bit_shift_up)
        wide == kMintDigits + digit_shift + 1
    IN NewLarge(value < 0, IF bit_shift_up = 0 \/ shifted(wide - 1) = 0 THEN wide - 1 ELSE wide,
                shifted)

\* A significand may be moved up this far and still be an int64.
kMaxSmallShift == Int64Bits - 1 - kSignificandSize

NotAnInteger == [kind |-> "failure"]

FromDouble(double) ==
    LET significand == Significand(double)
        exponent == Exponent(double)
        signed(v) == IF double.negative THEN -v ELSE v
        below_one == exponent < 0 /\ significand < 2^(-exponent)
    IN CASE IsSpecial(double) -> NotAnInteger
         [] ~IsSpecial(double) /\ below_one -> Small(0)
         [] ~IsSpecial(double) /\ ~below_one /\ exponent <= 0 ->
              FromInt64(signed(significand \div 2^(-exponent)))
         [] exponent \in 1..kMaxSmallShift -> FromInt64(signed(significand * 2^exponent))
         [] OTHER -> Reduce(NewFromShiftedInt64(signed(significand), exponent))

-----------------------------------------------------------------------------
(* Unsigned 64-bit values. *)

AsUint64(integer) ==
    CASE integer.kind \in {"small", "medium"} ->
           IF integer.value < 0 THEN NotAnInteger ELSE [kind |-> "uint64", value |-> integer.value]
      [] integer.kind = "large" ->
           IF integer.negative \/ integer.size > kMintDigits THEN NotAnInteger
           ELSE [kind |-> "uint64", value |-> Magnitude(integer)]

FromUint64(raw_value) ==
    CASE raw_value < SmiMax -> Small(raw_value)
      [] raw_value >= SmiMax /\ raw_value < MediumMax -> Medium(raw_value)
      [] OTHER -> Clamp(NewLarge(FALSE, kMintDigits,
                                 LAMBDA i : (raw_value \div kDigitBase^i) % kDigitBase))

=============================================================================
