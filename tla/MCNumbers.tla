------------------------------ MODULE MCNumbers ------------------------------
(* Digits of three bits, two of them an int64; values that put 0, 1 and full
   digits in every position, and those around the limits of the words. *)
EXTENDS Numbers

DigitPatterns(digits, n) ==
    {SumTo(n, LAMBDA i : f[i] * kDigitBase^i) : f \in [0..(n - 1) -> digits]}
Signed(S) == S \cup {-v : v \in S}
MCReceivers == Signed(DigitPatterns({0, 1, 5, 7}, 3) \cup 8..16 \cup 30..36 \cup {68, 69, 200})
MCArguments == Signed(DigitPatterns({0, 1, 6, 7}, 3) \cup {2, 3, 16, 31, 32})
=============================================================================
