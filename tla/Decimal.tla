------------------------------- MODULE Decimal -------------------------------
(***************************************************************************)
(* shared/utils/decimal.ts: money as decimal text at the boundaries (JSON  *)
(* bodies, NUMERIC(19, 4) columns) and as an integer of minor units in     *)
(* between.                                                                *)
(*                                                                         *)
(* A text that matches the pattern is a sign, a whole part and the digits  *)
(* after the point, none when there is no point.  The whole part is a      *)
(* number: BigInt() drops its leading zeros and toString() writes none.    *)
(* Blanks around it are trimmed before the match and are left out.         *)
(***************************************************************************)
EXTENDS Integers, Sequences

Scale == 10000
Places == 4

Digits == 0..9
Texts == [negative: BOOLEAN, whole: Nat, fraction: Seq(Digits)]

\* padEnd(4, '0').
\* Faulty variant: the zeros go in front, "0.5" is read as "0.0005".
PadStart(fraction) ==
    [i \in 1..Places |-> IF i <= Places - Len(fraction) THEN 0
                         ELSE fraction[i - (Places - Len(fraction))]]

PadEnd(fraction) == [i \in 1..Places |-> IF i <= Len(fraction) THEN fraction[i] ELSE 0]

\* BigInt(fractional) of four digits, and padStart(4, '0') of its text.
DigitsValue(d) == 1000 * d[1] + 100 * d[2] + 10 * d[3] + d[4]
FourDigits(n) == << n \div 1000, (n \div 100) % 10, (n \div 10) % 10, n % 10 >>

\* "More than 4 decimal places, refusing to truncate": also when they are zeros.
TooPrecise(t) == Len(t.fraction) > Places

\* Faulty variant: the sign goes to the whole part only, "-0.5" is read as "0.5".
SignedWhole(negative, whole, fractional) ==
    (IF negative THEN -whole ELSE whole) * Scale + fractional

Signed(negative, whole, fractional) ==
    LET magnitude == whole * Scale + fractional
    IN  IF negative THEN -magnitude ELSE magnitude

ToMinorUnits(t) == Signed(t.negative, t.whole, DigitsValue(PadEnd(t.fraction)))

FromMinorUnits(n) ==
    LET magnitude == IF n < 0 THEN -n ELSE n
    IN  [negative |-> n < 0 /\ magnitude # 0,
         whole |-> magnitude \div Scale,
         fraction |-> FourDigits(magnitude % Scale)]

-----------------------------------------------------------------------------
(***************************************************************************)
(* The reference: a text denotes the fraction of two integers.             *)
(***************************************************************************)
\* The digits d read from left to right, after the number n.
ReadAfter(n, d) ==
    LET value[i \in 0..Len(d)] == IF i = 0 THEN n ELSE 10 * value[i - 1] + d[i]
    IN  value[Len(d)]

PowerOfTen(n) == ReadAfter(1, [i \in 1..n |-> 0])

\* All digits of the text, read as one integer.
Unscaled(t) == ReadAfter(t.whole, t.fraction)

\* n minor units are exactly the number that t denotes.
Denotes(t, n) ==
    n * PowerOfTen(Len(t.fraction)) = (IF t.negative THEN -Unscaled(t) ELSE Unscaled(t)) * Scale

\* One text per number: "-0.0000" would not be what NUMERIC(19, 4) gives back, and
\* an entry hashed over it would not recompute.
Canonical(t) == Len(t.fraction) = Places /\ (t.negative => Unscaled(t) # 0)
=============================================================================
