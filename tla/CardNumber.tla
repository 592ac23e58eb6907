-------------------------------- MODULE CardNumber --------------------------------
(***************************************************************************)
(* Card numbers as sequences of digits: the check digit of the validator   *)
(* (internal/subsystems/validator, luhnValid) and the scheme the router    *)
(* tells by the first digits (orchestrator/simple/card_scheme.go).         *)
(***************************************************************************)
EXTENDS Integers, Sequences, FiniteSetsExt

Digit == 0..9

(* Fault variant: a doubled digit above 9 loses its tens.                  *)
DoubledTruncated(d) == (2 * d) % 10
Doubled(d) == IF 2 * d > 9 THEN 2 * d - 9 ELSE 2 * d

(* Every second digit is doubled, beginning with the last but one.         *)
Weighed(number, i) == IF (Len(number) - i) % 2 = 1 THEN Doubled(number[i]) ELSE number[i]

SumOf(s) ==
    LET sum[i \in 0..Len(s)] == IF i = 0 THEN 0 ELSE sum[i - 1] + s[i]
    IN  sum[Len(s)]

LuhnSum(number) == SumOf([i \in 1..Len(number) |-> Weighed(number, i)])

luhnValid(number) == LuhnSum(number) % 10 = 0

validateCardNumber(number) == Len(number) \in 13..19 /\ luhnValid(number)

(* The number, read from the left, up to four digits.                      *)
Prefix4(number) ==
    1000 * number[1] + 100 * number[2] + 10 * number[3] + number[4]

(* MIR cards are the only ones the router treats by their scheme.          *)
IsMir(number) == Len(number) >= 4 /\ Prefix4(number) \in 2200..2204

-----------------------------------------------------------------------------
(* How an issuer makes a number, the check digit of ISO/IEC 7812: the last *)
(* digit is what the sum of those before it, every second one doubled and  *)
(* its tens and units added up, lacks to a multiple of ten.                *)
HasCheckDigit(number) ==
    LET n == Len(number)
        weight(i) == IF (n - i) % 2 = 1 THEN ((2 * number[i]) \div 10) + ((2 * number[i]) % 10)
                                        ELSE number[i]
    IN  number[n] = (10 - (SumOf([i \in 1..(n - 1) |-> weight(i)]) % 10)) % 10

(* A number with one digit changed, or two neighbours swapped.             *)
Mistyped(number) ==
    {[number EXCEPT ![i] = d] : i \in DOMAIN number, d \in Digit}
    \cup {[number EXCEPT ![i] = number[i + 1], ![i + 1] = number[i]] :
              i \in 1..(Len(number) - 1)}
=============================================================================
