------------------------------ MODULE Amortize ------------------------------
(***************************************************************************)
(* Loan schedules (internal/loan/amortize.go).  Amounts are cents; a       *)
(* monthly rate is rate / RateUnit (basis points of a year over 120000 in  *)
(* the code).                                                              *)
(***************************************************************************)
EXTENDS Integers

CONSTANT RateUnit

ASSUME RateUnitAssumption == RateUnit \in Nat \ {0}

(* num / den to the nearest integer, ties away from zero; den > 0.         *)
roundHalfUp(num, den) ==
    IF num >= 0 THEN (2 * num + den) \div (2 * den)
    ELSE -((2 * (-num) + den) \div (2 * den))

Interest(outstanding, rate) == roundHalfUp(outstanding * rate, RateUnit)

ratPow(base, n) ==
    LET result[i \in 0..n] == IF i = 0 THEN 1 ELSE result[i - 1] * base
    IN  result[n]

(* P*r*(1+r)^n / ((1+r)^n - 1), rounded.                                   *)
MonthlyPayment(principal, rate, term) ==
    IF term <= 0 \/ principal <= 0 THEN 0
    ELSE IF rate = 0 THEN roundHalfUp(principal, term)
    ELSE LET grown == ratPow(RateUnit + rate, term)
         IN  roundHalfUp(principal * rate * grown,
                         RateUnit * (grown - ratPow(RateUnit, term)))

(* What is still owed after each installment; the last one takes the rest. *)
Remaining(principal, rate, term) ==
    LET pay == MonthlyPayment(principal, rate, term)
        rem[no \in 0..term] ==
            IF no = 0 THEN principal
            ELSE IF no = term THEN 0
            ELSE rem[no - 1] - (pay - Interest(rem[no - 1], rate))
    IN  rem

(* The installments of a loan with the terms t.                            *)
Schedule(t) ==
    LET rem == Remaining(t.principal, t.rate, t.term)
    IN  [no \in 1..t.term |->
           LET interest == Interest(rem[no - 1], t.rate) IN
           [interest |-> interest,
            payment |-> rem[no - 1] - rem[no] + interest]]
=============================================================================
