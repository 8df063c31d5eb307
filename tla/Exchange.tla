------------------------------ MODULE Exchange ------------------------------
(***************************************************************************)
(* The pure arithmetic of FX quotes (internal/ledger/fx.go).  A rate is an *)
(* integer, US cents per cent's worth of USDC times Scale; USDC has Unit   *)
(* minor units to the cent.  In the code Scale is 10^8 and Unit is 10^4.   *)
(* The policy states the pair as shipped, dollars for a USDC.              *)
(***************************************************************************)
EXTENDS Integers

CONSTANTS
    Scale,  \* scaleFactor
    Unit    \* 10 to the difference of the currencies' decimals

ASSUME ExchangeAssumption == Scale \in Nat \ {0} /\ Unit \in Nat \ {0}

Modes == {"half_up", "down"}

(* The quotient n / d, rounded by its absolute value.                      *)
roundRat(n, d, mode) ==
    LET abs == IF n < 0 THEN -n ELSE n
        q   == abs \div d
        up  == mode = "half_up" /\ 2 * (abs % d) >= d
        v   == IF up THEN q + 1 ELSE q
    IN  IF n < 0 THEN -v ELSE v

(* A rate of zero may be saved, but not inverted: Quote returns an error.  *)
Invertible(fx) == fx.rate > 0

invertScaled(rate, mode) == roundRat(Scale * Scale, rate, mode)

(* Quote("USDC", "USD", minor): the pair as the policy states it.          *)
QuoteToUSD(minor, fx) == roundRat(minor * fx.rate, Scale * Unit, fx.mode)

(* Quote("USD", "USDC", cents): the pair inverted, and rounded twice.      *)
QuoteToUSDC_Direct(cents, fx) ==        \* the pair is not inverted
    roundRat(cents * fx.rate * Unit, Scale, fx.mode)

QuoteToUSDC(cents, fx) ==
    roundRat(cents * invertScaled(fx.rate, fx.mode) * Unit, Scale, fx.mode)
=============================================================================
