----------------------------- MODULE MCAccount -----------------------------
(***************************************************************************)
(* A customer with a few cents in each currency.  USDC has Unit minor      *)
(* units to the cent; rates are tenths.                                    *)
(***************************************************************************)
EXTENDS Account, TLC

Conditions(s, split) == [conditions |-> s, allow_split |-> split]

FiatFirst == Conditions(<<"prefer_fiat_if_sufficient",
                          "prefer_stablecoin_if_sufficient",
                          "split_fiat_then_stablecoin", "decline">>, TRUE)
CoinFirst == Conditions(<<"prefer_stablecoin_if_sufficient",
                          "split_stablecoin_then_fiat", "decline">>, TRUE)
\* No split allowed, and no condition that applies to every purchase.
NoSplit   == Conditions(<<"prefer_fiat_if_sufficient",
                          "split_stablecoin_then_fiat">>, FALSE)

MCWaterfalls == {FiatFirst, CoinFirst, NoSplit}

HalfUp(r) == [rate |-> r, mode |-> "half_up"]
Down(r)   == [rate |-> r, mode |-> "down"]

MCPolicies == {HalfUp(9), Down(70), HalfUp(0)}

MCSeed == [c \in Currencies |-> IF c = "USD" THEN 2 ELSE 7]

MCSymmetry == Permutations(Procs)
=============================================================================
