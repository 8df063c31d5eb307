------------------------------- MODULE Ratios -------------------------------
(***************************************************************************)
(* The pure arithmetic of the dashboard (internal/dashboard/numeric.go,    *)
(* evaluators.go).  A percentage is an integer number of hundredths, which *)
(* is how far ratToFloatDP(_, 2) and the rules' numbers go.                *)
(***************************************************************************)
EXTENDS Exchange

Hundred == 10000       \* one hundred per cent

roundHalfUp(n, d) == IF d < 0 THEN roundRat(-n, -d, "half_up")
                     ELSE roundRat(n, d, "half_up")

pctOf(amount, pct) == roundHalfUp(amount * pct, Hundred)

(* The zero that stands for a ratio without denominator is told apart by   *)
(* its "n/a" status.                                                       *)
computeRatio(num, den) == IF den = 0 THEN 0 ELSE roundHalfUp(num * Hundred, den)

(* USD is taken as it is, and a zero amount needs no rate.                 *)
toUSD(currency, minor, fx) ==
    IF currency = "USD" \/ minor = 0 THEN minor ELSE QuoteToUSD(minor, fx)

Metrics == {"lcr", "nsfr", "capital_adequacy", "loan_to_deposit"}

EvaluateThresholds(targets, value) ==
    [m \in Metrics |->
       IF m = "loan_to_deposit"
       THEN IF value[m] <= targets[m] THEN "ok" ELSE "above_maximum"
       ELSE IF value[m] >= targets[m] THEN "ok" ELSE "below_target"]

EvaluateRiskWeights(weights, exposure) ==
    LET weight == IF exposure.status = "defaulted" THEN weights.defaulted
                  ELSE IF exposure.tier \in DOMAIN weights.tiers
                  THEN weights.tiers[exposure.tier] ELSE weights.default
    IN  pctOf(exposure.outstanding, weight)

(* The outflows; the ratio is computeRatio of hqla and outflows.           *)
EvaluateLiquidityStress(liq, deposits) == pctOf(deposits, liq.runoff)

(* The status a metric is shown with.                                      *)
statusFor_Value(status, value, den) ==  \* takes the zero value for the sign
    IF value = 0 THEN "n/a" ELSE status

statusFor(status, value, den) == IF den = 0 THEN "n/a" ELSE status
=============================================================================
