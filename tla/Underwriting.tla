---------------------------- MODULE Underwriting ----------------------------
(***************************************************************************)
(* The rule types risk_scoring and loan_underwriting as functions of rule  *)
(* content and applicant (internal/loan/evaluators.go).  An evaluator that *)
(* returns an error has ok = FALSE.                                        *)
(***************************************************************************)
EXTENDS Integers, Sequences, FiniteSetsExt

CONSTANT PctUnit    \* max_debt_to_income_pct counts fractions of a per cent

ASSUME UnderwritingAssumption == PctUnit \in Nat \ {0}

Failed == [ok |-> FALSE]

(* What the schemas of the two rules admit, as far as it matters here.     *)
ScoringContent(c) ==
    /\ c.base \in Int /\ c.clamp \in [min : Int, max : Int]
    /\ c.factors \in Seq(Range(c.factors)) /\ c.tiers \in Seq(Range(c.tiers))
    /\ \A f \in Range(c.factors) : /\ f.bands \in Seq(Range(f.bands))
                                   /\ \A b \in Range(f.bands) : b.points \in Int

UnderwritingContent ==
    [min_credit_score : Nat, min_monthly_income : Nat, max_debt_to_income_pct : Nat,
     min_account_age : Nat, min_risk_score : Nat, terms : SUBSET Nat,
     tiers : Seq([tier : STRING, min_risk_score : Nat, rate : Nat, max_principal : Nat])]

(* Both ends of a band belong to it, and each may be absent.               *)
Covers(band, val) == /\ "min" \in DOMAIN band => val >= band.min
                     /\ "max" \in DOMAIN band => val <= band.max

Matching(bands, val) == {i \in DOMAIN bands : Covers(bands[i], val)}

matchBand(bands, val) == bands[Min(Matching(bands, val))].points

clamp(v, range) == IF v < range.min THEN range.min
                   ELSE IF v > range.max THEN range.max ELSE v

(* sortedTiers: descending by threshold, otherwise in the order given.     *)
Before(tiers, key, i, k) ==
    \/ tiers[i][key] > tiers[k][key]
    \/ tiers[i][key] = tiers[k][key] /\ i <= k

Reached(tiers, key, value) == {i \in DOMAIN tiers : value >= tiers[i][key]}

firstMatchingTier(tiers, key, value) ==
    LET S == Reached(tiers, key, value)
    IN  tiers[CHOOSE i \in S : \A k \in S : Before(tiers, key, i, k)]

highestRateTier(tiers) ==
    LET S == {i \in DOMAIN tiers : \A k \in DOMAIN tiers : tiers[i].rate >= tiers[k].rate}
    IN  tiers[CHOOSE i \in S : \A k \in S : Before(tiers, "min_risk_score", i, k)]

EvaluateRiskScore(content, applicant) ==
    LET F == DOMAIN content.factors
        value(f) == applicant[content.factors[f].input]
        total == content.base + MapThenSumSet(
                   LAMBDA f : matchBand(content.factors[f].bands, value(f)), F)
        score == clamp(total, content.clamp)
    IN  IF \/ \E f \in F : Matching(content.factors[f].bands, value(f)) = {}
           \/ Reached(content.tiers, "min_score", score) = {}
        THEN Failed
        ELSE [ok |-> TRUE, score |-> score,
              tier |-> firstMatchingTier(content.tiers, "min_score", score).tier]

(* Underwrite prices a loan before it is decided on.                       *)
Pricing(content, score) ==
    IF Reached(content.tiers, "min_risk_score", score) # {}
    THEN firstMatchingTier(content.tiers, "min_risk_score", score)
    ELSE highestRateTier(content.tiers)

(* The share of the income that goes into debts is a floating-point        *)
(* number: where it is exactly the maximum it may come out above (`up`).   *)
DebtAbove(content, applicant, installment, up) ==
    LET debt == 100 * PctUnit * (applicant.debt + installment)
        most == content.max_debt_to_income_pct * applicant.income
    IN  applicant.income <= 0 \/ debt > most \/ (up /\ debt = most)

(* x is the input of the rule: [applicant, score, principal, term,         *)
(* installment].                                                           *)
EvaluateUnderwriting(content, x, up) ==
    LET a == x.applicant
        matched == Reached(content.tiers, "min_risk_score", x.score) # {}
        tier == firstMatchingTier(content.tiers, "min_risk_score", x.score)
        declined ==
            \/ a.credit < content.min_credit_score
            \/ a.income < content.min_monthly_income
            \/ DebtAbove(content, a, x.installment, up)
            \/ a.age < content.min_account_age
            \/ x.score < content.min_risk_score
            \/ x.term \notin content.terms
            \/ matched /\ x.principal > tier.max_principal
    IN  [approved |-> ~declined, tier |-> IF matched THEN tier ELSE Failed]
=============================================================================
