----------------------------- MODULE Waterfall -----------------------------
(***************************************************************************)
(* The spend_waterfall evaluator (internal/account/waterfall.go): which    *)
(* balances pay for a purchase.  All amounts are US cents, the USDC        *)
(* balance at its quoted worth.                                            *)
(***************************************************************************)
EXTENDS Integers, Sequences

RuleNames == {"prefer_fiat_if_sufficient", "prefer_stablecoin_if_sufficient",
              "split_fiat_then_stablecoin", "split_stablecoin_then_fiat",
              "decline"}

(* What the schema admits as content of the rule.                          *)
WaterfallContent == [conditions : Seq(RuleNames), allow_split : BOOLEAN]

Leg(currency, cents, pct) ==
    [currency |-> currency, cents |-> cents, share_pct |-> pct]

approvedSingle(currency, amount) == <<Leg(currency, amount, 100)>>

(* The first balance pays what it can, the second the rest; a leg of zero  *)
(* is left out.                                                            *)
approvedSplit_Unclamped(first, firstBal, second, amount) ==   \* no clamping
    <<Leg(first, firstBal, 50), Leg(second, amount - firstBal, 50)>>

approvedSplit(first, firstBal, second, amount) ==
    LET portion == IF firstBal > amount THEN amount
                   ELSE IF firstBal < 0 THEN 0 ELSE firstBal
        pct == (portion * 100) \div amount
    IN  IF portion = 0 THEN <<Leg(second, amount, 100)>>
        ELSE IF portion = amount THEN <<Leg(first, amount, 100)>>
        ELSE <<Leg(first, portion, pct), Leg(second, amount - portion, 100 - pct)>>

(* Condition name decides the purchase.                                    *)
Applies(name, split, amount, usd, usdc) ==
    \/ name = "prefer_fiat_if_sufficient" /\ usd >= amount
    \/ name = "prefer_stablecoin_if_sufficient" /\ usdc >= amount
    \/ /\ name \in {"split_fiat_then_stablecoin", "split_stablecoin_then_fiat"}
       /\ split
       /\ usd + usdc >= amount
    \/ name = "decline"

Funding(name, amount, usd, usdc) ==
    CASE name = "prefer_fiat_if_sufficient" -> approvedSingle("USD", amount)
      [] name = "prefer_stablecoin_if_sufficient" -> approvedSingle("USDC", amount)
      [] name = "split_fiat_then_stablecoin" ->
           approvedSplit("USD", usd, "USDC", amount)
      [] name = "split_stablecoin_then_fiat" ->
           approvedSplit("USDC", usdc, "USD", amount)
      [] OTHER -> << >>

(* The first condition that applies decides; with none, an error.          *)
EvaluateWaterfall(content, amount, usd, usdc) ==
    LET conds == content.conditions
        hits == {i \in 1..Len(conds) :
                   Applies(conds[i], content.allow_split, amount, usd, usdc)}
        first == CHOOSE i \in hits : \A j \in hits : i <= j
    IN  IF hits = {} THEN [decision |-> "error", funding |-> << >>]
        ELSE [decision |-> IF conds[first] = "decline" THEN "declined" ELSE "approved",
              funding |-> Funding(conds[first], amount, usd, usdc)]

(* What a funding of amount must satisfy: one leg per currency, the legs   *)
(* add up to the amount and their shares to 100, and no leg is zero or     *)
(* more than the balance the decision saw.                                 *)
Covers(funding, amount, usd, usdc) ==
    /\ \/ Len(funding) = 1 /\ funding[1].cents = amount
                           /\ funding[1].share_pct = 100
       \/ /\ Len(funding) = 2
          /\ funding[1].cents + funding[2].cents = amount
          /\ funding[1].share_pct + funding[2].share_pct = 100
          /\ funding[1].currency # funding[2].currency
    /\ \A i \in 1..Len(funding) :
         /\ funding[i].share_pct \in 0..100
         /\ \/ funding[i].currency = "USD" /\ funding[i].cents \in 1..usd
            \/ funding[i].currency = "USDC" /\ funding[i].cents \in 1..usdc
=============================================================================
