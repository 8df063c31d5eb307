------------------------------ MODULE MCConvert ------------------------------
(***************************************************************************)
(* Conversions between two currencies through the treasury-fx accounts:    *)
(* one that both legs survive, one so small that its second leg rounds to  *)
(* zero, which Post rejects; a deposit whose two sides differ.  Or a       *)
(* deposit of USDC, during which the dashboard is asked.                   *)
(***************************************************************************)
EXTENDS Dashboard, TLC

CONSTANTS seed, out, into, dustOut, dustIn, skew, dep,   \* transactions
          usd, usdc, fxUSD, fxUSDC, cash, coins, equity  \* accounts

MCCurrency == [a \in Accounts |-> IF a \in {usdc, fxUSDC, coins} THEN "USDC" ELSE "USD"]

MCType == [a \in Accounts |->
    CASE a \in {usd, usdc} -> "customer_deposit"
      [] a \in {fxUSD, fxUSDC} -> "treasury_fx"
      [] a \in {cash, coins} -> "treasury_cash"
      [] a = equity -> "equity_capital"]

MCSystemAccounts == <<cash, coins, equity, fxUSD, fxUSDC, usd, usdc>>

Transfer(k, c, from, to, m) ==
    [kind |-> k, currency |-> c,
     entries |-> <<[account |-> from, direction |-> "debit",
                    currency |-> c, minor |-> m],
                   [account |-> to, direction |-> "credit",
                    currency |-> c, minor |-> m]>>]

MCContent == [t \in TxIDs |->
    CASE t = seed    -> Transfer("capital.seed", "USD", cash, equity, 3)
      [] t = out     -> Transfer("fx", "USD", usd, fxUSD, 2)
      [] t = into    -> Transfer("fx", "USDC", fxUSDC, usdc, 3)
      [] t = dustOut -> Transfer("fx", "USDC", usdc, fxUSDC, 1)
      [] t = dustIn  -> Transfer("fx", "USD", fxUSD, usd, 0)
      [] t = dep     -> Transfer("deposit", "USDC", coins, usdc, 5)
      [] t = skew    -> [Transfer("deposit", "USD", cash, usd, 1)
                           EXCEPT !.entries[2].minor = 2]]

MCLinked == [t \in {out, dustOut} |-> IF t = out THEN into ELSE dustIn]

MCContents ==
    [fx |-> {[rate |-> 9, mode |-> "half_up"], [rate |-> 11, mode |-> "down"]},
     liq |-> {[runoff |-> 2500,
               haircut |-> [c \in Currencies |-> IF c = "USD" THEN 0 ELSE 1500],
               asf |-> [customer_deposit |-> 9000, equity_capital |-> 10000],
               rsf |-> [loan_receivable |-> 8500, treasury_cash |-> 0,
                        treasury_fx |-> 5000]]},
     targets |-> {[lcr |-> x, nsfr |-> 10000, capital_adequacy |-> 1050,
                   loan_to_deposit |-> 9000] : x \in {10000, 30000}},
     weights |-> {[defaulted |-> 15000, tiers |-> [a |-> 7500], default |-> 10000]}]

MCPortfolios ==
    {{[tier |-> "a", status |-> "active", outstanding |-> 2],
      [tier |-> "b", status |-> "repaid", outstanding |-> 0]}}

\* The two workloads exclude each other, and time passes in the second only.
Workload == \/ issued \cap FXTxs = {}
            \/ asks = 0 /\ now = 1 /\ dep \notin issued

\* One of the contents of each rule to begin with.
MCInit == DashInit /\ live.fx.mode = "half_up" /\ live.targets.lcr = 10000

MCNext == DashNext /\ Workload'

MCSpec == MCInit /\ [][MCNext]_dashVars

MCSymmetry == Permutations(Procs)
=============================================================================
