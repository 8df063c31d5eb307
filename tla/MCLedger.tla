------------------------------ MODULE MCLedger ------------------------------
(***************************************************************************)
(* Small ledgers for TLC.  Two system accounts, one account that a request *)
(* opens, a capital transaction for each start of the process, and a       *)
(* transaction between system accounts, on the opened one, or the two of a *)
(* conversion whose second transaction rounds to zero, which Post refuses. *)
(***************************************************************************)
EXTENDS Ledger, TLC

CONSTANTS Seeds,              \* the capital transactions, one per start
          move, lend,         \* other transactions
          out, into,          \* a conversion
          cash, equity, loan, usd, usdc, fxUSD, fxUSDC  \* accounts

Entry(a, d, c, m) == [account |-> a, direction |-> d, currency |-> c, minor |-> m]

Tx(k, es) == [kind |-> k, currency |-> "USD", entries |-> es]

MCCurrency == [a \in Accounts |-> IF a \in {usdc, fxUSDC} THEN "USDC" ELSE "USD"]

MCSystemAccounts == <<cash, equity>>

MCTwoCurrencies == <<cash, equity, fxUSD, fxUSDC, usd, usdc>>

\* move: between system accounts.  lend: three legs, one of them on the
\* account a request has to open first.
MCContent == [t \in TxIDs |->
    CASE t \in Seeds -> Tx("capital.seed", <<Entry(cash, "debit", "USD", 3),
                                             Entry(equity, "credit", "USD", 3)>>)
      [] t = move -> Tx("deposit", <<Entry(equity, "debit", "USD", 1),
                                     Entry(cash, "credit", "USD", 1)>>)
      [] t = lend -> Tx("loan.disbursement", <<Entry(loan, "debit", "USD", 2),
                                               Entry(cash, "credit", "USD", 1),
                                               Entry(equity, "credit", "USD", 1)>>)
      [] t = out -> Tx("fx", <<Entry(usd, "debit", "USD", 2),
                               Entry(fxUSD, "credit", "USD", 2)>>)
      [] t = into -> [Tx("fx", <<Entry(fxUSDC, "debit", "USDC", 0),
                                 Entry(usdc, "credit", "USDC", 0)>>)
                        EXCEPT !.currency = "USDC"]]

MCNoLinks == << >>

MCLinked == [t \in {out} |-> into]

SeedSymmetry == Permutations(Procs) \cup Permutations(Seeds)
=============================================================================
