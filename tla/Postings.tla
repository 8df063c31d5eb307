------------------------------ MODULE Postings ------------------------------
(***************************************************************************)
(* Transactions and their double entries, and the part of Post's           *)
(* validation that looks at the transaction alone.                         *)
(***************************************************************************)
EXTENDS LedgerEvents, Integers, Sequences, FiniteSets, FiniteSetsExt

CONSTANTS
    Currencies, \* the known currency codes
    Currency,   \* [Accounts -> Currencies]
    Content     \* [TxIDs -> [kind, currency, entries]], fixed before Post

ASSUME PostingsAssumption ==
    /\ IsFiniteSet(Accounts)
    /\ Currency \in [Accounts -> Currencies]
    /\ \A t \in TxIDs :
         Content[t].entries \in Seq([account : Accounts, direction : STRING,
                                    currency : STRING, minor : Int])

Entries(t) == Content[t].entries

EntryAccounts(t) == {Entries(t)[i].account : i \in 1..Len(Entries(t))}

(* Sum of the entries of t on one side, over the accounts in A.            *)
Total(t, side, A) ==
    LET I == {i \in 1..Len(Entries(t)) :
                Entries(t)[i].direction = side /\ Entries(t)[i].account \in A}
    IN  MapThenSumSet(LAMBDA i : Entries(t)[i].minor, I)

(* The conditions of Post that do not depend on the state of the ledger.   *)
WellFormed_Unbalanced(t) ==          \* without the sum of the two sides
    /\ Len(Entries(t)) >= 2
    /\ Content[t].currency \in Currencies
    /\ \A i \in 1..Len(Entries(t)) :
         /\ Entries(t)[i].currency = Content[t].currency
         /\ Entries(t)[i].minor > 0
         /\ Currency[Entries(t)[i].account] = Content[t].currency
         /\ Entries(t)[i].direction \in {"debit", "credit"}

WellFormed(t) ==
    /\ Len(Entries(t)) >= 2
    /\ Content[t].currency \in Currencies
    /\ \A i \in 1..Len(Entries(t)) :
         /\ Entries(t)[i].currency = Content[t].currency
         /\ Entries(t)[i].minor > 0
         /\ Currency[Entries(t)[i].account] = Content[t].currency
         /\ Entries(t)[i].direction \in {"debit", "credit"}
    /\ Total(t, "debit", Accounts) = Total(t, "credit", Accounts)

SoundTxs == {t \in TxIDs : WellFormed(t)}

TouchedAccounts == [t \in TxIDs |-> EntryAccounts(t)]
=============================================================================
