---------------------------- MODULE LedgerEvents ----------------------------
(***************************************************************************)
(* The events of the ledger's log.  A transaction's content is fixed by    *)
(* its identifier (newID draws a fresh one for every submission), so an    *)
(* event needs to carry only the latter.                                   *)
(***************************************************************************)
CONSTANTS
    Accounts,   \* account identifiers
    TxIDs       \* transaction identifiers, one per transaction ever submitted

Opened(a)    == [type |-> "opened",    id |-> a]
Posted(t)    == [type |-> "posted",    id |-> t]
Settled(t)   == [type |-> "settled",   id |-> t]
Finalized(t) == [type |-> "finalized", id |-> t]

Event == [type : {"opened"}, id : Accounts]
         \cup [type : {"posted", "settled", "finalized"}, id : TxIDs]

(* f with a new point s, mapped to e.                                      *)
Extend(f, s, e) == [r \in DOMAIN f \cup {s} |-> IF r = s THEN e ELSE f[r]]
=============================================================================
