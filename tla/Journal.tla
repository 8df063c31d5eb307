------------------------------- MODULE Journal -------------------------------
(***************************************************************************)
(* What the ledger promises of its event log, without projection, threads  *)
(* or locks: the log only grows, and an event is added only when the       *)
(* events it depends on already stand before it.  Sequence numbers are     *)
(* not added in ascending order: Postgres hands a number out at INSERT and *)
(* shows the row at COMMIT, so a later number may become visible first.    *)
(***************************************************************************)
EXTENDS LedgerEvents, Integers

CONSTANTS
    Sound,      \* the transactions whose entries balance
    Touches     \* [TxIDs -> SUBSET Accounts], the accounts of the entries

VARIABLE log    \* committed events, a function on a finite set of numbers

(* e may stand after the set B of events.                                  *)
Legal(e, B) ==
    \/ e.type = "opened"
    \/ /\ e.type = "posted"
       /\ e.id \in Sound
       /\ \A a \in Touches[e.id] : Opened(a) \in B
    \/ e.type = "settled" /\ Posted(e.id) \in B
    \/ e.type = "finalized" /\ Settled(e.id) \in B

EventsBefore(l, s) == {l[r] : r \in {q \in DOMAIN l : q < s}}

Init == log = << >>

Record(s, e) ==
    /\ s \notin DOMAIN log
    /\ Legal(e, EventsBefore(log, s))
    /\ log' = Extend(log, s, e)

Next == \E s \in DOMAIN log' \ DOMAIN log :
          /\ s \in Nat \ {0}
          /\ log'[s] \in Event
          /\ Record(s, log'[s])

Spec == Init /\ [][Next]_log

-----------------------------------------------------------------------------
(* Every event of the log is preceded, in sequence order, by the events it *)
(* depends on: a posting by the opening of each account it touches, a      *)
(* settlement by its posting, a finalisation by a settlement.              *)
LegalLog == \A s \in DOMAIN log : Legal(log[s], EventsBefore(log, s))
=============================================================================
