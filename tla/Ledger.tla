------------------------------- MODULE Ledger -------------------------------
(***************************************************************************)
(* internal/ledger: the event-sourced ledger service.  Every HTTP request  *)
(* runs in its own goroutine over one event store and one in-memory        *)
(* projection.  A ledger call refreshes the projection, reads it, appends  *)
(* one event to the store and folds that event into the projection; the    *)
(* projection's mutex is held inside each of these steps, never across     *)
(* two of them.                                                            *)
(***************************************************************************)
EXTENDS Postings

CONSTANTS
    Procs,          \* request goroutines
    Main,           \* the goroutine of main(), which seeds the ledger
    Nobody,         \* the owner of a free mutex
    SystemAccounts, \* sequence of the accounts main() opens
    Linked,         \* [a subset of TxIDs -> TxIDs], the pairs Convert posts
    Postgres,       \* TRUE: pgstore, FALSE: memstore
    MaxFaults,      \* bound on store errors and crashes
    MaxManual,      \* bound on the settle and finalize requests of clients
    MaxSeq          \* sequence numbers that EventuallyApplied speaks of

Threads == Procs \cup {Main}

SeedTxs == {t \in TxIDs : Content[t].kind = "capital.seed"}

FXTxs == DOMAIN Linked \cup {Linked[t] : t \in DOMAIN Linked}

ASSUME LedgerAssumption ==
    /\ Main \notin Procs
    /\ Nobody \notin Threads
    /\ SystemAccounts \in Seq(Accounts)
    /\ Linked \in [DOMAIN Linked -> TxIDs]
    /\ DOMAIN Linked \subseteq TxIDs
    /\ \A t, u \in DOMAIN Linked : Linked[t] = Linked[u] => t = u
    /\ \A t \in DOMAIN Linked : Linked[t] \notin DOMAIN Linked
    /\ FXTxs \cap SeedTxs = {}
    /\ Postgres \in BOOLEAN
    /\ MaxFaults \in Nat
    /\ MaxManual \in Nat
    /\ MaxSeq \in Nat

VARIABLES
    log,      \* the store's committed events, by sequence number
    nextSeq,  \* the last sequence number handed out
    accounts, \* projection: the opened accounts
    status,   \* projection: status of each transaction, "none" if unknown
    debit,    \* projection: lifetime debit total per account
    credit,   \* projection: lifetime credit total per account
    lastSeq,  \* projection: highest sequence number folded in
    mu,       \* owner of the projection's mutex while refresh runs
    batch,    \* events that the running refresh has listed and not yet folded
    pc,       \* step each goroutine is at
    calls,    \* ledger calls each goroutine has still to make
    seq,      \* sequence number of the event each goroutine is appending
    phase,    \* "starting" | "up" | "down"
    issued,   \* identifiers handed out by newID
    manual,   \* settle and finalize requests so far
    faults,   \* store errors and crashes so far
    applied,  \* history: how often this projection has folded each event
    lost      \* history: committed events whose Append reported an error

store   == <<log, nextSeq>>
proj    == <<accounts, status, debit, credit, lastSeq, applied>>
threads == <<pc, calls, seq>>
vars    == <<store, proj, mu, batch, threads, phase, issued, manual, faults, lost>>

Call(op, id) == [op |-> op, id |-> id]

TxCalls == [op : {"post", "settle", "finalize", "seed", "convert"}, id : TxIDs]
AccountCalls == [op : {"open", "ensure"}, id : Accounts]
Calls == TxCalls \cup AccountCalls \cup [op : {"read"}, id : {Nobody}]

Statuses == {"none", "pending", "settled", "final"}

-----------------------------------------------------------------------------
(* main(): EnsureSystemAccounts opens what is missing, then SeedCapital    *)
(* posts and finalises the capital transaction unless one is there.        *)
StartupCalls(t) ==
    [i \in 1..Len(SystemAccounts) |-> Call("ensure", SystemAccounts[i])]
    \o <<Call("seed", t), Call("settle", t), Call("finalize", t)>>

EmptyProjection ==
    /\ accounts' = {}
    /\ status' = [t \in TxIDs |-> "none"]
    /\ debit' = [a \in Accounts |-> 0]
    /\ credit' = [a \in Accounts |-> 0]
    /\ lastSeq' = 0
    /\ applied' = [s \in DOMAIN log |-> 0]

Init ==
    /\ log = << >>
    /\ nextSeq = 0
    /\ accounts = {}
    /\ status = [t \in TxIDs |-> "none"]
    /\ debit = [a \in Accounts |-> 0]
    /\ credit = [a \in Accounts |-> 0]
    /\ lastSeq = 0
    /\ applied = << >>
    /\ mu = Nobody
    /\ batch = {}
    /\ pc = [p \in Threads |-> IF p = Main THEN "refresh" ELSE "idle"]
    /\ seq = [p \in Threads |-> 0]
    /\ \E t \in SeedTxs :
         /\ calls = [p \in Threads |->
                       IF p = Main THEN StartupCalls(t) ELSE << >>]
         /\ issued = {t}
    /\ phase = "starting"
    /\ manual = 0
    /\ faults = 0
    /\ lost = {}

-----------------------------------------------------------------------------
(* Goroutine p returns from its call with success: it makes the next one,  *)
(* or answers the request.  main() then starts to serve.                   *)
Continue(p, rest) ==
    /\ calls' = [calls EXCEPT ![p] = rest]
    /\ pc' = [pc EXCEPT ![p] = IF rest = << >> THEN "idle" ELSE "refresh"]
    /\ phase' = IF p = Main /\ rest = << >> THEN "up" ELSE phase

(* Goroutine p's call returns an error: the calls it had still to make are *)
(* not made and nothing is undone.  An error in main() ends the process.   *)
Abort(p) ==
    /\ calls' = [calls EXCEPT ![p] = << >>]
    /\ pc' = [pc EXCEPT ![p] = "idle"]
    /\ phase' = IF p = Main THEN "down" ELSE phase

(* The totals of one side of the accounts after the entries of t.          *)
AddEntries(totals, t, side) ==
    [a \in Accounts |-> totals[a] + Total(t, side, {a})]

(* lastSeq after the event with number s.                                  *)
NoteSeq_Counts(s) == lastSeq' = lastSeq + 1   \* one up for every event

NoteSeq(s) == lastSeq' = IF s > lastSeq THEN s ELSE lastSeq

(* projection.apply on the event with number s.                            *)
ApplyEvent(s) ==
    LET e == log[s]
        posts == e.type = "posted"
        after == [posted |-> "pending", settled |-> "settled",
                  finalized |-> "final"]
    IN
    /\ accounts' = IF e.type = "opened" THEN accounts \cup {e.id} ELSE accounts
    /\ status' = IF e.type = "opened" THEN status
                 ELSE [status EXCEPT ![e.id] = after[e.type]]
    /\ debit' = IF posts THEN AddEntries(debit, e.id, "debit") ELSE debit
    /\ credit' = IF posts THEN AddEntries(credit, e.id, "credit") ELSE credit
    /\ NoteSeq(s)
    /\ applied' = [applied EXCEPT ![s] = @ + 1]

-----------------------------------------------------------------------------
(* Requests.  Each begins with the calls its handler makes on the ledger.  *)
Begin(p, cs) ==
    /\ phase = "up"
    /\ pc[p] = "idle"
    /\ calls' = [calls EXCEPT ![p] = cs]
    /\ pc' = [pc EXCEPT ![p] = "refresh"]
    /\ UNCHANGED <<store, proj, mu, batch, seq, phase, faults, lost>>

(* OpenAccount, as a request reaches it: with a fresh identifier (the      *)
(* receivable account of a new loan).                                      *)
OpenAccount(p) ==
    \E a \in Accounts \ (issued \cup {SystemAccounts[i] :
                                        i \in 1..Len(SystemAccounts)}) :
        /\ Begin(p, <<Call("open", a)>>)
        /\ issued' = issued \cup {a}
        /\ UNCHANGED manual

PostAndFinalize(p) ==
    \E t \in TxIDs \ (issued \cup SeedTxs \cup FXTxs) :
        /\ Begin(p, <<Call("post", t), Call("settle", t), Call("finalize", t)>>)
        /\ issued' = issued \cup {t}
        /\ UNCHANGED manual

(* Convert reads both accounts, posts the two linked transactions, then    *)
(* settles and finalises first the one and then the other.                 *)
Convert_CreditFirst(p) ==            \* posts the two in the other order
    \E t \in DOMAIN Linked \ issued :
        LET u == Linked[t] IN
        /\ u \notin issued
        /\ Begin(p, <<Call("convert", t), Call("post", u), Call("post", t),
                      Call("settle", t), Call("finalize", t),
                      Call("settle", u), Call("finalize", u)>>)
        /\ issued' = issued \cup {t, u}
        /\ UNCHANGED manual

Convert(p) ==
    \E t \in DOMAIN Linked \ issued :
        LET u == Linked[t] IN
        /\ u \notin issued
        /\ Begin(p, <<Call("convert", t), Call("post", t), Call("post", u),
                      Call("settle", t), Call("finalize", t),
                      Call("settle", u), Call("finalize", u)>>)
        /\ issued' = issued \cup {t, u}
        /\ UNCHANGED manual

(* POST /ledger/transactions/{id}/settle and .../finalize, on any          *)
(* transaction whatever another goroutine is doing with it.                *)
Manual(p, op) ==
    /\ manual < MaxManual
    /\ manual' = manual + 1
    /\ \E t \in TxIDs \cap issued : Begin(p, <<Call(op, t)>>)
    /\ UNCHANGED issued

Settle(p)   == Manual(p, "settle")
Finalize(p) == Manual(p, "finalize")

(* Balance, Balances, BalancesByType, GetAccount, ListAccounts,            *)
(* GetTransaction, ListTransactions: refresh, then read.                   *)
Read(p) == Begin(p, <<Call("read", Nobody)>>) /\ UNCHANGED <<issued, manual>>

-----------------------------------------------------------------------------
(* The store's List: the events after a number, in ascending order.        *)
Unseen_From == {s \in DOMAIN log : s >= lastSeq}   \* off by one

Unseen == {s \in DOMAIN log : s > lastSeq}

Earliest_Any(s) == TRUE                            \* without ORDER BY

Earliest(s) == \A r \in batch : s <= r

(* refresh takes the mutex and lists the events after lastSeq ...          *)
Refresh(p) ==
    /\ pc[p] = "refresh"
    /\ mu = Nobody
    /\ mu' = p
    /\ batch' = Unseen
    /\ pc' = [pc EXCEPT ![p] = "folding"]
    /\ UNCHANGED <<store, proj, calls, seq, phase, issued, manual, faults, lost>>

(* ... folds them in ascending order ...                                   *)
RefreshApply(p) ==
    /\ pc[p] = "folding"
    /\ \E s \in batch :
         /\ Earliest(s)
         /\ ApplyEvent(s)
         /\ batch' = batch \ {s}
    /\ UNCHANGED <<store, mu, threads, phase, issued, manual, faults, lost>>

(* ... and releases the mutex.                                             *)
RefreshDone(p) ==
    /\ pc[p] = "folding"
    /\ batch = {}
    /\ mu' = Nobody
    /\ pc' = [pc EXCEPT ![p] = "check"]
    /\ UNCHANGED <<store, proj, batch, calls, seq, phase, issued, manual, faults, lost>>

-----------------------------------------------------------------------------
(* What call c needs of the projection before it may append its event.     *)
validate(t) == WellFormed(t) /\ EntryAccounts(t) \subseteq accounts

transition_Known(c) ==               \* finalises whatever is known
    \/ c.op = "settle" /\ status[c.id] = "pending"
    \/ c.op = "finalize" /\ status[c.id] # "none"

transition(c) ==
    \/ c.op = "settle" /\ status[c.id] = "pending"
    \/ c.op = "finalize" /\ status[c.id] = "settled"

Allowed(c) ==
    \/ c.op \in {"open", "ensure"} /\ c.id \notin accounts
    \/ c.op \in {"post", "seed"} /\ validate(c.id)
    \/ transition(c)

(* Convert's own checks: both customer accounts exist, and the currency    *)
(* is that of the account the money comes from.                            *)
Convertible(t) ==
    LET from == Entries(t)[1] IN
    /\ {from.account, Entries(Linked[t])[2].account} \subseteq accounts
    /\ Currency[from.account] = from.currency

Seeded_Final == \E t \in SeedTxs : status[t] = "final"

Seeded == \E t \in SeedTxs : status[t] # "none"

(* Calls that return without an event, and what is left to do after them.  *)
Silent(c) ==
    \/ c.op = "read"
    \/ c.op = "convert" /\ Convertible(c.id)
    \/ c.op = "ensure" /\ c.id \in accounts
    \/ c.op = "seed" /\ Seeded

AfterSilent(cs) == IF Head(cs).op = "seed" THEN << >> ELSE Tail(cs)

CheckFrame == UNCHANGED <<store, proj, mu, batch, seq, issued, manual, faults, lost>>

CheckSilent(p) ==
    /\ pc[p] = "check" /\ mu = Nobody
    /\ Silent(Head(calls[p]))
    /\ Continue(p, AfterSilent(calls[p]))
    /\ CheckFrame

CheckPass(p) ==
    /\ pc[p] = "check" /\ mu = Nobody
    /\ ~Silent(Head(calls[p])) /\ Allowed(Head(calls[p]))
    /\ pc' = [pc EXCEPT ![p] = "append"]
    /\ UNCHANGED <<calls, phase>>
    /\ CheckFrame

CheckReject(p) ==
    /\ pc[p] = "check" /\ mu = Nobody
    /\ ~Silent(Head(calls[p])) /\ ~Allowed(Head(calls[p]))
    /\ Abort(p)
    /\ CheckFrame

-----------------------------------------------------------------------------
EventOf(c) ==
    LET type == [open |-> "opened", ensure |-> "opened", post |-> "posted",
                 seed |-> "posted", settle |-> "settled",
                 finalize |-> "finalized"]
    IN  [type |-> type[c.op], id |-> c.id]

Commit(p, s) ==
    /\ log' = Extend(log, s, EventOf(Head(calls[p])))
    /\ applied' = Extend(applied, s, 0)
    /\ UNCHANGED <<accounts, status, debit, credit, lastSeq>>

(* memstore.Append: number and visibility in one critical section.         *)
MemAppend(p) ==
    /\ ~Postgres
    /\ pc[p] = "append"
    /\ nextSeq' = nextSeq + 1
    /\ Commit(p, nextSeq + 1)
    /\ seq' = [seq EXCEPT ![p] = nextSeq + 1]
    /\ pc' = [pc EXCEPT ![p] = "apply"]
    /\ UNCHANGED <<mu, batch, calls, phase, issued, manual, faults, lost>>

(* pgstore.Append: INSERT draws the number ...                             *)
PgInsert_Max(p) ==                   \* one more than the highest committed
    LET s == Max(DOMAIN log \cup {0}) + 1 IN
    /\ Postgres
    /\ pc[p] = "append"
    /\ nextSeq' = s
    /\ seq' = [seq EXCEPT ![p] = s]
    /\ pc' = [pc EXCEPT ![p] = "commit"]
    /\ UNCHANGED <<log, proj, mu, batch, calls, phase, issued, manual, faults, lost>>

PgInsert(p) ==
    /\ Postgres
    /\ pc[p] = "append"
    /\ nextSeq' = nextSeq + 1
    /\ seq' = [seq EXCEPT ![p] = nextSeq + 1]
    /\ pc' = [pc EXCEPT ![p] = "commit"]
    /\ UNCHANGED <<log, proj, mu, batch, calls, phase, issued, manual, faults, lost>>

AppendEvent(p) == IF Postgres THEN PgInsert(p) ELSE MemAppend(p)

(* ... and COMMIT makes the row visible.                                   *)
PgCommit(p) ==
    /\ pc[p] = "commit"
    /\ Commit(p, seq[p])
    /\ pc' = [pc EXCEPT ![p] = "apply"]
    /\ UNCHANGED <<nextSeq, mu, batch, calls, seq, phase, issued, manual, faults, lost>>

(* COMMIT takes effect but reports an error (the connection broke, or the  *)
(* request's context was cancelled, while the answer was under way).       *)
PgCommitLost(p) ==
    /\ pc[p] = "commit"
    /\ faults < MaxFaults
    /\ faults' = faults + 1
    /\ Commit(p, seq[p])
    /\ lost' = lost \cup {seq[p]}
    /\ seq' = [seq EXCEPT ![p] = 0]
    /\ Abort(p)
    /\ UNCHANGED <<nextSeq, mu, batch, issued, manual>>

(* The store fails with no effect: List in refresh, or Append before or at *)
(* its COMMIT.  A number already drawn stays unused.                       *)
StoreError(p) ==
    /\ Postgres
    /\ \/ pc[p] \in {"append", "commit"}
       \/ pc[p] = "refresh" /\ mu = Nobody
    /\ faults < MaxFaults
    /\ faults' = faults + 1
    /\ seq' = [seq EXCEPT ![p] = 0]
    /\ Abort(p)
    /\ UNCHANGED <<store, proj, mu, batch, issued, manual, lost>>

(* applyAppended folds the goroutine's own event in, whether or not a      *)
(* refresh of another goroutine has already done so.                       *)
ApplyAppended_IfNew(p) ==            \* skips what lastSeq says is folded in
    /\ pc[p] = "apply"
    /\ mu = Nobody
    /\ IF seq[p] > lastSeq THEN ApplyEvent(seq[p]) ELSE UNCHANGED proj
    /\ seq' = [seq EXCEPT ![p] = 0]
    /\ Continue(p, Tail(calls[p]))
    /\ UNCHANGED <<store, mu, batch, issued, manual, faults, lost>>

ApplyAppended(p) ==
    /\ pc[p] = "apply"
    /\ mu = Nobody
    /\ ApplyEvent(seq[p])
    /\ seq' = [seq EXCEPT ![p] = 0]
    /\ Continue(p, Tail(calls[p]))
    /\ UNCHANGED <<store, mu, batch, issued, manual, faults, lost>>

-----------------------------------------------------------------------------
(* A new process starts on the same database.                              *)
Restart ==
    /\ EmptyProjection
    /\ mu' = Nobody
    /\ batch' = {}
    /\ pc' = [p \in Threads |-> IF p = Main THEN "refresh" ELSE "idle"]
    /\ seq' = [p \in Threads |-> 0]
    /\ \E t \in SeedTxs \ issued :
         /\ calls' = [p \in Threads |->
                        IF p = Main THEN StartupCalls(t) ELSE << >>]
         /\ issued' = issued \cup {t}
    /\ phase' = "starting"
    /\ lost' = {}
    /\ UNCHANGED <<store, manual>>

(* The process dies at any moment: open database transactions roll back.   *)
Crash ==
    /\ Postgres
    /\ phase # "down"
    /\ faults < MaxFaults
    /\ faults' = faults + 1
    /\ Restart

(* main() exited with an error and is started again.                       *)
StartAgain == phase = "down" /\ Restart /\ UNCHANGED faults

Request(p) == \/ OpenAccount(p) \/ PostAndFinalize(p) \/ Convert(p)
              \/ Settle(p) \/ Finalize(p) \/ Read(p)

LockStep(p) == \/ Refresh(p) \/ CheckSilent(p) \/ CheckPass(p) \/ CheckReject(p)
               \/ ApplyAppended(p)

FreeStep(p) == RefreshApply(p) \/ RefreshDone(p) \/ AppendEvent(p) \/ PgCommit(p)

Step(p) == LockStep(p) \/ FreeStep(p)

Next == \/ \E p \in Procs : Request(p)
        \/ \E p \in Threads : Step(p) \/ PgCommitLost(p) \/ StoreError(p)
        \/ Crash
        \/ StartAgain

Spec == Init /\ [][Next]_vars

(* Goroutines are scheduled, and sync.Mutex hands itself over to a waiter  *)
(* that has been passed by for a millisecond: a step that needs the mutex  *)
(* is taken if the mutex is free again and again.                          *)
FairSpec == /\ Spec
            /\ \A p \in Threads : SF_vars(LockStep(p)) /\ WF_vars(FreeStep(p))
            /\ WF_vars(StartAgain)

-----------------------------------------------------------------------------
(* Types; lastSeq never passes the numbers the store has handed out, and   *)
(* the projection's counters and statuses exist for committed events only. *)
TypeOK ==
    /\ nextSeq \in Nat
    /\ DOMAIN log \subseteq 1..nextSeq
    /\ log \in [DOMAIN log -> Event]
    /\ accounts \subseteq Accounts
    /\ status \in [TxIDs -> Statuses]
    /\ debit \in [Accounts -> Nat]
    /\ credit \in [Accounts -> Nat]
    /\ lastSeq \in 0..nextSeq
    /\ applied \in [DOMAIN log -> Nat]
    /\ mu \in Threads \cup {Nobody}
    /\ batch \subseteq DOMAIN log
    /\ pc \in [Threads -> {"idle", "refresh", "folding", "check", "append",
                           "commit", "apply"}]
    /\ calls \in [Threads -> Seq(Calls)]
    /\ seq \in [Threads -> 0..nextSeq]
    /\ phase \in {"starting", "up", "down"}
    /\ issued \subseteq TxIDs \cup Accounts
    /\ manual \in 0..MaxManual
    /\ faults \in 0..MaxFaults
    /\ lost \subseteq DOMAIN log

J == INSTANCE Journal WITH Sound <- SoundTxs, Touches <- TouchedAccounts

(* The log the goroutines write implements the abstract journal: it only   *)
(* grows, and Settle, Finalize and Post never append an event whose        *)
(* prerequisite does not already stand before it, although each decided    *)
(* on a projection other goroutines were changing.                         *)
JournalSpec == J!Spec

(* Every transaction event is preceded in the log by what it depends on    *)
(* (validate and transition, through every interleaving and restart).      *)
LegalLog == J!LegalLog

(* Debits equal credits in every currency, over the accounts of the        *)
(* projection, even where an event has been folded in twice.               *)
TrialBalance ==
    \A c \in Currencies :
        LET A == {a \in Accounts : Currency[a] = c} IN
        MapThenSumSet(LAMBDA a : debit[a], A)
          = MapThenSumSet(LAMBDA a : credit[a], A)

(* A transaction that ListTransactions shows is contained in the balances: *)
(* apply never meets a settled or finalized event before its posted one,   *)
(* so its "else" branch, which would show it without its entries, is dead. *)
ListedIsCounted ==
    \A t \in TxIDs : status[t] # "none" =>
        \E s \in DOMAIN log : log[s] = Posted(t) /\ applied[s] >= 1

(* When every request has been answered the projection contains every      *)
(* committed event whose Append did not report an error, although lastSeq  *)
(* may have moved past an event before that event was folded in.           *)
AnsweredIsApplied ==
    (phase = "up" /\ \A p \in Threads : pc[p] = "idle") =>
        \A s \in DOMAIN log \ lost : applied[s] >= 1

(* An event is folded in at most twice: by one refresh and by the          *)
(* applyAppended of its own goroutine.                                     *)
AppliedAtMostTwice == \A s \in DOMAIN log : applied[s] <= 2

(* Start-up is idempotent over crashes and lost answers: no account is     *)
(* opened twice, no transaction posted twice, and the capital is seeded    *)
(* once (EnsureSystemAccounts, SeedCapital).                               *)
StartupIdempotent ==
    \A r, s \in DOMAIN log :
        \/ r = s
        \/ log[r].type \notin {"opened", "posted"}
        \/ log[r] # log[s] /\ ~ {log[r], log[s]} \subseteq {Posted(t) : t \in SeedTxs}

(* A conversion's second transaction never stands in the log without its   *)
(* first: the customer is debited before the other currency is credited.   *)
ConversionOrder ==
    \A t \in DOMAIN Linked, s \in DOMAIN log :
        log[s] = Posted(Linked[t]) => Posted(t) \in J!EventsBefore(log, s)

(* Once all requests are answered, a conversion whose first transaction is *)
(* in the log is there as a whole, with both transactions final, unless    *)
(* Post had to refuse the second for itself (an amount that converts to    *)
(* zero): each later step finds in the projection what the earlier ones    *)
(* wrote, whatever else is folded in at the time (Convert).                *)
ConversionWhole ==
    (/\ phase = "up" /\ \A p \in Threads : pc[p] = "idle"
     /\ faults = 0 /\ manual = 0) =>
        \A t \in DOMAIN Linked :
            LET u == Linked[t]
                events == {log[s] : s \in DOMAIN log}
            IN  Posted(t) \in events /\ WellFormed(u) =>
                    {Finalized(t), Posted(u), Finalized(u)} \subseteq events

(* Every event that is in the log stays lost or reaches the projection.    *)
EventuallyApplied ==
    \A s \in 1..MaxSeq :
        (s \in DOMAIN log /\ s \notin lost) ~>
            (s \in lost \/ (s \in DOMAIN log /\ applied[s] >= 1))

(* Once all requests are answered, the balances are those that replaying   *)
(* the log would give.                                                     *)
ProjectionIsReplay ==
    (phase = "up" /\ \A p \in Threads : pc[p] = "idle") =>
        \A a \in Accounts :
            /\ debit[a] = MapThenSumSet(LAMBDA s : Total(log[s].id, "debit", {a}),
                              {s \in DOMAIN log : log[s].type = "posted"})
            /\ credit[a] = MapThenSumSet(LAMBDA s : Total(log[s].id, "credit", {a}),
                               {s \in DOMAIN log : log[s].type = "posted"})
=============================================================================
