-------------------------- MODULE DashboardProofs --------------------------
(***************************************************************************)
(* What the dashboard's answers can rely on although each of them is put   *)
(* together from several reads, between which other goroutines post and    *)
(* the rules are edited.                                                   *)
(***************************************************************************)
EXTENDS Dashboard, LedgerProofs

(* A posting reaches the projection after the accounts it moves money on.  *)
OpenedOK ==
    /\ \A s \in DOMAIN log : log[s].type = "posted" =>
         \A a \in EntryAccounts(log[s].id) :
             \/ a \in accounts
             \/ Fresh \/ phase = "down"
             \/ \E r \in batch : log[r] = Opened(a) /\ r < s
    /\ \A p \in Threads : pc[p] \in {"append", "commit"} /\
                          Head(calls[p]).op \in {"post", "seed"} =>
                             EntryAccounts(Head(calls[p]).id) \subseteq accounts

(* There is no money on an account that is not open.                       *)
ClosedEmpty == \A a \in Accounts \ accounts : debit[a] = 0 /\ credit[a] = 0

(* While the server is up an event is folded in unless its Append failed   *)
(* or its goroutine is about to do so.                                     *)
UpCovered ==
    phase = "up" =>
        \A s \in DOMAIN log : s \in lost \/ applied[s] >= 1 \/ Owned(s)

LedgerInv == Inv /\ OnceInv /\ Balanced /\ OpenedOK /\ ClosedEmpty /\ UpCovered
-----------------------------------------------------------------------------
StepNames == Reads \cup {"totals", "exposure", "done", "now", "flows",
    "customer_deposit", "loan_receivable", "treasury_cash", "treasury_fx",
    "thresholds", "liquidity", "hqla", "outflows", "portfolio", "rwa", "metrics"}

Priced == {"hqla", "outflows", "portfolio", "rwa", "metrics"}

(* Which step may follow which.                                            *)
Follows(x, y) ==
    /\ y # "list"
    /\ x = "list" <=> y = "balances"
    /\ x = "balances" => y = "bytype"
    /\ y = "bytype" => x \in {"balances", "done"}
    /\ x = "now" => y = "txs"
    /\ x = "txs" <=> y = "flows"
    /\ x = "flows" => y = "done"
    /\ y \in Priced => x \in Priced \cup {"liquidity"}
    /\ y = "liquidity" => x = "thresholds"

Chain(steps) ==
    /\ steps \in Seq(StepNames)
    /\ steps # << >> => steps[Len(steps)] = "done"
    /\ \A i \in 1..Len(steps) : i < Len(steps) => Follows(steps[i], steps[i + 1])

At(steps) == IF steps = << >> THEN "none" ELSE Head(steps)

ViewFields == {"from", "to", "listed", "balances", "byType", "totals", "exposure",
               "txs", "flows", "cents", "targets", "liq", "hqla", "outflows",
               "left", "rwa", "metrics", "quiet", "before", "counted", "edited"}

TableBalances(t) ==
    \A c \in Currencies :
        MapThenSumSet(LAMBDA y : t[y][c], DebitTypes)
          = MapThenSumSet(LAMBDA y : t[y][c], Types \ DebitTypes)

TableOK(t) == t \in [Types -> [Currencies -> Int]] /\ TableBalances(t)

(* The book, while nothing has been folded in since its first read; open,  *)
(* balances and table are what the ledger would answer now.                *)
BookOK(v, at, open, balances, table) ==
    /\ v.quiet => /\ at # "none"
                  /\ v.listed = open
                  /\ at # "balances" => v.balances = balances
                  /\ at \notin {"balances", "bytype"} => v.byType = table
    /\ v.totals # << >> => at \notin {"list", "balances", "bytype"}

CountsAll(v, stamps) ==
    \A t \in TxIDs : Content[t].kind \in Inflow \cup Outflow =>
        /\ t \in v.counted => v.from <= stamps[t] /\ stamps[t] < v.to
        /\ (t \in v.before /\ v.from <= stamps[t] /\ stamps[t] < v.to)
             => t \in v.counted

(* The window, and what had been answered when it was opened.              *)
FlowsOK(v, at, statuses, stamps) ==
    /\ v.from < v.to => at \in {"txs", "flows", "done"}
    /\ v.before \subseteq TxIDs
    /\ \A t \in v.before : statuses[t] # "none"
    /\ at = "none" => v.before = {}
    /\ (v.from < v.to /\ at \in {"flows", "done"}) => CountsAll(v, stamps)

MetricOK(x, m, edited) ==
    LET error == 2 * (x.num * Hundred - x.value * x.den)
        bound == IF x.den < 0 THEN -x.den ELSE x.den
    IN
    /\ x.status = "n/a" <=> x.den = 0
    /\ x.den # 0 =>
         /\ -bound <= error /\ error <= bound
         /\ "targets" \notin edited =>
              (x.status = "ok" <=> IF m = "loan_to_deposit"
                                   THEN x.value <= x.target
                                   ELSE x.value >= x.target)

RatiosOK(v, at, targets) ==
    /\ v.cents \in [Types -> Int]
    /\ v.hqla \in Int /\ v.outflows \in Int /\ v.rwa \in Int
    /\ \A e \in v.left : e.outstanding \in Int
    /\ at \in Priced => v.liq \in Contents.liq
    /\ at \in Priced \cup {"liquidity"} =>
         v.targets = targets \/ "targets" \in v.edited
    /\ \A m \in DOMAIN v.metrics : MetricOK(v.metrics[m], m, v.edited)

ViewOK(v, at) ==
    /\ DOMAIN v = ViewFields
    /\ v.quiet \in BOOLEAN
    /\ TableOK(v.byType)
    /\ BookOK(v, at, accounts, Balances, BalancesByType)
    /\ FlowsOK(v, at, status, occurred)
    /\ RatiosOK(v, at, live.targets)

LiveOK == live \in [fx : Contents.fx, liq : Contents.liq,
                    targets : Contents.targets, weights : Contents.weights]

RequestsOK ==
    \A p \in Procs : /\ Chain(todo[p])
                     /\ todo[p] # << >> => phase = "up"
                     /\ ViewOK(view[p], At(todo[p]))

DashInv ==
    /\ LedgerInv
    /\ LiveOK
    /\ DOMAIN todo = Procs /\ DOMAIN view = Procs
    /\ RequestsOK

-----------------------------------------------------------------------------
(* A step that folds nothing and writes nothing.                           *)
LEMMA QuietOpened ==
    ASSUME OpenedOK, NEW p \in Threads, UNCHANGED <<log, accounts, batch>>,
           \A q \in Threads \ {p} : pc'[q] = pc[q] /\ calls'[q] = calls[q],
           Fresh \/ phase = "down" => Fresh' \/ phase' = "down",
           pc'[p] \in {"append", "commit"} /\ Head(calls'[p]).op \in {"post", "seed"}
             => EntryAccounts(Head(calls'[p]).id) \subseteq accounts
    PROVE  OpenedOK'
    <1>1. ASSUME NEW s \in DOMAIN log, log[s].type = "posted",
                 NEW a \in EntryAccounts(log[s].id)
          PROVE  \/ a \in accounts
                 \/ Fresh' \/ phase' = "down"
                 \/ \E r \in batch : log[r] = Opened(a) /\ r < s
        BY <1>1 DEF OpenedOK
    <1>2. ASSUME NEW q \in Threads, pc'[q] \in {"append", "commit"},
                 Head(calls'[q]).op \in {"post", "seed"}
          PROVE  EntryAccounts(Head(calls'[q]).id) \subseteq accounts
        BY <1>2 DEF OpenedOK
    <1>3. QED
        BY <1>1, <1>2 DEF OpenedOK

LEMMA BeginOpened ==
    ASSUME Inv, OpenedOK, NEW p \in Procs, NEW cs, Begin(p, cs)
    PROVE  OpenedOK'
    <1>1. /\ phase = "up" /\ pc'[p] = "refresh" /\ p \in Threads
          /\ \A q \in Threads \ {p} : pc'[q] = pc[q] /\ calls'[q] = calls[q]
          /\ UNCHANGED <<log, accounts, batch>>
        BY DEF Begin, Threads, store, proj, Inv, LogInv, TypeOK
    <1>2. ~Fresh
        BY <1>1 DEF Fresh
    <1>3. QED
        BY <1>1, <1>2, QuietOpened

(* A legal posting stands after its accounts; the first refresh of a       *)
(* process lists both.                                                     *)
LEMMA RefreshOpened ==
    ASSUME Inv, OpenedOK, NEW p \in Threads, Refresh(p)
    PROVE  OpenedOK'
    <1>1. /\ pc[p] = "refresh" /\ pc'[p] = "folding" /\ batch = {}
          /\ batch' = {s \in DOMAIN log : s > lastSeq}
          /\ \A q \in Threads \ {p} : pc'[q] = pc[q]
          /\ UNCHANGED <<log, accounts, calls>>
        BY DEF Refresh, Unseen, Inv, FoldInv, LockOK, LogInv, TypeOK, store, proj
    <1>2. phase # "down"
        BY <1>1, Working
    <1>3. Fresh => batch' = DOMAIN log
        <2>1. \A s \in DOMAIN log : s > 0
            BY DEF Inv, LogInv, TypeOK
        <2>2. QED
            BY <1>1, <2>1 DEF Fresh
    <1>4. ASSUME NEW s \in DOMAIN log, log[s].type = "posted",
                 NEW a \in EntryAccounts(log[s].id)
          PROVE  a \in accounts \/ \E r \in batch' : log[r] = Opened(a) /\ r < s
        <2>1. CASE Fresh
            <3>1. log[s].id \in TxIDs
                BY <1>4 DEF Inv, LogInv, TypeOK, Event
            <3>2. J!Legal(log[s], J!EventsBefore(log, s))
                BY DEF Inv, LogInv, LegalLog, J!LegalLog
            <3>3. Opened(a) \in J!EventsBefore(log, s)
                BY <1>4, <3>1, <3>2 DEF J!Legal, TouchedAccounts, J!Opened, Opened
            <3>4. \E r \in DOMAIN log : log[r] = Opened(a) /\ r < s
                BY <3>3 DEF J!EventsBefore
            <3>5. QED
                BY <2>1, <3>4, <1>3
        <2>2. CASE ~Fresh
            BY <2>2, <1>1, <1>2, <1>4 DEF OpenedOK
        <2>3. QED
            BY <2>1, <2>2
    <1>5. ASSUME NEW q \in Threads, pc'[q] \in {"append", "commit"},
                 Head(calls'[q]).op \in {"post", "seed"}
          PROVE  EntryAccounts(Head(calls'[q]).id) \subseteq accounts
        BY <1>1, <1>5 DEF OpenedOK
    <1>6. QED
        BY <1>1, <1>4, <1>5 DEF OpenedOK

LEMMA CheckOpened ==
    ASSUME Inv, OpenedOK, NEW p \in Threads,
           CheckSilent(p) \/ CheckPass(p) \/ CheckReject(p) \/ PgInsert(p)
             \/ RefreshDone(p) \/ StoreError(p)
    PROVE  OpenedOK'
    <1>1. /\ pc[p] \in {"check", "append", "commit", "folding", "refresh"}
          /\ UNCHANGED <<log, accounts, batch>>
          /\ \A q \in Threads \ {p} : pc'[q] = pc[q] /\ calls'[q] = calls[q]
        BY DEF CheckSilent, CheckPass, CheckReject, CheckFrame, Continue, Abort,
           PgInsert, RefreshDone, StoreError, store, proj, Inv, LogInv, TypeOK
    <1>2. phase # "down" /\ (pc[p] # "refresh" => ~Fresh) /\ (p # Main => phase = "up")
        BY <1>1, Working
    <1>3. Fresh \/ phase = "down" => Fresh' \/ phase' = "down"
        <2>1. pc[p] = "refresh" => StoreError(p)
            BY DEF CheckSilent, CheckPass, CheckReject, PgInsert, RefreshDone
        <2>2. ~Fresh \/ phase' = "down"
            BY <1>1, <1>2, <2>1 DEF Fresh, StoreError, Abort
        <2>3. QED
            BY <1>2, <2>2
    <1>4. CASE pc'[p] \notin {"append", "commit"}
        BY <1>1, <1>3, <1>4, QuietOpened
    <1>5. CASE CheckPass(p)
        <2>1. calls' = calls /\ Allowed(Head(calls[p]))
            BY <1>5 DEF CheckPass
        <2>2. Head(calls[p]).op \in {"post", "seed"} =>
                EntryAccounts(Head(calls[p]).id) \subseteq accounts
            BY <2>1 DEF Allowed, transition, validate
        <2>3. QED
            BY <1>1, <1>3, <2>1, <2>2, QuietOpened
    <1>6. CASE PgInsert(p)
        <2>1. calls' = calls /\ pc[p] = "append"
            BY <1>6 DEF PgInsert
        <2>2. Head(calls[p]).op \in {"post", "seed"} =>
                EntryAccounts(Head(calls[p]).id) \subseteq accounts
            BY <2>1 DEF OpenedOK
        <2>3. QED
            BY <1>1, <1>3, <2>1, <2>2, QuietOpened
    <1>7. CASE CheckSilent(p) \/ CheckReject(p) \/ RefreshDone(p) \/ StoreError(p)
        BY <1>4, <1>7 DEF CheckSilent, CheckReject, Continue, Abort, RefreshDone,
           StoreError, Inv, LogInv, TypeOK
    <1>8. QED
        BY <1>5, <1>6, <1>7

LEMMA CommitOpened ==
    ASSUME Inv, OpenedOK, NEW p \in Threads, MemAppend(p) \/ PgCommit(p) \/ PgCommitLost(p)
    PROVE  OpenedOK'
    <1>1. PICK s : /\ s \notin DOMAIN log /\ Commit(p, s)
                   /\ pc[p] \in {"append", "commit"}
        <2>1. nextSeq + 1 \notin DOMAIN log
            BY DEF Inv, LogInv, TypeOK
        <2>2. CASE MemAppend(p)
            BY <2>1, <2>2 DEF MemAppend
        <2>3. CASE PgCommit(p) \/ PgCommitLost(p)
            BY <2>3 DEF PgCommit, PgCommitLost, Inv, LogInv, ThreadOK
        <2>4. QED
            BY <2>2, <2>3
    <1>2. /\ DOMAIN log' = DOMAIN log \cup {s} /\ LogGrows
          /\ log'[s] = EventOf(Head(calls[p]))
          /\ accounts' = accounts
        BY <1>1 DEF Commit, Extend, LogGrows
    <1>3. /\ pc'[p] \notin {"append", "commit"} /\ batch' = batch
          /\ \A q \in Threads \ {p} : pc'[q] = pc[q] /\ calls'[q] = calls[q]
        BY DEF MemAppend, PgCommit, PgCommitLost, Abort, Inv, LogInv, TypeOK
    <1>4. phase # "down" /\ ~Fresh /\ batch \subseteq DOMAIN log
        BY <1>1, Working DEF Inv, LogInv, TypeOK
    <1>5. ASSUME NEW r \in DOMAIN log', log'[r].type = "posted",
                 NEW a \in EntryAccounts(log'[r].id)
          PROVE  a \in accounts \/ \E u \in batch : log'[u] = Opened(a) /\ u < r
        <2>1. CASE r = s
            <3>1. Head(calls[p]).op \in EventOps
                BY <1>1 DEF Inv, LogInv, ThreadOK
            <3>2. Head(calls[p]).op \in {"post", "seed"} /\ Head(calls[p]).id = log'[r].id
                BY <2>1, <3>1, <1>2, <1>5 DEF EventOf, EventOps
            <3>3. QED
                BY <3>2, <1>1, <1>5 DEF OpenedOK
        <2>2. CASE r \in DOMAIN log
            <3>1. log'[r] = log[r] /\ \A u \in batch : log'[u] = log[u]
                BY <2>2, <1>2, <1>4 DEF LogGrows
            <3>2. a \in accounts \/ \E u \in batch : log[u] = Opened(a) /\ u < r
                BY <2>2, <3>1, <1>4, <1>5 DEF OpenedOK
            <3>3. QED
                BY <3>1, <3>2
        <2>3. QED
            BY <2>1, <2>2, <1>2
    <1>6. ASSUME NEW q \in Threads, pc'[q] \in {"append", "commit"},
                 Head(calls'[q]).op \in {"post", "seed"}
          PROVE  EntryAccounts(Head(calls'[q]).id) \subseteq accounts
        BY <1>3, <1>6 DEF OpenedOK
    <1>7. QED
        BY <1>2, <1>3, <1>5, <1>6 DEF OpenedOK

(* What refresh or applyAppended folds in finds its accounts open.         *)
FoldReady(s) ==
    /\ s \in DOMAIN log /\ ApplyEvent(s)
    /\ log[s].type = "posted" => EntryAccounts(log[s].id) \subseteq accounts

LEMMA ApplyAccounts ==
    ASSUME NEW s, ApplyEvent(s)
    PROVE  /\ accounts \subseteq accounts'
           /\ log[s].type = "opened" => log[s].id \in accounts'
    BY DEF ApplyEvent

LEMMA FoldOpened ==
    ASSUME Inv, OpenedOK, NEW p \in Threads, RefreshApply(p) \/ ApplyAppended(p)
    PROVE  OpenedOK' /\ \E s : FoldReady(s)
    <1>1. PICK s : /\ s \in DOMAIN log /\ ApplyEvent(s)
                   /\ \A r \in batch : s <= r
                   /\ batch' = batch \ {s} /\ log' = log
                   /\ pc[p] \in {"folding", "apply"}
        <2>1. CASE RefreshApply(p)
            BY <2>1 DEF RefreshApply, Earliest, store, Inv, LogInv, TypeOK
        <2>2. CASE ApplyAppended(p)
            BY <2>2 DEF ApplyAppended, store, Inv, LogInv, ThreadOK, FoldInv, LockOK
        <2>3. QED
            BY <2>1, <2>2
    <1>2. /\ \A q \in Threads \ {p} : pc'[q] = pc[q] /\ calls'[q] = calls[q]
          /\ pc'[p] \notin {"append", "commit"}
        BY <1>1 DEF RefreshApply, ApplyAppended, Continue, threads, Inv, LogInv, TypeOK
    <1>3. phase # "down" /\ ~Fresh /\ batch \subseteq DOMAIN log /\ DOMAIN log \subseteq Nat
        BY <1>1, Working DEF Inv, LogInv, TypeOK
    <1>4. ASSUME NEW r \in DOMAIN log, log[r].type = "posted",
                 NEW a \in EntryAccounts(log[r].id)
          PROVE  a \in accounts \/ \E u \in batch : log[u] = Opened(a) /\ u < r
        BY <1>3, <1>4 DEF OpenedOK
    <1>5. accounts \subseteq accounts' /\ (log[s].type = "opened" => log[s].id \in accounts')
        BY <1>1, ApplyAccounts
    <1>6. ASSUME NEW r \in DOMAIN log, log[r].type = "posted",
                 NEW a \in EntryAccounts(log[r].id)
          PROVE  a \in accounts' \/ \E u \in batch' : log[u] = Opened(a) /\ u < r
        <2>1. CASE a \in accounts
            BY <2>1, <1>5
        <2>2. CASE a \notin accounts
            <3>1. PICK u \in batch : log[u] = Opened(a) /\ u < r
                BY <2>2, <1>4, <1>6
            <3>2. CASE u = s
                BY <3>1, <3>2, <1>5 DEF Opened
            <3>3. CASE u # s
                BY <3>1, <3>3, <1>1
            <3>4. QED
                BY <3>2, <3>3
        <2>3. QED
            BY <2>1, <2>2
    <1>7. ASSUME NEW q \in Threads, pc'[q] \in {"append", "commit"},
                 Head(calls'[q]).op \in {"post", "seed"}
          PROVE  EntryAccounts(Head(calls'[q]).id) \subseteq accounts'
        <2>1. q # p /\ pc[q] \in {"append", "commit"} /\ calls'[q] = calls[q]
            BY <1>2, <1>7
        <2>2. EntryAccounts(Head(calls'[q]).id) \subseteq accounts
            BY <2>1, <1>7 DEF OpenedOK
        <2>3. QED
            BY <2>2, <1>5
    <1>8. OpenedOK'
        BY <1>1, <1>6, <1>7 DEF OpenedOK
    <1>9. log[s].type = "posted" => EntryAccounts(log[s].id) \subseteq accounts
        BY <1>1, <1>3, <1>4
    <1>10. QED
        BY <1>1, <1>8, <1>9 DEF FoldReady

LEMMA RestartOpened ==
    ASSUME Restart
    PROVE  OpenedOK'
    <1>1. /\ phase' = "starting" /\ lastSeq' = 0
          /\ pc' = [p \in Threads |-> IF p = Main THEN "refresh" ELSE "idle"]
        BY DEF Restart, EmptyProjection
    <1>2. Fresh'
        BY <1>1 DEF Fresh, Threads
    <1>3. QED
        BY <1>1, <1>2 DEF OpenedOK

-----------------------------------------------------------------------------
LEMMA TotalElsewhere ==
    ASSUME NEW t \in TxIDs, NEW side, NEW a, a \notin EntryAccounts(t)
    PROVE  Total(t, side, {a}) = 0
    <1>1. On(t, side, {a}) = {}
        BY DEF On, EntryAccounts
    <1>2. QED
        BY <1>1, TotalIsSum, SumOverEmpty

LEMMA FoldEmpty ==
    ASSUME Inv, ClosedEmpty, NEW s, FoldReady(s)
    PROVE  ClosedEmpty'
    <1>1. s \in DOMAIN log /\ ApplyEvent(s) /\ accounts \subseteq accounts'
        BY ApplyAccounts DEF FoldReady
    <1>2. debit \in [Accounts -> Nat] /\ credit \in [Accounts -> Nat]
        BY DEF Inv, LogInv, TypeOK
    <1>3. ASSUME NEW a \in Accounts \ accounts'
          PROVE  debit'[a] = 0 /\ credit'[a] = 0
        <2>1. a \notin accounts /\ debit[a] = 0 /\ credit[a] = 0
            BY <1>1 DEF ClosedEmpty
        <2>2. CASE log[s].type = "posted"
            <3>1. log[s].id \in TxIDs
                BY <1>1, <2>2 DEF Inv, LogInv, TypeOK, Event
            <3>2. a \notin EntryAccounts(log[s].id)
                BY <2>1, <2>2 DEF FoldReady
            <3>3. /\ Total(log[s].id, "debit", {a}) = 0
                  /\ Total(log[s].id, "credit", {a}) = 0
                BY <3>1, <3>2, TotalElsewhere
            <3>4. /\ debit' = AddEntries(debit, log[s].id, "debit")
                  /\ credit' = AddEntries(credit, log[s].id, "credit")
                BY <1>1, <2>2 DEF ApplyEvent
            <3>5. QED
                BY <2>1, <3>3, <3>4 DEF AddEntries
        <2>3. CASE log[s].type # "posted"
            BY <1>1, <2>1, <2>3 DEF ApplyEvent
        <2>4. QED
            BY <2>2, <2>3
    <1>4. QED
        BY <1>3 DEF ClosedEmpty

(* Once no refresh is under way, Covered says it.                          *)
LEMMA UnlockedUp ==
    ASSUME Inv, mu = Nobody
    PROVE  UpCovered
    BY DEF Inv, FoldInv, LockOK, Covered, UpCovered, Fresh

LEMMA UnlockedNext ==
    ASSUME Inv', mu' = Nobody
    PROVE  UpCovered'
    BY DEF Inv, FoldInv, LockOK, Covered, UpCovered, Fresh

LEMMA UpKept ==
    ASSUME UpCovered, phase' = "up" => phase = "up", lost \subseteq lost',
           DOMAIN log \subseteq DOMAIN log',
           \A s \in DOMAIN log : applied[s] >= 1 => applied'[s] >= 1,
           \A p \in Threads : pc[p] = "apply" => pc'[p] = "apply" /\ seq'[p] = seq[p],
           \A s \in DOMAIN log' \ DOMAIN log : s \in lost' \/ Owned(s)'
    PROVE  UpCovered'
    <1> SUFFICES ASSUME phase' = "up", NEW s \in DOMAIN log'
                 PROVE  s \in lost' \/ applied'[s] >= 1 \/ Owned(s)'
        BY DEF UpCovered
    <1>1. CASE s \in DOMAIN log
        <2>1. s \in lost \/ applied[s] >= 1 \/ Owned(s)
            BY <1>1 DEF UpCovered
        <2>2. Owned(s) => Owned(s)'
            BY DEF Owned
        <2>3. QED
            BY <1>1, <2>1, <2>2
    <1>2. QED
        BY <1>1

LEMMA BeginUp ==
    ASSUME Inv, UpCovered, NEW p \in Procs, NEW cs, Begin(p, cs)
    PROVE  UpCovered'
    <1>1. /\ UNCHANGED <<log, applied, seq, phase, lost>>
          /\ \A q \in Threads : pc[q] = "apply" => pc'[q] = "apply"
        BY DEF Begin, store, proj, Threads, Inv, LogInv, TypeOK
    <1>2. QED
        BY <1>1, UpKept

LEMMA WriteUp ==
    ASSUME Inv, UpCovered, NEW p \in Threads, MemAppend(p) \/ PgCommit(p) \/ PgCommitLost(p)
    PROVE  UpCovered'
    <1>1. PICK s : /\ Commit(p, s) /\ s \notin DOMAIN log
                   /\ \/ pc'[p] = "apply" /\ seq'[p] = s /\ lost' = lost
                      \/ lost' = lost \cup {s}
        <2>1. nextSeq + 1 \notin DOMAIN log
            BY DEF Inv, LogInv, TypeOK
        <2>2. CASE MemAppend(p)
            BY <2>1, <2>2 DEF MemAppend, Inv, LogInv, TypeOK
        <2>3. CASE PgCommit(p)
            BY <2>3 DEF PgCommit, Inv, LogInv, TypeOK, ThreadOK
        <2>4. CASE PgCommitLost(p)
            BY <2>4 DEF PgCommitLost, Inv, LogInv, TypeOK, ThreadOK
        <2>5. QED
            BY <2>2, <2>3, <2>4
    <1>2. /\ DOMAIN log' = DOMAIN log \cup {s}
          /\ \A r \in DOMAIN log : applied'[r] = applied[r]
        BY <1>1 DEF Commit, Extend, Inv, LogInv, TypeOK
    <1>3. /\ phase' = "up" => phase = "up"
          /\ pc[p] # "apply"
          /\ \A q \in Threads \ {p} : pc'[q] = pc[q] /\ seq'[q] = seq[q]
        BY DEF MemAppend, PgCommit, PgCommitLost, Abort, Inv, LogInv, TypeOK
    <1>4. s \in lost' \/ Owned(s)'
        BY <1>1 DEF Owned
    <1>5. QED
        BY <1>1, <1>2, <1>3, <1>4, UpKept

LEMMA OtherUp ==
    ASSUME Inv, UpCovered, NEW p \in Threads,
           Refresh(p) \/ RefreshApply(p) \/ PgInsert(p) \/ StoreError(p)
    PROVE  UpCovered'
    <1>1. /\ log' = log /\ lost' = lost /\ (phase' = "up" => phase = "up")
          /\ pc[p] # "apply"
          /\ \A q \in Threads \ {p} : pc'[q] = pc[q] /\ seq'[q] = seq[q]
        BY DEF Refresh, RefreshApply, PgInsert, StoreError, Abort, store, threads,
           Inv, LogInv, TypeOK
    <1>2. \A s \in DOMAIN log : applied[s] >= 1 => applied'[s] >= 1
        <2>1. CASE RefreshApply(p)
            <3>1. PICK s \in DOMAIN log : ApplyEvent(s)
                BY <2>1 DEF RefreshApply, Inv, LogInv, TypeOK
            <3>2. \A r \in DOMAIN log : applied'[r] \in Nat /\ applied'[r] >= applied[r]
                BY <3>1, ApplyCounts
            <3>3. QED
                BY <3>2 DEF Inv, LogInv, TypeOK
        <2>2. CASE ~RefreshApply(p)
            <3>1. applied' = applied
                BY <2>2 DEF Refresh, PgInsert, StoreError, proj
            <3>2. QED
                BY <3>1
        <2>3. QED
            BY <2>1, <2>2
    <1>3. QED
        BY <1>1, <1>2, UpKept

-----------------------------------------------------------------------------
(* Every step of a goroutine, of the process or of its environment.        *)
LEMMA LedgerInvStep ==
    ASSUME LedgerInv, [Next]_vars
    PROVE  LedgerInv'
    <1>1. Inv /\ OnceInv /\ Balanced /\ OpenedOK /\ ClosedEmpty /\ UpCovered /\ LogInv
        BY DEF LedgerInv, Inv
    <1>2. Inv'
        BY <1>1, InvStep
    <1>3. OnceInv' /\ Balanced'
        BY <1>1, <1>2, OnceStep, BalancedStep
    <1>4. ASSUME NEW p \in Procs, Request(p)
          PROVE  OpenedOK' /\ ClosedEmpty' /\ UpCovered'
        <2>1. \E cs : Begin(p, cs)
            BY <1>4 DEF Request, OpenAccount, PostAndFinalize, Convert, Settle,
               Finalize, Manual, Read
        <2>2. PICK cs : Begin(p, cs)
            BY <2>1
        <2>3. UNCHANGED <<accounts, debit, credit>>
            BY <2>2 DEF Begin, proj
        <2>4. ClosedEmpty'
            BY <1>1, <2>3 DEF ClosedEmpty
        <2>5. QED
            BY <1>1, <2>2, <2>4, BeginOpened, BeginUp
    <1>5. ASSUME NEW p \in Threads, RefreshApply(p) \/ ApplyAppended(p)
          PROVE  OpenedOK' /\ ClosedEmpty' /\ UpCovered'
        <2>1. OpenedOK' /\ \E s : FoldReady(s)
            BY <1>1, <1>5, FoldOpened
        <2>2. ClosedEmpty'
            BY <1>1, <2>1, FoldEmpty
        <2>3. ApplyAppended(p) => mu' = Nobody
            BY DEF ApplyAppended
        <2>4. QED
            BY <1>1, <1>2, <1>5, <2>1, <2>2, <2>3, UnlockedNext, OtherUp
    <1>6. ASSUME NEW p \in Threads,
                 Refresh(p) \/ CheckSilent(p) \/ CheckPass(p) \/ CheckReject(p)
                   \/ RefreshDone(p) \/ MemAppend(p) \/ PgInsert(p) \/ PgCommit(p)
                   \/ PgCommitLost(p) \/ StoreError(p)
          PROVE  OpenedOK' /\ ClosedEmpty' /\ UpCovered'
        <2>1. UNCHANGED <<accounts, debit, credit>>
            BY <1>6 DEF Refresh, CheckSilent, CheckPass, CheckReject, CheckFrame,
               RefreshDone, MemAppend, PgInsert, PgCommit, PgCommitLost, Commit,
               StoreError, proj
        <2>2. ClosedEmpty'
            BY <1>1, <2>1 DEF ClosedEmpty
        <2>3. OpenedOK'
            BY <1>1, <1>6, RefreshOpened, CheckOpened, CommitOpened
        <2>4. CheckSilent(p) \/ CheckPass(p) \/ CheckReject(p) \/ RefreshDone(p)
                => mu' = Nobody
            BY DEF CheckSilent, CheckPass, CheckReject, CheckFrame, RefreshDone
        <2>5. UpCovered'
            BY <1>1, <1>2, <1>6, <2>4, UnlockedNext, WriteUp, OtherUp
        <2>6. QED
            BY <2>2, <2>3, <2>5
    <1>7. CASE Crash \/ StartAgain
        <2>1. Restart
            BY <1>7 DEF Crash, StartAgain
        <2>2. ClosedEmpty' /\ UpCovered'
            BY <2>1 DEF Restart, EmptyProjection, ClosedEmpty, UpCovered
        <2>3. QED
            BY <1>1, <1>2, <1>3, <2>1, <2>2, RestartOpened DEF LedgerInv
    <1>8. CASE UNCHANGED vars
        <2>1. UNCHANGED <<log, accounts, batch, debit, credit, pc, calls, seq, phase,
                          lost, applied, lastSeq>>
            BY <1>8 DEF vars, store, proj, threads
        <2>2. OpenedOK' /\ ClosedEmpty'
            BY <1>1, <2>1 DEF OpenedOK, ClosedEmpty, Fresh
        <2>3. UpCovered'
            BY <1>1, <2>1 DEF UpCovered, Owned
        <2>4. QED
            BY <1>2, <1>3, <2>2, <2>3 DEF LedgerInv
    <1>9. CASE \E p \in Procs : Request(p)
        BY <1>2, <1>3, <1>4, <1>9 DEF LedgerInv
    <1>10. CASE \E p \in Threads : Step(p) \/ PgCommitLost(p) \/ StoreError(p)
        BY <1>2, <1>3, <1>5, <1>6, <1>10
           DEF LedgerInv, Step, LockStep, FreeStep, AppendEvent
    <1>11. QED
        BY <1>7, <1>8, <1>9, <1>10 DEF Next

LEMMA InitLedgerInv == Init => LedgerInv
    <1> SUFFICES ASSUME Init PROVE LedgerInv
        OBVIOUS
    <1>1. Inv /\ OnceInv /\ Balanced
        BY InitInv, InitOnce, NoMoney DEF Init
    <1>2. OpenedOK /\ ClosedEmpty /\ UpCovered
        BY DEF Init, OpenedOK, ClosedEmpty, UpCovered
    <1>3. QED
        BY <1>1, <1>2 DEF LedgerInv

-----------------------------------------------------------------------------
(* A request of the dashboard is, to the ledger, a list of reads.          *)
LEMMA ReadsBegin ==
    ASSUME LedgerInv, NEW p \in Procs, NEW n \in Nat \ {0},
           Begin(p, [i \in 1..n |-> Call("read", Nobody)]), UNCHANGED <<issued, manual>>
    PROVE  LedgerInv'
    <1>0. PICK cs : cs = [i \in 1..n |-> Call("read", Nobody)]
        OBVIOUS
    <1>1. cs \in Seq(Calls) /\ cs # << >> /\ Begin(p, cs) /\ Len(cs) = n
        BY <1>0, CallTyped
    <1>2. \A i \in 1..Len(cs) : cs[i].op = "read"
        BY <1>0, <1>1 DEF Call
    <1>3. /\ Inv /\ OnceInv /\ Balanced /\ OpenedOK /\ ClosedEmpty /\ UpCovered
          /\ LogInv /\ p \in Threads
        BY DEF LedgerInv, Inv, Threads
    <1>4. LogInv'
        <2>1. issued' \subseteq TxIDs \cup Accounts /\ manual' \in 0..MaxManual
            BY <1>3 DEF LogInv, TypeOK
        <2>2. QED
            BY <1>1, <1>3, <2>1, BeginStep
    <1>5. /\ phase = "up" /\ pc[p] = "idle" /\ pc'[p] = "refresh"
          /\ \A q \in Threads \ {p} : pc'[q] = pc[q] /\ calls'[q] = calls[q]
          /\ UNCHANGED <<log, accounts, status, debit, credit, lastSeq, applied, mu,
                         batch, seq, phase, lost>>
        BY <1>1, <1>3 DEF Begin, store, proj, LogInv, TypeOK
    <1>6. FoldInv'
        <2>1. p # Main /\ phase # "starting" /\ Main \in Threads /\ Procs \subseteq Threads
            BY <1>5, LedgerAssumption DEF Threads
        <2>2. PhaseOK'
            BY <1>3, <1>5, <2>1 DEF Inv, FoldInv, PhaseOK
        <2>3. ~Fresh /\ phase # "down"
            BY <1>5 DEF Fresh
        <2>4. QED
            BY <1>3, <1>5, <2>2, <2>3, QuietFold
    <1>7. Inv'
        BY <1>4, <1>6 DEF Inv
    <1>8. OnceInv'
        BY <1>1, <1>2, <1>3, <1>7, BeginOnce DEF Creating
    <1>9. Balanced' /\ ClosedEmpty'
        BY <1>3, <1>5 DEF Balanced, ClosedEmpty
    <1>10. OpenedOK' /\ UpCovered'
        BY <1>1, <1>3, BeginOpened, BeginUp
    <1>11. QED
        BY <1>7, <1>8, <1>9, <1>10 DEF LedgerInv

-----------------------------------------------------------------------------
(* The lists of steps.                                                     *)
LEMMA BookChain == Chain(LedgerBook) /\ LedgerBook # << >>
    <1>1. /\ LedgerBook \in Seq(StepNames) /\ Len(LedgerBook) = 6
        BY DEF LedgerBook, StepNames, Reads
    <1>2. /\ LedgerBook[1] = "list" /\ LedgerBook[2] = "balances"
          /\ LedgerBook[3] = "bytype" /\ LedgerBook[4] = "totals"
          /\ LedgerBook[5] = "exposure" /\ LedgerBook[6] = "done"
        BY DEF LedgerBook
    <1>3. ASSUME NEW i \in 1..5 PROVE Follows(LedgerBook[i], LedgerBook[i + 1])
        <2>1. i = 1 \/ i = 2 \/ i = 3 \/ i = 4 \/ i = 5
            OBVIOUS
        <2>2. QED
            BY <1>2, <2>1 DEF Follows, Priced
    <1>4. QED
        BY <1>1, <1>2, <1>3 DEF Chain

LEMMA FlowsChain == Chain(Flows) /\ Flows # << >>
    <1>1. /\ Flows \in Seq(StepNames) /\ Len(Flows) = 3
        BY DEF Flows, StepNames, Reads
    <1>2. Flows[1] = "txs" /\ Flows[2] = "flows" /\ Flows[3] = "done"
        BY DEF Flows
    <1>3. ASSUME NEW i \in 1..2 PROVE Follows(Flows[i], Flows[i + 1])
        <2>1. i = 1 \/ i = 2
            OBVIOUS
        <2>2. QED
            BY <1>2, <2>1 DEF Follows, Priced
    <1>4. QED
        BY <1>1, <1>2, <1>3 DEF Chain

LEMMA RatiosChain == Chain(RatiosSteps) /\ RatiosSteps # << >>
    <1>1. /\ RatiosSteps \in Seq(StepNames) /\ Len(RatiosSteps) = 13
        BY DEF RatiosSteps, StepNames, Reads
    <1>2. /\ RatiosSteps[1] = "bytype" /\ RatiosSteps[2] = "customer_deposit"
          /\ RatiosSteps[3] = "loan_receivable" /\ RatiosSteps[4] = "treasury_cash"
          /\ RatiosSteps[5] = "treasury_fx" /\ RatiosSteps[6] = "thresholds"
          /\ RatiosSteps[7] = "liquidity" /\ RatiosSteps[8] = "hqla"
          /\ RatiosSteps[9] = "outflows" /\ RatiosSteps[10] = "portfolio"
          /\ RatiosSteps[11] = "rwa" /\ RatiosSteps[12] = "metrics"
          /\ RatiosSteps[13] = "done"
        BY DEF RatiosSteps
    <1>3. ASSUME NEW i \in 1..12 PROVE Follows(RatiosSteps[i], RatiosSteps[i + 1])
        <2>1. \/ i = 1 \/ i = 2 \/ i = 3 \/ i = 4 \/ i = 5 \/ i = 6
              \/ i = 7 \/ i = 8 \/ i = 9 \/ i = 10 \/ i = 11 \/ i = 12
            OBVIOUS
        <2>2. CASE i \in 1..4
            BY <1>2, <2>2 DEF Follows, Priced
        <2>3. CASE i \in 5..8
            BY <1>2, <2>3 DEF Follows, Priced
        <2>4. CASE i \in 9..12
            BY <1>2, <2>4 DEF Follows, Priced
        <2>5. QED
            BY <2>2, <2>3, <2>4
    <1>4. PICK w : w = RatiosSteps
        OBVIOUS
    <1>5. w \in Seq(StepNames) /\ Len(w) = 13 /\ w[13] = "done"
        BY <1>1, <1>2, <1>4
    <1>6. \A i \in 1..12 : Follows(w[i], w[i + 1])
        BY <1>3, <1>4
    <1>7. \A i \in 1..13 : i < 13 => i \in 1..12
        OBVIOUS
    <1>8. \A i \in 1..Len(w) : i < Len(w) => Follows(w[i], w[i + 1])
        BY <1>5, <1>6, <1>7, Zenon
    <1>9. w[Len(w)] = "done" /\ w # << >>
        BY <1>5
    <1>10. Chain(w)
        BY <1>5, <1>8, <1>9, Zenon DEF Chain
    <1>11. QED
        BY <1>4, <1>9, <1>10

(* One part of an answer, and then others.                                 *)
LEMMA ChainJoin ==
    ASSUME NEW s, NEW t, Chain(s), Chain(t), s # << >>, t # << >>,
           Follows("done", t[1])
    PROVE  Chain(s \o t) /\ s \o t # << >> /\ (s \o t)[1] = s[1]
    <1>1. /\ s \in Seq(StepNames) /\ t \in Seq(StepNames)
          /\ Len(s) \in Nat \ {0} /\ Len(t) \in Nat \ {0}
        BY DEF Chain
    <1>2. PICK w, m, n : w = s \o t /\ m = Len(s) /\ n = Len(t)
        OBVIOUS
    <1>3. /\ w \in Seq(StepNames) /\ Len(w) = m + n
          /\ m \in Nat \ {0} /\ n \in Nat \ {0}
          /\ \A i \in 1..m : w[i] = s[i]
        BY <1>1, <1>2
    <1>4. \A j \in 1..n : w[j + m] = t[j]
        BY <1>1, <1>2
    <1>5. /\ s[m] = "done" /\ t[n] = "done"
          /\ \A i \in 1..m : i < m => Follows(s[i], s[i + 1])
          /\ \A j \in 1..n : j < n => Follows(t[j], t[j + 1])
        BY <1>2 DEF Chain
    <1>6. ASSUME NEW i \in 1..m + n, i < m + n
          PROVE  Follows(w[i], w[i + 1])
        <2>1. CASE i < m
            <3>1. i \in 1..m /\ i + 1 \in 1..m
                BY <2>1, <1>3
            <3>2. QED
                BY <2>1, <3>1, <1>3, <1>5
        <2>2. CASE i = m
            <3>1. m \in 1..m /\ 1 \in 1..n /\ i + 1 = 1 + m
                BY <2>2, <1>3
            <3>2. w[i] = "done" /\ w[i + 1] = t[1]
                BY <2>2, <3>1, <1>3, <1>4, <1>5
            <3>3. QED
                BY <3>2
        <2>3. CASE i > m
            <3>1. PICK j \in Int : j = i - m
                BY <1>3
            <3>2. /\ j \in 1..n /\ j < n /\ j + 1 \in 1..n
                  /\ i = j + m /\ i + 1 = (j + 1) + m
                BY <2>3, <3>1, <1>3, <1>6
            <3>3. w[i] = t[j] /\ w[i + 1] = t[j + 1]
                BY <3>2, <1>4
            <3>4. QED
                BY <3>2, <3>3, <1>5
        <2>4. QED
            BY <2>1, <2>2, <2>3, <1>3
    <1>7. w[m + n] = "done" /\ w # << >>
        <2>1. n \in 1..n /\ m + n = n + m
            BY <1>3
        <2>2. QED
            BY <2>1, <1>3, <1>4, <1>5
    <1>8. Chain(w)
        BY <1>3, <1>6, <1>7 DEF Chain
    <1>9. w[1] = s[1]
        BY <1>3
    <1>10. QED
        BY <1>2, <1>7, <1>8, <1>9

LEMMA SummaryChain == Chain(Summary) /\ Summary # << >> /\ Summary[1] = "list"
    <1>1. PICK w : w = <<"now">> \o Flows
        OBVIOUS
    <1>2. /\ w \in Seq(StepNames) /\ Len(w) = 4 /\ w[1] = "now" /\ w[2] = "txs"
          /\ w[3] = "flows" /\ w[4] = "done"
        BY <1>1 DEF Flows, StepNames, Reads
    <1>3. Chain(w) /\ w # << >>
        <2>1. ASSUME NEW i \in 1..3 PROVE Follows(w[i], w[i + 1])
            <3>1. i = 1 \/ i = 2 \/ i = 3
                OBVIOUS
            <3>2. QED
                BY <1>2, <3>1 DEF Follows, Priced
        <2>2. QED
            BY <1>2, <2>1 DEF Chain
    <1>4. Follows("done", "now") /\ Follows("done", "bytype")
        BY DEF Follows, Priced
    <1>5. /\ Chain(LedgerBook \o w) /\ LedgerBook \o w # << >>
          /\ (LedgerBook \o w)[1] = LedgerBook[1]
        BY <1>2, <1>3, <1>4, BookChain, ChainJoin
    <1>6. RatiosSteps[1] = "bytype" /\ LedgerBook[1] = "list"
        BY DEF RatiosSteps, LedgerBook
    <1>7. /\ Chain((LedgerBook \o w) \o RatiosSteps)
          /\ (LedgerBook \o w) \o RatiosSteps # << >>
          /\ ((LedgerBook \o w) \o RatiosSteps)[1] = "list"
        BY <1>4, <1>5, <1>6, RatiosChain, ChainJoin
    <1>8. Summary = (LedgerBook \o w) \o RatiosSteps
        <2>1. LedgerBook \in Seq(StepNames) /\ Flows \in Seq(StepNames)
            BY BookChain, FlowsChain DEF Chain
        <2>2. <<"now">> \in Seq(StepNames)
            BY DEF StepNames
        <2>3. (LedgerBook \o <<"now">>) \o Flows = LedgerBook \o (<<"now">> \o Flows)
            BY <2>1, <2>2, ConcatAssociative
        <2>4. QED
            BY <1>1, <2>3 DEF Summary
    <1>9. QED
        BY <1>7, <1>8

-----------------------------------------------------------------------------
(* The table by type that a read gives.                                    *)
Natural == [a \in Accounts |-> naturalBalance(a)]

OfType(y, c) == {a \in accounts : Type[a] = y /\ Currency[a] = c}

LEMMA NaturalSum ==
    ASSUME NEW S, S \subseteq Accounts
    PROVE  MapThenSumSet(naturalBalance, S) = SumOver(Natural, S)
    <1> DEFINE R(h) == h = [s \in SUBSET S |-> IF s = {} THEN 0
                              ELSE naturalBalance(pick(s)) + h[s \ {pick(s)}]]
    <1>1. IsFiniteSet(S)
        BY PostingsAssumption, FS_Subset
    <1>2. PICK h : IsSum(Natural, S, h)
        BY <1>1, SumExists
    <1>3. \A s \in SUBSET S : s # {} => Natural[pick(s)] = naturalBalance(pick(s))
        BY PickIn DEF Natural
    <1>4. \A k : R(k) <=> IsSum(Natural, S, k)
        BY <1>3 DEF IsSum
    <1>5. R(h)
        BY <1>2, <1>4
    <1>6. \E k : R(k) /\ MapThenSumSet(naturalBalance, S) = k[S]
        BY <1>5 DEF MapThenSumSet, MapThenFoldSet, pick
    <1> HIDE DEF R
    <1>7. QED
        BY <1>1, <1>4, <1>6, SumOverIs

(* A column of a table.                                                    *)
Column(t, c) == [y \in Types |-> t[y][c]]

LEMMA TypesFinite == IsFiniteSet(Types) /\ DebitTypes \subseteq Types
    <1>1. ASSUME NEW S, NEW x, NEW y, IsFiniteSet(S)
          PROVE  IsFiniteSet(S \cup {x, y})
        <2>1. IsFiniteSet((S \cup {x}) \cup {y})
            BY <1>1, FS_AddElement, Zenon
        <2>2. (S \cup {x}) \cup {y} = S \cup {x, y}
            OBVIOUS
        <2>3. QED
            BY <2>1, <2>2
    <1>2. IsFiniteSet({"loan_receivable", "treasury_cash"})
        <2>1. IsFiniteSet({} \cup {"loan_receivable", "treasury_cash"})
            BY <1>1, FS_EmptySet, Zenon
        <2>2. QED
            BY <2>1
    <1>3. IsFiniteSet({"loan_receivable", "treasury_cash"}
                        \cup {"treasury_fx", "loan_loss_expense"})
        BY <1>1, <1>2, Zenon
    <1>4. DebitTypes = {"loan_receivable", "treasury_cash"}
                         \cup {"treasury_fx", "loan_loss_expense"}
        BY DEF DebitTypes
    <1>5. IsFiniteSet(DebitTypes \cup {"customer_deposit", "merchant_settlement"})
        BY <1>1, <1>3, <1>4, Zenon
    <1>6. IsFiniteSet((DebitTypes \cup {"customer_deposit", "merchant_settlement"})
                        \cup {"interest_income", "fee_income"})
        BY <1>1, <1>5, Zenon
    <1>7. IsFiniteSet(((DebitTypes \cup {"customer_deposit", "merchant_settlement"})
                        \cup {"interest_income", "fee_income"})
                          \cup {"equity_capital", "equity_capital"})
        BY <1>1, <1>6, Zenon
    <1>8. Types = ((DebitTypes \cup {"customer_deposit", "merchant_settlement"})
                     \cup {"interest_income", "fee_income"})
                       \cup {"equity_capital", "equity_capital"}
        BY DEF Types
    <1>9. QED
        BY <1>7, <1>8

LEMMA ColumnSum ==
    ASSUME NEW t, NEW c, NEW S, S \subseteq Types
    PROVE  MapThenSumSet(LAMBDA y : t[y][c], S) = SumOver(Column(t, c), S)
    <1> DEFINE R(h) == h = [s \in SUBSET S |-> IF s = {} THEN 0
                              ELSE t[pick(s)][c] + h[s \ {pick(s)}]]
    <1>1. IsFiniteSet(S)
        BY TypesFinite, FS_Subset
    <1>2. PICK h : IsSum(Column(t, c), S, h)
        BY <1>1, SumExists
    <1>3. \A s \in SUBSET S : s # {} => Column(t, c)[pick(s)] = t[pick(s)][c]
        BY PickIn DEF Column
    <1>4. \A k : R(k) <=> IsSum(Column(t, c), S, k)
        BY <1>3 DEF IsSum
    <1>5. R(h)
        BY <1>2, <1>4
    <1>6. \E k : R(k) /\ MapThenSumSet(LAMBDA y : t[y][c], S) = k[S]
        BY <1>5 DEF MapThenSumSet, MapThenFoldSet, pick
    <1> HIDE DEF R
    <1>7. QED
        BY <1>1, <1>4, <1>6, SumOverIs

(* Its two sides are the two ways of counting what is on the open accounts *)
(* of a currency, and there is nothing on the others.                      *)
LEMMA TableRead ==
    ASSUME LedgerInv
    PROVE  TableOK(BalancesByType)
    <1> DEFINE t == BalancesByType
    <1>1. /\ debit \in [Accounts -> Nat] /\ credit \in [Accounts -> Nat]
          /\ accounts \subseteq Accounts /\ IsFiniteSet(Accounts)
          /\ Balanced /\ ClosedEmpty
        BY PostingsAssumption DEF LedgerInv, Inv, LogInv, TypeOK
    <1>2. /\ Type \in [Accounts -> Types] /\ Currency \in [Accounts -> Currencies]
        BY DashboardAssumption, PostingsAssumption
    <1>3. \A a \in Accounts :
            /\ Natural[a] \in Int
            /\ Type[a] \in DebitTypes => Natural[a] = debit[a] - credit[a]
            /\ Type[a] \notin DebitTypes => Natural[a] = credit[a] - debit[a]
        BY <1>1 DEF Natural, naturalBalance, NormalBalance
    <1>4. \A S : S \subseteq Accounts => IsFiniteSet(S) /\ \A a \in S : Natural[a] \in Int
        BY <1>1, <1>3, FS_Subset
    <1>5. \A y \in Types, c \in Currencies :
            OfType(y, c) \subseteq Accounts /\ t[y][c] = SumOver(Natural, OfType(y, c))
        BY <1>1, NaturalSum DEF BalancesByType, OfType
    <1>6. \A y \in Types, c \in Currencies : t[y][c] \in Int
        BY <1>4, <1>5, SumOverInt
    <1>7. t \in [Types -> [Currencies -> Int]]
        BY <1>6 DEF BalancesByType
    <1>8. PICK net : net = [a \in Accounts |-> debit[a] - credit[a]]
        OBVIOUS
    <1>9. \A a \in Accounts : net[a] = debit[a] - credit[a] /\ net[a] \in Int
        <2> SUFFICES ASSUME NEW a \in Accounts
                     PROVE  net[a] = debit[a] - credit[a] /\ net[a] \in Int
            OBVIOUS
        <2>1. debit[a] \in Nat /\ credit[a] \in Nat
            BY <1>1
        <2>2. QED
            BY <1>8, <2>1
    <1>10. ASSUME NEW c \in Currencies
           PROVE  SumOver(Column(t, c), DebitTypes) = SumOver(Column(t, c), Types \ DebitTypes)
        <2> DEFINE A == {a \in accounts : Currency[a] = c}
                   D == Among(A, Type, DebitTypes)
                   C == Among(A, Type, Types \ DebitTypes)
        <2>1. /\ A \subseteq Accounts /\ D \subseteq A /\ C \subseteq A
              /\ D \cup C = A /\ D \cap C = {}
              /\ \A a \in D : Type[a] \in DebitTypes
              /\ \A a \in C : Type[a] \notin DebitTypes
            BY <1>1, <1>2 DEF Among
        <2>2. IsFiniteSet(A) /\ IsFiniteSet(D) /\ IsFiniteSet(C)
            BY <1>1, <2>1, FS_Subset
        <2>3. \A y \in Types : Among(A, Type, {y}) = OfType(y, c)
            BY DEF Among, OfType
        <2>4. \A y \in Types : Column(t, c)[y] = SumOver(Natural, Among(A, Type, {y}))
            BY <1>5, <2>3 DEF Column
        <2>5. /\ IsParts(Column(t, c), DebitTypes, Natural, A, Type)
              /\ IsParts(Column(t, c), Types \ DebitTypes, Natural, A, Type)
            BY <2>4, TypesFinite DEF IsParts
        <2>6. IsFiniteSet(DebitTypes) /\ IsFiniteSet(Types \ DebitTypes)
            BY TypesFinite, FS_Subset
        <2>7. \A a \in A : Natural[a] \in Int
            BY <1>3, <2>1
        <2> HIDE DEF t, A
        <2>9. /\ SumOver(Column(t, c), DebitTypes) = SumOver(Natural, D)
              /\ SumOver(Column(t, c), Types \ DebitTypes) = SumOver(Natural, C)
            BY <2>2, <2>5, <2>6, <2>7, SumOverParts
        <2> HIDE DEF D, C
        <2>10. SumOver(Natural, D) = SumOver(net, D)
            <3>1. \A a \in D : Natural[a] = net[a]
                BY <1>3, <1>9, <2>1
            <3>2. QED
                BY <2>2, <3>1, SumOverSame
        <2>11. SumOver(Natural, C) + SumOver(net, C) = 0
            <3>1. PICK zero : zero = [a \in Accounts |-> 0]
                OBVIOUS
            <3>2. \A a \in C : /\ Natural[a] \in Int /\ net[a] \in Int
                                /\ zero[a] = Natural[a] + net[a] /\ zero[a] = 0
                <4> SUFFICES ASSUME NEW a \in C
                             PROVE  /\ Natural[a] \in Int /\ net[a] \in Int
                                    /\ zero[a] = Natural[a] + net[a] /\ zero[a] = 0
                    OBVIOUS
                <4>1. a \in Accounts /\ Type[a] \notin DebitTypes
                    BY <2>1
                <4>2. debit[a] \in Nat /\ credit[a] \in Nat
                    BY <1>1, <4>1
                <4>3. Natural[a] = credit[a] - debit[a] /\ net[a] = debit[a] - credit[a]
                    BY <1>3, <1>9, <4>1
                <4>4. QED
                    BY <3>1, <4>1, <4>2, <4>3
            <3>3. SumOver(zero, C) = SumOver(Natural, C) + SumOver(net, C)
                BY <2>2, <3>2, SumOverPlus
            <3>4. SumOver(zero, C) = 0
                BY <2>2, <3>2, SumOverZero
            <3>5. QED
                BY <3>3, <3>4
        <2>12. SumOver(net, A) = SumOver(net, D) + SumOver(net, C)
            <3>1. \A a \in D \cup C : net[a] \in Int
                BY <1>9, <2>1
            <3>2. QED
                BY <2>1, <2>2, <3>1, SumOverUnion
        <2>13. SumOver(net, Of(c)) = SumOver(net, A)
            <3>1. IsFiniteSet(Of(c)) /\ Of(c) \subseteq Accounts
                BY OfFinite
            <3>2. A \in SUBSET Of(c)
                BY <1>1 DEF A, Of
            <3>3. \A a \in Of(c) \ A : net[a] = 0
                <4> SUFFICES ASSUME NEW a \in Of(c) \ A PROVE net[a] = 0
                    OBVIOUS
                <4>1. a \in Accounts /\ a \notin accounts
                    BY DEF A, Of
                <4>2. debit[a] = 0 /\ credit[a] = 0
                    BY <1>1, <4>1 DEF ClosedEmpty
                <4>3. QED
                    BY <1>9, <4>1, <4>2
            <3>4. \A a \in Of(c) : net[a] \in Int
                BY <1>9, <3>1
            <3>5. QED
                BY <3>1, <3>2, <3>3, <3>4, SumOverSubset
        <2>14. SumOver(net, Of(c)) = 0
            <3>1. IsFiniteSet(Of(c)) /\ Of(c) \subseteq Accounts
                BY OfFinite
            <3>2. \A a \in Of(c) : /\ net[a] \in Int /\ credit[a] \in Int
                                    /\ debit[a] = net[a] + credit[a]
                <4> SUFFICES ASSUME NEW a \in Of(c)
                             PROVE  /\ net[a] \in Int /\ credit[a] \in Int
                                    /\ debit[a] = net[a] + credit[a]
                    OBVIOUS
                <4>1. a \in Accounts
                    BY <3>1
                <4>2. debit[a] \in Nat /\ credit[a] \in Nat
                    BY <1>1, <4>1
                <4>3. QED
                    BY <1>9, <4>1, <4>2
            <3>3. SumOver(debit, Of(c)) = SumOver(net, Of(c)) + SumOver(credit, Of(c))
                BY <3>1, <3>2, SumOverPlus
            <3>4. SumOver(debit, Of(c)) = SumOver(credit, Of(c))
                BY <1>1 DEF Balanced
            <3>5. SumOver(net, Of(c)) \in Int /\ SumOver(credit, Of(c)) \in Int
                BY <3>1, <3>2, SumOverInt
            <3>6. QED
                BY <3>3, <3>4, <3>5
        <2>15. /\ SumOver(net, D) \in Int /\ SumOver(net, C) \in Int
               /\ SumOver(Natural, C) \in Int
            BY <1>4, <1>9, <2>1, <2>2, SumOverInt
        <2>16. QED
            BY <2>9, <2>10, <2>11, <2>12, <2>13, <2>14, <2>15
    <1> HIDE DEF t
    <1>11. TableBalances(t)
        <2> SUFFICES ASSUME NEW c \in Currencies
                     PROVE  MapThenSumSet(LAMBDA y : t[y][c], DebitTypes)
                              = MapThenSumSet(LAMBDA y : t[y][c], Types \ DebitTypes)
            BY DEF TableBalances
        <2>1. MapThenSumSet(LAMBDA y : t[y][c], DebitTypes)
                = SumOver(Column(t, c), DebitTypes)
            BY ColumnSum, TypesFinite
        <2>2. Types \ DebitTypes \subseteq Types
            OBVIOUS
        <2>3. MapThenSumSet(LAMBDA y : t[y][c], Types \ DebitTypes)
                = SumOver(Column(t, c), Types \ DebitTypes)
            BY <2>2, ColumnSum
        <2>4. QED
            BY <1>10, <2>1, <2>3
    <1>12. QED
        BY <1>7, <1>11 DEF TableOK, t

LEMMA NoTableOK == TableOK(NoTable)
    <1>1. NoTable \in [Types -> [Currencies -> Int]]
        BY DEF NoTable
    <1>2. ASSUME NEW c \in Currencies, NEW S, S \subseteq Types
          PROVE  SumOver(Column(NoTable, c), S) = 0
        <2>1. \A y \in Types : Column(NoTable, c)[y] = NoTable[y][c]
            BY DEF Column
        <2>2. \A y \in Types : NoTable[y][c] = 0
            BY DEF NoTable
        <2>3. \A y \in S : Column(NoTable, c)[y] = 0
            BY <1>2, <2>1, <2>2
        <2>4. IsFiniteSet(S)
            BY <1>2, TypesFinite, FS_Subset
        <2>5. QED
            BY <2>3, <2>4, SumOverZero
    <1>3. TableBalances(NoTable)
        <2> SUFFICES ASSUME NEW c \in Currencies
                     PROVE  MapThenSumSet(LAMBDA y : NoTable[y][c], DebitTypes)
                              = MapThenSumSet(LAMBDA y : NoTable[y][c], Types \ DebitTypes)
            BY DEF TableBalances
        <2>1. DebitTypes \subseteq Types /\ Types \ DebitTypes \subseteq Types
            BY TypesFinite
        <2>2. /\ MapThenSumSet(LAMBDA y : NoTable[y][c], DebitTypes)
                   = SumOver(Column(NoTable, c), DebitTypes)
              /\ MapThenSumSet(LAMBDA y : NoTable[y][c], Types \ DebitTypes)
                   = SumOver(Column(NoTable, c), Types \ DebitTypes)
            BY <2>1, ColumnSum
        <2>3. QED
            BY <1>2, <2>1, <2>2
    <1>4. QED
        BY <1>1, <1>3 DEF TableOK

(* A table and the balances of the accounts, read in the same state.       *)
LEMMA TableIsBalances ==
    ASSUME LedgerInv, NEW y \in Types, NEW c \in Currencies
    PROVE  BalancesByType[y][c] = SumOver(Balances, OfType(y, c))
    <1>1. OfType(y, c) \subseteq Accounts /\ OfType(y, c) \subseteq accounts
        BY DEF OfType, LedgerInv, Inv, LogInv, TypeOK
    <1>2. IsFiniteSet(OfType(y, c))
        BY <1>1, PostingsAssumption, FS_Subset
    <1>3. BalancesByType[y][c] = SumOver(Natural, OfType(y, c))
        BY <1>1, NaturalSum DEF BalancesByType, OfType
    <1>4. \A a \in OfType(y, c) : Natural[a] = Balances[a]
        BY <1>1 DEF Natural, Balances
    <1>5. QED
        BY <1>2, <1>3, <1>4, SumOverSame

-----------------------------------------------------------------------------
(* Rounding.                                                               *)
LEMMA Division ==
    ASSUME NEW m \in Nat, NEW d \in Nat \ {0}
    PROVE  /\ m \div d \in Nat /\ m % d \in 0..d - 1
           /\ (m \div d) * d \in Int /\ m = (m \div d) * d + (m % d)
    OBVIOUS

LEMMA RoundInt ==
    ASSUME NEW n \in Int, NEW d \in Nat \ {0}, NEW mode
    PROVE  roundRat(n, d, mode) \in Int
    <1>1. PICK m \in Nat : m = IF n < 0 THEN -n ELSE n
        OBVIOUS
    <1>2. m \div d \in Nat
        BY Division
    <1>3. QED
        BY <1>1, <1>2 DEF roundRat

LEMMA RoundNearest ==
    ASSUME NEW n \in Int, NEW d \in Nat \ {0}, NEW v, v = roundRat(n, d, "half_up")
    PROVE  /\ v \in Int /\ v * d \in Int
           /\ -d <= 2 * (n - v * d) /\ 2 * (n - v * d) <= d
    <1>1. PICK m \in Nat : m = IF n < 0 THEN -n ELSE n
        OBVIOUS
    <1>2. PICK q, r : q = m \div d /\ r = m % d
        OBVIOUS
    <1>3. PICK w : w = IF 2 * r >= d THEN q + 1 ELSE q
        OBVIOUS
    <1>4. v = IF n < 0 THEN -w ELSE w
        BY <1>1, <1>2, <1>3 DEF roundRat
    <1>5. PICK x \in Int : x = q * d
        BY <1>2, Division
    <1>6. /\ q \in Nat /\ r \in 0..d - 1 /\ m = x + r
        BY <1>2, <1>5, Division
    <1>7. (q + 1) * d = x + d
        BY <1>5, <1>6
    <1>8. w \in Nat /\ w * d \in Int /\ -d <= 2 * (m - w * d) /\ 2 * (m - w * d) <= d
        <2>1. CASE 2 * r >= d
            <3>1. w = q + 1 /\ w * d = x + d
                BY <1>3, <1>7, <2>1
            <3>2. QED
                BY <1>6, <2>1, <3>1
        <2>2. CASE ~(2 * r >= d)
            <3>1. w = q /\ w * d = x
                BY <1>3, <1>5, <2>2
            <3>2. QED
                BY <1>6, <2>2, <3>1
        <2>3. QED
            BY <2>1, <2>2
    <1>9. PICK y \in Int : y = w * d
        BY <1>8
    <1>10. (-w) * d = -y
        BY <1>8, <1>9
    <1>11. QED
        BY <1>1, <1>4, <1>8, <1>9, <1>10

LEMMA HalfUpNearest ==
    ASSUME NEW n \in Int, NEW d \in Int \ {0}, NEW v, v = roundHalfUp(n, d)
    PROVE  /\ v \in Int
           /\ LET error == 2 * (n - v * d)
                  bound == IF d < 0 THEN -d ELSE d
              IN  -bound <= error /\ error <= bound
    <1>1. CASE d > 0
        <2>1. d \in Nat \ {0} /\ v = roundRat(n, d, "half_up")
            BY <1>1 DEF roundHalfUp
        <2>2. /\ v \in Int /\ v * d \in Int
              /\ -d <= 2 * (n - v * d) /\ 2 * (n - v * d) <= d
            BY <2>1, RoundNearest
        <2>3. QED
            BY <1>1, <2>2
    <1>2. CASE d < 0
        <2>1. PICK e \in Nat \ {0} : e = -d
            BY <1>2
        <2>2. -n \in Int /\ v = roundRat(-n, e, "half_up")
            BY <1>2, <2>1 DEF roundHalfUp
        <2>3. /\ v \in Int /\ v * e \in Int
              /\ -e <= 2 * ((-n) - v * e) /\ 2 * ((-n) - v * e) <= e
            BY <2>1, <2>2, RoundNearest
        <2>4. PICK x \in Int : x = v * e
            BY <2>3
        <2>5. v * d = -x
            BY <2>1, <2>3, <2>4
        <2>6. QED
            BY <1>2, <2>1, <2>3, <2>4, <2>5
    <1>3. QED
        BY <1>1, <1>2

LEMMA PctInt ==
    ASSUME NEW n \in Int, NEW pct \in Int
    PROVE  pctOf(n, pct) \in Int
    <1>1. n * pct \in Int /\ Hundred \in Int \ {0}
        BY DEF Hundred
    <1>2. QED
        BY <1>1, HalfUpNearest DEF pctOf

LEMMA DollarsInt ==
    ASSUME NEW c, NEW n \in Int, NEW fx \in Contents.fx
    PROVE  toUSD(c, n, fx) \in Int
    <1>1. fx.rate \in Int /\ n * fx.rate \in Int
        BY DashboardAssumption
    <1>2. Scale * Unit \in Nat \ {0}
        BY ExchangeAssumption
    <1>3. QED
        BY <1>1, <1>2, RoundInt DEF toUSD, QuoteToUSD

(* The quotient of a metric and the amounts shown with it.                 *)
LEMMA RatioNearest ==
    ASSUME NEW n \in Int, NEW d \in Int \ {0}, NEW v, v = computeRatio(n, d)
    PROVE  /\ v \in Int
           /\ LET error == 2 * (n * Hundred - v * d)
                  bound == IF d < 0 THEN -d ELSE d
              IN  -bound <= error /\ error <= bound
    <1>1. n * Hundred \in Int /\ v = roundHalfUp(n * Hundred, d)
        BY DEF computeRatio, Hundred
    <1>2. QED
        BY <1>1, HalfUpNearest

-----------------------------------------------------------------------------
(* The amounts a request computes are integers.                            *)
LEMMA DollarsOfType ==
    ASSUME NEW v, v.byType \in [Types -> [Currencies -> Int]], NEW y \in Types, LiveOK
    PROVE  usdEquivalentBalance(v, y) \in Int
    <1> DEFINE g(c) == toUSD(c, v.byType[y][c], live.fx)
               f == [c \in Currencies |-> g(c)]
               R(h) == h = [s \in SUBSET Currencies |-> IF s = {} THEN 0
                              ELSE g(pick(s)) + h[s \ {pick(s)}]]
    <1>1. IsFiniteSet(Currencies)
        BY DashboardAssumption
    <1>2. PICK h : IsSum(f, Currencies, h)
        BY <1>1, SumExists
    <1> HIDE DEF g
    <1>3. \A s \in SUBSET Currencies : s # {} => f[pick(s)] = g(pick(s))
        BY PickIn
    <1>4. \A k : R(k) <=> IsSum(f, Currencies, k)
        BY <1>3 DEF IsSum
    <1>5. R(h)
        BY <1>2, <1>4
    <1>6. \E k : R(k) /\ usdEquivalentBalance(v, y) = k[Currencies]
        <2>1. usdEquivalentBalance(v, y)
                = MapThenSumSet(LAMBDA c : toUSD(c, v.byType[y][c], live.fx), Currencies)
            BY DEF usdEquivalentBalance
        <2>2. MapThenSumSet(LAMBDA c : toUSD(c, v.byType[y][c], live.fx), Currencies)
                = (CHOOSE k : R(k))[Currencies]
            BY DEF MapThenSumSet, MapThenFoldSet, pick, g
        <2>3. R(CHOOSE k : R(k))
            BY <1>5, Zenon
        <2>4. QED
            BY <2>1, <2>2, <2>3, Zenon
    <1>7. \A c \in Currencies : f[c] \in Int
        <2>1. live.fx \in Contents.fx
            BY DEF LiveOK
        <2>2. \A c \in Currencies : v.byType[y][c] \in Int
            OBVIOUS
        <2>3. \A c \in Currencies : g(c) \in Int
            BY <2>1, <2>2, DollarsInt DEF g
        <2>4. QED
            BY <2>3
    <1> HIDE DEF R, f
    <1>8. usdEquivalentBalance(v, y) = SumOver(f, Currencies)
        BY <1>1, <1>4, <1>6, SumOverIs
    <1>9. QED
        BY <1>1, <1>7, <1>8, SumOverInt

LEMMA ReserveInt ==
    ASSUME NEW v, v.byType \in [Types -> [Currencies -> Int]], v.liq \in Contents.liq,
           LiveOK
    PROVE  hqlaCents(v) \in Int
    <1> DEFINE cash(c) == v.byType["treasury_cash"][c]
               g(c) == toUSD(c, cash(c) - pctOf(cash(c), v.liq.haircut[c]), live.fx)
               f == [c \in Currencies |-> g(c)]
               R(h) == h = [s \in SUBSET Currencies |-> IF s = {} THEN 0
                              ELSE g(pick(s)) + h[s \ {pick(s)}]]
    <1>1. IsFiniteSet(Currencies)
        BY DashboardAssumption
    <1>2. PICK h : IsSum(f, Currencies, h)
        BY <1>1, SumExists
    <1> HIDE DEF g
    <1>3. \A s \in SUBSET Currencies : s # {} => f[pick(s)] = g(pick(s))
        BY PickIn
    <1>4. \A k : R(k) <=> IsSum(f, Currencies, k)
        BY <1>3 DEF IsSum
    <1>5. R(h)
        BY <1>2, <1>4
    <1>6. \E k : R(k) /\ hqlaCents(v) = k[Currencies]
        BY <1>5 DEF hqlaCents, MapThenSumSet, MapThenFoldSet, pick, g
    <1>7. \A c \in Currencies : f[c] \in Int
        <2>1. live.fx \in Contents.fx /\ v.liq.haircut \in [Currencies -> Int]
            BY DashboardAssumption DEF LiveOK
        <2>2. ASSUME NEW c \in Currencies PROVE g(c) \in Int
            <3>1. cash(c) \in Int /\ v.liq.haircut[c] \in Int
                BY <2>1 DEF Types, DebitTypes
            <3>2. pctOf(cash(c), v.liq.haircut[c]) \in Int
                BY <3>1, PctInt
            <3>3. cash(c) - pctOf(cash(c), v.liq.haircut[c]) \in Int
                BY <3>1, <3>2
            <3>4. QED
                BY <2>1, <3>3, DollarsInt DEF g
        <2>3. QED
            BY <2>2
    <1> HIDE DEF R, f
    <1>8. hqlaCents(v) = SumOver(f, Currencies)
        BY <1>1, <1>4, <1>6, SumOverIs
    <1>9. QED
        BY <1>1, <1>7, <1>8, SumOverInt

LEMMA WeightedInt ==
    ASSUME NEW e, e.outstanding \in Int, LiveOK
    PROVE  EvaluateRiskWeights(live.weights, e) \in Int
    <1>1. live.weights \in Contents.weights
        BY DEF LiveOK
    <1>2. PICK w : w = live.weights
        OBVIOUS
    <1>3. /\ w.defaulted \in Int /\ w.default \in Int
          /\ w.tiers \in [DOMAIN w.tiers -> Int]
        BY <1>1, <1>2, DashboardAssumption
    <1>4. PICK x : x = IF e.status = "defaulted" THEN w.defaulted
                       ELSE IF e.tier \in DOMAIN w.tiers THEN w.tiers[e.tier]
                       ELSE w.default
        OBVIOUS
    <1>5. x \in Int
        BY <1>3, <1>4
    <1>6. EvaluateRiskWeights(w, e) = pctOf(e.outstanding, x)
        BY <1>4 DEF EvaluateRiskWeights
    <1>7. QED
        BY <1>2, <1>5, <1>6, PctInt

LEMMA StableInt ==
    ASSUME NEW v, v.cents \in [Types -> Int], v.liq \in Contents.liq
    PROVE  MapThenSumSet(LAMBDA y : pctOf(v.cents[y], v.liq.rsf[y]), DOMAIN v.liq.rsf)
             \in Int
    <1> DEFINE g(y) == pctOf(v.cents[y], v.liq.rsf[y])
               S == DOMAIN v.liq.rsf
               f == [y \in S |-> g(y)]
               R(h) == h = [s \in SUBSET S |-> IF s = {} THEN 0
                              ELSE g(pick(s)) + h[s \ {pick(s)}]]
    <1>1. /\ v.liq.rsf \in [{"loan_receivable", "treasury_cash", "treasury_fx"} -> Int]
        BY DashboardAssumption
    <1>2. S \subseteq Types /\ IsFiniteSet(S) /\ \A y \in S : v.liq.rsf[y] \in Int
        <2>1. S = {"loan_receivable", "treasury_cash", "treasury_fx"}
            BY <1>1
        <2>2. S \subseteq Types
            BY <2>1 DEF Types, DebitTypes
        <2>3. IsFiniteSet(S)
            BY <2>2, TypesFinite, FS_Subset
        <2>4. QED
            BY <1>1, <2>1, <2>2, <2>3
    <1>3. \A y \in S : g(y) \in Int
        BY <1>2, PctInt
    <1> HIDE DEF g, S
    <1>4. PICK h : IsSum(f, S, h)
        BY <1>2, SumExists
    <1>5. \A s \in SUBSET S : s # {} => f[pick(s)] = g(pick(s))
        BY PickIn
    <1>6. \A k : R(k) <=> IsSum(f, S, k)
        BY <1>5 DEF IsSum
    <1>7. R(h)
        BY <1>4, <1>6
    <1>8. R(CHOOSE k : R(k))
        BY <1>7, Zenon
    <1>9. MapThenSumSet(LAMBDA y : pctOf(v.cents[y], v.liq.rsf[y]), S)
            = (CHOOSE k : R(k))[S]
        BY DEF MapThenSumSet, MapThenFoldSet, pick, g
    <1>10. \A y \in S : f[y] \in Int
        BY <1>3
    <1> HIDE DEF R, f
    <1>11. MapThenSumSet(LAMBDA y : pctOf(v.cents[y], v.liq.rsf[y]), S) = SumOver(f, S)
        BY <1>2, <1>6, <1>8, <1>9, SumOverIs
    <1>12. MapThenSumSet(LAMBDA y : pctOf(v.cents[y], v.liq.rsf[y]), S) \in Int
        BY <1>2, <1>10, <1>11, SumOverInt
    <1>13. QED
        BY <1>12 DEF S

LEMMA FractionInt ==
    ASSUME NEW v, v.byType \in [Types -> [Currencies -> Int]], v.cents \in [Types -> Int],
           v.hqla \in Int, v.outflows \in Int, v.rwa \in Int, v.liq \in Contents.liq
    PROVE  \A m \in Metrics : Fraction(v)[m][1] \in Int /\ Fraction(v)[m][2] \in Int
    <1>1. /\ "USD" \in Currencies
          /\ {"equity_capital", "interest_income", "fee_income", "loan_loss_expense",
              "customer_deposit", "loan_receivable"} \subseteq Types
        BY DashboardAssumption DEF Types, DebitTypes
    <1>2. \A y \in Types : v.byType[y]["USD"] \in Int
        BY <1>1
    <1>3. Capital(v) \in Int
        <2>1. /\ v.byType["equity_capital"]["USD"] \in Int
              /\ v.byType["interest_income"]["USD"] \in Int
              /\ v.byType["fee_income"]["USD"] \in Int
              /\ v.byType["loan_loss_expense"]["USD"] \in Int
            BY <1>1, <1>2
        <2>2. QED
            BY <2>1 DEF Capital
    <1>4. /\ v.liq.asf["customer_deposit"] \in Int
          /\ v.liq.asf["equity_capital"] \in Int
        <2>1. v.liq.asf \in [{"customer_deposit", "equity_capital"} -> Int]
            BY DashboardAssumption
        <2>2. QED
            BY <2>1
    <1>5. v.cents["customer_deposit"] \in Int /\ v.cents["loan_receivable"] \in Int
        BY <1>1
    <1>6. PICK asf : asf = pctOf(v.cents["customer_deposit"], v.liq.asf["customer_deposit"])
             + pctOf(v.byType["equity_capital"]["USD"], v.liq.asf["equity_capital"])
        OBVIOUS
    <1>7. asf \in Int
        <2>1. /\ pctOf(v.cents["customer_deposit"], v.liq.asf["customer_deposit"]) \in Int
              /\ pctOf(v.byType["equity_capital"]["USD"], v.liq.asf["equity_capital"]) \in Int
            BY <1>1, <1>2, <1>4, <1>5, PctInt
        <2>2. QED
            BY <1>6, <2>1
    <1>8. PICK rsf : rsf = MapThenSumSet(LAMBDA y : pctOf(v.cents[y], v.liq.rsf[y]),
                                         DOMAIN v.liq.rsf)
        OBVIOUS
    <1>9. rsf \in Int
        BY <1>8, StableInt
    <1>10. Fraction(v) = [lcr |-> <<v.hqla, v.outflows>>,
                          nsfr |-> <<asf, rsf>>,
                          capital_adequacy |-> <<Capital(v), v.rwa>>,
                          loan_to_deposit |-> <<v.cents["loan_receivable"],
                                                v.cents["customer_deposit"]>>]
        BY <1>6, <1>8 DEF Fraction
    <1>11. /\ Fraction(v)["lcr"] = <<v.hqla, v.outflows>>
           /\ Fraction(v)["nsfr"] = <<asf, rsf>>
           /\ Fraction(v)["capital_adequacy"] = <<Capital(v), v.rwa>>
           /\ Fraction(v)["loan_to_deposit"] = <<v.cents["loan_receivable"],
                                                 v.cents["customer_deposit"]>>
        BY <1>10
    <1>12. QED
        BY <1>3, <1>5, <1>7, <1>9, <1>11 DEF Metrics

(* What the answer says of its metrics when they are put into it.          *)
LEMMA MetricsRead ==
    ASSUME NEW v, v.byType \in [Types -> [Currencies -> Int]], v.cents \in [Types -> Int],
           v.hqla \in Int, v.outflows \in Int, v.rwa \in Int, v.liq \in Contents.liq,
           v.targets = live.targets \/ "targets" \in v.edited,
           NEW m \in DOMAIN RatioMetrics(v)
    PROVE  MetricOK(RatioMetrics(v)[m], m, v.edited)
    <1>1. m \in Metrics
        BY DEF RatioMetrics
    <1>2. PICK n, d, val, x : /\ n = Fraction(v)[m][1] /\ d = Fraction(v)[m][2]
                              /\ val = computeRatio(n, d)
                              /\ x = RatioMetrics(v)[m]
        OBVIOUS
    <1>3. n \in Int /\ d \in Int
        BY <1>1, <1>2, FractionInt
    <1>4. PICK value : value = [k \in Metrics |-> computeRatio(Fraction(v)[k][1],
                                                              Fraction(v)[k][2])]
        OBVIOUS
    <1>5. value[m] = val
        BY <1>1, <1>2, <1>4
    <1>6. PICK st : st = EvaluateThresholds(live.targets, value)[m]
        OBVIOUS
    <1>7. x = [num |-> n, den |-> d, value |-> val, target |-> v.targets[m],
               status |-> statusFor(st, val, d)]
        BY <1>1, <1>2, <1>4, <1>5, <1>6 DEF RatioMetrics
    <1>8. st = IF m = "loan_to_deposit"
               THEN IF val <= live.targets[m] THEN "ok" ELSE "above_maximum"
               ELSE IF val >= live.targets[m] THEN "ok" ELSE "below_target"
        BY <1>1, <1>5, <1>6 DEF EvaluateThresholds
    <1>9. /\ x.num = n /\ x.den = d /\ x.value = val /\ x.target = v.targets[m]
          /\ x.status = IF d = 0 THEN "n/a" ELSE st
        BY <1>7 DEF statusFor
    <1>10. x.status = "n/a" <=> x.den = 0
        BY <1>8, <1>9
    <1>11. ASSUME d # 0
           PROVE  LET error == 2 * (n * Hundred - val * d)
                      bound == IF d < 0 THEN -d ELSE d
                  IN  -bound <= error /\ error <= bound
        BY <1>2, <1>3, <1>11, RatioNearest
    <1>12. ASSUME d # 0, "targets" \notin v.edited
           PROVE  x.status = "ok" <=> IF m = "loan_to_deposit"
                                      THEN x.value <= x.target
                                      ELSE x.value >= x.target
        <2>1. v.targets = live.targets /\ x.status = st
            BY <1>9, <1>12
        <2>2. x.target = live.targets[m] /\ x.value = val
            BY <1>9, <2>1
        <2>3. QED
            BY <1>8, <2>1, <2>2
    <1>13. MetricOK(x, m, v.edited)
        BY <1>9, <1>10, <1>11, <1>12 DEF MetricOK
    <1>14. QED
        BY <1>2, <1>13

-----------------------------------------------------------------------------
(* Requests: what is left of their steps, and the view they start with.    *)
LEMMA ChainHead ==
    ASSUME NEW s, Chain(s), s # << >>
    PROVE  /\ Head(s) = s[1] /\ Head(s) \in StepNames /\ At(s) = Head(s)
           /\ Chain(Tail(s))
           /\ Tail(s) = << >> => Head(s) = "done"
           /\ Tail(s) # << >> => /\ At(Tail(s)) \in StepNames
                                 /\ Follows(Head(s), At(Tail(s)))
    <1>1. /\ s \in Seq(StepNames) /\ s[Len(s)] = "done"
          /\ \A i \in 1..Len(s) : i < Len(s) => Follows(s[i], s[i + 1])
        BY DEF Chain
    <1>2. /\ Head(s) = s[1] /\ Tail(s) \in Seq(StepNames) /\ Len(s) \in Nat \ {0}
          /\ Len(Tail(s)) = Len(s) - 1 /\ s[1] \in StepNames
          /\ \A i \in 1..Len(Tail(s)) : Tail(s)[i] = s[i + 1]
        BY <1>1, HeadTailProperties
    <1>3. PICK n, t : n = Len(s) /\ t = Tail(s)
        OBVIOUS
    <1>4. /\ n \in Nat \ {0} /\ t \in Seq(StepNames) /\ Len(t) = n - 1
          /\ \A i \in 1..(n - 1) : t[i] = s[i + 1]
          /\ s[n] = "done" /\ \A i \in 1..n : i < n => Follows(s[i], s[i + 1])
        BY <1>1, <1>2, <1>3
    <1>5. t # << >> => n - 1 \in Nat \ {0} /\ Head(t) = t[1] /\ t[1] = s[2]
                         /\ t[1] \in StepNames
        BY <1>4
    <1>6. t # << >> => t[n - 1] = "done" /\ Follows(s[1], s[2])
        <2>1. ASSUME t # << >> PROVE t[n - 1] = "done" /\ Follows(s[1], s[2])
            <3>1. n - 1 \in 1..(n - 1) /\ (n - 1) + 1 = n /\ 1 \in 1..n /\ 1 < n
                  /\ 1 + 1 = 2
                BY <1>4, <1>5, <2>1
            <3>2. QED
                BY <1>4, <3>1
        <2>2. QED
            BY <2>1
    <1>7. \A i \in 1..(n - 1) : i < n - 1 => Follows(t[i], t[i + 1])
        <2>1. ASSUME NEW i \in 1..(n - 1), i < n - 1 PROVE Follows(t[i], t[i + 1])
            <3>1. i \in Nat /\ i + 1 \in 1..(n - 1) /\ i + 1 \in 1..n /\ i + 1 < n
                BY <1>4, <2>1
            <3>2. t[i] = s[i + 1] /\ t[i + 1] = s[(i + 1) + 1]
                BY <1>4, <3>1
            <3>3. QED
                BY <1>4, <3>1, <3>2
        <2>2. QED
            BY <2>1
    <1>8. Chain(t)
        BY <1>4, <1>6, <1>7 DEF Chain
    <1>9. t = << >> => s[1] = "done"
        BY <1>4
    <1>10. QED
        BY <1>2, <1>3, <1>5, <1>6, <1>8, <1>9 DEF At

LEMMA NothingFields ==
    ASSUME NEW v, v = Nothing
    PROVE  /\ DOMAIN v = ViewFields /\ v.quiet = FALSE
           /\ v.from = 0 /\ v.to = 0 /\ v.byType = NoTable /\ v.totals = << >>
           /\ v.cents = [y \in Types |-> 0] /\ v.hqla = 0 /\ v.outflows = 0
           /\ v.left = {} /\ v.rwa = 0 /\ v.metrics = << >> /\ v.before = {}
    BY DEF Nothing, ViewFields

LEMMA FreshRatios ==
    ASSUME NEW v, v.cents = [y \in Types |-> 0], v.hqla = 0, v.outflows = 0, v.left = {},
           v.rwa = 0, v.metrics = << >>, NEW at, at \notin Priced \cup {"liquidity"},
           NEW targets
    PROVE  RatiosOK(v, at, targets)
    <1>1. v.cents \in [Types -> Int]
        OBVIOUS
    <1>2. \A m : m \notin DOMAIN v.metrics
        <2>1. DOMAIN << >> = {}
            OBVIOUS
        <2>2. QED
            BY <2>1
    <1>3. QED
        BY <1>1, <1>2 DEF RatiosOK

(* A request that has read nothing yet has nothing wrong.                  *)
LEMMA NothingOK ==
    ASSUME NEW v, v = Nothing, NEW at, at \notin Priced \cup {"liquidity"}
    PROVE  /\ DOMAIN v = ViewFields /\ v.quiet \in BOOLEAN /\ TableOK(v.byType)
           /\ \A a, b, t : BookOK(v, at, a, b, t)
           /\ \A s, o : FlowsOK(v, at, s, o)
           /\ \A t : RatiosOK(v, at, t)
    <1>1. /\ DOMAIN v = ViewFields /\ v.quiet = FALSE
          /\ v.from = 0 /\ v.to = 0 /\ v.byType = NoTable /\ v.totals = << >>
          /\ v.cents = [y \in Types |-> 0] /\ v.hqla = 0 /\ v.outflows = 0
          /\ v.left = {} /\ v.rwa = 0 /\ v.metrics = << >> /\ v.before = {}
        BY NothingFields
    <1>2. \A a, b, t : BookOK(v, at, a, b, t)
        BY <1>1 DEF BookOK
    <1>3. ~(v.from < v.to)
        BY <1>1
    <1>4. \A s, o : FlowsOK(v, at, s, o)
        BY <1>1, <1>3 DEF FlowsOK
    <1>5. \A t : RatiosOK(v, at, t)
        BY <1>1, FreshRatios
    <1>6. QED
        BY <1>1, <1>2, <1>4, <1>5, NoTableOK

(* What has been answered is listed.                                       *)
LEMMA AnsweredKnown ==
    ASSUME LedgerInv, phase = "up"
    PROVE  Answered \subseteq TxIDs /\ \A t \in Answered : status[t] # "none"
    <1>1. ASSUME NEW t \in Answered PROVE status[t] # "none"
        <2>1. PICK s \in DOMAIN log : log[s] = Posted(t) /\ s \notin lost
                                        /\ \A p \in Threads : seq[p] # s
            BY DEF Answered
        <2>2. applied[s] >= 1
            BY <2>1 DEF LedgerInv, UpCovered, Owned
        <2>3. log[s].type = "posted" /\ log[s].id = t
            BY <2>1 DEF Posted
        <2>4. LogKnown
            BY DEF LedgerInv, OnceInv
        <2>5. QED
            BY <2>1, <2>2, <2>3, <2>4 DEF LogKnown
    <1>2. QED
        BY <1>1 DEF Answered

LEMMA WindowOK ==
    ASSUME LedgerInv, phase = "up", NEW from, NEW to, NEW v, v = Window(from, to)
    PROVE  ViewOK(v, "txs")
    <1>1. PICK n, b : n = Nothing /\ b = Answered
        OBVIOUS
    <1>2. /\ DOMAIN n = ViewFields /\ n.quiet = FALSE
          /\ n.byType = NoTable /\ n.totals = << >>
          /\ n.cents = [y \in Types |-> 0] /\ n.hqla = 0 /\ n.outflows = 0
          /\ n.left = {} /\ n.rwa = 0 /\ n.metrics = << >>
        BY <1>1, NothingFields
    <1>3. v = [n EXCEPT !.from = from, !.to = to, !.before = b]
        BY <1>1 DEF Window
    <1>4. /\ DOMAIN v = ViewFields /\ v.quiet = FALSE
          /\ v.byType = NoTable /\ v.totals = << >> /\ v.before = b
        BY <1>2, <1>3 DEF ViewFields
    <1>5. /\ v.cents = [y \in Types |-> 0] /\ v.hqla = 0 /\ v.outflows = 0
          /\ v.left = {} /\ v.rwa = 0 /\ v.metrics = << >>
        BY <1>2, <1>3 DEF ViewFields
    <1>6. BookOK(v, "txs", accounts, Balances, BalancesByType)
        BY <1>4 DEF BookOK
    <1>7. FlowsOK(v, "txs", status, occurred)
        BY <1>1, <1>4, AnsweredKnown DEF FlowsOK
    <1>8. RatiosOK(v, "txs", live.targets)
        BY <1>5, FreshRatios DEF Priced
    <1>9. QED
        BY <1>4, <1>6, <1>7, <1>8, NoTableOK DEF ViewOK

-----------------------------------------------------------------------------
(* A step on what has been read leaves the book and the window alone.      *)
Kept(v, w) ==
    /\ DOMAIN w = ViewFields
    /\ w.quiet = v.quiet /\ w.listed = v.listed /\ w.balances = v.balances
    /\ w.byType = v.byType /\ w.from = v.from /\ w.to = v.to
    /\ w.before = v.before /\ w.counted = v.counted

LEMMA KeptOK ==
    ASSUME NEW v, NEW w, NEW at \in StepNames \ (Reads \cup {"done", "now"}),
           NEW next \in StepNames, next = at \/ Follows(at, next),
           ViewOK(v, at), Kept(v, w), RatiosOK(w, next, live.targets)
    PROVE  ViewOK(w, next)
    <1>1. /\ at \notin {"none", "list", "balances", "bytype", "txs", "done"}
          /\ next \notin {"none", "list", "balances", "bytype"}
          /\ at = "flows" => next \in {"flows", "done"}
        BY DEF StepNames, Reads, Follows
    <1>2. BookOK(v, at, accounts, Balances, BalancesByType)
        BY DEF ViewOK
    <1>3. BookOK(w, next, accounts, Balances, BalancesByType)
        BY <1>1, <1>2 DEF BookOK, Kept
    <1>4. FlowsOK(v, at, status, occurred)
        BY DEF ViewOK
    <1>5. FlowsOK(w, next, status, occurred)
        <2>1. w.from < w.to => v.from < v.to /\ at = "flows" /\ CountsAll(v, occurred)
            BY <1>1, <1>4 DEF FlowsOK, Kept
        <2>2. CountsAll(v, occurred) => CountsAll(w, occurred)
            BY DEF CountsAll, Kept
        <2>3. w.before \subseteq TxIDs /\ \A t \in w.before : status[t] # "none"
            BY <1>4 DEF FlowsOK, Kept
        <2>4. QED
            BY <1>1, <2>1, <2>2, <2>3 DEF FlowsOK
    <1>6. QED
        BY <1>3, <1>5 DEF ViewOK, Kept

(* ... and most steps the ratios as well.                                  *)
SameRatios(v, w) ==
    /\ w.cents = v.cents /\ w.hqla = v.hqla /\ w.outflows = v.outflows
    /\ w.rwa = v.rwa /\ w.left = v.left /\ w.liq = v.liq /\ w.targets = v.targets
    /\ w.metrics = v.metrics /\ w.edited = v.edited

LEMMA SameRatiosOK ==
    ASSUME NEW v, NEW w, NEW at, NEW next, NEW targets,
           at \notin {"thresholds", "liquidity"} \/ next = at,
           next = at \/ Follows(at, next), RatiosOK(v, at, targets), SameRatios(v, w)
    PROVE  RatiosOK(w, next, targets)
    <1>1. /\ next \in Priced => at \in Priced
          /\ next \in Priced \cup {"liquidity"} => at \in Priced \cup {"liquidity"}
        BY DEF Follows
    <1>2. QED
        BY <1>1 DEF RatiosOK, SameRatios

(* The steps that compute nothing the ratios need.                         *)
LEMMA PlainComputed ==
    ASSUME NEW v, NEW at \in {"totals", "exposure"}, ViewOK(v, at),
           NEW next \in StepNames, Follows(at, next)
    PROVE  ViewOK(Computed(v, at), next)
    <1>1. PICK w : w = Computed(v, at)
        OBVIOUS
    <1>2. \E x : w = [v EXCEPT !.totals = x] \/ w = [v EXCEPT !.exposure = x]
        <2>1. CASE at = "totals"
            <3>1. PICK x : x = [fiat |-> sumAcrossTypes(v, "USD"),
                                usdc |-> sumAcrossTypes(v, "USDC"),
                                equivalent |-> toUSD("USDC", sumAcrossTypes(v, "USDC"),
                                                     live.fx)]
                OBVIOUS
            <3>2. w = [v EXCEPT !.totals = x]
                BY <1>1, <2>1, <3>1 DEF Computed, Types, DebitTypes
            <3>3. QED
                BY <3>2
        <2>2. CASE at = "exposure"
            <3>1. PICK x : x = [c \in Currencies |->
                                  toUSD(c, v.byType["treasury_fx"][c], live.fx)]
                OBVIOUS
            <3>2. w = [v EXCEPT !.exposure = x]
                BY <1>1, <2>2, <3>1 DEF Computed, Types, DebitTypes
            <3>3. QED
                BY <3>2
        <2>3. QED
            BY <2>1, <2>2
    <1>3. DOMAIN v = ViewFields /\ RatiosOK(v, at, live.targets)
        BY DEF ViewOK
    <1>4. Kept(v, w)
        BY <1>2, <1>3 DEF Kept, ViewFields
    <1>5. SameRatios(v, w)
        BY <1>2, <1>3 DEF SameRatios, ViewFields
    <1>6. RatiosOK(w, next, live.targets)
        BY <1>3, <1>5, SameRatiosOK
    <1>7. at \in StepNames \ (Reads \cup {"done", "now"})
        BY DEF StepNames, Reads
    <1>8. QED
        BY <1>1, <1>4, <1>6, <1>7, KeptOK

(* The flows are added up one transaction at a time.                       *)
LEMMA FlowsComputed ==
    ASSUME NEW v, NEW t, ViewOK(v, "flows")
    PROVE  ViewOK(Moved(v, t), "flows") /\ ViewOK(v, "done")
    <1>1. PICK w : w = Moved(v, t)
        OBVIOUS
    <1>2. \E x, y : w = [v EXCEPT !.txs = x, !.flows = y]
        BY <1>1 DEF Moved
    <1>3. DOMAIN v = ViewFields /\ RatiosOK(v, "flows", live.targets)
        BY DEF ViewOK
    <1>4. Kept(v, w) /\ Kept(v, v)
        BY <1>2, <1>3 DEF Kept, ViewFields
    <1>5. SameRatios(v, w) /\ SameRatios(v, v)
        BY <1>2, <1>3 DEF SameRatios, ViewFields
    <1>6. Follows("flows", "done")
        BY DEF Follows, Priced
    <1>7. RatiosOK(w, "flows", live.targets) /\ RatiosOK(v, "done", live.targets)
        BY <1>3, <1>5, <1>6, SameRatiosOK
    <1>8. /\ "flows" \in StepNames \ (Reads \cup {"done", "now"})
          /\ "done" \in StepNames
        BY DEF StepNames, Reads
    <1>9. QED
        BY <1>1, <1>4, <1>6, <1>7, <1>8, KeptOK

LEMMA ExposuresComputed ==
    ASSUME LiveOK, NEW v, NEW at \in {"portfolio", "rwa"}, ViewOK(v, at),
           NEW next \in StepNames, Follows(at, next)
    PROVE  /\ ViewOK(v, next)
           /\ \A E \in Portfolios : ViewOK([v EXCEPT !.left = E], next)
           /\ \A e \in v.left : \A w :
                w = [v EXCEPT !.left = @ \ {e},
                              !.rwa = @ + IF e.outstanding <= 0 THEN 0
                                          ELSE EvaluateRiskWeights(live.weights, e)]
                => ViewOK(w, at)
    <1>1. DOMAIN v = ViewFields /\ RatiosOK(v, at, live.targets)
        BY DEF ViewOK
    <1>2. at \in StepNames \ (Reads \cup {"done", "now"})
        BY DEF StepNames, Reads
    <1>3. ViewOK(v, next)
        <2>1. Kept(v, v) /\ SameRatios(v, v)
            BY <1>1 DEF Kept, SameRatios
        <2>2. RatiosOK(v, next, live.targets)
            BY <1>1, <2>1, SameRatiosOK
        <2>3. QED
            BY <1>2, <2>1, <2>2, KeptOK
    <1>4. ASSUME NEW E \in Portfolios PROVE ViewOK([v EXCEPT !.left = E], next)
        <2>1. PICK w : w = [v EXCEPT !.left = E]
            OBVIOUS
        <2>2. Kept(v, w)
            BY <1>1, <2>1 DEF Kept, ViewFields
        <2>3. /\ w.cents = v.cents /\ w.hqla = v.hqla /\ w.outflows = v.outflows
              /\ w.rwa = v.rwa /\ w.left = E /\ w.liq = v.liq /\ w.targets = v.targets
              /\ w.metrics = v.metrics /\ w.edited = v.edited
            BY <1>1, <2>1 DEF ViewFields
        <2>4. /\ v.left = v.left /\ RatiosOK(v, next, live.targets)
            BY <1>3 DEF ViewOK
        <2>5. \A e \in E : e.outstanding \in Int
            BY DashboardAssumption
        <2>6. RatiosOK(w, next, live.targets)
            BY <2>3, <2>4, <2>5 DEF RatiosOK
        <2>7. QED
            BY <1>2, <2>1, <2>2, <2>6, KeptOK
    <1>5. ASSUME NEW e \in v.left, NEW w,
                 w = [v EXCEPT !.left = @ \ {e},
                               !.rwa = @ + IF e.outstanding <= 0 THEN 0
                                           ELSE EvaluateRiskWeights(live.weights, e)]
          PROVE  ViewOK(w, at)
        <2>1. e.outstanding \in Int /\ v.rwa \in Int
            BY <1>1 DEF RatiosOK
        <2>2. PICK x : x = v.rwa + IF e.outstanding <= 0 THEN 0
                                   ELSE EvaluateRiskWeights(live.weights, e)
            OBVIOUS
        <2>3. x \in Int
            BY <2>1, <2>2, WeightedInt
        <2>4. w = [v EXCEPT !.left = v.left \ {e}, !.rwa = x]
            BY <1>5, <2>2
        <2>5. Kept(v, w)
            BY <1>1, <2>4 DEF Kept, ViewFields
        <2>6. /\ w.cents = v.cents /\ w.hqla = v.hqla /\ w.outflows = v.outflows
              /\ w.rwa = x /\ w.left = v.left \ {e} /\ w.liq = v.liq
              /\ w.targets = v.targets /\ w.metrics = v.metrics /\ w.edited = v.edited
            BY <1>1, <2>4 DEF ViewFields
        <2>7. RatiosOK(w, at, live.targets)
            BY <1>1, <2>3, <2>6 DEF RatiosOK
        <2>8. QED
            BY <1>2, <2>5, <2>7, KeptOK
    <1>6. QED
        BY <1>3, <1>4, <1>5

(* The steps that gather what the ratios are made of.                      *)
LEMMA ComputedIs ==
    ASSUME NEW v
    PROVE  /\ Computed(v, "thresholds") = [v EXCEPT !.targets = live.targets]
           /\ Computed(v, "liquidity") = [v EXCEPT !.liq = live.liq]
           /\ Computed(v, "hqla") = [v EXCEPT !.hqla = hqlaCents(v)]
           /\ Computed(v, "outflows") =
                [v EXCEPT !.outflows =
                   EvaluateLiquidityStress(live.liq, v.cents["customer_deposit"])]
           /\ Computed(v, "metrics") = [v EXCEPT !.metrics = RatioMetrics(v)]
           /\ Computed(v, "now") = Window(0, now)
           /\ Computed(v, "done") = Nothing
    <1>1. Computed(v, "thresholds") = [v EXCEPT !.targets = live.targets]
        BY DEF Computed, Types, DebitTypes
    <1>2. Computed(v, "liquidity") = [v EXCEPT !.liq = live.liq]
        BY DEF Computed, Types, DebitTypes
    <1>3. Computed(v, "hqla") = [v EXCEPT !.hqla = hqlaCents(v)]
        BY DEF Computed, Types, DebitTypes
    <1>4. Computed(v, "outflows") =
            [v EXCEPT !.outflows =
               EvaluateLiquidityStress(live.liq, v.cents["customer_deposit"])]
        BY DEF Computed, Types, DebitTypes
    <1>5. Computed(v, "metrics") = [v EXCEPT !.metrics = RatioMetrics(v)]
        BY DEF Computed, Types, DebitTypes
    <1>6. Computed(v, "now") = Window(0, now)
        BY DEF Computed, Types, DebitTypes
    <1>7. Computed(v, "done") = Nothing
        BY DEF Computed, Types, DebitTypes
    <1>8. QED
        BY <1>1, <1>2, <1>3, <1>4, <1>5, <1>6, <1>7

TypeSteps == {"customer_deposit", "loan_receivable", "treasury_cash", "treasury_fx"}

LEMMA CentsComputed ==
    ASSUME LiveOK, NEW v, NEW at \in TypeSteps, ViewOK(v, at),
           NEW next \in StepNames, Follows(at, next)
    PROVE  ViewOK(Computed(v, at), next)
    <1>1. PICK w, x : w = Computed(v, at) /\ x = usdEquivalentBalance(v, at)
        OBVIOUS
    <1>2. at \in Types /\ w = [v EXCEPT !.cents[at] = x]
        <2>1. CASE at = "customer_deposit"
            BY <1>1, <2>1 DEF Computed, Types, DebitTypes
        <2>2. CASE at = "loan_receivable"
            BY <1>1, <2>2 DEF Computed, Types, DebitTypes
        <2>3. CASE at = "treasury_cash"
            BY <1>1, <2>3 DEF Computed, Types, DebitTypes
        <2>4. CASE at = "treasury_fx"
            BY <1>1, <2>4 DEF Computed, Types, DebitTypes
        <2>5. QED
            BY <2>1, <2>2, <2>3, <2>4 DEF TypeSteps
    <1>3. /\ DOMAIN v = ViewFields /\ RatiosOK(v, at, live.targets)
          /\ v.byType \in [Types -> [Currencies -> Int]]
        BY DEF ViewOK, TableOK
    <1>4. x \in Int
        BY <1>1, <1>2, <1>3, DollarsOfType
    <1>5. PICK k : k = [v.cents EXCEPT ![at] = x]
        OBVIOUS
    <1>6. k \in [Types -> Int]
        BY <1>3, <1>4, <1>5 DEF RatiosOK
    <1>7. w = [v EXCEPT !.cents = k]
        BY <1>2, <1>5
    <1>8. Kept(v, w)
        BY <1>3, <1>7 DEF Kept, ViewFields
    <1>9. /\ w.cents = k /\ w.hqla = v.hqla /\ w.outflows = v.outflows
          /\ w.rwa = v.rwa /\ w.left = v.left /\ w.liq = v.liq /\ w.targets = v.targets
          /\ w.metrics = v.metrics /\ w.edited = v.edited
        BY <1>3, <1>7 DEF ViewFields
    <1>10. next \notin Priced \cup {"liquidity"}
        BY DEF Follows, TypeSteps, Priced
    <1>11. RatiosOK(w, next, live.targets)
        BY <1>3, <1>6, <1>9, <1>10 DEF RatiosOK
    <1>12. at \in StepNames \ (Reads \cup {"done", "now"})
        BY DEF StepNames, Reads, TypeSteps
    <1>13. QED
        BY <1>1, <1>8, <1>11, <1>12, KeptOK

LEMMA RulesComputed ==
    ASSUME LiveOK, NEW v, NEW at \in {"thresholds", "liquidity"}, ViewOK(v, at),
           NEW next \in StepNames, Follows(at, next)
    PROVE  ViewOK(Computed(v, at), next)
    <1>1. PICK w : w = Computed(v, at)
        OBVIOUS
    <1>2. /\ at = "thresholds" => w = [v EXCEPT !.targets = live.targets]
          /\ at = "liquidity" => w = [v EXCEPT !.liq = live.liq]
        BY <1>1, ComputedIs
    <1>3. DOMAIN v = ViewFields /\ RatiosOK(v, at, live.targets)
        BY DEF ViewOK
    <1>4. Kept(v, w)
        BY <1>2, <1>3 DEF Kept, ViewFields
    <1>5. /\ w.cents = v.cents /\ w.hqla = v.hqla /\ w.outflows = v.outflows
          /\ w.rwa = v.rwa /\ w.left = v.left
          /\ w.metrics = v.metrics /\ w.edited = v.edited
          /\ at = "thresholds" => w.targets = live.targets
          /\ at = "liquidity" => w.liq = live.liq /\ w.targets = v.targets
        BY <1>2, <1>3 DEF ViewFields
    <1>6. live.liq \in Contents.liq
        BY DEF LiveOK
    <1>7. /\ at = "thresholds" => next \notin Priced
          /\ at = "liquidity" => next # "liquidity"
        BY DEF Follows, Priced
    <1>8. RatiosOK(w, next, live.targets)
        BY <1>3, <1>5, <1>6, <1>7 DEF RatiosOK
    <1>9. at \in StepNames \ (Reads \cup {"done", "now"})
        BY DEF StepNames, Reads
    <1>10. QED
        BY <1>1, <1>4, <1>8, <1>9, KeptOK

LEMMA AmountsComputed ==
    ASSUME LiveOK, NEW v, NEW at \in {"hqla", "outflows", "metrics"}, ViewOK(v, at),
           NEW next \in StepNames, Follows(at, next)
    PROVE  ViewOK(Computed(v, at), next)
    <1>1. PICK w, h, o, r : /\ w = Computed(v, at) /\ h = hqlaCents(v)
                            /\ o = EvaluateLiquidityStress(live.liq,
                                                           v.cents["customer_deposit"])
                            /\ r = RatioMetrics(v)
        OBVIOUS
    <1>2. /\ at = "hqla" => w = [v EXCEPT !.hqla = h]
          /\ at = "outflows" => w = [v EXCEPT !.outflows = o]
          /\ at = "metrics" => w = [v EXCEPT !.metrics = r]
        BY <1>1, ComputedIs
    <1>3. /\ DOMAIN v = ViewFields /\ RatiosOK(v, at, live.targets)
          /\ v.byType \in [Types -> [Currencies -> Int]] /\ at \in Priced
        BY DEF ViewOK, TableOK, Priced
    <1>4. Kept(v, w)
        BY <1>2, <1>3 DEF Kept, ViewFields
    <1>5. /\ w.cents = v.cents /\ w.rwa = v.rwa /\ w.left = v.left
          /\ w.edited = v.edited /\ w.liq = v.liq /\ w.targets = v.targets
          /\ w.hqla = IF at = "hqla" THEN h ELSE v.hqla
          /\ w.outflows = IF at = "outflows" THEN o ELSE v.outflows
          /\ w.metrics = IF at = "metrics" THEN r ELSE v.metrics
        BY <1>2, <1>3 DEF ViewFields
    <1>6. h \in Int /\ o \in Int
        <2>1. v.liq \in Contents.liq /\ v.cents \in [Types -> Int]
            BY <1>3 DEF RatiosOK
        <2>2. h \in Int
            BY <1>1, <1>3, <2>1, ReserveInt
        <2>3. PICK l, c : l = live.liq /\ c = v.cents["customer_deposit"]
            OBVIOUS
        <2>4. l.runoff \in Int
            BY <2>3, DashboardAssumption DEF LiveOK
        <2>5. c \in Int
            BY <2>1, <2>3 DEF Types
        <2>6. pctOf(c, l.runoff) \in Int
            BY <2>4, <2>5, PctInt
        <2>7. QED
            BY <1>1, <2>2, <2>3, <2>6 DEF EvaluateLiquidityStress
    <1>7. \A m \in DOMAIN r : MetricOK(r[m], m, v.edited)
        <2>1. /\ v.liq \in Contents.liq /\ v.cents \in [Types -> Int]
              /\ v.hqla \in Int /\ v.outflows \in Int /\ v.rwa \in Int
              /\ v.targets = live.targets \/ "targets" \in v.edited
            BY <1>3 DEF RatiosOK
        <2>2. QED
            BY <1>1, <1>3, <2>1, MetricsRead
    <1>8. RatiosOK(w, next, live.targets)
        BY <1>3, <1>5, <1>6, <1>7 DEF RatiosOK
    <1>9. at \in StepNames \ (Reads \cup {"done", "now"})
        BY DEF StepNames, Reads
    <1>10. QED
        BY <1>1, <1>4, <1>8, <1>9, KeptOK

(* The next part of the answer starts with nothing.                        *)
LEMMA PartComputed ==
    ASSUME LedgerInv, phase = "up", NEW v, NEW at \in {"now", "done"}, NEW next,
           next = "none" \/ Follows(at, next), next = "none" => at = "done"
    PROVE  ViewOK(Computed(v, at), next)
    <1>1. CASE at = "now"
        <2>1. next = "txs"
            BY <1>1 DEF Follows
        <2>2. QED
            BY <1>1, <2>1, ComputedIs, WindowOK
    <1>2. CASE at = "done"
        <2>1. next \notin Priced \cup {"liquidity"}
            BY <1>2 DEF Follows, Priced
        <2>2. QED
            BY <1>2, <2>1, ComputedIs, NothingOK DEF ViewOK
    <1>3. QED
        BY <1>1, <1>2

-----------------------------------------------------------------------------
(* The balances depend on the accounts and the totals only.                *)
LEMMA SameBooks ==
    ASSUME UNCHANGED <<accounts, debit, credit>>
    PROVE  Balances' = Balances /\ BalancesByType' = BalancesByType
    <1>1. Balances' = Balances
        BY DEF Balances, naturalBalance
    <1>2. BalancesByType' = BalancesByType
        BY DEF BalancesByType, naturalBalance, MapThenSumSet, MapThenFoldSet
    <1>3. QED
        BY <1>1, <1>2

(* What a request has gathered stays right while the projection, the       *)
(* stamps and the rules stay what they are.                                *)
LEMMA ViewStays ==
    ASSUME UNCHANGED <<accounts, debit, credit, status, occurred, live>>,
           NEW q, ViewOK(view[q], At(todo[q])),
           view'[q] = view[q], todo'[q] = todo[q]
    PROVE  ViewOK(view[q], At(todo[q]))'
    <1>1. Balances' = Balances /\ BalancesByType' = BalancesByType
        BY SameBooks
    <1>2. At(todo'[q]) = At(todo[q])
        OBVIOUS
    <1>3. QED
        BY <1>1, <1>2 DEF ViewOK

LEMMA OneRequest ==
    ASSUME RequestsOK, DOMAIN todo = Procs, DOMAIN view = Procs,
           NEW p \in Procs, NEW v, NEW rest, Gather(p, v, rest),
           UNCHANGED <<accounts, debit, credit, status, occurred, live, phase>>,
           Chain(rest), rest # << >> => phase = "up", ViewOK(v, At(rest))
    PROVE  RequestsOK' /\ DOMAIN todo' = Procs /\ DOMAIN view' = Procs
    <1>1. /\ view' = [view EXCEPT ![p] = v] /\ todo' = [todo EXCEPT ![p] = rest]
        BY DEF Gather
    <1>2. /\ DOMAIN todo' = Procs /\ DOMAIN view' = Procs
          /\ view'[p] = v /\ todo'[p] = rest
          /\ \A q \in Procs \ {p} : view'[q] = view[q] /\ todo'[q] = todo[q]
        BY <1>1
    <1>3. ViewOK(view[p], At(todo[p]))'
        <2>1. Balances' = Balances /\ BalancesByType' = BalancesByType
            BY SameBooks
        <2>2. view'[p] = v /\ At(todo'[p]) = At(rest)
            BY <1>2
        <2>3. QED
            BY <2>1, <2>2 DEF ViewOK
    <1>4. \A q \in Procs \ {p} : ViewOK(view[q], At(todo[q]))'
        BY <1>2, ViewStays DEF RequestsOK
    <1>5. QED
        BY <1>2, <1>3, <1>4 DEF RequestsOK

-----------------------------------------------------------------------------
LEMMA EmptyChain == Chain(<< >>) /\ At(<< >>) = "none"
    <1>1. PICK e : e = << >>
        OBVIOUS
    <1>2. e \in Seq(StepNames) /\ Len(e) = 0 /\ 1..0 = {}
        BY <1>1
    <1>3. Chain(e)
        BY <1>1, <1>2 DEF Chain
    <1>4. QED
        BY <1>1, <1>3 DEF At

LEMMA InitDashInv == DashInit => DashInv
    <1> SUFFICES ASSUME DashInit PROVE DashInv
        OBVIOUS
    <1>1. LedgerInv /\ LiveOK
        BY InitLedgerInv DEF DashInit, LiveOK
    <1>2. /\ DOMAIN todo = Procs /\ DOMAIN view = Procs
          /\ \A p \in Procs : todo[p] = << >> /\ view[p] = Nothing
        BY DEF DashInit
    <1>3. \A p \in Procs : Chain(todo[p])
        BY <1>2, EmptyChain
    <1>4. \A p \in Procs : ViewOK(view[p], At(todo[p]))
        <2>1. "none" \notin Priced \cup {"liquidity"}
            BY DEF Priced
        <2>2. QED
            BY <1>2, <2>1, NothingOK DEF ViewOK, At
    <1>5. QED
        BY <1>1, <1>2, <1>3, <1>4 DEF DashInv, RequestsOK

(* Every request makes at least one read.                                  *)
LEMMA SomeReads ==
    ASSUME NEW steps \in Seq(StepNames), steps # << >>, steps[1] \in Reads
    PROVE  Cardinality({i \in DOMAIN steps : steps[i] \in Reads}) \in Nat \ {0}
    <1>1. DOMAIN steps = 1..Len(steps) /\ Len(steps) \in Nat \ {0}
        OBVIOUS
    <1>2. PICK S : S = {i \in DOMAIN steps : steps[i] \in Reads}
        OBVIOUS
    <1>3. S \subseteq 1..Len(steps) /\ 1 \in S
        BY <1>1, <1>2
    <1>4. IsFiniteSet(1..Len(steps))
        BY <1>1, FS_Interval
    <1>5. IsFiniteSet(S)
        BY <1>3, <1>4, FS_Subset
    <1>6. Cardinality(S) \in Nat /\ Cardinality(S) # 0
        BY <1>3, <1>5, FS_CardinalityType, FS_EmptySet
    <1>7. QED
        BY <1>2, <1>6

LEMMA AskStep ==
    ASSUME DashInv, NEW p \in Procs, NEW v, NEW steps, Ask(p, v, steps), Chain(steps),
           steps # << >>, steps[1] \in Reads, phase = "up" => ViewOK(v, steps[1])
    PROVE  DashInv'
    <1>1. steps \in Seq(StepNames) /\ At(steps) = steps[1]
        BY DEF Chain, At
    <1>2. PICK n : n = Cardinality({i \in DOMAIN steps : steps[i] \in Reads})
        OBVIOUS
    <1>3. n \in Nat \ {0}
        BY <1>1, <1>2, SomeReads
    <1>4. /\ Begin(p, [i \in 1..n |-> Call("read", Nobody)])
          /\ Gather(p, v, steps) /\ UNCHANGED <<issued, manual, occurred, live>>
        BY <1>2 DEF Ask
    <1>5. phase = "up" /\ UNCHANGED <<accounts, debit, credit, status, phase>>
        BY <1>4 DEF Begin, proj
    <1>6. LedgerInv'
        BY <1>3, <1>4, ReadsBegin DEF DashInv
    <1>7. RequestsOK' /\ DOMAIN todo' = Procs /\ DOMAIN view' = Procs
        BY <1>1, <1>4, <1>5, OneRequest DEF DashInv
    <1>8. LiveOK'
        BY <1>4 DEF DashInv, LiveOK
    <1>9. QED
        BY <1>6, <1>7, <1>8 DEF DashInv

LEMMA HandlersStep ==
    ASSUME DashInv, NEW p \in Procs,
           handleSummary(p) \/ handleLedgerBook(p) \/ handleRatios(p) \/ handleFlows(p)
    PROVE  DashInv'
    <1>1. ASSUME NEW at \in {"list", "bytype"}, NEW v, v = Nothing PROVE ViewOK(v, at)
        BY <1>1, NothingOK DEF ViewOK, Priced
    <1>2. CASE handleLedgerBook(p)
        <2>1. LedgerBook[1] = "list" /\ "list" \in Reads
            BY DEF LedgerBook, Reads
        <2>2. QED
            BY <1>1, <1>2, <2>1, BookChain, AskStep DEF handleLedgerBook
    <1>3. CASE handleRatios(p)
        <2>1. RatiosSteps[1] = "bytype" /\ "bytype" \in Reads
            BY DEF RatiosSteps, Reads
        <2>2. QED
            BY <1>1, <1>3, <2>1, RatiosChain, AskStep DEF handleRatios
    <1>4. CASE handleSummary(p)
        <2>1. Summary[1] = "list" /\ "list" \in Reads
            BY SummaryChain DEF Reads
        <2>2. QED
            BY <1>1, <1>4, <2>1, SummaryChain, AskStep DEF handleSummary
    <1>5. CASE handleFlows(p)
        <2>1. PICK from, to : Ask(p, Window(from, to), Flows)
            BY <1>5 DEF handleFlows
        <2>2. Flows[1] = "txs" /\ "txs" \in Reads
            BY DEF Flows, Reads
        <2>3. phase = "up" => ViewOK(Window(from, to), "txs")
            BY WindowOK DEF DashInv
        <2>4. QED
            BY <2>1, <2>2, <2>3, FlowsChain, AskStep
    <1>6. QED
        BY <1>2, <1>3, <1>4, <1>5

-----------------------------------------------------------------------------
(* A step of a request that leaves the ledger alone.                       *)
LEMMA QuietDash ==
    ASSUME DashInv, UNCHANGED <<vars, occurred, live>>,
           RequestsOK', DOMAIN todo' = Procs, DOMAIN view' = Procs
    PROVE  DashInv'
    <1>1. LedgerInv'
        BY LedgerInvStep DEF DashInv
    <1>2. LiveOK'
        BY DEF DashInv, LiveOK
    <1>3. QED
        BY <1>1, <1>2 DEF DashInv

LEMMA LedgerFrame ==
    ASSUME UNCHANGED vars
    PROVE  UNCHANGED <<accounts, debit, credit, status, phase>>
    BY DEF vars, proj

LEMMA ComputeStep ==
    ASSUME DashInv, NEW p \in Procs, Compute(p)
    PROVE  DashInv'
    <1>1. PICK v, s, at, rest : /\ v = view[p] /\ s = todo[p] /\ at = Head(todo[p])
                                /\ rest = Tail(todo[p])
        OBVIOUS
    <1>2. /\ s # << >> /\ at \notin Reads /\ at = Head(s) /\ rest = Tail(s)
          /\ UNCHANGED <<vars, occurred, live>>
        BY <1>1 DEF Compute
    <1>3. /\ Chain(s) /\ phase = "up" /\ ViewOK(v, At(s)) /\ LedgerInv /\ LiveOK
        BY <1>1, <1>2 DEF DashInv, RequestsOK
    <1>4. PICK next : next = At(rest)
        OBVIOUS
    <1>5. /\ at \in StepNames \ Reads /\ At(s) = at /\ Chain(rest)
          /\ rest = << >> => at = "done" /\ next = "none"
          /\ rest # << >> => next \in StepNames /\ Follows(at, next)
        BY <1>2, <1>3, <1>4, ChainHead DEF At
    <1>6. at # "done" => next \in StepNames /\ Follows(at, next)
        BY <1>5
    <1>7. UNCHANGED <<accounts, debit, credit, status, occurred, live, phase>>
        BY <1>2, LedgerFrame
    <1>8. ASSUME NEW w, NEW t, Gather(p, w, t), Chain(t), ViewOK(w, At(t))
          PROVE  DashInv'
        <2>1. RequestsOK' /\ DOMAIN todo' = Procs /\ DOMAIN view' = Procs
            BY <1>3, <1>7, <1>8, OneRequest DEF DashInv
        <2>2. QED
            BY <1>2, <2>1, QuietDash
    <1>9. CASE at = "flows"
        <2>1. next = "done" /\ ViewOK(v, "flows")
            BY <1>3, <1>5, <1>6, <1>9 DEF Follows
        <2>2. Gather(p, v, rest) \/ \E t \in v.txs : Gather(p, Moved(v, t), s)
            BY <1>1, <1>9 DEF Compute
        <2>3. ViewOK(v, next) /\ \A t : ViewOK(Moved(v, t), At(s))
            BY <1>5, <1>9, <2>1, FlowsComputed
        <2>4. QED
            BY <1>3, <1>4, <1>5, <1>8, <2>2, <2>3
    <1>10. CASE at = "portfolio"
        <2>1. PICK E \in Portfolios : Gather(p, [v EXCEPT !.left = E], rest)
            BY <1>1, <1>10 DEF Compute
        <2>2. ViewOK([v EXCEPT !.left = E], next)
            BY <1>3, <1>5, <1>6, <1>10, ExposuresComputed
        <2>3. QED
            BY <1>4, <1>5, <1>8, <2>1, <2>2
    <1>11. CASE at = "rwa"
        <2>1. \/ Gather(p, v, rest)
              \/ \E e \in v.left :
                   Gather(p, [v EXCEPT !.left = @ \ {e},
                                       !.rwa = @ + IF e.outstanding <= 0 THEN 0
                                                   ELSE EvaluateRiskWeights(live.weights, e)],
                          s)
            BY <1>1, <1>11 DEF Compute
        <2>2. CASE Gather(p, v, rest)
            <3>1. ViewOK(v, next)
                BY <1>3, <1>5, <1>6, <1>11, ExposuresComputed
            <3>2. QED
                BY <1>4, <1>5, <1>8, <2>2, <3>1
        <2>3. ASSUME NEW e \in v.left, NEW w,
                     w = [v EXCEPT !.left = @ \ {e},
                                   !.rwa = @ + IF e.outstanding <= 0 THEN 0
                                               ELSE EvaluateRiskWeights(live.weights, e)],
                     Gather(p, w, s)
              PROVE  DashInv'
            <3>1. ViewOK(w, at)
                BY <1>3, <1>5, <1>6, <1>11, <2>3, ExposuresComputed
            <3>2. QED
                BY <1>3, <1>5, <1>8, <2>3, <3>1
        <2>4. QED
            BY <2>1, <2>2, <2>3
    <1>12. CASE at \notin {"flows", "portfolio", "rwa"}
        <2>1. Gather(p, Computed(v, at), rest)
            BY <1>1, <1>12 DEF Compute
        <2>2. ViewOK(Computed(v, at), next)
            <3>1. \/ at \in {"totals", "exposure"} \/ at \in TypeSteps
                  \/ at \in {"thresholds", "liquidity"}
                  \/ at \in {"hqla", "outflows", "metrics"} \/ at \in {"now", "done"}
                BY <1>5, <1>12 DEF StepNames, TypeSteps
            <3>2. CASE at \in {"now", "done"}
                <4>1. /\ next = "none" \/ Follows(at, next)
                      /\ next = "none" => at = "done"
                    BY <1>5 DEF StepNames, Reads
                <4>2. QED
                    BY <1>3, <3>2, <4>1, PartComputed
            <3>3. CASE at \in {"totals", "exposure"}
                BY <1>3, <1>5, <1>6, <3>3, PlainComputed
            <3>4. CASE at \in TypeSteps
                <4>1. at # "done"
                    BY <3>4 DEF TypeSteps
                <4>2. QED
                    BY <1>3, <1>5, <1>6, <3>4, <4>1, CentsComputed
            <3>5. CASE at \in {"thresholds", "liquidity"}
                BY <1>3, <1>5, <1>6, <3>5, RulesComputed
            <3>6. CASE at \in {"hqla", "outflows", "metrics"}
                BY <1>3, <1>5, <1>6, <3>6, AmountsComputed
            <3>7. QED
                BY <3>1, <3>2, <3>3, <3>4, <3>5, <3>6
        <2>3. QED
            BY <1>4, <1>5, <1>8, <2>1, <2>2
    <1>13. QED
        BY <1>9, <1>10, <1>11, <1>12

-----------------------------------------------------------------------------
(* A read of the ledger takes over what the projection holds now.          *)
LEMMA SeenOK ==
    ASSUME LedgerInv, NEW v, NEW at \in Reads, ViewOK(v, at),
           NEW next \in StepNames, Follows(at, next)
    PROVE  ViewOK(Seen(v, at), next)
    <1>1. PICK w, f, bal, tab : /\ w = Seen(v, at) /\ f = Flowing(v)
                                /\ bal = Balances /\ tab = BalancesByType
        OBVIOUS
    <1>2. /\ at = "list" => w = [v EXCEPT !.listed = accounts, !.quiet = TRUE]
          /\ at = "balances" => w = [v EXCEPT !.balances = bal]
          /\ at = "bytype" => w = [v EXCEPT !.byType = tab]
          /\ at = "txs" => w = [v EXCEPT !.txs = f, !.counted = f]
        BY <1>1 DEF Seen
    <1>3. /\ DOMAIN v = ViewFields /\ v.quiet \in BOOLEAN /\ TableOK(v.byType)
          /\ BookOK(v, at, accounts, bal, tab)
          /\ FlowsOK(v, at, status, occurred) /\ RatiosOK(v, at, live.targets)
        BY <1>1 DEF ViewOK
    <1>4. at \in {"list", "balances", "bytype", "txs"}
        BY DEF Reads
    <1>5. /\ DOMAIN w = ViewFields /\ w.from = v.from /\ w.to = v.to
          /\ w.before = v.before /\ w.totals = v.totals
        BY <1>2, <1>3, <1>4 DEF ViewFields
    <1>6. /\ w.listed = IF at = "list" THEN accounts ELSE v.listed
          /\ w.balances = IF at = "balances" THEN bal ELSE v.balances
          /\ w.byType = IF at = "bytype" THEN tab ELSE v.byType
          /\ w.counted = IF at = "txs" THEN f ELSE v.counted
        BY <1>2, <1>3, <1>4 DEF ViewFields
    <1>7. w.quiet = IF at = "list" THEN TRUE ELSE v.quiet
        BY <1>2, <1>3, <1>4 DEF ViewFields
    <1>8. SameRatios(v, w)
        BY <1>2, <1>3, <1>4 DEF SameRatios, ViewFields
    <1>9. RatiosOK(w, next, live.targets)
        BY <1>3, <1>4, <1>8, SameRatiosOK
    <1>10. TableOK(w.byType) /\ w.quiet \in BOOLEAN
        BY <1>1, <1>3, <1>6, <1>7, TableRead
    <1>11. /\ next # "none" /\ next # "list"
           /\ next = "balances" => at = "list"
           /\ at = "list" => next = "balances"
           /\ at = "balances" => next = "bytype"
           /\ next = "bytype" => at = "balances"
           /\ at = "txs" => next = "flows"
           /\ next = "flows" => at = "txs"
        BY <1>4 DEF Follows, StepNames, Reads
    <1>12. BookOK(w, next, accounts, bal, tab)
        <2>1. CASE at = "list"
            BY <1>3, <1>5, <1>6, <1>7, <1>11, <2>1 DEF BookOK
        <2>2. CASE at = "balances"
            BY <1>3, <1>5, <1>6, <1>7, <1>11, <2>2 DEF BookOK
        <2>3. CASE at = "bytype"
            BY <1>3, <1>5, <1>6, <1>7, <1>11, <2>3 DEF BookOK
        <2>4. CASE at = "txs"
            BY <1>3, <1>5, <1>6, <1>7, <1>11, <2>4 DEF BookOK
        <2>5. QED
            BY <1>4, <2>1, <2>2, <2>3, <2>4
    <1>13. FlowsOK(w, next, status, occurred)
        <2>1. w.from < w.to => at = "txs" /\ next = "flows"
            BY <1>3, <1>4, <1>5, <1>11 DEF FlowsOK
        <2>2. w.before \subseteq TxIDs /\ \A t \in w.before : status[t] # "none"
            BY <1>3, <1>5 DEF FlowsOK
        <2>3. ASSUME at = "txs" PROVE CountsAll(w, occurred)
            <3>1. ASSUME NEW t \in TxIDs, Content[t].kind \in Inflow \cup Outflow
                  PROVE  /\ t \in f => v.from <= occurred[t] /\ occurred[t] < v.to
                         /\ (t \in w.before /\ v.from <= occurred[t] /\ occurred[t] < v.to)
                              => t \in f
                BY <1>1, <2>2, <3>1 DEF Flowing, InWindow
            <3>2. QED
                BY <1>5, <1>6, <2>3, <3>1 DEF CountsAll
        <2>4. QED
            BY <1>11, <2>1, <2>2, <2>3 DEF FlowsOK
    <1>14. QED
        BY <1>1, <1>5, <1>9, <1>10, <1>12, <1>13 DEF ViewOK

LEMMA ReadLedgerStep ==
    ASSUME DashInv, NEW p \in Procs, ReadLedger(p)
    PROVE  DashInv'
    <1>1. PICK v, s, at, rest : /\ v = view[p] /\ s = todo[p] /\ at = Head(todo[p])
                                /\ rest = Tail(todo[p])
        OBVIOUS
    <1>2. /\ s # << >> /\ at \in Reads /\ at = Head(s) /\ rest = Tail(s)
          /\ CheckSilent(p) /\ Gather(p, Seen(v, at), rest)
          /\ UNCHANGED <<occurred, live>>
        BY <1>1 DEF ReadLedger, Reading
    <1>3. /\ Chain(s) /\ phase = "up" /\ ViewOK(v, At(s)) /\ LedgerInv /\ LiveOK
        BY <1>1, <1>2 DEF DashInv, RequestsOK
    <1>4. at # "done"
        BY <1>2 DEF Reads
    <1>5. /\ At(s) = at /\ Chain(rest) /\ At(rest) \in StepNames /\ Follows(at, At(rest))
        BY <1>2, <1>3, <1>4, ChainHead
    <1>6. ViewOK(Seen(v, at), At(rest))
        BY <1>2, <1>3, <1>5, SeenOK
    <1>7. p \in Threads /\ p # Main
        BY LedgerAssumption DEF Threads
    <1>8. UNCHANGED <<accounts, debit, credit, status, phase>>
        BY <1>2, <1>7 DEF CheckSilent, CheckFrame, Continue, proj
    <1>9. RequestsOK' /\ DOMAIN todo' = Procs /\ DOMAIN view' = Procs
        BY <1>2, <1>3, <1>5, <1>6, <1>8, OneRequest DEF DashInv
    <1>10. LedgerInv'
        <2>1. Next
            BY <1>2, <1>7 DEF Next, Step, LockStep
        <2>2. QED
            BY <1>3, <2>1, LedgerInvStep
    <1>11. LiveOK'
        BY <1>2, <1>3 DEF LiveOK
    <1>12. QED
        BY <1>9, <1>10, <1>11 DEF DashInv

(* A request of the ledger's own begins, or the clock is set.              *)
LEMMA AsideStep ==
    ASSUME DashInv, UNCHANGED <<occurred, live, todo, view>>,
           [Next]_vars, UNCHANGED <<accounts, debit, credit, status, phase>>
    PROVE  DashInv'
    <1>1. LedgerInv'
        BY LedgerInvStep DEF DashInv
    <1>2. LiveOK' /\ DOMAIN todo' = Procs /\ DOMAIN view' = Procs
        BY DEF DashInv, LiveOK
    <1>3. \A q \in Procs : ViewOK(view[q], At(todo[q]))'
        BY ViewStays DEF DashInv, RequestsOK
    <1>4. QED
        BY <1>1, <1>2, <1>3 DEF DashInv, RequestsOK

LEMMA LedgerRequestStep ==
    ASSUME DashInv, NEW p \in Procs, LedgerRequest(p)
    PROVE  DashInv'
    <1>1. Next /\ UNCHANGED <<occurred, live, todo, view>>
        BY DEF LedgerRequest, Next, dash
    <1>2. UNCHANGED <<accounts, debit, credit, status, phase>>
        BY DEF LedgerRequest, Request, OpenAccount, PostAndFinalize, Convert, Settle,
           Finalize, Manual, Read, Begin, proj
    <1>3. QED
        BY <1>1, <1>2, AsideStep

LEMMA SetToStep ==
    ASSUME DashInv, SetTo \/ UNCHANGED dashVars
    PROVE  DashInv'
    <1>1. UNCHANGED vars /\ UNCHANGED <<occurred, live, todo, view>>
        BY DEF SetTo, dashVars, dash
    <1>2. QED
        BY <1>1, LedgerFrame, AsideStep

(* A rule is edited: every request notes it, and one that took over the    *)
(* targets keeps its own.                                                  *)
LEMMA EditRuleStep ==
    ASSUME DashInv, EditRule
    PROVE  DashInv'
    <1>1. PICK r \in DOMAIN live : \E c \in Contents[r] \ {live[r]} :
            /\ live' = [live EXCEPT ![r] = c]
            /\ view' = [q \in Procs |-> [view[q] EXCEPT !.edited = @ \cup {r}]]
        BY DEF EditRule
    <1>2. PICK c \in Contents[r] :
            /\ live' = [live EXCEPT ![r] = c]
            /\ view' = [q \in Procs |-> [view[q] EXCEPT !.edited = @ \cup {r}]]
        BY <1>1
    <1>3. UNCHANGED <<vars, occurred, todo>>
        BY DEF EditRule
    <1>4. UNCHANGED <<accounts, debit, credit, status, phase>>
        BY <1>3, LedgerFrame
    <1>5. LedgerInv' /\ Balances' = Balances /\ BalancesByType' = BalancesByType
        BY <1>3, <1>4, LedgerInvStep, SameBooks DEF DashInv
    <1>6. LiveOK' /\ (r # "targets" => live'.targets = live.targets)
        <2>1. /\ DOMAIN live = {"fx", "liq", "targets", "weights"}
              /\ live \in [fx : Contents.fx, liq : Contents.liq,
                           targets : Contents.targets, weights : Contents.weights]
            BY DEF DashInv, LiveOK
        <2>2. r \in {"fx", "liq", "targets", "weights"}
            BY <2>1
        <2>3. CASE r = "fx"
            BY <1>2, <2>1, <2>3 DEF LiveOK
        <2>4. CASE r = "liq"
            BY <1>2, <2>1, <2>4 DEF LiveOK
        <2>5. CASE r = "targets"
            BY <1>2, <2>1, <2>5 DEF LiveOK
        <2>6. CASE r = "weights"
            BY <1>2, <2>1, <2>6 DEF LiveOK
        <2>7. QED
            BY <2>2, <2>3, <2>4, <2>5, <2>6
    <1>7. ASSUME NEW q \in Procs
          PROVE  ViewOK(view[q], At(todo[q]))'
        <2>1. PICK v, w, at : v = view[q] /\ w = view'[q] /\ at = At(todo[q])
            OBVIOUS
        <2>2. /\ w = [v EXCEPT !.edited = v.edited \cup {r}] /\ At(todo'[q]) = at
              /\ ViewOK(v, at)
            BY <1>2, <1>3, <2>1 DEF DashInv, RequestsOK
        <2>3. /\ DOMAIN v = ViewFields /\ v.quiet \in BOOLEAN /\ TableOK(v.byType)
              /\ BookOK(v, at, accounts, Balances, BalancesByType)
              /\ FlowsOK(v, at, status, occurred) /\ RatiosOK(v, at, live.targets)
            BY <2>2 DEF ViewOK
        <2>4. Kept(v, w) /\ w.totals = v.totals
            BY <2>2, <2>3 DEF Kept, ViewFields
        <2>5. /\ w.cents = v.cents /\ w.hqla = v.hqla /\ w.outflows = v.outflows
              /\ w.rwa = v.rwa /\ w.left = v.left /\ w.liq = v.liq
              /\ w.targets = v.targets /\ w.metrics = v.metrics
              /\ w.edited = v.edited \cup {r}
            BY <2>2, <2>3 DEF ViewFields
        <2>6. BookOK(w, at, accounts, Balances, BalancesByType)
            BY <2>3, <2>4 DEF BookOK, Kept
        <2>7. FlowsOK(w, at, status, occurred)
            BY <2>3, <2>4 DEF FlowsOK, CountsAll, Kept
        <2>8. RatiosOK(w, at, live'.targets)
            <3>1. \A m \in DOMAIN v.metrics : MetricOK(v.metrics[m], m, w.edited)
                BY <2>3, <2>5 DEF RatiosOK, MetricOK
            <3>2. v.targets = live.targets \/ "targets" \in v.edited
                    => v.targets = live'.targets \/ "targets" \in w.edited
                BY <1>6, <2>5
            <3>3. QED
                BY <2>3, <2>5, <3>1, <3>2 DEF RatiosOK
        <2>9. QED
            BY <1>3, <1>4, <1>5, <2>1, <2>2, <2>3, <2>4, <2>6, <2>7, <2>8
               DEF ViewOK, Kept
    <1>8. DOMAIN todo' = Procs /\ DOMAIN view' = Procs
        BY <1>2, <1>3 DEF DashInv
    <1>9. RequestsOK'
        BY <1>3, <1>4, <1>7 DEF DashInv, RequestsOK
    <1>10. QED
        BY <1>5, <1>6, <1>8, <1>9 DEF DashInv

-----------------------------------------------------------------------------
(* While a process runs, a transaction that is listed stays listed.        *)
LEMMA ApplyLists ==
    ASSUME Inv, NEW s \in DOMAIN log, ApplyEvent(s)
    PROVE  \A t \in TxIDs : status[t] # "none" => status'[t] # "none"
    <1>1. log[s] \in Event /\ status \in [TxIDs -> Statuses]
        BY DEF Inv, LogInv, TypeOK
    <1>2. CASE log[s].type = "opened"
        BY <1>2 DEF ApplyEvent
    <1>3. CASE log[s].type # "opened"
        <2> DEFINE after == [posted |-> "pending", settled |-> "settled",
                             finalized |-> "final"]
        <2>1. log[s].type \in {"posted", "settled", "finalized"}
            BY <1>1, <1>3 DEF Event
        <2>2. status' = [status EXCEPT ![log[s].id] = after[log[s].type]]
            BY <1>3 DEF ApplyEvent
        <2>3. after[log[s].type] \in {"pending", "settled", "final"}
            BY <2>1
        <2> HIDE DEF after
        <2>4. QED
            BY <1>1, <2>2, <2>3
    <1>4. QED
        BY <1>2, <1>3

LEMMA ThreadKeeps ==
    ASSUME Inv, NEW p \in Threads, Step(p) \/ PgCommitLost(p) \/ StoreError(p)
    PROVE  /\ phase = "up" => phase' = "up"
           /\ \A t \in TxIDs : status[t] # "none" => status'[t] # "none"
    <1>1. pc[p] # "idle"
        BY DEF Step, LockStep, FreeStep, Refresh, CheckSilent, CheckPass, CheckReject,
           ApplyAppended, RefreshApply, RefreshDone, AppendEvent, PgInsert, MemAppend,
           PgCommit, PgCommitLost, StoreError
    <1>2. p = Main => phase = "starting"
        BY <1>1, Working
    <1>3. phase' = phase \/ p = Main
        BY DEF Step, LockStep, FreeStep, Refresh, CheckSilent, CheckPass, CheckReject,
           ApplyAppended, RefreshApply, RefreshDone, AppendEvent, PgInsert, MemAppend,
           PgCommit, PgCommitLost, StoreError, Continue, Abort
    <1>4. \A t \in TxIDs : status[t] # "none" => status'[t] # "none"
        <2>1. CASE RefreshApply(p) \/ ApplyAppended(p)
            <3>1. PICK s \in DOMAIN log : ApplyEvent(s)
                BY <2>1 DEF RefreshApply, ApplyAppended, Inv, LogInv, TypeOK, ThreadOK
            <3>2. QED
                BY <3>1, ApplyLists
        <2>2. CASE ~(RefreshApply(p) \/ ApplyAppended(p))
            <3>1. status' = status
                BY <2>2 DEF Step, LockStep, FreeStep, Refresh, CheckSilent, CheckPass,
                   CheckReject, CheckFrame, RefreshDone, AppendEvent, PgInsert,
                   MemAppend, PgCommit, PgCommitLost, StoreError, Commit, proj
            <3>2. QED
                BY <3>1
        <2>3. QED
            BY <2>1, <2>2
    <1>5. QED
        BY <1>2, <1>3, <1>4

LEMMA RestartEnds ==
    ASSUME Crash \/ StartAgain
    PROVE  \A q \in Procs : pc'[q] = "idle"
    BY LedgerAssumption DEF Crash, StartAgain, Restart, Threads

(* What a request that waits for a read has gathered, after a step of the  *)
(* ledger.                                                                 *)
LEMMA WaitingOK ==
    ASSUME NEW v, NEW w, NEW at, at \in Reads \cup {"none"}, ViewOK(v, at), NEW u \in BOOLEAN,
           u => UNCHANGED <<accounts, debit, credit>>,
           NEW k \in BOOLEAN, k <=> (v.quiet /\ u), w = [v EXCEPT !.quiet = k],
           \A t \in v.before : status'[t] # "none", UNCHANGED live
    PROVE  /\ DOMAIN w = ViewFields /\ w.quiet \in BOOLEAN /\ TableOK(w.byType)
           /\ BookOK(w, at, accounts', Balances', BalancesByType')
           /\ FlowsOK(w, at, status', occurred')
           /\ RatiosOK(w, at, live'.targets)
    <1>1. /\ DOMAIN v = ViewFields /\ v.quiet \in BOOLEAN /\ TableOK(v.byType)
          /\ BookOK(v, at, accounts, Balances, BalancesByType)
          /\ FlowsOK(v, at, status, occurred) /\ RatiosOK(v, at, live.targets)
        BY DEF ViewOK
    <1>2. /\ DOMAIN w = ViewFields /\ w.quiet = k
          /\ w.listed = v.listed /\ w.balances = v.balances /\ w.byType = v.byType
          /\ w.totals = v.totals /\ w.from = v.from /\ w.to = v.to
          /\ w.before = v.before /\ w.counted = v.counted
        BY <1>1 DEF ViewFields
    <1>3. SameRatios(v, w)
        BY <1>1 DEF ViewFields, SameRatios
    <1>4. u => Balances' = Balances /\ BalancesByType' = BalancesByType
        BY SameBooks
    <1>5. w.quiet => v.quiet /\ u
        BY <1>2
    <1>6. BookOK(w, at, accounts', Balances', BalancesByType')
        BY <1>1, <1>2, <1>4, <1>5 DEF BookOK
    <1>7. FlowsOK(w, at, status', occurred')
        <2>1. at \notin {"flows", "done"}
            BY DEF Reads
        <2>2. QED
            BY <1>1, <1>2, <2>1 DEF FlowsOK
    <1>8. RatiosOK(w, at, live'.targets)
        BY <1>1, <1>3 DEF RatiosOK, SameRatios
    <1>9. QED
        BY <1>1, <1>2, <1>6, <1>7, <1>8

LEMMA LedgerStepStep ==
    ASSUME DashInv, LedgerStep
    PROVE  DashInv'
    <1>1. /\ LedgerInv /\ Inv /\ LiveOK /\ RequestsOK
        BY DEF DashInv, LedgerInv
    <1>2. /\ \/ \E p \in Threads : Step(p) \/ PgCommitLost(p) \/ StoreError(p)
             \/ Crash \/ StartAgain
          /\ UNCHANGED live
        BY DEF LedgerStep
    <1>3. LedgerInv'
        <2>1. Next
            BY <1>2 DEF Next
        <2>2. QED
            BY <1>1, <2>1, LedgerInvStep
    <1>4. LiveOK'
        BY <1>1, <1>2 DEF LiveOK
    <1>5. PICK u \in BOOLEAN : u <=> UNCHANGED <<accounts, debit, credit>>
        OBVIOUS
    <1>6. /\ todo' = [p \in Procs |-> IF Ended(p) THEN << >> ELSE todo[p]]
          /\ view' = [p \in Procs |->
                        IF Ended(p) THEN Nothing
                        ELSE [view[p] EXCEPT !.quiet = @ /\ u]]
        BY <1>5 DEF LedgerStep
    <1>7. DOMAIN todo' = Procs /\ DOMAIN view' = Procs
        BY <1>6
    <1>8. ASSUME NEW q \in Procs
          PROVE  /\ Chain(todo'[q])
                 /\ todo'[q] # << >> => phase' = "up"
                 /\ ViewOK(view[q], At(todo[q]))'
        <2>1. /\ Chain(todo[q]) /\ ViewOK(view[q], At(todo[q]))
              /\ todo[q] # << >> => phase = "up" /\ Reading(q)
              /\ At(todo[q]) \in Reads \cup {"none"}
            BY <1>1 DEF RequestsOK, LedgerStep, Computing, Reading, At
        <2>2. CASE Ended(q)
            <3>1. todo'[q] = << >> /\ view'[q] = Nothing
                BY <1>6, <2>2
            <3>2. Chain(todo'[q]) /\ At(todo'[q]) = "none"
                BY <3>1, EmptyChain
            <3>3. "none" \notin Priced \cup {"liquidity"}
                BY DEF Priced
            <3>4. ViewOK(view[q], At(todo[q]))'
                BY <3>1, <3>2, <3>3, NothingOK DEF ViewOK
            <3>5. QED
                BY <3>1, <3>2, <3>4
        <2>3. CASE ~Ended(q)
            <3>1. PICK v, w, at : v = view[q] /\ w = view'[q] /\ at = At(todo[q])
                OBVIOUS
            <3>2. /\ todo'[q] = todo[q] /\ At(todo'[q]) = at
                  /\ w = [v EXCEPT !.quiet = @ /\ u]
                BY <1>6, <2>3, <3>1
            <3>3. /\ \A t \in v.before : status'[t] # "none"
                  /\ todo[q] # << >> => phase' = "up"
                <4>1. FlowsOK(v, at, status, occurred)
                    BY <2>1, <3>1 DEF ViewOK
                <4>2. CASE Crash \/ StartAgain
                    <5>1. pc'[q] = "idle"
                        BY <4>2, RestartEnds
                    <5>2. todo[q] = << >>
                        BY <2>1, <2>3, <5>1 DEF Ended
                    <5>3. v.before = {}
                        BY <3>1, <4>1, <5>2 DEF FlowsOK, At
                    <5>4. QED
                        BY <5>2, <5>3
                <4>3. CASE \E p \in Threads : Step(p) \/ PgCommitLost(p) \/ StoreError(p)
                    <5>1. /\ phase = "up" => phase' = "up"
                          /\ \A t \in TxIDs : status[t] # "none" => status'[t] # "none"
                        BY <1>1, <4>3, ThreadKeeps
                    <5>2. QED
                        BY <2>1, <4>1, <5>1 DEF FlowsOK
                <4>4. QED
                    BY <1>2, <4>2, <4>3
            <3>4. /\ DOMAIN w = ViewFields /\ w.quiet \in BOOLEAN /\ TableOK(w.byType)
                  /\ BookOK(w, at, accounts', Balances', BalancesByType')
                  /\ FlowsOK(w, at, status', occurred')
                  /\ RatiosOK(w, at, live'.targets)
                <4>1. ViewOK(v, at) /\ at \in Reads \cup {"none"} /\ v.quiet \in BOOLEAN
                    BY <2>1, <3>1 DEF ViewOK
                <4>2. PICK k \in BOOLEAN : k <=> (v.quiet /\ u)
                    BY <4>1
                <4>3. w = [v EXCEPT !.quiet = k]
                    BY <3>2, <4>1, <4>2
                <4>4. u => UNCHANGED <<accounts, debit, credit>>
                    BY <1>5
                <4>5. QED
                    BY <1>2, <3>3, <4>1, <4>2, <4>3, <4>4, WaitingOK
            <3>5. ViewOK(view[q], At(todo[q]))'
                BY <3>1, <3>2, <3>4 DEF ViewOK
            <3>6. QED
                BY <2>1, <3>2, <3>3, <3>5
        <2>4. QED
            BY <2>2, <2>3
    <1>9. RequestsOK'
        BY <1>8 DEF RequestsOK
    <1>10. QED
        BY <1>3, <1>4, <1>7, <1>9 DEF DashInv

LEMMA DashStep ==
    ASSUME DashInv, [DashNext]_dashVars
    PROVE  DashInv'
    BY HandlersStep, ReadLedgerStep, ComputeStep, LedgerRequestStep, LedgerStepStep,
       SetToStep, EditRuleStep DEF DashNext

-----------------------------------------------------------------------------
(* The inductive invariant of the dashboard and of the ledger under it.    *)
THEOREM DashInvariant == DashSpec => []DashInv
    <1>1. DashInit => DashInv
        BY InitDashInv
    <1>2. DashInv /\ [DashNext]_dashVars => DashInv'
        BY DashStep
    <1>3. QED
        BY <1>1, <1>2, PTL DEF DashSpec

(* The table by type of every ledger book and of every set of ratios       *)
(* balances in each currency, for any number of accounts, requests and     *)
(* goroutines that post, open accounts or crash meanwhile: BalancesByType  *)
(* reads one projection under its mutex, and that one always balances.     *)
THEOREM BookAlwaysBalances == DashSpec => []BookBalances
    <1>1. DashInv => BookBalances
        <2> SUFFICES ASSUME DashInv, NEW p \in Procs, NEW c \in Currencies
                     PROVE  LET t == view[p].byType IN
                            MapThenSumSet(LAMBDA y : t[y][c], DebitTypes)
                              = MapThenSumSet(LAMBDA y : t[y][c], Types \ DebitTypes)
            BY DEF BookBalances
        <2>1. TableOK(view[p].byType)
            BY DEF DashInv, RequestsOK, ViewOK
        <2>2. QED
            BY <2>1 DEF TableOK, TableBalances
    <1>2. QED
        BY <1>1, DashInvariant, PTL

(* The accounts of a ledger book add up to its table by type, unless an    *)
(* event was folded in between its three reads (LedgerBook).               *)
THEOREM BookAlwaysAgrees == DashSpec => []BookAgrees
    <1>1. DashInv => BookAgrees
        <2> SUFFICES ASSUME DashInv, NEW p \in Procs,
                            view[p].quiet, view[p].totals # << >>,
                            NEW y \in Types, NEW c \in Currencies
                     PROVE  view[p].byType[y][c] =
                              MapThenSumSet(LAMBDA a : view[p].balances[a],
                                {a \in view[p].listed : Type[a] = y /\ Currency[a] = c})
            BY DEF BookAgrees
        <2>1. PICK v : v = view[p]
            OBVIOUS
        <2>2. BookOK(v, At(todo[p]), accounts, Balances, BalancesByType) /\ LedgerInv
            BY <2>1 DEF DashInv, RequestsOK, ViewOK
        <2>3. v.listed = accounts /\ v.balances = Balances /\ v.byType = BalancesByType
            BY <2>1, <2>2 DEF BookOK
        <2>4. v.byType[y][c] = SumOver(v.balances, OfType(y, c))
            BY <2>2, <2>3, TableIsBalances
        <2>5. OfType(y, c) = {a \in v.listed : Type[a] = y /\ Currency[a] = c}
            BY <2>3 DEF OfType
        <2>6. QED
            BY <2>1, <2>4, <2>5 DEF SumOver
    <1>2. QED
        BY <1>1, DashInvariant, PTL

(* Money in and out counts each transaction of its window that had been    *)
(* answered when the request began, and none outside it (Flows).           *)
THEOREM FlowsAlwaysComplete == DashSpec => []FlowsComplete
    <1>1. DashInv => FlowsComplete
        <2> SUFFICES ASSUME DashInv, NEW p \in Procs,
                            view[p].from < view[p].to, Head(todo[p]) = "done"
                     PROVE  CountsAll(view[p], occurred)
            BY DEF FlowsComplete, CountsAll
        <2>1. FlowsOK(view[p], At(todo[p]), status, occurred)
            BY DEF DashInv, RequestsOK, ViewOK
        <2>2. At(todo[p]) = "done"
            BY <2>1 DEF FlowsOK, At
        <2>3. QED
            BY <2>1, <2>2 DEF FlowsOK
    <1>2. QED
        BY <1>1, DashInvariant, PTL

(* Every ratio shown is the quotient of the amounts shown with it to the   *)
(* nearest hundredth of a per cent, for amounts of any size, and its       *)
(* status is what its target says unless the targets were edited while it  *)
(* was computed (Ratios, computeRatio, statusFor).                         *)
THEOREM RatiosAlwaysSound == DashSpec => []RatiosSound
    <1>1. DashInv => RatiosSound
        <2> SUFFICES ASSUME DashInv, NEW p \in Procs, NEW m \in DOMAIN view[p].metrics
                     PROVE  MetricOK(view[p].metrics[m], m, view[p].edited)
            BY DEF RatiosSound, MetricOK
        <2>1. QED
            BY DEF DashInv, RequestsOK, ViewOK, RatiosOK
    <1>2. QED
        BY <1>1, DashInvariant, PTL
=============================================================================
