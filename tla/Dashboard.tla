------------------------------ MODULE Dashboard ------------------------------
(***************************************************************************)
(* internal/dashboard: answers put together from several ledger reads, FX  *)
(* quotes and rule evaluations, while other goroutines post and rules are  *)
(* edited.  A dashboard request is a sequence of steps; those that read    *)
(* the ledger are read calls of Ledger, the others leave it alone.         *)
(***************************************************************************)
EXTENDS Ledger, Ratios

CONSTANTS
    Type,         \* [Accounts -> Types]
    Contents,     \* what the live rules may hold: sets of contents for fx,
                  \* liq(uidity_stress), targets and (risk_)weights
    Portfolios,   \* what PortfolioSnapshot may return: sets of exposures
    MaxTime, MaxEdits, MaxAsks  \* bounds

DebitTypes == {"loan_receivable", "treasury_cash", "treasury_fx",
               "loan_loss_expense"}

Types == DebitTypes \cup {"customer_deposit", "merchant_settlement",
                          "interest_income", "fee_income", "equity_capital"}

Inflow  == {"deposit", "loan.repayment"}
Outflow == {"withdrawal", "loan.disbursement", "purchase"}

(* What the schemas of the rules admit; a factor that a rule leaves out    *)
(* counts as zero (factorPct).                                             *)
ASSUME DashboardAssumption ==
    /\ Type \in [Accounts -> Types]
    /\ {"USD"} \subseteq Currencies /\ IsFiniteSet(Currencies)
    /\ \A f \in Contents.fx : f.rate \in Int /\ f.mode \in Modes
    /\ \A l \in Contents.liq :
         /\ l.runoff \in Int
         /\ l.haircut \in [Currencies -> Int]
         /\ l.asf \in [{"customer_deposit", "equity_capital"} -> Int]
         /\ l.rsf \in [{"loan_receivable", "treasury_cash", "treasury_fx"} -> Int]
    /\ \A w \in Contents.weights :
         /\ w.defaulted \in Int /\ w.default \in Int
         /\ w.tiers \in [DOMAIN w.tiers -> Int]
    /\ \A E \in Portfolios : \A e \in E : e.outstanding \in Int
    /\ {MaxTime, MaxEdits, MaxAsks} \subseteq Nat

VARIABLES
    now,      \* simulated time
    occurred, \* OccurredAt of each transaction
    live,     \* the live content of each rule
    edits, asks,
    todo,     \* steps each dashboard request has still to make
    view      \* what it has gathered so far

dash     == <<now, occurred, live, edits, asks, todo, view>>
dashVars == <<vars, dash>>

Reads == {"list", "balances", "bytype", "txs"}

(* The steps of each part of an answer; with "done" it has been put into   *)
(* the answer and is not looked at again.                                  *)
LedgerBook == <<"list", "balances", "bytype", "totals", "exposure", "done">>
Flows == <<"txs", "flows", "done">>
RatiosSteps == <<"bytype", "customer_deposit", "loan_receivable",
                 "treasury_cash", "treasury_fx", "thresholds", "liquidity",
                 "hqla", "outflows", "portfolio", "rwa", "metrics", "done">>

Summary == LedgerBook \o <<"now">> \o Flows \o RatiosSteps

NoTable == [y \in Types |-> [c \in Currencies |-> 0]]

(* What a request starts with; the last four are history.                  *)
Nothing == [from |-> 0, to |-> 0, listed |-> {}, balances |-> << >>,
            byType |-> NoTable, totals |-> << >>, exposure |-> << >>, txs |-> {},
            flows |-> [in |-> 0, out |-> 0], cents |-> [y \in Types |-> 0],
            targets |-> << >>, liq |-> << >>, hqla |-> 0, outflows |-> 0,
            left |-> {}, rwa |-> 0, metrics |-> << >>,
            quiet |-> FALSE, before |-> {}, counted |-> {}, edited |-> {}]

DashInit ==
    /\ Init
    /\ now = 1
    /\ occurred = [t \in TxIDs |-> 0]
    /\ live \in [fx : Contents.fx, liq : Contents.liq,
                 targets : Contents.targets, weights : Contents.weights]
    /\ edits = 0 /\ asks = 0
    /\ todo = [p \in Procs |-> << >>]
    /\ view = [p \in Procs |-> Nothing]

-----------------------------------------------------------------------------
NormalBalance_NoCash(y) ==           \* treasury_cash is forgotten
    IF y \in DebitTypes \ {"treasury_cash"} THEN "debit" ELSE "credit"

NormalBalance(y) == IF y \in DebitTypes THEN "debit" ELSE "credit"

naturalBalance(a) == IF NormalBalance(Type[a]) = "debit"
                     THEN debit[a] - credit[a] ELSE credit[a] - debit[a]

Balances_Raw == [a \in accounts |-> debit[a] - credit[a]]   \* whatever its type

Balances == [a \in accounts |-> naturalBalance(a)]

BalancesByType ==
    [y \in Types |-> [c \in Currencies |->
        MapThenSumSet(naturalBalance,
                      {a \in accounts : Type[a] = y /\ Currency[a] = c})]]

(* Flows takes the transactions from `from` on and skips those at or after *)
(* `to`.                                                                   *)
InWindow_After(v, t) == v.from < occurred[t] /\ occurred[t] < v.to

InWindow(v, t) == v.from <= occurred[t] /\ occurred[t] < v.to

Flowing(v) == {t \in TxIDs : status[t] # "none" /\ InWindow(v, t)
                               /\ Content[t].kind \in Inflow \cup Outflow}

(* Transactions that their Post has answered: they are in the log, and no  *)
(* goroutine is still busy with them.                                      *)
Answered == {t \in TxIDs : \E s \in DOMAIN log :
                log[s] = Posted(t) /\ s \notin lost /\ \A p \in Threads : seq[p] # s}

(* Flows begins with its window.                                           *)
Window(from, to) == [Nothing EXCEPT !.from = from, !.to = to, !.before = Answered]

(* A ledger read of a dashboard request.                                   *)
Seen(v, step) ==
    CASE step = "list"     -> [v EXCEPT !.listed = accounts, !.quiet = TRUE]
      [] step = "balances" -> [v EXCEPT !.balances = Balances]
      [] step = "bytype"   -> [v EXCEPT !.byType = BalancesByType]
      [] step = "txs"      -> [v EXCEPT !.txs = Flowing(v), !.counted = Flowing(v)]

-----------------------------------------------------------------------------
(* The steps on what has been read; each looks up the live rule it needs.  *)
usdEquivalentBalance(v, y) ==
    MapThenSumSet(LAMBDA c : toUSD(c, v.byType[y][c], live.fx), Currencies)

sumAcrossTypes(v, c) ==
    MapThenSumSet(LAMBDA y : v.byType[y][c],
                  {"customer_deposit", "treasury_cash", "treasury_fx"})

hqlaCents(v) ==
    LET reserve(c) == v.byType["treasury_cash"][c] IN
    MapThenSumSet(LAMBDA c : toUSD(c, reserve(c) - pctOf(reserve(c), v.liq.haircut[c]),
                                      live.fx), Currencies)

Capital(v) ==
    LET dollars(y) == v.byType[y]["USD"] IN
    dollars("equity_capital") + dollars("interest_income") + dollars("fee_income")
      - dollars("loan_loss_expense")

Fraction(v) ==
    LET asf == pctOf(v.cents["customer_deposit"], v.liq.asf["customer_deposit"])
                 + pctOf(v.byType["equity_capital"]["USD"], v.liq.asf["equity_capital"])
        rsf == MapThenSumSet(LAMBDA y : pctOf(v.cents[y], v.liq.rsf[y]), DOMAIN v.liq.rsf)
    IN [lcr |-> <<v.hqla, v.outflows>>,
        nsfr |-> <<asf, rsf>>,
        capital_adequacy |-> <<Capital(v), v.rwa>>,
        loan_to_deposit |-> <<v.cents["loan_receivable"], v.cents["customer_deposit"]>>]

(* The evaluation of dashboard_thresholds, and the metrics of the answer.  *)
RatioMetrics(v) ==
    LET f == Fraction(v)
        value == [m \in Metrics |-> computeRatio(f[m][1], f[m][2])]
        status_ == EvaluateThresholds(live.targets, value)
    IN  [m \in Metrics |->
           [num |-> f[m][1], den |-> f[m][2], value |-> value[m],
            target |-> v.targets[m],
            status |-> statusFor(status_[m], value[m], f[m][2])]]

(* txPrincipal, in US cents.                                               *)
FlowUSD(t) == toUSD(Content[t].currency, Total(t, "debit", Accounts), live.fx)

Moved(v, t) ==
    [v EXCEPT !.txs = @ \ {t},
              !.flows = IF Content[t].kind \in Inflow
                        THEN [@ EXCEPT !.in = @ + FlowUSD(t)]
                        ELSE [@ EXCEPT !.out = @ + FlowUSD(t)]]

Computed(v, step) ==
    CASE step = "totals" ->
           [v EXCEPT !.totals = [fiat |-> sumAcrossTypes(v, "USD"),
                                 usdc |-> sumAcrossTypes(v, "USDC"),
                                 equivalent |-> toUSD("USDC", sumAcrossTypes(v, "USDC"),
                                                      live.fx)]]
      [] step = "exposure" ->
           [v EXCEPT !.exposure = [c \in Currencies |->
                                     toUSD(c, v.byType["treasury_fx"][c], live.fx)]]
      [] step \in Types -> [v EXCEPT !.cents[step] = usdEquivalentBalance(v, step)]
      [] step = "thresholds" -> [v EXCEPT !.targets = live.targets]
      [] step = "liquidity" -> [v EXCEPT !.liq = live.liq]
      [] step = "hqla" -> [v EXCEPT !.hqla = hqlaCents(v)]
      [] step = "outflows" ->
           [v EXCEPT !.outflows =
              EvaluateLiquidityStress(live.liq, v.cents["customer_deposit"])]
      [] step = "metrics" -> [v EXCEPT !.metrics = RatioMetrics(v)]
      [] step = "now" -> Window(0, now)
      [] step = "done" -> Nothing

-----------------------------------------------------------------------------
(* Whether p's request waits for a ledger read.                            *)
Reading(p) == p \in Procs /\ todo[p] # << >> /\ Head(todo[p]) \in Reads

(* Whether a request is between two reads.  What it does there touches no  *)
(* variable of the ledger and reads none, so it commutes with every step   *)
(* of the ledger: those wait, and only edits and the clock come between.   *)
Computing == \E p \in Procs : todo[p] # << >> /\ ~Reading(p)

Gather(p, v, rest) ==
    /\ view' = [view EXCEPT ![p] = v]
    /\ todo' = [todo EXCEPT ![p] = rest]

(* A request of the dashboard begins.                                      *)
Ask(p, v, steps) ==
    LET reads == Cardinality({i \in DOMAIN steps : steps[i] \in Reads}) IN
    /\ ~Computing
    /\ todo[p] = << >>
    /\ asks < MaxAsks
    /\ asks' = asks + 1
    /\ Begin(p, [i \in 1..reads |-> Call("read", Nobody)])
    /\ Gather(p, v, steps)
    /\ UNCHANGED <<issued, manual, now, occurred, live, edits>>

handleSummary(p) == Ask(p, Nothing, Summary)
handleLedgerBook(p) == Ask(p, Nothing, LedgerBook)
handleRatios(p) == Ask(p, Nothing, RatiosSteps)
handleFlows(p) ==
    \E from, to \in 0..now : from < to /\ Ask(p, Window(from, to), Flows)

ReadLedger(p) ==
    /\ ~Computing
    /\ Reading(p)
    /\ CheckSilent(p)
    /\ Gather(p, Seen(view[p], Head(todo[p])), Tail(todo[p]))
    /\ UNCHANGED <<now, occurred, live, edits, asks>>

Compute(p) ==
    LET v == view[p]
        step == Head(todo[p])
        rest == Tail(todo[p])
    IN
    /\ todo[p] # << >> /\ step \notin Reads
    /\ CASE step = "flows" ->
              IF v.txs = {} THEN Gather(p, v, rest)
              ELSE \E t \in v.txs : Gather(p, Moved(v, t), todo[p])
         [] step = "portfolio" ->
              \E e \in Portfolios : Gather(p, [v EXCEPT !.left = e], rest)
         [] step = "rwa" ->
              IF v.left = {} THEN Gather(p, v, rest)
              ELSE \E e \in v.left :
                     Gather(p, [v EXCEPT !.left = @ \ {e},
                                         !.rwa = @ + IF e.outstanding <= 0 THEN 0
                                                     ELSE EvaluateRiskWeights(live.weights, e)],
                            todo[p])
         [] OTHER -> Gather(p, Computed(v, step), rest)
    /\ UNCHANGED <<vars, now, occurred, live, edits, asks>>

-----------------------------------------------------------------------------
(* What the ledger does meanwhile, for this or another goroutine.  Post    *)
(* stamps a transaction between its validation and its event.  A read that *)
(* fails ends its request; so does the end of the process, after which     *)
(* time begins again at SIM_START.                                         *)
Stamped(t) ==
    \E p \in Threads : /\ pc[p] = "check" /\ pc'[p] = "append"
                       /\ Head(calls[p]) \in {Call("post", t), Call("seed", t)}

Ended(p) == Reading(p) /\ pc'[p] = "idle"

LedgerStep ==
    /\ ~Computing
    /\ \/ \E p \in Threads :
            /\ ~Reading(p) \/ pc[p] # "check"
            /\ Step(p) \/ PgCommitLost(p) \/ StoreError(p)
       \/ Crash
       \/ StartAgain
    /\ occurred' = [t \in TxIDs |-> IF Stamped(t) THEN now ELSE occurred[t]]
    /\ now' = IF phase' = "starting" THEN 1 ELSE now
    /\ todo' = [p \in Procs |-> IF Ended(p) THEN << >> ELSE todo[p]]
    /\ view' = [p \in Procs |->
                  IF Ended(p) THEN Nothing
                  ELSE [view[p] EXCEPT
                          !.quiet = @ /\ UNCHANGED <<accounts, debit, credit>>]]
    /\ UNCHANGED <<live, edits, asks>>

LedgerRequest(p) == ~Computing /\ ~Reading(p) /\ Request(p) /\ UNCHANGED dash

SetTo ==
    /\ phase = "up" /\ now < MaxTime
    /\ now' = now + 1
    /\ UNCHANGED <<vars, occurred, live, edits, asks, todo, view>>

(* The rule editor; an edit that no request is there to notice is one of   *)
(* the initial values of live.                                             *)
EditRule ==
    /\ \E p \in Procs : todo[p] # << >>
    /\ edits < MaxEdits
    /\ edits' = edits + 1
    /\ \E r \in DOMAIN live : \E c \in Contents[r] \ {live[r]} :
         /\ live' = [live EXCEPT ![r] = c]
         /\ view' = [q \in Procs |-> [view[q] EXCEPT !.edited = @ \cup {r}]]
    /\ UNCHANGED <<vars, now, occurred, asks, todo>>

DashNext ==
    \/ \E p \in Procs :
         \/ handleSummary(p) \/ handleLedgerBook(p) \/ handleRatios(p) \/ handleFlows(p)
         \/ ReadLedger(p) \/ Compute(p) \/ LedgerRequest(p)
    \/ LedgerStep \/ SetTo \/ EditRule

DashSpec == DashInit /\ [][DashNext]_dashVars

-----------------------------------------------------------------------------
(* In the table by type that a request has read, debit-normal and          *)
(* credit-normal types come to the same in every currency, whatever was    *)
(* being posted, opened or folded in twice when it was read                *)
(* (BalancesByType, used by LedgerBook and Ratios).                        *)
BookBalances ==
    \A p \in Procs, c \in Currencies :
        LET t == view[p].byType IN
        t = NoTable \/
        MapThenSumSet(LAMBDA y : t[y][c], DebitTypes)
          = MapThenSumSet(LAMBDA y : t[y][c], Types \ DebitTypes)

(* The accounts and the table by type of one ledger book agree, unless     *)
(* something was folded in between its three reads (LedgerBook).           *)
BookAgrees ==
    \A p \in Procs :
        LET v == view[p] IN
        (v.quiet /\ v.totals # << >>) =>
            \A y \in Types, c \in Currencies :
                v.byType[y][c] = MapThenSumSet(LAMBDA a : v.balances[a],
                    {a \in v.listed : Type[a] = y /\ Currency[a] = c})

(* Money in and out counts every transaction of its window that had been   *)
(* answered when the request began, and none outside it (Flows).           *)
FlowsComplete ==
    \A p \in Procs :
        LET v == view[p] IN
        (v.from < v.to /\ Head(todo[p]) = "done") =>
            \A t \in TxIDs : Content[t].kind \in Inflow \cup Outflow =>
                /\ t \in v.counted => v.from <= occurred[t] /\ occurred[t] < v.to
                /\ (t \in v.before /\ v.from <= occurred[t] /\ occurred[t] < v.to)
                     => t \in v.counted

(* Each ratio is the quotient of the amounts shown with it to the nearest  *)
(* hundredth of a per cent, "n/a" exactly if there is no denominator, and  *)
(* its status is what its target says unless the targets were edited       *)
(* meanwhile (Ratios).                                                     *)
RatiosSound ==
    \A p \in Procs : \A m \in DOMAIN view[p].metrics :
        LET x == view[p].metrics[m]
            error == 2 * (x.num * Hundred - x.value * x.den)
            bound == IF x.den < 0 THEN -x.den ELSE x.den
        IN
        /\ x.status = "n/a" <=> x.den = 0
        /\ x.den # 0 =>
             /\ -bound <= error /\ error <= bound
             /\ "targets" \notin view[p].edited =>
                  (x.status = "ok" <=> IF m = "loan_to_deposit"
                                       THEN x.value <= x.target
                                       ELSE x.value >= x.target)
=============================================================================
