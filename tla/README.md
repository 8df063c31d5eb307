# stableBank in TLA+

TLA+ models of stableBank's event-sourced ledger, its rule engine, its
transaction accounts, its loans, its demo scenarios and its dashboard, with TLC
configurations that check them on small instances and TLAPS proofs of the main
results for every instance. `src/...`
paths are paths of the repository.

## 1. The system

stableBank is one Go process behind an HTTP server; every request runs in a
goroutine of its own. State lives in a store, PostgreSQL or an in-memory
stand-in, and in read models in memory. No operation holds a lock from its
first read to its last write, and no database transaction spans more than one
call of the store. That is where most of the difficult behaviour comes from.

| Component | State | Operations | Uses | What is hard |
|---|---|---|---|---|
| ledger (`internal/ledger`) | event log; projection: accounts, transactions, debit and credit totals, `lastSeq` | OpenAccount, Post, Settle, Finalize, PostAndFinalize, Convert, reads, EnsureSystemAccounts, SeedCapital | event store, rate provider | refresh, check, append and fold are four critical sections; two paths fold events in |
| event store (`internal/store`) | numbered events | Append, List | PostgreSQL or memory | numbers are drawn before commit; a commit's answer may be lost |
| fx (`ledger/fx.go`) | none | Quote, Convert | rule engine | three roundings; two postings that belong together |
| rule engine (`internal/rules`) | version table, cache of live rules, audit log | LoadFromDisk, Save, Reactivate, Evaluate, reads | rule store, clock | races for the next version number; cache replaced after the insert |
| account (`internal/account`) | none of its own: two ledger accounts per customer | Seed, Deposit, Purchase, BulkRandomPurchases, ListPurchases | ledger, rules | check-then-act on two balances; several postings per purchase |
| loan (`internal/loan`) | loan events and projection | Underwrite, Originate, Repay, MissPayment, Default, Tick | ledger, rules, store | ledger posting and loan event are separate writes; Tick against requests |
| simulate, simclock | simulated time | AdvanceTime, TriggerDefault, scenarios | loan, account | long jumps, concurrent advances |
| demo (`internal/demo`) | progress of each scenario, rule versions at its start | Start, RunStep, Reload, reset | rule engine, mux | shared state of scenarios, reset against edits |
| dashboard (`internal/dashboard`) | none | LedgerBook, Flows, Ratios, evaluators | ledger, loans, rules | books put together from several reads |

What makes each correct, and where it is stated:

* **ledger.** The log is legal (nothing is settled that was not posted, nothing
  posted on an account that was not opened), every currency balances, the
  projection misses nothing that was acknowledged, start-up can be repeated.
* **rule engine.** Versions form one chain, rows are immutable, memory holds
  only stored texts, every decision is filed under the version that made it.
* **account.** A decision covers the amount from balances that were there, the
  client is told the truth, customers are funded once, balances do not go
  negative except where requests overlap.
* **loan**. A loan that exists was disbursed and one that was disbursed exists,
  fees that events speak of were posted, the projection follows the log, a loan
  is closed once and with nothing outstanding, a jump of the clock services
  every installment that fell due, money is lent as the underwriting rule says.
* **demo.** Scenarios change rules only as the rule editor can, a reset brings
  back what was live before the demo, steps are recorded in order.
* **dashboard.** A book balances although it is put together from several
  reads, no transaction is dropped or counted twice at the ends of a window, a
  ratio is the quotient of the amounts shown with it.

`PROJECT.json` lists under `hazards` the places in the code where these could
go wrong in a way a test would hardly reach, with the property for each.

## 2. Modules

| Module | Models |
|---|---|
| `LedgerEvents` | the four ledger events |
| `Postings` | transactions, double entries, the part of `validate` that looks at the transaction alone |
| `Journal` | **abstract specification** of the log: it only grows, and only by events whose prerequisites stand before them |
| `Ledger` | the ledger service over either store, with goroutines, mutex, faults and restarts; start-up; conversions |
| `RuleEngine` | rule versions, cache, audit log; start-up, saves, reactivations, evaluations, faults and restarts |
| `Exchange` | quotes: integer arithmetic with the policy's rounding |
| `Waterfall` | the `spend_waterfall` evaluator as a function |
| `Account` | seeding, deposits and purchases of a customer, over `Exchange` and `Waterfall` |
| `Amortize` | payments and schedules as functions |
| `Underwriting` | the `risk_scoring` and `loan_underwriting` evaluators as functions |
| `Loan` | underwriting and the life of loans over ledger and event store, with `AdvanceTime`, over `Amortize` and `Underwriting` |
| `Demo` | **composition**: the demo service in the goroutines of `RuleEngine`, beside the rule editor |
| `Ratios` | the dashboard's arithmetic and its three evaluators, over `Exchange` |
| `Dashboard` | **composition**: the dashboard's requests as reads of `Ledger`, with rule edits and the clock, over `Ratios` |
| `MCLedger`, `MCConvert`, `MCRuleEngine`, `MCAccount`, `MCLoan`, `MCDemo` | small instances |
| `SumTheorems` | induction over finite sets and sums over them, for the proofs |
| `LedgerProofs`, `RuleEngineProofs`, `AccountProofs`, `LoanProofs`, `LoanAloneProofs`, `DemoProofs`, `DashboardProofs` | theorems |

Definitions named `X_Something` next to a definition `X` are its plausible
bugs: with `X` replaced by one of them some property must fail (`mutants` in
`PROJECT.json`). No action uses them.

### Ledger

A request is a sequence of ledger calls (`calls[p]`). Each call goes through
the steps `pc[p]`:

    refresh -> folding -> check -> append -> (commit ->) apply

`Refresh` takes the projection's mutex and lists the events after `lastSeq`;
`RefreshApply` folds one of them, in ascending order; `RefreshDone` unlocks.
`CheckPass`, `CheckReject` and `CheckSilent` are the critical section in which
a call reads the projection (`validate`, `transition`, the existence checks).
`AppendEvent` is the store's Append: `MemAppend` for memstore; over Postgres `PgInsert` draws the sequence
number and `PgCommit` makes the row visible, so rows become visible out of
order and numbers of failed transactions are never used. `ApplyAppended` is
`applyAppended`. When a call fails, the rest of the request's calls are not made
and nothing is undone (`Abort`); in `main` the process exits.

Faults (Postgres only, at most `MaxFaults`): `StoreError` has no effect in the
database, `PgCommitLost` commits and reports an error, `Crash` ends the process
at any step. A restart begins with an empty projection on the same log and runs
`EnsureSystemAccounts` and `SeedCapital` again.

Transactions are identified by what `newID` drew for them; their content is the
constant `Content`. `EnsureSystemAccounts`'s and `SeedCapital`'s own checks are
merged with the checks of the OpenAccount and Post they guard: only `main` runs
then. A context cancelled during a call has the effect of `StoreError` or
`PgCommitLost`. A COMMIT that is in flight when the process dies is resolved at
the crash: it has taken effect (`PgCommitLost`, then `Crash`) or never will. That
the database makes it visible to the new process only later is not modelled.

`applied` counts how often the current projection has folded each event in, and
`lost` holds the committed events whose Append reported an error: they are
history variables.

### RuleEngine

A document is its body and the number on its `version:` line. A body is a model
value; `Failing` are those whose examples fail, `Flow` those without a version
line at the beginning of a line, for which `rewriteVersionLine` gives a text
that does not parse (line 0). Save and Reactivate go through `list`/`relist`,
`stamp` (read the clock), `insert` and `cache`; Evaluate reads the cache, then
records. `InsertRuleVersion` is one step for Postgres as well: the UPDATE locks
the open row, so a second transaction waits and then fails on the primary key.
`Crash` also resets the simulated clock, since `main` starts a new one at
`SIM_START`.

### Account

One customer: accounts do not influence each other, and only one exists. A
purchase goes through `usd`, `usdc` (the two balances), `quote`, `evaluate`,
and for each leg `leg` (quote into USDC) and `post`. In between, other requests
post, `EditWaterfall` and `EditPolicy` change the live rules, and the process
may die. Postings are atomic and balances true here; `Ledger` takes postings
apart, and its run `ledger_replay` shows where balances are not true. The rate
and the rounding mode are read as one policy, which states the pair as shipped, dollars
for a USDC; a policy that states it the other way round, which `findFXPair` would
invert, is not modelled. A rate of zero passes the schema: purchases then see
USDC worth nothing, and a leg in USDC that was decided before the edit ends with
an error (`QuoteRefused`). In the code rates have 8 decimals
and USDC has 10^4 minor units to the cent; here `Scale` and `Unit` are
constants, 10 and 3 in the runs, which keeps remainders of every kind. `stale`
and `overlapped` are history: whether a leg was posted after something that the
decision read had been spent or repriced. `lived`, the policies that have been
live, says which rounding `NoOverdraft` has to tolerate: none as long as quotes
were rounded down. How much (`RoundedUp`) depends on the leg: a USDC balance is
valued in dollars, and the leg turned back into USDC at the inverted rate, which
is itself rounded, so besides half a cent and half a minor unit the error is half
a unit of the inverted rate for each cent of the leg. It grows with the
purchase; no constant bound holds for all amounts. `BalancesHeld` says that
balances stay above that, `NoOverdraft` that they do so unless `overlapped`.

### Loan

The loan service keeps its state in three places: `loan.*` events in the store
(`log`), an in-memory projection of them (`st`, `listed`, `lastSeq`) and the
receivable accounts of the ledger (`recv`, `paid`, `fees`, `lent`). Each
request is a sequence of steps:

    originate: open, disburse, append            (append: insert, commit, apply)
    repay:     get, funds, pay, get, [repaid, append]
    miss:      get, evaluate, [fee], append
    default:   get, owed, [writeoff], append
    advance:   set, then at most maxTickIterations times
               list, plan, and for each overdue installment miss, [default]

`get` is refresh and a copy of the projection's entry, then the repayments
(`txs`), then the balance, in three steps, so the loan that an operation decides
on may never have existed. What follows an append is another Get, of which only
the refresh matters (`Reread`). Postings are atomic and true. `listed` counts
how often a loan stands in the projection's `order`: twice, when a refresh and
`applyAppended` both folded its origination in, which also makes it forget
missed payments and Tick go through it twice. Time is counted in half days in
the instance, since Tick compares instants and the servicing rule whole days: an
installment up to a day past its grace period is marked missed but costs no fee
and does not lead to a default. A calendar month is `Month` units. Before `open`
an origination goes through Underwrite: score the applicant, price the loan by
`Pricing` with the live `loan_underwriting` rule, decide with what that rule
says by then; a refusal changes nothing. `EvaluateRiskScore`, `Pricing` and
`EvaluateUnderwriting` are functions of rule content and applicant; the
debt-to-income share is a floating-point quotient, so at exactly the maximum the
decision may go either way. A maximum that is not a whole number of per cent, which
the schema admits, is counted in parts of a per cent (`PctUnit`); scores and points
are integers there. An applicant below every tier but above
`min_risk_score` is approved with no maximum, at the highest rate; the property
`LentAsApproved` says so rather than excluding it. Two merges: `Disburse` also reads the clock for
the event that it is going to append (service.go:338), and `Plan` reads the
grace period and the time together (service.go:770-775). A move of the clock between
the two halves touches neither the ledger nor the rules, so it can be put before
both, and an edit of the rules after both; the moves and edits themselves do not
depend on each other. Purchases from the deposit account are left to `Account`. A scenario of
`RunScenario` is a sequence of requests of one goroutine.

`raced` is history: the loans that two requests worked on at a time. The code
has nothing to keep such requests apart: a Default writes off a balance that a
repayment has changed since and two Repays both pay the same installment, so `BooksAgree` and
`AdvanceServicesAll` speak of the other loans only. `LoansDisbursed`,
`FeesPosted` and `ProjectionFaithful` hold for all. `upsets` counts failures and
edits: `LoansDisbursed` tolerates money without a loan after one, and `SeedsOnce`
says how much, and that restarts seed no second baseline loan beside one in the
log: `Seed` looks for a loan in the projection, which has everything in the log by
then but knows nothing of a disbursement whose event was never written.

### Demo

The service works in the goroutines of `RuleEngine`: a demo request is at step
`at[p]`, and during an engine call (`saving`, `restoring`) the engine's own
`pc[p]` runs through Save or Reactivate.

    run:    ensure, [snap...], check, edit, saving, record
    reset:  ensure, [snap...], {restore, compare, [restoring]}..., resnap..., (record)
    start:  snap..., detail, (view)
    view:   detail, (view)
    reload: reload

`mu` and `stateMu` are held inside one step and never across an engine call, so
every step interleaves with the others. A `scenarioState` is an index of `heap`:
RunStep and resetScenario keep the pointer they found, while StartScenario and
Reload replace it in `states`. A step is `edit_rule`, `call_api` or
`reset_scenario`; what `setFieldPath` makes of a document is the function `set`
of the step. `MapRace` is Go's reaction to `brief` or `detail` reading the map
of runs while RunStep writes it: the process ends.

History: `past[x].base` holds the documents that were live when the demo began,
with Start or with the first request that found the scenario not started
(`Fresh`). A reset leaves them what they were (`Rebased`), and so does a request
that found the scenario not started at the same time as another one, whose state
its own replaces (`Replaced`): its base is that of the replaced state, not what it
saw itself. `disturbed` holds what has gone wrong since: "start", the
replacing request saw other documents than the base, since the other one had
edited already; "reset", a foreign document went live during a reset, which takes
what is live at its end as the new baseline; "reload", a request worked by a
definition from before a Reload. In each of these cases the code does lose the
baseline; `BaselineKept` says that it does not in any other.
`BaselineDespiteStart` is what the comment on the service promises, without the
exception for "start"; the run `demo_start` violates it. `done` and `stray` say
which steps ran and which records are excused (forced, or overtaken by a reset).

### Dashboard

A request is a sequence of steps (`todo[p]`): `LedgerBook`, `Flows` and
`RatiosSteps`, or all of them for Summary. The steps in `Reads` are read calls
of `Ledger`, with its refresh and mutex; the others compute on what was read,
each with the rule content that is live by then. A step that computes touches no
variable of the ledger and reads none, so ledger steps wait while one is due
(`Computing`); rule edits and the clock do not. `Post` stamps a transaction
between its validation and its event (`Stamped`). Percentages are integer
hundredths, as `ratToFloatDP(_, 2)` leaves them. `quiet`, `before`, `counted`
and `edited` are history. The breakdown of flows by kind and day is left out.

## 3. Runs

Passing runs:

| Run | Shows | Bounds |
|---|---|---|
| `ledger_pg` | `TypeOK`, `LegalLog`, `JournalSpec` (refinement), `ListedIsCounted`, `AnsweredIsApplied`, `AppliedAtMostTwice`, `StartupIdempotent`, with an account opened by a request, manual settlements and faults | 2 goroutines and main, 2 faults, 3 starts, 1 manual request |
| `ledger_live` | `EventuallyApplied` under `FairSpec`, with a conversion that is refused at its second leg | 2 goroutines and main, no manual requests, no faults |
| `ledger_convert` | over the in-memory store: `TrialBalance` per currency, `ConversionOrder` and `ConversionWhole`; `BookBalances`, `BookAgrees`, `FlowsComplete` and `RatiosSound` of the dashboard | two conversions, one refused at its second leg, and an unbalanced posting; or a deposit, one dashboard request, one rule edit and one move of the clock |
| `account` | `TypeOK`, `FundingCovers`, `NoOverdraft`, `SeededOnce`, `AnswersTrue` | 2 goroutines, 3 rule contents, 3 policies (0.9 rounded half up, 7 rounded down, a rate of zero), 1 fault, 1 edit, 1 deposit besides seeding |
| `loan` | `TypeOK`, `LoansDisbursed`, `SeedsOnce`, `FeesPosted`, `ProjectionFaithful`, `BooksAgree`, `AdvanceServicesAll`, `LentAsApproved` | 2 goroutines, 2 loans of 3 installments or 1, 2 requests besides seeding, repayments of an installment, of interest only and of more than is owed, jumps past one and past three due dates, 2 Ticks instead of 12, one fault, crash or rule edit (`MaxUpsets`) |
| `demo` | of the rule engine `TypeOK`, `VersionChain`, `CacheFromStore`, `AuditSound`, `RowsImmutable`; of the demo service `DemoTypeOK`, `BaselineKept`, `PredecessorRan`, `EngineSpec` (refinement of `RuleEngine`) | 2 goroutines, 3 requests, versions up to 3; either 2 rules and a scenario of two edits and, after a Reload, of an edit and a reset, with requests of the rule editor and one fault or crash; or the rule editor alone on one rule, with a flow style document, an evaluation, 2 times and 2 faults |

Two goroutines are enough for the ledger's and the account's races: each
property speaks of one event, transaction or purchase, and the races are
between the goroutine that owns it and one other; the theorems below need no
bound. The numbering race of rule versions is between two
goroutines that read the same history. Two faults suffice to leave a multi-step
operation half done at each of its steps, and the restart after it too. Two
requests on loans suffice because one advance makes several calls (up to three
missed payments and a default) with which the other may interleave; with two
Ticks instead of 12 a Tick that serviced one installment at a time would not
get through three, so `AdvanceServicesAll` shows that it is Tick's own loop,
and not the repetition, that covers a long jump. In `MCConvert` the two workloads exclude each other
(`Workload`): conversions race with each other, or the dashboard with a deposit;
the book of the dashboard is wrong only if an entry is read on one side and not
on the other, for which one posting suffices. `MCDemo` has two workloads in the
same way (`DemoWorkload`, `EditorWorkload`), over the same rule engine; for the
rule editor's races, two saves and an evaluation or a restart, three requests are
enough. For the demo service they are the
fewest in which a scenario is edited and reset while a third request edits,
starts, reloads or resets it; a `call_api` step goes from `check` to `record`,
a part of what an edit goes through, and is left out of the instance; the
theorems below cover it. The
in-memory store allows a subset of Postgres' interleavings and no faults; the
run over it is there for its own `Append`. `CHECK_DEADLOCK FALSE` stands where requests are bounded
and the instance runs out of them; in the ledger a read is always possible.

**Fairness.** `FairSpec` assumes weak fairness of a goroutine's steps that need
no lock, strong fairness of those that need the mutex, and that `main` is
started again when it exits. Go schedules every runnable goroutine, and
`sync.Mutex` hands over to a waiter that has waited for a millisecond. Clients,
faults and manual requests are not assumed to be fair.

`EventuallyApplied` and `AnsweredIsApplied` deserve a remark. With Postgres,
`lastSeq` may pass an event that is not committed yet; no refresh lists it
afterwards, and only the goroutine that appended it can fold it in. So the
obvious repair of the double folding below, to skip events up to `lastSeq` in
`applyAppended` (`ApplyAppended_IfNew`), loses events. An event in `lost` can
stay out of the projection until the next restart.

Runs that show a disagreement between the code and its documentation
(`findings` in `PROJECT.json` quotes both sides):

| Run | Property | What happens |
|---|---|---|
| `ledger_replay` | `ProjectionIsReplay` | refresh of one goroutine and `applyAppended` of another both fold an event in: balances count it twice until a restart |
| `rules_live` | `SavedIsLive` | of two saves the older one replaces the cache last |
| `rules_flow` | `LiveValidates` | a flow style document is committed in a form that does not parse; the server no longer starts |
| `account_list` | `ListedAreApproved` | a purchase that failed after its first leg is listed as approved |
| `loan_tick` | `TickMissesOverdue` | a repayment arrives between Tick's List and its call of `missPaymentInternal`, which then marks the next installment, not yet due, as missed; Repay never offers a missed installment again |
| `demo_start` | `BaselineDespiteStart` | two requests start a scenario at once; the state that stays has its snapshot from after the other's edit, and resets go back to that |

## 4. Proofs

Everything below is proved for all values of the constants that satisfy the
assumptions stated in the modules: typing of the constants, distinct names for
`main` and for the free mutex, positive amounts, rates from zero up, a positive
`PctUnit` (`UnderwritingAssumption`). Those that say more:

* `PostingsAssumption`: finitely many accounts, each in one currency; entries
  name an account and an integer amount, positive or not (`Post` checks it).
* `LedgerAssumption`: the two transactions of a conversion have identifiers of
  their own, since `Convert` draws both from `newID`, and are of another kind
  than the capital that `SeedCapital` posts.
* `LoanAssumption`: principal and term of an application are positive
  (`Underwrite` and `Originate` put a default in place of others), and rule contents are of
  the types their JSON schemas require (`rules/schemas`): a rule is stored only
  if it validates. No loan is called "none", which stands for the loan of a
  goroutine that has none yet (identifiers come from `newID`).
* `DashboardAssumption`: finitely many currencies, USD among them, and rule
  contents and exposures of the types their schemas require; a factor that a rule
  leaves out counts as zero (`factorPct`), so the contents here name all.

No theorem assumes anything of the bounds but that they are natural numbers.

**`SumTheorems`**: a set of numbers has a least element, what holds of the empty
set and passes on when an element is added holds of every finite set, and, from
these, how the sum of a function over a finite set changes with the function and
the set. The properties are stated with `MapThenSumSet`; each proof shows it
equal to `SumOver` where it is needed.

**`LedgerProofs`**: `TypeCorrect`, `LogIsLegal`, `ImplementsJournal`, `BooksBalance`. The
invariant `LogInv` is `TypeOK`, `LegalLog` and three facts that make it
inductive. `ThreadOK`: a goroutine past its check has a call that the log
already allows; since the log only grows and a new number is larger than any
drawn before, what was allowed stays allowed. `SeqsDiffer`: no two goroutines
hold the same number and a held number is not in the log. `ProjectionOK`: what
the projection says (an account open, a transaction posted or settled) is in the
log with a number at most `nextSeq`, so before anything still to be appended.
The refinement follows step by step: a commit is a `Record` of the journal,
every other step leaves the log unchanged. `BooksBalance` needs `LegalLog`: only
transactions that are `WellFormed` get into the log, the entries of such a one
add the same to the debits and the credits of its currency, and folding it in
again adds the same again.

Its second part is about folding: `FoldInvariant`, and from it `FoldedAtMostTwice`,
`AnsweredMeansFolded`, `ListedMeansCounted`. `Inv` is `LogInv` and `FoldInv`:
`LockOK` and `PhaseOK` tie the mutex to the one goroutine that folds, `FoldOK`
says that an event above `lastSeq` has not been folded by a refresh and bounds
the number of foldings of each event by who can still fold it, `Covered` that
every event at or below `lastSeq` has been folded, is in the current batch, is
still to be folded by its own goroutine, or is lost, and `FollowersOK` that a
transaction's later events never overtake its posting in a batch.
`WrittenOnceInvariant`, and from it `StartupIsIdempotent` and
`ConversionsInOrder`: `OnceInv` says that a call that creates something stands in
one goroutine's list only (`CallsDiffer`) and its identifier was drawn for it
(`CallsOK`), that a goroutine past the check of a start-up call still finds
nothing of the kind in the log, and one about to commit a conversion's second
transaction finds the first before its own number (`WriterOK`), and that what has
been folded in shows in the projection (`LogKnown`). The check of `SeedCapital`
is made on the projection; that nothing is missing there at that time comes from
`FoldInv` and from `lost` being empty after a restart.

**`RuleEngineProofs`**: `EngineInvariant` and from it `TypeCorrect`, `Chain`,
`CacheIsStored`, `Audit` and the action property `Immutable`. `IInv` adds to the
properties `JobOK`, what a goroutine between two steps knows (its `prev` is a
row, and not before its time stamp), `RowsOK` (until a restart no row is from
the future; a text that parses carries its row's number) and `UpIsWarm`. The
crucial step is the insert: `prev` is a row and `prev + 1` is not, so `prev` is
the latest version whatever has happened since it was read.

**`DemoProofs`**: `DemoInvariant` and from it `ImplementsEngine`, `DemoTypes`,
`Baseline` and `StepsInOrder`. `DInv` is the engine's `IInv` and what each
goroutine holds at each step. `ReqOK` ties `at` to the engine's `pc` and to a
state and definition of the right kind; `SnapOK` says that versions held by a
request are stored, which stays true because rows are immutable; `BaseOK` that
the rules a reset is done with (`Restored`) are live again with the baseline's
document, that a Reactivate under way carries that document, and that the new
snapshot taken so far agrees with the old baseline; `OrderOK` that a step under
way was in order or is excused. `Baselines` and `RanIsDone` relate snapshots and
runs to the history. The step that needs all of it is an engine step of one
goroutine that replaces a cache entry during another's reset: either the
document is the baseline's, or the history notes the disturbance. A state that
replaces another inherits its baseline, and either its own snapshot agrees with
that or the disturbance is noted when it is installed. The
refinement uses `SnapOK`: only a stored version can be reactivated, and
`ReqOK`: an edit happens only while the engine is up.

**`AccountProofs`**: `WaterfallCovers`, about the evaluator alone: every
approval, for every content of the rule and any balances, negative ones
included, is covered exactly by at most one leg per currency within the balance
seen, with shares that add up to 100. `SeedingOnce` with `SeedInv`: an account
has been seeded exactly when it has had a deposit. `PurchaseInvariant`, and from
it `TypeCorrect`, `FundingIsCovered` and `AnswersAreTrue`: `PurchaseInv` follows a
purchase through its legs. None is posted before the decision (`OwnJob`), then
either none or one of two is, and what is posted and what is still to be posted
come to the amount (`ToPost`); each purchase is in one goroutine's hands.
`OverdraftsExplained`: by `MoneyInv`, a purchase that is not stale sees balances
not above the real ones and the live policy (`Sees`), so each leg takes at most
what is there, up to the rounding between the quote into dollars and the quote
back. The arithmetic of that bound is what refuted the constant bound that an
earlier version of `NoOverdraft` had and that TLC's small amounts satisfy.

**`LoanProofs`**: three invariants. `LoanInvariant`, and from it
`LoansAreDisbursed` and `FeesArePosted`: `LoanInv` says which goroutine may bring
a loan to life (`BirthsOK`: one at most, and no event of it is in the log),
that numbers are held by one goroutine each (`SeqsOK`), that a seeding goroutine
is alone (`PhaseOK`), and that the fees of a loan are those in the log and those
on their way, or more after a failure (`FeesOK`). `LentOnTerms`: `TermsInv` says
what has been established at `price`, `decide`, `open` and `disburse`; it rests
on lemmas about the pure functions: `firstMatchingTier` and `highestRateTier`
find the tier they are named for, `EvaluateUnderwriting` approves only within
it, and the first payment of a schedule is the `MonthlyPayment` that the decision
was made with, which takes a theorem about rounding and one about powers.
`StateInvariant`, and from it `TypeCorrect` and `ProjectionIsFaithful`: by
`StateInv` a goroutine works only on loans the projection has listed (`Fit`),
every event is of a loan whose origination is in the log (`EventsOK`), and once
the process is up every event above `lastSeq` is lost or about to be folded in by
its own goroutine (`ProjOK`). The last is what makes `ProjectionFaithful`
inductive: a refresh raises `lastSeq` past every event it has folded in, an
`applyAppended` past none that is not on its way.

**`LoanAloneProofs`**: two more. `AloneInvariant`, and from it `BooksAlwaysAgree`:
`AloneInv` follows a loan that no
two requests work on at a time (one not in `raced`). A goroutine keeps to its
request and, an advance of the time aside, to its loan, and appends what it set
out for (`KindOK`); at most one goroutine holds such a loan (`AloneOK`). The loan is
originated once and not listed before `lastSeq` has passed its origination
(`BornOK`), and an origination still to be folded in is all there is of it
(`WaitOK`), so that folding never begins it afresh and the projection has every
installment it missed, however often it is listed (`SeenOK`). `ToldOK` is the heart
of it: what a goroutine has read of its loan, that the installment it chose is
neither paid nor missed, that the loan is not closed, what is outstanding, is
still so when it posts and appends, several steps later. `BookOK` is the property
on the log and the books, and a failed Append is the only exception to it: the
event is in the log and the goroutine that would have folded it in is gone.

`ServeInvariant`, and from it `AdvanceAlwaysServices`: `ServeInv` follows an advance of
the time through a whole Tick. Once it has refreshed for the list, the projection
has passed every event of a loan it alone works on, but for the one it has just
appended itself (`CaughtOK`): no refresh of another goroutine can change the
loan's state under it. Every such loan that is known is on the list or has been
put together, and a view is the loan as it still is (`Serves`); `CallsCover`, an
induction over the views, shows that the calls planned from them are as many for
each loan as it has overdue installments. From then on the calls left for a loan
are at least the overdue installments it has left (`Enough`), less one while the
call at hand has chosen its installment and not yet folded the event in
(`Counts`). That a call takes an overdue one is `LateFirst`: it takes the first
that is scheduled, and due dates ascend. A loan whose calls are cut short by a
default has nothing outstanding by then (`ToldOK`) or is noted as defaulted. So one
Tick is enough whatever `maxTickIterations` is; the following ones find nothing on
these loans.

**`DashboardProofs`**: `DashInvariant`, and from it `BookAlwaysBalances`,
`BookAlwaysAgrees`, `FlowsAlwaysComplete` and `RatiosAlwaysSound`. A request's
reads are ordinary read calls, but several of them are begun at once, so the
invariant of the ledger is shown again for the ledger's steps (`LedgerInvStep`)
and for the beginning of a dashboard request (`ReadsBegin`). `LedgerInv` adds to
the ledger's `Inv` and `OnceInv` that postings are folded in after the accounts
they move money on (`OpenedOK`), so that there is no money on an account that
is not open (`ClosedEmpty`) and the sum over the open accounts, which the
dashboard forms, is the sum over all, which balances; and that while the server
is up every event whose Append did not fail is folded in or owned by its
goroutine (`UpCovered`), so that what has been answered is listed.
`RequestsOK` follows a request: what is left of its steps is a `Chain` in which
every step has its proper predecessor, and its view fits the step it is at.
`BookOK` says that a book read so far is what the ledger would answer now unless
something was folded in since, `FlowsOK` that everything answered at the opening
of the window is still listed and, once the list has been read, counted exactly
if stamped within the window, `RatiosOK` that all amounts are integers, that the
stress factors have been taken over before they are used, and that the targets
shown are the live ones or their edit was noted. The balance of the table by type
is a double sum turned around (`TableRead`); that a ratio is the nearest
hundredth is a theorem about rounding half up with divisors of either sign
(`RatioNearest`).

Functions defined by recursion (`ratPow`, `Remaining`, `Calls`) are recursive
functions on an interval 0..n; `Induction`, `RecExists` and `RecValues` in
`LoanProofs` give their existence and types.

Only model-checked: `EventuallyApplied`, which is liveness under fairness and out
of the prover's reach, `ConversionWhole` and `SeedsOnce`. Every other invariant and
action property that a passing run checks is also a theorem; the six runs that
expect a violation stay with TLC, which shows the counterexample.

## 5. Plan

What would come next: the read-only parts of section 6 that have a reference
definition to be compared with (the loan forecasts, `WhatIf`), as operators over
the state of `Loan`; and the liveness of requests other than those of the ledger
(that an AdvanceTime ends), with the fairness of its goroutine.

## 6. Not modelled

The loan forecasts, `WhatIf` and the affordability label: read-only arithmetic
on what Get returns. `EvaluateFXPolicy` and `EvaluateDepegPolicy`: no service
evaluates them, only rule examples do; Quote and Convert read the same content
by `rateFromPolicy`, which is modelled. The validation of simulation scenarios; a
scenario itself is a sequence of requests of one goroutine. Parsing and
formatting of amounts, HTTP encoding, JSON schema validation and the diff of rule
versions (strings and libraries), `httpx` and `deps` (no state), the web UI,
running the SQL migrations. Wall-clock times and the randomness of identifiers,
which are taken to be distinct. Integer overflow: quotes are computed with big
integers and amounts are bounded by what customers deposit. `Save` does not
compare the document's `rule_type` with the registry; documents here have the
registered type.

Some races are in the models but excluded from the properties by a history
variable, because the code does not prevent them, and what they do is wrong: of
two requests on one loan at a time (`raced`) a Default writes off more than is
outstanding when a repayment comes between its reading of the balance and its
posting, and two repayments pay one installment; overlapping purchases
(`overlapped`) are approved from the same money; a foreign save that becomes live
during a reset is the scenario's baseline from then on (`disturbed`); after an edit
between the pricing of a loan and the decision the installment weighed against the
income is not the loan's own (`LentAsApproved`); a ratio may be shown beside a
target edited during the request (`edited`). Of two advances of the clock at once
one swallows the days of the other. A conversion into an amount that rounds to zero
posts the debit and fails (`ConversionWhole` names the case), and a process that
dies between the disbursement of the baseline loan and its event lends again at the
next start (`SeedsOnce` bounds it). `MapRace` is a crash that may happen wherever
the two accesses coincide; no property is about it.
