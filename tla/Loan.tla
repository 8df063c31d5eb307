-------------------------------- MODULE Loan --------------------------------
(***************************************************************************)
(* internal/loan with the part of internal/simulate that drives it: the    *)
(* life of loans, kept in loan.* events, in an in-memory projection of     *)
(* them and in receivable accounts of the ledger.  Every operation reads,  *)
(* posts and appends in separate steps, without a lock; a posting and the  *)
(* event it belongs to are two writes.  Postings are atomic here (module   *)
(* Ledger takes them apart).  Time counts fractions of a day.              *)
(***************************************************************************)
EXTENDS Amortize, Underwriting, FiniteSets

CONSTANTS
    Procs,              \* goroutines
    Loans,              \* loan identifiers
    Applications,       \* what may be asked for, [applicant, principal, term]
    SeedApplication,    \* the loan that Seed originates
    Amounts,            \* amounts of a repayment; 0 is the next installment
    Contents,           \* sets of contents of the rules: scoring,
                        \* underwriting, servicing ([grace, threshold, fee])
    Shipped,            \* their contents at the first start
    Opening,            \* balance of the borrowers' deposit account
    Day, Month,         \* units of time in a day and in a month
    Jumps,              \* how far AdvanceTime moves the clock
    maxTickIterations,
    MaxRequests, MaxTime,
    MaxUpsets           \* bound on faults and edits of a rule together

NoTerms == [principal |-> 0, rate |-> 0, term |-> 0]

Asked == Applications \cup {SeedApplication}

ASSUME LoanAssumption ==
    /\ IsFiniteSet(Procs)
    /\ "none" \notin Loans
    /\ Asked \subseteq [applicant : [credit : Int, income : Int, debt : Int, age : Int],
                        principal : Nat \ {0}, term : Nat \ {0}]
    /\ Amounts \subseteq Nat
    /\ DOMAIN Contents = {"scoring", "underwriting", "servicing"}
    /\ \A c \in Contents.scoring : ScoringContent(c)
    /\ Contents.underwriting \subseteq UnderwritingContent
    /\ Contents.servicing \subseteq [grace : Nat, threshold : Nat, fee : Nat]
    /\ DOMAIN Shipped = DOMAIN Contents
    /\ \A r \in DOMAIN Contents : Shipped[r] \in Contents[r]
    /\ Opening \in Nat
    /\ Jumps \cup {Day, Month, maxTickIterations} \subseteq Nat \ {0}
    /\ {MaxRequests, MaxUpsets, MaxTime} \subseteq Nat

VARIABLES
    log,        \* the committed loan events by sequence number
    nextSeq,    \* the last number drawn
    opened,     \* loans whose receivable account exists
    lent,       \* what was disbursed on each
    recv,       \* balance of each receivable account
    paid,       \* installments with a repayment on the receivable account
    fees,       \* late fees posted on each
    deposit,    \* balance of the borrowers' deposit account
    st, listed, lastSeq,    \* the projection; listed counts a loan in `order`
    clock,
    rule,       \* live contents of the rules
    phase,      \* "start" | "seeding" | "up" | "down"
    pc, job,    \* step and request of each goroutine
    requests, upsets,
    lost,       \* history: committed events whose Append reported an error
    raced,      \* history: loans that two requests worked on at a time
    early       \* history: installments Tick marked missed before they were due

events  == <<log, nextSeq>>
books   == <<opened, lent, recv, paid, fees, deposit>>
proj    == <<st, listed, lastSeq>>
world   == <<clock, rule>>
control == <<phase, pc, job>>
history == <<lost, raced, early>>
vars    == <<events, books, proj, world, control, requests, upsets, history>>

Unknown == [known |-> FALSE, terms |-> NoTerms, at |-> 0, missed |-> {},
            defaulted |-> FALSE, repaid |-> FALSE]

NoEvent == [type |-> "none", loan |-> "none"]

NoJob == [op |-> "none", then |-> "none", loan |-> "none", terms |-> NoTerms,
          ask |-> SeedApplication, score |-> 0, priced |-> << >>, decided |-> << >>,
          amount |-> 0, st |-> Unknown, paid |-> {}, no |-> 0, event |-> NoEvent,
          seq |-> 0, default |-> FALSE, list |-> << >>, views |-> << >>,
          todo |-> << >>, ticks |-> 0, target |-> 0, grace |-> 0]

Init ==
    /\ log = << >> /\ nextSeq = 0
    /\ opened = {}
    /\ lent = [l \in Loans |-> 0]
    /\ recv = [l \in Loans |-> 0]
    /\ paid = [l \in Loans |-> {}]
    /\ fees = [l \in Loans |-> 0]
    /\ deposit = Opening
    /\ st = [l \in Loans |-> Unknown]
    /\ listed = [l \in Loans |-> 0]
    /\ lastSeq = 0
    /\ clock = 0
    /\ rule = Shipped
    /\ phase = "start"
    /\ pc = [p \in Procs |-> "idle"]
    /\ job = [p \in Procs |-> NoJob]
    /\ requests = 0 /\ upsets = 0
    /\ lost = {} /\ raced = {} /\ early = {}

-----------------------------------------------------------------------------
(* The projection.  apply keeps the highest sequence number it has seen.   *)
NoteSeq_Counts(S) == lastSeq + Cardinality(S)

NoteSeq(S) == Max(S \cup {lastSeq})

(* Folds the events numbered S in, in order: an origination begins the     *)
(* loan afresh and lists it, what follows is noted on a loan that is known.*)
Fold(S) ==
    LET Of(l, type)  == {n \in S : log[n].loan = l /\ log[n].type = type}
        Base(l) ==
            IF Of(l, "originated") = {} THEN st[l]
            ELSE LET e == log[Max(Of(l, "originated"))]
                 IN  [Unknown EXCEPT !.known = TRUE, !.terms = e.terms, !.at = e.at]
    IN
    /\ st' = [l \in Loans |->
                IF ~Base(l).known THEN Base(l)
                ELSE [Base(l) EXCEPT
                        !.missed = @ \cup {log[n].no : n \in Of(l, "missed")},
                        !.defaulted = @ \/ Of(l, "defaulted") # {},
                        !.repaid = @ \/ Of(l, "repaid") # {}]]
    /\ listed' = [l \in Loans |-> listed[l] + Cardinality(Of(l, "originated"))]
    /\ lastSeq' = NoteSeq(S)

refresh == Fold({n \in DOMAIN log : n > lastSeq})

-----------------------------------------------------------------------------
(* What the client of a request is told is whether it failed; an error     *)
(* while seeding ends the process.                                         *)
Return(p, ok) ==
    /\ pc' = [pc EXCEPT ![p] = "idle"]
    /\ job' = [job EXCEPT ![p] = NoJob]
    /\ phase' = IF job[p].op # "seed" THEN phase ELSE IF ok THEN "up" ELSE "down"

Go(p, step, j) ==
    /\ pc' = [pc EXCEPT ![p] = step]
    /\ job' = [job EXCEPT ![p] = j]
    /\ UNCHANGED phase

(* The next call of missPaymentInternal, the next Tick or the end.         *)
NextMiss(p, j) ==
    LET idle == [NoJob EXCEPT !.op = j.op, !.ticks = j.ticks, !.grace = j.grace,
                              !.todo = j.todo]
    IN
    IF j.todo # << >>
    THEN Go(p, "get", [idle EXCEPT !.then = "miss", !.loan = Head(j.todo).loan])
    ELSE IF j.ticks < maxTickIterations
    THEN Go(p, "list", [idle EXCEPT !.then = "tick", !.ticks = @ + 1])
    ELSE Go(p, "served", idle)

(* An operation has come to its end.  In a Tick it was one call of several: *)
(* a default follows when the rule says so and ends the work on that loan. *)
Finish(p) ==
    LET j    == job[p]
        rest == IF Head(j.todo).left = 1 THEN Tail(j.todo)
                ELSE [j.todo EXCEPT ![1].left = @ - 1]
    IN
    IF j.op # "advance" THEN Return(p, TRUE)
    ELSE IF j.then = "default" THEN NextMiss(p, j)
    ELSE IF j.default
    THEN Go(p, "get", [j EXCEPT !.then = "default", !.default = FALSE,
                                    !.todo = Tail(@)])
    ELSE NextMiss(p, [j EXCEPT !.todo = rest])

Works(p) == IF job[p].op = "none" THEN {}
            ELSE IF job[p].op = "advance" THEN Loans ELSE {job[p].loan}

(* Goroutine p begins the request j, which works on the loans S.           *)
Begin(p, step, j, S) ==
    /\ phase = "up"
    /\ pc[p] = "idle"
    /\ requests < MaxRequests
    /\ requests' = requests + 1
    /\ raced' = raced \cup (S \cap UNION {Works(q) : q \in Procs \ {p}})
    /\ Go(p, step, j)
    /\ UNCHANGED <<events, books, proj, world, upsets, lost, early>>

(* newID: an identifier that no loan has.                                  *)
Fresh_ByProjection(l) ==        \* that no loan known here has
    ~st[l].known /\ \A q \in Procs : job[q].loan # l

Fresh(l) == l \notin opened /\ \A q \in Procs : job[q].loan # l

(* Originate begins with Underwrite, which is also a request of its own.   *)
Deciding(q) == pc[q] \in {"score", "price", "decide"}

Originate(p) ==
    \E x \in Applications :
        /\ Cardinality({l \in Loans : Fresh(l)})      \* Loans is a bound
             > Cardinality({q \in Procs : Deciding(q)})
        /\ Begin(p, "score", [NoJob EXCEPT !.op = "originate", !.ask = x], {})

Underwrite(p) ==
    \E x \in Applications :
        Begin(p, "score", [NoJob EXCEPT !.op = "underwrite", !.ask = x], {})

Repay(p) ==
    \E l \in opened, a \in Amounts :
        Begin(p, "get", [NoJob EXCEPT !.op = "repay", !.then = "repay",
                                          !.loan = l, !.amount = a], {l})

MissPayment(p) ==
    \E l \in opened :
        Begin(p, "get", [NoJob EXCEPT !.op = "miss", !.then = "miss",
                                          !.loan = l], {l})

Default(p) ==
    \E l \in opened :
        Begin(p, "get", [NoJob EXCEPT !.op = "default", !.then = "default",
                                          !.loan = l], {l})

(* The target is put together from the time that is read here.             *)
AdvanceTime(p) ==
    \E d \in Jumps :
        /\ clock + d <= MaxTime
        /\ Begin(p, "set", [NoJob EXCEPT !.op = "advance", !.target = clock + d],
                 Loans)

(* Any read of loans.                                                      *)
Read ==
    /\ phase = "up"
    /\ refresh
    /\ UNCHANGED <<events, books, world, control, requests, upsets, history>>

(* Seed originates a loan unless there is one.                             *)
Seed_Stale(p) ==                     \* looks before it refreshes
    /\ phase = "start"
    /\ refresh
    /\ IF \E l \in Loans : listed[l] > 0
       THEN phase' = "up" /\ UNCHANGED <<pc, job>>
       ELSE /\ phase' = "seeding"
            /\ pc' = [pc EXCEPT ![p] = "score"]
            /\ job' = [job EXCEPT ![p] = [NoJob EXCEPT !.op = "seed"]]
    /\ UNCHANGED <<events, books, world, requests, upsets, history>>

Seed(p) ==
    /\ phase = "start"
    /\ refresh
    /\ IF \E l \in Loans : listed'[l] > 0
       THEN phase' = "up" /\ UNCHANGED <<pc, job>>
       ELSE /\ phase' = "seeding"
            /\ pc' = [pc EXCEPT ![p] = "score"]
            /\ job' = [job EXCEPT ![p] = [NoJob EXCEPT !.op = "seed"]]
    /\ UNCHANGED <<events, books, world, requests, upsets, history>>

-----------------------------------------------------------------------------
(* Get: refresh, then the loan's state, its repayments and its balance, in *)
(* three steps.  The state is copied with the refresh: another refresh may *)
(* come before this one (Read).                                            *)
Get(p) ==
    LET s == st'[job[p].loan] IN
    /\ pc[p] = "get"
    /\ refresh
    /\ IF s.known THEN Go(p, "txs", [job[p] EXCEPT !.st = s]) ELSE Return(p, FALSE)
    /\ UNCHANGED <<events, books, world, requests, upsets, history>>

Txs(p) ==
    /\ pc[p] = "txs"
    /\ Go(p, "balance", [job[p] EXCEPT !.paid = paid[job[p].loan]])
    /\ UNCHANGED <<events, books, proj, world, requests, upsets, history>>

Status(s, balance) ==
    IF s.defaulted THEN "defaulted"
    ELSE IF s.repaid \/ balance <= 0 THEN "repaid" ELSE "active"

Scheduled(s, done) == (1..s.terms.term) \ (s.missed \cup done)

Due(s, no) == s.at + no * Month

Overdue(s, no, grace) == Due(s, no) + grace * Day < clock

firstScheduled_OrMissed(j) ==       \* a missed installment may be paid later
    Min((1..j.st.terms.term) \ j.paid)

firstScheduled(j) == Min(Scheduled(j.st, j.paid))

(* Goroutine p has put the loan together for the purpose `then`.           *)
Built(p, then) ==
    /\ pc[p] = "balance"
    /\ job[p].then = then
    /\ UNCHANGED <<events, books, proj, world, requests, upsets, history>>

Open(j) == /\ Status(j.st, recv[j.loan]) = "active"
           /\ Scheduled(j.st, j.paid) # {}

RepayBuilt(p) ==
    LET j == job[p] IN
    /\ Built(p, "repay")
    /\ IF ~Open(j) THEN Return(p, FALSE)
       ELSE LET no == firstScheduled(j) IN
            Go(p, "funds", [j EXCEPT !.no = no,
                 !.amount = IF @ > 0 THEN @ ELSE Schedule(j.st.terms)[no].payment])

Funds(p) ==
    /\ pc[p] = "funds"
    /\ IF deposit < job[p].amount THEN Return(p, FALSE) ELSE Go(p, "pay", job[p])
    /\ UNCHANGED <<events, books, proj, world, requests, upsets, history>>

(* Interest first.  A repayment that leaves nothing for the principal does *)
(* not touch the receivable account and is not found there later.          *)
PayEffect(j) ==
    LET interest  == Min({Schedule(j.st.terms)[j.no].interest, j.amount})
        principal == j.amount - interest
    IN
    /\ deposit' = deposit - j.amount
    /\ recv' = [recv EXCEPT ![j.loan] = @ - principal]
    /\ paid' = [paid EXCEPT ![j.loan] = IF principal > 0 THEN @ \cup {j.no} ELSE @]
    /\ UNCHANGED <<opened, lent, fees>>

Pay(p) ==
    /\ pc[p] = "pay"
    /\ PayEffect(job[p])
    /\ Go(p, "get", [job[p] EXCEPT !.then = "settled"])
    /\ UNCHANGED <<events, proj, world, requests, upsets, history>>

PayBuilt(p) ==
    /\ Built(p, "settled")
    /\ IF recv[job[p].loan] <= 0 THEN Go(p, "repaid", job[p]) ELSE Return(p, TRUE)

appendRepaidEvent(p) ==
    LET l == job[p].loan IN
    /\ pc[p] = "repaid"
    /\ IF st[l].repaid THEN Go(p, "reread", job[p])
       ELSE Go(p, "insert", [job[p] EXCEPT !.event = [type |-> "repaid", loan |-> l]])
    /\ UNCHANGED <<events, books, proj, world, requests, upsets, history>>

-----------------------------------------------------------------------------
MissBuilt(p) ==
    LET j == job[p] IN
    /\ Built(p, "miss")
    /\ IF ~Open(j) THEN Return(p, FALSE)
       ELSE Go(p, "evaluate", [j EXCEPT !.no = firstScheduled(j)])

(* The loan_servicing rule.                                                *)
EvaluateServicing(content, days_past_due, missed_so_far) ==
    LET is_missed == days_past_due > content.grace IN
    [fee |-> IF is_missed THEN content.fee ELSE 0,
     should_default |-> is_missed /\ missed_so_far + 1 >= content.threshold]

Evaluate_TickFree(p) ==     \* Tick leaves the fee to MissPayment
    LET j   == job[p]
        due == Due(j.st, j.no)
        d   == EvaluateServicing(rule.servicing, IF clock < due THEN 0 ELSE (clock - due) \div Day,
                                 Cardinality(j.st.missed))
    IN
    /\ pc[p] = "evaluate"
    /\ Go(p, IF d.fee > 0 /\ j.op = "miss" THEN "fee" ELSE "insert",
          [j EXCEPT !.default = d.should_default,
                    !.event = [type |-> "missed", loan |-> j.loan, no |-> j.no,
                               fee |-> d.fee]])
    /\ UNCHANGED <<events, books, proj, world, requests, upsets, history>>

(* missPaymentInternal counts whole days since the due date.               *)
Evaluate(p) ==
    LET j   == job[p]
        due == Due(j.st, j.no)
        d   == EvaluateServicing(rule.servicing, IF clock < due THEN 0 ELSE (clock - due) \div Day,
                                 Cardinality(j.st.missed))
    IN
    /\ pc[p] = "evaluate"
    /\ Go(p, IF d.fee > 0 THEN "fee" ELSE "insert",
          [j EXCEPT !.default = d.should_default,
                    !.event = [type |-> "missed", loan |-> j.loan, no |-> j.no,
                               fee |-> d.fee]])
    /\ UNCHANGED <<events, books, proj, world, requests, upsets, history>>

FeeEffect(j) ==
    /\ recv' = [recv EXCEPT ![j.loan] = @ + j.event.fee]
    /\ fees' = [fees EXCEPT ![j.loan] = @ + j.event.fee]
    /\ UNCHANGED <<opened, lent, paid, deposit>>

PostFee(p) ==
    /\ pc[p] = "fee"
    /\ FeeEffect(job[p])
    /\ Go(p, "insert", job[p])
    /\ UNCHANGED <<events, proj, world, requests, upsets, history>>

(* Default: nothing to do on a defaulted loan, an error on a repaid one.   *)
DefaultBuilt(p) ==
    LET j == job[p]
        status == Status(j.st, recv[j.loan])
    IN
    /\ Built(p, "default")
    /\ CASE status = "defaulted" -> Finish(p)
         [] status = "repaid"    -> Return(p, FALSE)
         [] status = "active"    -> Go(p, "owed", j)

Owed(p) ==
    LET j == job[p] IN
    /\ pc[p] = "owed"
    /\ Go(p, IF recv[j.loan] > 0 THEN "writeoff" ELSE "insert",
          [j EXCEPT !.amount = recv[j.loan],
                    !.event = [type |-> "defaulted", loan |-> j.loan]])
    /\ UNCHANGED <<events, books, proj, world, requests, upsets, history>>

WriteOffEffect(j) ==
    /\ recv' = [recv EXCEPT ![j.loan] = @ - j.amount]
    /\ UNCHANGED <<opened, lent, paid, fees, deposit>>

WriteOff(p) ==
    /\ pc[p] = "writeoff"
    /\ WriteOffEffect(job[p])
    /\ Go(p, "insert", job[p])
    /\ UNCHANGED <<events, proj, world, requests, upsets, history>>

-----------------------------------------------------------------------------
(* Underwrite: the risk score, then a price, for which loan_underwriting   *)
(* is read, then the decision, for which it is read again.                 *)
Score(p) ==
    LET j == job[p]
        d == EvaluateRiskScore(rule.scoring, j.ask.applicant)
    IN
    /\ pc[p] = "score"
    /\ IF d.ok THEN Go(p, "price", [j EXCEPT !.score = d.score]) ELSE Return(p, FALSE)
    /\ UNCHANGED <<events, books, proj, world, requests, upsets, history>>

Price(p) ==
    LET j == job[p]
        c == rule.underwriting
    IN
    /\ pc[p] = "price"
    /\ IF c.tiers = << >> THEN Return(p, FALSE)
       ELSE Go(p, "decide", [j EXCEPT !.priced = c,
                 !.terms = [principal |-> j.ask.principal, term |-> j.ask.term,
                            rate |-> Pricing(c, j.score).rate]])
    /\ UNCHANGED <<events, books, proj, world, requests, upsets, history>>

(* The rate is that of the decision, the installment decided on that of    *)
(* the price.  A loan gets its identifier once it is approved.             *)
Agreed_AsPriced(terms, tier) == terms            \* keeps the rate of the price

Agreed(terms, tier) == IF tier = Failed THEN terms ELSE [terms EXCEPT !.rate = tier.rate]

Decide(p) ==
    LET j == job[p]
        t == j.terms
        x == [applicant |-> j.ask.applicant, score |-> j.score,
              principal |-> t.principal, term |-> t.term,
              installment |-> MonthlyPayment(t.principal, t.rate, t.term)]
    IN
    /\ pc[p] = "decide"
    /\ \E up \in BOOLEAN :
         LET d == EvaluateUnderwriting(rule.underwriting, x, up) IN
         IF ~d.approved \/ j.op = "underwrite"
         THEN Return(p, j.op = "underwrite") /\ UNCHANGED raced
         ELSE \E l \in Loans :
                /\ Fresh(l)
                /\ Go(p, "open", [j EXCEPT !.loan = l, !.terms = Agreed(t, d.tier),
                                           !.decided = rule.underwriting])
                /\ raced' = raced \cup ({l} \cap UNION {Works(q) : q \in Procs \ {p}})
    /\ UNCHANGED <<events, books, proj, world, requests, upsets, lost, early>>

OpenReceivable(p) ==
    /\ pc[p] = "open"
    /\ opened' = opened \cup {job[p].loan}
    /\ Go(p, "disburse", job[p])
    /\ UNCHANGED <<events, lent, recv, paid, fees, deposit, proj, world, requests,
                   upsets, history>>

DisburseEffect(j) ==
    /\ lent' = [lent EXCEPT ![j.loan] = @ + j.terms.principal]
    /\ recv' = [recv EXCEPT ![j.loan] = @ + j.terms.principal]
    /\ deposit' = deposit + j.terms.principal
    /\ UNCHANGED <<opened, paid, fees>>

Disburse(p) ==
    LET j == job[p] IN
    /\ pc[p] = "disburse"
    /\ DisburseEffect(j)
    /\ Go(p, "insert", [j EXCEPT !.event = [type |-> "originated", loan |-> j.loan,
                                            terms |-> j.terms, at |-> clock]])
    /\ UNCHANGED <<events, proj, world, requests, upsets, history>>

(* Append draws a sequence number and commits ...                          *)
Insert(p) ==
    /\ pc[p] = "insert"
    /\ nextSeq' = nextSeq + 1
    /\ Go(p, "commit", [job[p] EXCEPT !.seq = nextSeq + 1])
    /\ UNCHANGED <<log, books, proj, world, requests, upsets, history>>

CommitEffect(j) ==
    /\ log' = [n \in DOMAIN log \cup {j.seq} |-> IF n = j.seq THEN j.event ELSE log[n]]
    /\ early' = IF /\ j.op = "advance" /\ j.event.type = "missed"
                   /\ ~Overdue(j.st, j.no, j.grace)
                THEN early \cup {<<j.loan, j.no>>} ELSE early

Commit(p) ==
    /\ pc[p] = "commit"
    /\ CommitEffect(job[p])
    /\ Go(p, "apply", job[p])
    /\ UNCHANGED <<nextSeq, books, proj, world, requests, upsets, lost, raced>>

(* ... and applyAppended folds the event in, after which the loan is read  *)
(* again for the answer.                                                   *)
ApplyAppended_IfNew(p) ==       \* what lastSeq has passed is taken as known
    /\ pc[p] = "apply"
    /\ Fold({n \in {job[p].seq} : n > lastSeq})
    /\ Go(p, "reread", job[p])
    /\ UNCHANGED <<events, books, world, requests, upsets, history>>

ApplyAppended(p) ==
    /\ pc[p] = "apply"
    /\ Fold({job[p].seq})
    /\ Go(p, "reread", job[p])
    /\ UNCHANGED <<events, books, world, requests, upsets, history>>

Reread(p) ==
    /\ pc[p] = "reread"
    /\ refresh
    /\ Finish(p)
    /\ UNCHANGED <<events, books, world, requests, upsets, history>>

-----------------------------------------------------------------------------
(* AdvanceTime: the clock only moves forward, then Tick runs until it      *)
(* finds nothing, at most maxTickIterations times.                         *)
SetTo(p) ==
    /\ pc[p] = "set"
    /\ IF job[p].target > clock
       THEN /\ clock' = job[p].target
            /\ Go(p, "list", [job[p] EXCEPT !.then = "tick", !.ticks = 1])
       ELSE Return(p, FALSE) /\ UNCHANGED clock
    /\ UNCHANGED <<events, books, proj, rule, requests, upsets, history>>

(* List puts the loans together one by one, once for each listing.  (The    *)
(* order, which is that of origination, makes no difference here.)         *)
NextInList(p, j) ==
    LET left == {l \in Loans : j.list[l] > 0} IN
    IF left = {} THEN Go(p, "plan", j)
    ELSE \E l \in left : Go(p, "copy", [j EXCEPT !.loan = l, !.list[l] = @ - 1])

List(p) ==
    /\ pc[p] = "list"
    /\ refresh
    /\ NextInList(p, [job[p] EXCEPT !.list = listed', !.views = << >>])
    /\ UNCHANGED <<events, books, world, requests, upsets, history>>

Copy(p) ==
    /\ pc[p] = "copy"
    /\ Go(p, "txs", [job[p] EXCEPT !.st = st[job[p].loan]])
    /\ UNCHANGED <<events, books, proj, world, requests, upsets, history>>

TickBuilt(p) ==
    LET j    == job[p]
        view == [loan |-> j.loan, st |-> j.st,
                 scheduled |-> IF Status(j.st, recv[j.loan]) = "active"
                               THEN Scheduled(j.st, j.paid) ELSE {}]
    IN
    /\ Built(p, "tick")
    /\ NextInList(p, [j EXCEPT !.views = Append(@, view)])

(* How often Tick calls missPaymentInternal for a loan as it was listed.   *)
Misses_First(v, grace) ==       \* only the first installment overdue
    IF \E no \in v.scheduled : Overdue(v.st, no, grace) THEN 1 ELSE 0

Misses(v, grace) == Cardinality({no \in v.scheduled : Overdue(v.st, no, grace)})

(* The calls of a Tick for the loans as they were listed, in that order.   *)
Calls(views, grace) ==
    LET calls[i \in 0..Len(views)] ==
          IF i = 0 THEN << >>
          ELSE LET n == Misses(views[i], grace)
               IN  IF n = 0 THEN calls[i - 1]
                   ELSE Append(calls[i - 1], [loan |-> views[i].loan, left |-> n])
    IN  calls[Len(views)]

(* Grace period and time are read once for all loans.                      *)
Plan(p) ==
    LET j    == job[p]
        next == [j EXCEPT !.todo = Calls(j.views, rule.servicing.grace),
                          !.grace = rule.servicing.grace]
    IN
    /\ pc[p] = "plan"
    /\ IF next.todo = << >>
       THEN Go(p, "served", [NoJob EXCEPT !.op = j.op, !.grace = rule.servicing.grace])
       ELSE NextMiss(p, next)
    /\ UNCHANGED <<events, books, proj, world, requests, upsets, history>>

Served(p) ==
    /\ pc[p] = "served"
    /\ Return(p, TRUE)
    /\ UNCHANGED <<events, books, proj, world, requests, upsets, history>>

-----------------------------------------------------------------------------
Upset == upsets < MaxUpsets /\ upsets' = upsets + 1

(* Failures of the database: a call fails without effect, ...              *)
StoreError(p) ==
    /\ pc[p] \in {"score", "decide", "get", "list", "txs", "balance", "funds", "pay", "evaluate", "fee",
                  "owed", "writeoff", "open", "disburse", "insert", "commit",
                  "reread"}
    /\ Upset
    /\ Return(p, FALSE)
    /\ UNCHANGED <<events, books, proj, world, requests, history>>

(* ... after the posting, while it is settled and finalised, ...           *)
PostLost(p) ==
    LET j == job[p] IN
    /\ \/ pc[p] = "pay" /\ PayEffect(j)
       \/ pc[p] = "fee" /\ FeeEffect(j)
       \/ pc[p] = "writeoff" /\ WriteOffEffect(j)
       \/ pc[p] = "disburse" /\ DisburseEffect(j)
    /\ Upset
    /\ Return(p, FALSE)
    /\ UNCHANGED <<events, proj, world, requests, history>>

(* ... or commits and loses the answer.                                    *)
CommitLost(p) ==
    /\ pc[p] = "commit"
    /\ Upset
    /\ CommitEffect(job[p])
    /\ lost' = lost \cup {job[p].seq}
    /\ Return(p, FALSE)
    /\ UNCHANGED <<nextSeq, books, proj, world, requests, raced>>

(* main begins again, with an empty projection and a new clock.            *)
Restart ==
    /\ phase' = "start"
    /\ pc' = [p \in Procs |-> "idle"]
    /\ job' = [p \in Procs |-> NoJob]
    /\ st' = [l \in Loans |-> Unknown]
    /\ listed' = [l \in Loans |-> 0]
    /\ lastSeq' = 0
    /\ clock' = 0
    /\ UNCHANGED <<events, books, rule, requests, history>>

Crash == Upset /\ Restart

StartAgain == phase = "down" /\ Restart /\ UNCHANGED upsets

(* A save of one of the rules.                                             *)
EditRule ==
    /\ phase = "up"
    /\ Upset
    /\ \E r \in DOMAIN rule : \E c \in Contents[r] \ {rule[r]} :
         rule' = [rule EXCEPT ![r] = c]
    /\ UNCHANGED <<events, books, proj, clock, control, requests, history>>

Ask(p) == \/ Underwrite(p) \/ Originate(p) \/ Repay(p) \/ MissPayment(p) \/ Default(p)
          \/ AdvanceTime(p)

Step(p) == \/ Get(p) \/ Txs(p)
           \/ RepayBuilt(p) \/ Funds(p) \/ Pay(p) \/ PayBuilt(p)
           \/ appendRepaidEvent(p)
           \/ MissBuilt(p) \/ Evaluate(p) \/ PostFee(p)
           \/ DefaultBuilt(p) \/ Owed(p) \/ WriteOff(p)
           \/ Score(p) \/ Price(p) \/ Decide(p) \/ OpenReceivable(p) \/ Disburse(p)
           \/ Insert(p) \/ Commit(p) \/ ApplyAppended(p) \/ Reread(p)
           \/ SetTo(p) \/ List(p) \/ Copy(p) \/ TickBuilt(p) \/ Plan(p) \/ Served(p)

Fail(p) == StoreError(p) \/ PostLost(p) \/ CommitLost(p)

Next == \/ \E p \in Procs : Seed(p) \/ Ask(p) \/ Step(p) \/ Fail(p)
        \/ Read \/ EditRule \/ Crash \/ StartAgain

Spec == Init /\ [][Next]_vars

-----------------------------------------------------------------------------
Numbers(l, type) == {n \in DOMAIN log : log[n].loan = l /\ log[n].type = type}

(* Types; the projection never claims to have seen a number that has not   *)
(* been drawn, and no two goroutines append under one number (apply,       *)
(* Append).                                                                *)
TypeOK ==
    /\ DOMAIN log \subseteq 1..nextSeq /\ lastSeq \in 0..nextSeq
    /\ opened \subseteq Loans
    /\ lent \in [Loans -> Nat] /\ fees \in [Loans -> Nat]
    /\ recv \in [Loans -> Int] /\ deposit \in Int
    /\ \A l \in Loans : paid[l] \subseteq
         UNION {1..x.term : x \in Asked}
    /\ listed \in [Loans -> Nat]
    /\ clock \in 0..MaxTime /\ DOMAIN rule = DOMAIN Contents
    /\ \A r \in DOMAIN Contents : rule[r] \in Contents[r]
    /\ phase \in {"start", "seeding", "up", "down"}
    /\ requests \in 0..MaxRequests /\ upsets \in 0..MaxUpsets
    /\ \A p, q \in Procs : (p # q /\ {pc[p], pc[q]} \subseteq {"commit", "apply"})
                              => job[p].seq # job[q].seq

(* A loan that exists was disbursed, once and with the principal its event *)
(* records; money is lent to no loan only while its origination is on its  *)
(* way, or after a failure between the two writes (Originate, Seed).       *)
LoansDisbursed ==
    \A l \in Loans :
        /\ \A n \in Numbers(l, "originated") : lent[l] = log[n].terms.principal
        /\ (lent[l] > 0 /\ Numbers(l, "originated") = {}) =>
             \/ upsets > 0
             \/ \E p \in Procs : pc[p] \in {"insert", "commit"} /\ job[p].loan = l

(* Money is lent as the loan_underwriting rule in force at the decision    *)
(* says: with the rate and within the maximum of the highest tier that the *)
(* risk score reaches (where it reaches none, with no less than the rate   *)
(* of any), and so that debts and the installment the loan really has are  *)
(* within the share of the income it allows, unless the rule was edited    *)
(* between pricing and decision (Underwrite, Originate).                   *)
LentAsApproved ==
    \A p \in Procs : pc[p] = "disburse" =>
        LET j == job[p]
            a == j.ask.applicant
            Tiers == {j.decided.tiers[i] : i \in DOMAIN j.decided.tiers}
            Met == {t \in Tiers : t.min_risk_score <= j.score}
            Best == {t \in Met : \A u \in Met : u.min_risk_score <= t.min_risk_score}
        IN
        /\ j.score >= j.decided.min_risk_score
        /\ Met # {} => \E t \in Best : /\ j.terms.rate = t.rate
                                       /\ j.terms.principal <= t.max_principal
        /\ j.priced = j.decided =>
             /\ Met = {} => \A t \in Tiers : j.terms.rate >= t.rate
             /\ 100 * PctUnit * (a.debt + Schedule(j.terms)[1].payment)
                  <= j.decided.max_debt_to_income_pct * a.income

(* Until somebody asks for another loan there is one baseline loan in the  *)
(* log at most, however often the process starts, and each failure leaves  *)
(* at most one disbursement without its loan (Seed, Originate).            *)
SeedsOnce ==
    LET logged == {l \in Loans : Numbers(l, "originated") # {}}
        orphan == {l \in Loans : lent[l] > 0} \ logged
    IN  requests = 0 =>
          /\ Cardinality(logged) <= 1
          /\ phase # "seeding" => Cardinality(orphan) <= upsets

LoggedFees(l) == MapThenSumSet(LAMBDA n : log[n].fee, Numbers(l, "missed"))

FeesOnTheirWay(l) ==
    LET P == {p \in Procs : /\ pc[p] \in {"insert", "commit"} /\ job[p].loan = l
                            /\ job[p].event.type = "missed"}
    IN  MapThenSumSet(LAMBDA p : job[p].event.fee, P)

(* Every late fee an event speaks of has been posted before the event, one *)
(* for each event even where requests race; without a failure nothing else *)
(* has been posted (missPaymentInternal, Tick).                            *)
FeesPosted ==
    \A l \in Loans :
        /\ fees[l] >= LoggedFees(l) + FeesOnTheirWay(l)
        /\ upsets = 0 => fees[l] = LoggedFees(l) + FeesOnTheirWay(l)

(* The projection says nothing that is not in the log, and, of a loan that *)
(* has been folded in once, everything up to lastSeq except events still   *)
(* to be folded in by their own goroutine and those whose Append failed    *)
(* (refresh, applyAppended).                                               *)
ProjectionFaithful ==
    LET Seen == {n \in DOMAIN log \ lost :
                   /\ n <= lastSeq
                   /\ ~\E p \in Procs : pc[p] = "apply" /\ job[p].seq = n}
    IN
    \A l \in Loans :
        /\ st[l].known => \E n \in Numbers(l, "originated") :
                             st[l].terms = log[n].terms /\ st[l].at = log[n].at
        /\ st[l].missed \subseteq {log[n].no : n \in Numbers(l, "missed")}
        /\ st[l].defaulted => Numbers(l, "defaulted") # {}
        /\ st[l].repaid => Numbers(l, "repaid") # {}
        /\ Numbers(l, "originated") \cap Seen # {} => listed[l] > 0
        /\ listed[l] = 1 =>
             /\ {log[n].no : n \in Numbers(l, "missed") \cap Seen} \subseteq st[l].missed
             /\ Numbers(l, "defaulted") \cap Seen # {} => st[l].defaulted
             /\ Numbers(l, "repaid") \cap Seen # {} => st[l].repaid

(* A loan that no two requests worked on at a time is closed once: in      *)
(* default or repaid, with nothing outstanding.  None of its installments  *)
(* is missed twice, or missed and paid, unless an event of it is unknown   *)
(* here because its Append failed (Repay, MissPayment, Default, Tick).     *)
BooksAgree ==
    \A l \in Loans \ raced :
        LET Missed == Numbers(l, "missed")
            Ended  == Numbers(l, "defaulted") \cup Numbers(l, "repaid")
        IN
        /\ Cardinality(Ended) <= 1
        /\ Ended # {} => recv[l] <= 0
        /\ lost \cap Missed = {} =>
             /\ \A m, n \in Missed : log[m].no = log[n].no => m = n
             /\ \A n \in Missed : log[n].no \notin paid[l]

(* When AdvanceTime is about to answer, no active loan that it alone was   *)
(* working on has an installment left that is past its grace period and    *)
(* neither paid nor missed, however many fell due in the jump (AdvanceTime,*)
(* tickUntilStable, Tick).                                                 *)
AdvanceServicesAll ==
    \A p \in Procs : pc[p] = "served" =>
        \A l \in Loans \ raced :
            (st[l].known /\ Status(st[l], recv[l]) = "active") =>
                \A no \in Scheduled(st[l], paid[l]) :
                    ~Overdue(st[l], no, job[p].grace)

(* Tick marks an installment missed only when it is past its due date and  *)
(* grace period (Tick).                                                    *)
TickMissesOverdue == early = {}
=============================================================================
