------------------------------ MODULE Account ------------------------------
(***************************************************************************)
(* internal/account: deposits and purchases of one customer, whose USD and *)
(* USDC balances are two accounts of the ledger.  A purchase reads the one *)
(* balance, then the other, quotes the second in dollars, has the          *)
(* spend_waterfall rule decide and posts one transaction per funding leg,  *)
(* all without a lock; other requests and rule edits run in between.       *)
(* Postings are atomic here; module Ledger takes them apart.               *)
(***************************************************************************)
EXTENDS Exchange, Waterfall, FiniteSets, FiniteSetsExt

CONSTANTS
    Procs,          \* request goroutines
    Waterfalls,     \* contents the spend_waterfall rule may get
    Policies,       \* contents the fx_policy rule may get, [rate, mode]
    Amounts,        \* amounts of a purchase, in cents
    SeedAmount,     \* [Currencies -> Nat], what Seed deposits
    MaxPurchases, MaxBulk, MaxDeposits, MaxEdits, MaxFaults     \* bounds

Currencies == {"USD", "USDC"}

ASSUME AccountAssumption ==
    /\ Waterfalls \subseteq WaterfallContent
    /\ Policies \subseteq [rate : Nat, mode : Modes]
    /\ Amounts \subseteq Nat \ {0}
    /\ SeedAmount \in [Currencies -> Nat \ {0}]
    /\ {MaxPurchases, MaxBulk, MaxEdits, MaxFaults} \subseteq Nat
    /\ MaxDeposits \in Nat \ {0}

VARIABLES
    opened,     \* the customer's ledger accounts that exist
    bal,        \* their balances in minor units
    deposits,   \* how many deposit transactions each has
    legs,       \* the purchase transactions posted
    rule,       \* live content of spend_waterfall
    fx,         \* live content of fx_policy
    lived,      \* history: the contents fx_policy has had
    pc,         \* step each goroutine is at
    job,        \* the purchase each goroutine is making
    outcome,    \* what the client of each purchase was told
    phase,      \* "open" | "fund" | "up": how far main() has come
    edits, faults,
    seeds,      \* history: deposits that Seed made
    stale,      \* history: what p read has changed to its disadvantage
    overlapped  \* history: a leg was posted on a stale reading

reads   == <<rule, fx, lived>>
books   == <<opened, bal, deposits, legs>>
clients == <<pc, job, outcome>>
history == <<seeds, stale, overlapped>>
vars    == <<books, reads, clients, phase, edits, faults, history>>

NoJob == [id |-> 0, left |-> 0, amount |-> 0, usd |-> 0, usdc |-> 0,
          worth |-> 0, funding |-> << >>, minor |-> 0]

Init ==
    /\ opened = {}
    /\ bal = [c \in Currencies |-> 0]
    /\ deposits = [c \in Currencies |-> 0]
    /\ legs = {}
    /\ rule \in Waterfalls
    /\ fx \in Policies
    /\ lived = {fx}
    /\ pc = [p \in Procs |-> "idle"]
    /\ job = [p \in Procs |-> NoJob]
    /\ outcome = << >>
    /\ phase = "open"
    /\ edits = 0
    /\ faults = 0
    /\ seeds = [c \in Currencies |-> 0]
    /\ stale = [p \in Procs |-> FALSE]
    /\ overlapped = FALSE

-----------------------------------------------------------------------------
(* Seed.  openCustomerAccount opens what is missing ...                    *)
openCustomerAccount ==
    /\ phase = "open"
    /\ IF opened = Currencies
       THEN phase' = "fund" /\ UNCHANGED opened
       ELSE /\ opened' = opened \cup {IF "USD" \in opened THEN "USDC" ELSE "USD"}
            /\ UNCHANGED phase
    /\ UNCHANGED <<bal, deposits, legs, reads, clients, edits, faults, history>>

(* ... and depositIfEmpty funds an account that has never had a deposit.   *)
NeedsSeed_ByBalance(c) == bal[c] = 0

NeedsSeed(c) == deposits[c] = 0

depositIfEmpty ==
    /\ phase = "fund"
    /\ IF \E c \in Currencies : NeedsSeed(c)
       THEN LET c == IF NeedsSeed("USD") THEN "USD" ELSE "USDC" IN
            /\ bal' = [bal EXCEPT ![c] = @ + SeedAmount[c]]
            /\ deposits' = [deposits EXCEPT ![c] = @ + 1]
            /\ seeds' = [seeds EXCEPT ![c] = @ + 1]
            /\ UNCHANGED phase
       ELSE phase' = "up" /\ UNCHANGED <<bal, deposits, seeds>>
    /\ UNCHANGED <<opened, legs, reads, clients, edits, faults, stale, overlapped>>

-----------------------------------------------------------------------------
Deposit ==
    /\ phase = "up"
    /\ \E c \in Currencies, minor \in Amounts :
         /\ deposits["USD"] + deposits["USDC"] < MaxDeposits
         /\ bal' = [bal EXCEPT ![c] = @ + minor]
         /\ deposits' = [deposits EXCEPT ![c] = @ + 1]
    /\ UNCHANGED <<opened, legs, reads, clients, phase, edits, faults, history>>

(* Goroutine p begins a purchase, with left more to make after it.         *)
Begin(p, left) ==
    /\ Len(outcome) < MaxPurchases
    /\ \E a \in Amounts :
         job' = [job EXCEPT ![p] = [NoJob EXCEPT !.id = Len(outcome) + 1,
                                                 !.left = left, !.amount = a]]
    /\ outcome' = Append(outcome, "running")
    /\ pc' = [pc EXCEPT ![p] = "usd"]
    /\ UNCHANGED <<books, reads, phase, edits, faults, history>>

(* Purchase makes one; BulkRandomPurchases several, one after the other.   *)
BulkRandomPurchases(p) ==
    /\ phase = "up"
    /\ pc[p] = "idle"
    /\ \E n \in 1..MaxBulk : Begin(p, n - 1)

NextPurchase(p) == pc[p] = "next" /\ Begin(p, job[p].left - 1)

(* Purchase returns.  A bulk goes on after a decline and stops at an error.*)
Answer(p, result) ==
    /\ outcome' = [outcome EXCEPT ![job[p].id] = result]
    /\ pc' = [pc EXCEPT ![p] = IF result = "error" \/ job[p].left = 0
                               THEN "idle" ELSE "next"]

(* Two calls of Balance, then the quote.                                   *)
ReadUSD(p) ==
    /\ pc[p] = "usd"
    /\ job' = [job EXCEPT ![p].usd = bal["USD"]]
    /\ stale' = [stale EXCEPT ![p] = FALSE]
    /\ pc' = [pc EXCEPT ![p] = "usdc"]
    /\ UNCHANGED <<books, reads, outcome, phase, edits, faults, seeds, overlapped>>

ReadUSDC(p) ==
    /\ pc[p] = "usdc"
    /\ job' = [job EXCEPT ![p].usdc = bal["USDC"]]
    /\ pc' = [pc EXCEPT ![p] = "quote"]
    /\ UNCHANGED <<books, reads, outcome, phase, edits, faults, history>>

Quote(p) ==
    /\ pc[p] = "quote"
    /\ job' = [job EXCEPT ![p].worth = QuoteToUSD(job[p].usdc, fx)]
    /\ pc' = [pc EXCEPT ![p] = "evaluate"]
    /\ UNCHANGED <<books, reads, outcome, phase, edits, faults, history>>

Evaluate(p) ==
    LET j == job[p]
        d == EvaluateWaterfall(rule, j.amount, j.usd, j.worth)
    IN
    /\ pc[p] = "evaluate"
    /\ job' = [job EXCEPT ![p].funding = d.funding]
    /\ IF d.decision = "approved"
       THEN pc' = [pc EXCEPT ![p] = "leg"] /\ UNCHANGED outcome
       ELSE Answer(p, d.decision)
    /\ UNCHANGED <<books, reads, phase, edits, faults, history>>

(* The next leg: a USDC leg is quoted back into USDC, with the policy that *)
(* is live by now ...                                                      *)
LegQuote(p) ==
    LET leg == Head(job[p].funding) IN
    /\ pc[p] = "leg"
    /\ leg.currency = "USD" \/ Invertible(fx)
    /\ job' = [job EXCEPT ![p].minor = IF leg.currency = "USD" THEN leg.cents
                                       ELSE QuoteToUSDC(leg.cents, fx)]
    /\ pc' = [pc EXCEPT ![p] = "post"]
    /\ UNCHANGED <<books, reads, outcome, phase, edits, faults, history>>

QuoteRefused(p) ==
    /\ pc[p] = "leg"
    /\ Head(job[p].funding).currency = "USDC" /\ ~Invertible(fx)
    /\ Answer(p, "error")
    /\ UNCHANGED <<books, reads, job, phase, edits, faults, history>>

(* ... and posted.  Post looks at no balance.                              *)
PostLeg(p) ==
    LET j == job[p]
        leg == Head(j.funding)
    IN
    /\ bal' = [bal EXCEPT ![leg.currency] = @ - j.minor]
    /\ legs' = legs \cup {[id |-> j.id, currency |-> leg.currency,
                           minor |-> j.minor, cents |-> leg.cents,
                           amount |-> j.amount]}
    /\ stale' = [q \in Procs |-> stale[q] \/ (q # p /\ pc[q] # "idle")]
    /\ overlapped' = (overlapped \/ stale[p])
    /\ UNCHANGED <<opened, deposits, reads, phase, edits, seeds>>

Post_NoEnd(p) ==            \* goes on after the last leg
    /\ pc[p] = "post"
    /\ job[p].minor > 0
    /\ PostLeg(p)
    /\ job' = [job EXCEPT ![p].funding = Tail(@)]
    /\ pc' = [pc EXCEPT ![p] = "leg"]
    /\ UNCHANGED <<outcome, faults>>

Post(p) ==
    LET rest == Tail(job[p].funding) IN
    /\ pc[p] = "post"
    /\ job[p].minor > 0
    /\ PostLeg(p)
    /\ job' = [job EXCEPT ![p].funding = rest]
    /\ IF rest = << >> THEN Answer(p, "approved")
       ELSE pc' = [pc EXCEPT ![p] = "leg"] /\ UNCHANGED outcome
    /\ UNCHANGED faults

(* Post refuses a leg that came out as nothing; Purchase returns the error.*)
PostRefused(p) ==
    /\ pc[p] = "post"
    /\ job[p].minor <= 0
    /\ Answer(p, "error")
    /\ UNCHANGED <<books, reads, job, phase, edits, faults, history>>

-----------------------------------------------------------------------------
(* Failures of the database: a call fails without effect, ...              *)
StoreError(p) ==
    /\ pc[p] \in {"usd", "usdc", "evaluate", "post"}
    /\ faults < MaxFaults
    /\ faults' = faults + 1
    /\ Answer(p, "error")
    /\ UNCHANGED <<books, reads, job, phase, edits, history>>

(* ... or after the leg is posted, while it is settled and finalised.      *)
PostLost_Ignored(p) ==      \* the error is not passed on
    /\ pc[p] = "post"
    /\ job[p].minor > 0
    /\ faults < MaxFaults
    /\ faults' = faults + 1
    /\ PostLeg(p)
    /\ Answer(p, "approved")
    /\ UNCHANGED job

PostLost(p) ==
    /\ pc[p] = "post"
    /\ job[p].minor > 0
    /\ faults < MaxFaults
    /\ faults' = faults + 1
    /\ PostLeg(p)
    /\ Answer(p, "error")
    /\ UNCHANGED job

(* The process dies and is started again: no request is answered any more. *)
Crash ==
    /\ faults < MaxFaults
    /\ faults' = faults + 1
    /\ pc' = [p \in Procs |-> "idle"]
    /\ job' = [p \in Procs |-> NoJob]
    /\ outcome' = [i \in DOMAIN outcome |->
                     IF outcome[i] = "running" THEN "error" ELSE outcome[i]]
    /\ phase' = "open"
    /\ stale' = [p \in Procs |-> FALSE]
    /\ UNCHANGED <<books, reads, edits, seeds, overlapped>>

(* A save of one of the two rules.                                         *)
EditWaterfall ==
    /\ phase = "up"
    /\ edits < MaxEdits
    /\ edits' = edits + 1
    /\ rule' \in Waterfalls \ {rule}
    /\ UNCHANGED <<books, fx, lived, clients, phase, faults, history>>

EditPolicy ==
    /\ phase = "up"
    /\ edits < MaxEdits
    /\ edits' = edits + 1
    /\ fx' \in Policies \ {fx}
    /\ lived' = lived \cup {fx'}
    /\ stale' = [p \in Procs |-> stale[p] \/ pc[p] \in {"evaluate", "leg", "post"}]
    /\ UNCHANGED <<books, rule, clients, phase, faults, seeds, overlapped>>

Step(p) == \/ BulkRandomPurchases(p) \/ NextPurchase(p) \/ ReadUSD(p)
           \/ ReadUSDC(p) \/ Quote(p) \/ Evaluate(p) \/ LegQuote(p)
           \/ QuoteRefused(p) \/ Post(p) \/ PostRefused(p) \/ StoreError(p) \/ PostLost(p)

Next == \/ openCustomerAccount \/ depositIfEmpty \/ Deposit
        \/ \E p \in Procs : Step(p)
        \/ Crash
        \/ EditWaterfall \/ EditPolicy

Spec == Init /\ [][Next]_vars

-----------------------------------------------------------------------------
(* Types; a goroutine in the loop over the legs has a leg left to post and *)
(* has not answered its client (Purchase).                                 *)
TypeOK ==
    /\ opened \subseteq Currencies
    /\ bal \in [Currencies -> Int]
    /\ deposits \in [Currencies -> Nat]
    /\ rule \in Waterfalls /\ fx \in lived /\ lived \subseteq Policies
    /\ pc \in [Procs -> {"idle", "next", "usd", "usdc", "quote", "evaluate",
                         "leg", "post"}]
    /\ \A p \in Procs : pc[p] \in {"leg", "post"} =>
         job[p].funding # << >> /\ outcome[job[p].id] = "running"
    /\ outcome \in Seq({"running", "approved", "declined", "error"})
    /\ phase \in {"open", "fund", "up"}
    /\ edits \in 0..MaxEdits /\ faults \in 0..MaxFaults

(* Whatever order the waterfall's conditions are edited into, the decision *)
(* a purchase acts on covers its amount exactly and asks of no balance     *)
(* more than was read there (EvaluateWaterfall, Purchase).                 *)
FundingCovers ==
    \A p \in Procs :
        LET j == job[p] IN
        (pc[p] \in {"leg", "post"} /\ \A l \in legs : l.id # j.id)
            => Covers(j.funding, j.amount, j.usd, j.worth)

(* A shortfall that the rounding of one leg's quotes at policy f explains: *)
(* half a cent at its rate, half a unit of the inverted rate for each cent *)
(* of the leg and half a minor unit, over a common denominator; nothing if *)
(* quotes are rounded down.                                                *)
RoundedUp(short, cents, f) ==
    /\ f.mode # "down" /\ Invertible(f)
    /\ 2 * f.rate * Scale * short
         <= Unit * Scale * Scale + cents * Unit * f.rate + Scale * f.rate

(* A customer's balances do not go negative, beyond the rounding of the    *)
(* quotes of one USDC leg (Purchase checks balances that Post does not     *)
(* check again).                                                           *)
BalancesHeld ==
    /\ bal["USD"] >= 0
    /\ \/ bal["USDC"] >= 0
       \/ \E l \in legs, f \in lived :
            l.currency = "USDC" /\ RoundedUp(-bal["USDC"], l.cents, f)

(* That holds unless purchases overlapped or the rate was edited during    *)
(* one.                                                                    *)
NoOverdraft == overlapped \/ BalancesHeld

(* Seed funds each account once, over all restarts and whatever has been   *)
(* spent or deposited meanwhile (Seed, depositIfEmpty).                    *)
SeededOnce ==
    \A c \in Currencies :
        /\ seeds[c] <= 1
        /\ phase = "up" => seeds[c] = 1 /\ c \in opened

Funded(i) == MapThenSumSet(LAMBDA l : l.cents, {l \in legs : l.id = i})

(* The client is told "approved" only when the posted legs add up to the   *)
(* amount, and no more than the amount is ever posted for a purchase; a    *)
(* declined purchase posts nothing (Purchase).                             *)
AnswersTrue ==
    \A i \in DOMAIN outcome :
        /\ outcome[i] = "declined" => Funded(i) = 0
        /\ outcome[i] = "approved" => Funded(i) > 0
        /\ \A l \in legs : l.id = i =>
             /\ outcome[i] = "approved" => Funded(i) = l.amount
             /\ Funded(i) <= l.amount

(* The purchases that ListPurchases shows, each with status "approved".    *)
ListPurchases == {l.id : l \in legs}

(* Once all requests are answered, ListPurchases shows the approved        *)
(* purchases and no others.                                                *)
ListedAreApproved ==
    (phase = "up" /\ \A p \in Procs : pc[p] = "idle") =>
        ListPurchases = {i \in DOMAIN outcome : outcome[i] = "approved"}
=============================================================================
