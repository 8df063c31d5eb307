--------------------------- MODULE AccountProofs ---------------------------
(***************************************************************************)
(* Proofs about the waterfall and the purchases of module Account.         *)
(***************************************************************************)
EXTENDS Account, SumTheorems, SequenceTheorems, TLAPS

(* Multiplication by a natural number is monotone.                         *)
LEMMA MulMono ==
    ASSUME NEW a \in Nat, NEW x \in Int, NEW y \in Int, x <= y
    PROVE  a * x <= a * y
    OBVIOUS

(* One leg for the whole amount or one for each balance, within them.      *)
SplitsOver(f, first, b1, second, b2, amount) ==
    \/ Len(f) = 1 /\ f = <<Leg(second, amount, 100)>> /\ amount <= b2
    \/ Len(f) = 1 /\ f = <<Leg(first, amount, 100)>> /\ amount <= b1
    \/ \E x \in 1..amount - 1, pct \in 0..100 :
         /\ f = <<Leg(first, x, pct), Leg(second, amount - x, 100 - pct)>>
         /\ x <= b1 /\ amount - x <= b2

(* What approvedSplit returns for balances that together suffice covers    *)
(* the amount (approvedSplit in waterfall.go).                             *)
LEMMA SplitCovers ==
    ASSUME NEW first \in Currencies, NEW second \in Currencies, first # second,
           NEW b1 \in Int, NEW b2 \in Int, NEW amount \in Nat \ {0},
           b1 + b2 >= amount
    PROVE  SplitsOver(approvedSplit(first, b1, second, amount),
                      first, b1, second, b2, amount)
    <1> DEFINE portion == IF b1 > amount THEN amount
                          ELSE IF b1 < 0 THEN 0 ELSE b1
               pct == (portion * 100) \div amount
    <1>1. portion \in 0..amount /\ (portion > 0 => portion <= b1)
        OBVIOUS
    <1>2. amount - portion > 0 => amount - portion <= b2
        OBVIOUS
    <1>3. pct \in 0..100
        <2>1. portion * 100 \in Nat /\ portion * 100 <= 100 * amount
            BY <1>1
        <2> HIDE DEF portion
        <2>2. pct \in Int /\ amount * pct <= portion * 100
                          /\ portion * 100 < amount * pct + amount
            BY <2>1, <1>1
        <2> HIDE DEF pct
        <2>3. pct <= 100
            <3>1. SUFFICES ASSUME pct >= 101 PROVE FALSE
                BY <2>2
            <3>2. amount * 101 <= amount * pct
                BY <2>2, <3>1, MulMono
            <3>3. QED
                BY <2>1, <2>2, <3>2
        <2>4. pct >= 0
            <3>1. SUFFICES ASSUME pct <= -1 PROVE FALSE
                BY <2>2
            <3>2. amount * pct <= amount * (-1)
                BY <2>2, <3>1, MulMono
            <3>3. QED
                BY <2>1, <2>2, <3>2
        <2>5. QED
            BY <2>2, <2>3, <2>4
    <1> HIDE DEF portion, pct
    <1>4. CASE portion = 0
        BY <1>2, <1>4 DEF approvedSplit, portion, SplitsOver
    <1>5. CASE portion = amount
        BY <1>1, <1>5 DEF approvedSplit, portion, SplitsOver
    <1>6. CASE portion \notin {0, amount}
        <2>1. approvedSplit(first, b1, second, amount)
                = <<Leg(first, portion, pct), Leg(second, amount - portion, 100 - pct)>>
            BY <1>6 DEF approvedSplit, portion, pct
        <2>2. portion \in 1..amount - 1
            BY <1>1, <1>6
        <2>3. QED
            BY <1>1, <1>2, <1>3, <2>1, <2>2 DEF SplitsOver
    <1>7. QED
        BY <1>4, <1>5, <1>6

(* A decision to approve covers the amount, for every content of the rule  *)
(* and every pair of balances (EvaluateWaterfall).                         *)
THEOREM WaterfallCovers ==
    ASSUME NEW content \in WaterfallContent, NEW amount \in Nat \ {0},
           NEW usd \in Int, NEW usdc \in Int,
           EvaluateWaterfall(content, amount, usd, usdc).decision = "approved"
    PROVE  Covers(EvaluateWaterfall(content, amount, usd, usdc).funding,
                  amount, usd, usdc)
    <1> DEFINE conds == content.conditions
               hits == {i \in 1..Len(conds) :
                          Applies(conds[i], content.allow_split, amount, usd, usdc)}
               first == CHOOSE i \in hits : \A j \in hits : i <= j
               name == conds[first]
    <1>1. hits # {}
        BY DEF EvaluateWaterfall
    <1>2. hits \subseteq Nat /\ \A i \in hits : i \in 1..Len(conds)
        BY DEF WaterfallContent
    <1>3. first \in hits
        <2>1. \E i \in hits : \A j \in hits : i <= j
            BY <1>1, <1>2, LeastNatural
        <2>2. QED
            BY <2>1
    <1>4. /\ name # "decline"
          /\ EvaluateWaterfall(content, amount, usd, usdc).funding
               = Funding(name, amount, usd, usdc)
        BY <1>1 DEF EvaluateWaterfall
    <1>5. Applies(name, content.allow_split, amount, usd, usdc)
        BY <1>3
    <1> HIDE DEF name
    <1>6. CASE name = "prefer_fiat_if_sufficient"
        BY <1>4, <1>5, <1>6 DEF Applies, Funding, approvedSingle, Covers, Leg
    <1>7. CASE name = "prefer_stablecoin_if_sufficient"
        BY <1>4, <1>5, <1>7 DEF Applies, Funding, approvedSingle, Covers, Leg
    <1>8. CASE name = "split_fiat_then_stablecoin"
        <2>1. usd + usdc >= amount
            BY <1>5, <1>8 DEF Applies
        <2>2. Funding(name, amount, usd, usdc) = approvedSplit("USD", usd, "USDC", amount)
            BY <1>8 DEF Funding
        <2> DEFINE f == approvedSplit("USD", usd, "USDC", amount)
        <2>0. SUFFICES Covers(f, amount, usd, usdc)
            BY <1>4, <2>2
        <2>3. \/ f = <<Leg("USDC", amount, 100)>> /\ amount <= usdc
              \/ f = <<Leg("USD", amount, 100)>> /\ amount <= usd
              \/ \E n \in 1..amount - 1, pct \in 0..100 :
                   /\ f = <<Leg("USD", n, pct), Leg("USDC", amount - n, 100 - pct)>>
                   /\ n <= usd /\ amount - n <= usdc
            BY <2>1, SplitCovers DEF Currencies, SplitsOver
        <2> HIDE DEF f
        <2>4. CASE f = <<Leg("USDC", amount, 100)>> /\ amount <= usdc
            <3>1. Covers(<<Leg("USDC", amount, 100)>>, amount, usd, usdc)
                BY <2>4 DEF Covers, Leg
            <3>2. QED
                BY <2>4, <3>1
        <2>5. CASE f = <<Leg("USD", amount, 100)>> /\ amount <= usd
            <3>1. Covers(<<Leg("USD", amount, 100)>>, amount, usd, usdc)
                BY <2>5 DEF Covers, Leg
            <3>2. QED
                BY <2>5, <3>1
        <2>6. ASSUME NEW n \in 1..amount - 1, NEW pct \in 0..100,
                     f = <<Leg("USD", n, pct), Leg("USDC", amount - n, 100 - pct)>>,
                     n <= usd, amount - n <= usdc
              PROVE  Covers(f, amount, usd, usdc)
            <3>1. Covers(<<Leg("USD", n, pct), Leg("USDC", amount - n, 100 - pct)>>,
                         amount, usd, usdc)
                BY <2>6 DEF Covers, Leg
            <3>2. QED
                BY <2>6, <3>1
        <2>7. QED
            BY <2>3, <2>4, <2>5, <2>6
    <1>9. CASE name = "split_stablecoin_then_fiat"
        <2>1. usdc + usd >= amount
            BY <1>5, <1>9 DEF Applies
        <2>2. Funding(name, amount, usd, usdc) = approvedSplit("USDC", usdc, "USD", amount)
            BY <1>9 DEF Funding
        <2> DEFINE f == approvedSplit("USDC", usdc, "USD", amount)
        <2>0. SUFFICES Covers(f, amount, usd, usdc)
            BY <1>4, <2>2
        <2>3. \/ f = <<Leg("USD", amount, 100)>> /\ amount <= usd
              \/ f = <<Leg("USDC", amount, 100)>> /\ amount <= usdc
              \/ \E n \in 1..amount - 1, pct \in 0..100 :
                   /\ f = <<Leg("USDC", n, pct), Leg("USD", amount - n, 100 - pct)>>
                   /\ n <= usdc /\ amount - n <= usd
            BY <2>1, SplitCovers DEF Currencies, SplitsOver
        <2> HIDE DEF f
        <2>4. CASE f = <<Leg("USD", amount, 100)>> /\ amount <= usd
            <3>1. Covers(<<Leg("USD", amount, 100)>>, amount, usd, usdc)
                BY <2>4 DEF Covers, Leg
            <3>2. QED
                BY <2>4, <3>1
        <2>5. CASE f = <<Leg("USDC", amount, 100)>> /\ amount <= usdc
            <3>1. Covers(<<Leg("USDC", amount, 100)>>, amount, usd, usdc)
                BY <2>5 DEF Covers, Leg
            <3>2. QED
                BY <2>5, <3>1
        <2>6. ASSUME NEW n \in 1..amount - 1, NEW pct \in 0..100,
                     f = <<Leg("USDC", n, pct), Leg("USD", amount - n, 100 - pct)>>,
                     n <= usdc, amount - n <= usd
              PROVE  Covers(f, amount, usd, usdc)
            <3>1. Covers(<<Leg("USDC", n, pct), Leg("USD", amount - n, 100 - pct)>>,
                         amount, usd, usdc)
                BY <2>6 DEF Covers, Leg
            <3>2. QED
                BY <2>6, <3>1
        <2>7. QED
            BY <2>3, <2>4, <2>5, <2>6
    <1>10. QED
        BY <1>4, <1>5, <1>6, <1>7, <1>8, <1>9 DEF Applies

-----------------------------------------------------------------------------
(* Seeding.  Every account that has a deposit was seeded once, and those   *)
(* come before the server is up.                                           *)
SeedInv ==
    /\ opened \subseteq Currencies
    /\ deposits \in [Currencies -> Nat]
    /\ seeds \in [Currencies -> Nat]
    /\ phase \in {"open", "fund", "up"}
    /\ \A c \in Currencies : seeds[c] = IF deposits[c] = 0 THEN 0 ELSE 1
    /\ phase \in {"fund", "up"} => opened = Currencies
    /\ phase = "up" => \A c \in Currencies : deposits[c] > 0

(* Steps that leave seeding alone.                                         *)
LEMMA NotSeeding ==
    ASSUME NEW p \in Procs, Step(p)
    PROVE  UNCHANGED <<opened, deposits, seeds, phase>>
    BY DEF Step, BulkRandomPurchases, NextPurchase, Begin, ReadUSD, ReadUSDC,
           Quote, Evaluate, LegQuote, QuoteRefused, Post, PostRefused, StoreError, PostLost,
           PostLeg, books, history

(* Each step keeps SeedInv.                                                *)
LEMMA SeedInductive ==
    ASSUME SeedInv, [Next]_vars
    PROVE  SeedInv'
    <1>1. CASE UNCHANGED <<opened, deposits, seeds, phase>>
        BY <1>1 DEF SeedInv
    <1>2. CASE openCustomerAccount
        BY <1>2 DEF openCustomerAccount, SeedInv, history, Currencies
    <1>3. CASE depositIfEmpty
        <2>1. CASE \E c \in Currencies : NeedsSeed(c)
            <3> DEFINE c == IF NeedsSeed("USD") THEN "USD" ELSE "USDC"
            <3>1. c \in Currencies /\ deposits[c] = 0
                BY <2>1 DEF NeedsSeed, Currencies
            <3>2. /\ deposits' = [deposits EXCEPT ![c] = @ + 1]
                  /\ seeds' = [seeds EXCEPT ![c] = @ + 1]
                  /\ UNCHANGED <<opened, phase>> /\ phase = "fund"
                BY <1>3, <2>1 DEF depositIfEmpty
            <3> HIDE DEF c
            <3>3. QED
                BY <3>1, <3>2 DEF SeedInv
        <2>2. CASE ~\E c \in Currencies : NeedsSeed(c)
            BY <1>3, <2>2 DEF depositIfEmpty, NeedsSeed, SeedInv
        <2>3. QED
            BY <2>1, <2>2
    <1>4. CASE Deposit
        <2>1. PICK c \in Currencies : deposits' = [deposits EXCEPT ![c] = @ + 1]
            BY <1>4 DEF Deposit
        <2>2. UNCHANGED <<opened, seeds, phase>> /\ phase = "up"
            BY <1>4 DEF Deposit, history
        <2>3. QED
            BY <2>1, <2>2 DEF SeedInv
    <1>5. CASE Crash
        BY <1>5 DEF Crash, SeedInv, books
    <1>6. CASE EditWaterfall \/ EditPolicy
        BY <1>1, <1>6 DEF EditWaterfall, EditPolicy, books, history
    <1>7. CASE \E p \in Procs : Step(p)
        BY <1>1, <1>7, NotSeeding
    <1>8. CASE UNCHANGED vars
        BY <1>1, <1>8 DEF vars, books, history
    <1>9. QED
        BY <1>2, <1>3, <1>4, <1>5, <1>6, <1>7, <1>8 DEF Next

(* Over any number of restarts, with whatever was spent and deposited in   *)
(* between, Seed funds each account exactly once (Seed, depositIfEmpty).   *)
THEOREM SeedingOnce == Spec => []SeededOnce
    <1>1. Init => SeedInv
        BY DEF Init, SeedInv, Currencies
    <1>2. SeedInv /\ [Next]_vars => SeedInv'
        BY SeedInductive
    <1>3. SeedInv => SeededOnce
        BY DEF SeedInv, SeededOnce
    <1>4. QED
        BY <1>1, <1>2, <1>3, PTL DEF Spec
-----------------------------------------------------------------------------
(* A purchase between its first read and its answer.                       *)
Making == {"usd", "usdc", "quote", "evaluate", "leg", "post"}

LegsOf(i) == {l \in legs : l.id = i}

(* What is posted for purchase i is a part of its amount, or all of it in  *)
(* one leg or in two.                                                      *)
PartPaid(i) == \E l \in legs :
    LegsOf(i) = {l} /\ l.cents \in 1..l.amount - 1

FullyPaid(i) ==
    \/ \E l \in legs : LegsOf(i) = {l} /\ l.cents = l.amount /\ l.cents \in Nat \ {0}
    \/ \E l, m \in legs :
         /\ LegsOf(i) = {l, m} /\ l # m
         /\ l.amount = m.amount
         /\ l.cents \in Nat \ {0} /\ m.cents \in Nat \ {0}
         /\ l.cents + m.cents = l.amount

FundingLegs == [currency : Currencies, cents : Nat \ {0}, share_pct : 0..100]

(* The legs still to be posted are all of the funding, or the second leg   *)
(* when the first is posted.                                               *)
ToPost(j) ==
    \/ LegsOf(j.id) = {} /\ Covers(j.funding, j.amount, j.usd, j.worth)
    \/ \E l \in legs :
         /\ LegsOf(j.id) = {l}
         /\ Len(j.funding) = 1
         /\ l.currency # j.funding[1].currency
         /\ l.amount = j.amount
         /\ l.cents \in Nat \ {0}
         /\ l.cents + j.funding[1].cents = j.amount

OwnJob(j, at) ==
    /\ j.id \in DOMAIN outcome /\ outcome[j.id] = "running"
    /\ j.amount \in Amounts
    /\ at \in {"usd", "usdc", "quote", "evaluate"} => LegsOf(j.id) = {}
    /\ at \in {"leg", "post"} => j.funding \in Seq(FundingLegs) /\ ToPost(j)

JobOK(p) ==
    /\ OwnJob(job[p], pc[p])
    /\ \A q \in Procs : q # p /\ pc[q] \in Making => job[q].id # job[p].id

JobType == [id : Nat, left : Int, amount : Nat, usd : Int, usdc : Int,
            worth : Int, funding : Seq(FundingLegs), minor : Int]

BookInv ==
    /\ opened \subseteq Currencies
    /\ bal \in [Currencies -> Int]
    /\ deposits \in [Currencies -> Nat]
    /\ \A l \in legs : l.id \in DOMAIN outcome /\ l.amount \in Nat

PaidInv ==
    \A i \in DOMAIN outcome :
        /\ LegsOf(i) = {} \/ PartPaid(i) \/ FullyPaid(i)
        /\ outcome[i] = "declined" => LegsOf(i) = {}
        /\ outcome[i] = "approved" => FullyPaid(i)

ControlInv ==
    /\ rule \in Waterfalls /\ fx \in lived /\ lived \subseteq Policies
    /\ pc \in [Procs -> {"idle", "next"} \cup Making]
    /\ job \in [Procs -> JobType]
    /\ outcome \in Seq({"running", "approved", "declined", "error"})
    /\ phase \in {"open", "fund", "up"}
    /\ edits \in 0..MaxEdits /\ faults \in 0..MaxFaults

PurchaseInv == BookInv /\ ControlInv /\ PaidInv
                 /\ \A p \in Procs : pc[p] \in Making => JobOK(p)

(* Quotes are integers where the code answers one.                         *)
LEMMA QuotesTyped ==
    ASSUME NEW f \in Policies, NEW n \in Int
    PROVE  QuoteToUSD(n, f) \in Int /\ (Invertible(f) => QuoteToUSDC(n, f) \in Int)
    <1>1. f.rate \in Nat /\ f.mode \in Modes /\ (Invertible(f) => f.rate \in Nat \ {0})
        BY AccountAssumption DEF Invertible
    <1>2. Scale \in Nat \ {0} /\ Unit \in Nat \ {0}
        BY ExchangeAssumption
    <1>3. ASSUME NEW a \in Int, NEW d \in Nat \ {0}, NEW m
          PROVE  roundRat(a, d, m) \in Int
        BY <1>3 DEF roundRat
    <1>4. Invertible(f) => invertScaled(f.rate, f.mode) \in Int
        <2>1. Scale * Scale \in Int
            BY <1>2
        <2>2. QED
            BY <1>1, <1>3, <2>1 DEF invertScaled
    <1>5. Scale * Unit \in Nat \ {0}
        <2>1. Scale * Unit \in Nat /\ Scale * 1 <= Scale * Unit
            BY <1>2, MulMono
        <2>2. QED
            BY <1>2, <2>1
    <1>6. QuoteToUSD(n, f) \in Int
        <2>1. n * f.rate \in Int
            BY <1>1
        <2>2. QED
            BY <1>3, <1>5, <2>1 DEF QuoteToUSD
    <1>7. ASSUME Invertible(f) PROVE QuoteToUSDC(n, f) \in Int
        <2> DEFINE v == invertScaled(f.rate, f.mode)
        <2>0. v \in Int
            BY <1>4, <1>7
        <2> HIDE DEF v
        <2>1. n * v * Unit \in Int
            BY <1>2, <2>0
        <2>2. roundRat(n * v * Unit, Scale, f.mode) \in Int
            BY <1>2, <1>3, <2>1
        <2>3. QED
            BY <2>2 DEF QuoteToUSDC, v
    <1>8. QED
        BY <1>6, <1>7

(* The waterfall's funding is made of legs.                                *)
LEMMA SplitTyped ==
    ASSUME NEW c \in Currencies, NEW d \in Currencies, c # d,
           NEW b1 \in Int, NEW b2 \in Int, NEW amount \in Nat \ {0}, b1 + b2 >= amount
    PROVE  approvedSplit(c, b1, d, amount) \in Seq(FundingLegs)
    <1> DEFINE f == approvedSplit(c, b1, d, amount)
    <1>0. \A x \in Currencies, n \in Nat \ {0}, k \in 0..100 : Leg(x, n, k) \in FundingLegs
        BY DEF FundingLegs, Leg
    <1>1. \/ f = <<Leg(d, amount, 100)>>
          \/ f = <<Leg(c, amount, 100)>>
          \/ \E x \in 1..amount - 1, pct \in 0..100 :
               f = <<Leg(c, x, pct), Leg(d, amount - x, 100 - pct)>>
        <2>1. SplitsOver(f, c, b1, d, b2, amount)
            BY SplitCovers
        <2> HIDE DEF f
        <2>2. QED
            BY <2>1 DEF SplitsOver
    <1> HIDE DEF f
    <1>2. CASE f = <<Leg(d, amount, 100)>>
        <2>1. Leg(d, amount, 100) \in FundingLegs
            BY <1>0
        <2>2. QED
            BY <1>2, <2>1 DEF f
    <1>3. CASE f = <<Leg(c, amount, 100)>>
        <2>1. Leg(c, amount, 100) \in FundingLegs
            BY <1>0
        <2>2. QED
            BY <1>3, <2>1 DEF f
    <1>4. ASSUME NEW x \in 1..amount - 1, NEW pct \in 0..100,
                 f = <<Leg(c, x, pct), Leg(d, amount - x, 100 - pct)>>
          PROVE  f \in Seq(FundingLegs)
        <2>1. x \in Nat \ {0} /\ amount - x \in Nat \ {0} /\ 100 - pct \in 0..100
            OBVIOUS
        <2>2. Leg(c, x, pct) \in FundingLegs /\ Leg(d, amount - x, 100 - pct) \in FundingLegs
            BY <1>0, <2>1
        <2>3. QED
            BY <1>4, <2>2
    <1>5. QED
        BY <1>1, <1>2, <1>3, <1>4 DEF f

LEMMA FundingTyped ==
    ASSUME NEW content \in WaterfallContent, NEW amount \in Nat \ {0},
           NEW usd \in Int, NEW usdc \in Int
    PROVE  /\ EvaluateWaterfall(content, amount, usd, usdc).funding \in Seq(FundingLegs)
           /\ EvaluateWaterfall(content, amount, usd, usdc).decision
                \in {"approved", "declined", "error"}
    <1> DEFINE conds == content.conditions
               hits == {i \in 1..Len(conds) :
                          Applies(conds[i], content.allow_split, amount, usd, usdc)}
               first == CHOOSE i \in hits : \A j \in hits : i <= j
               name == conds[first]
               E == EvaluateWaterfall(content, amount, usd, usdc)
    <1>0. \A c \in Currencies, n \in Nat \ {0}, k \in 0..100 : Leg(c, n, k) \in FundingLegs
        BY DEF FundingLegs, Leg
    <1>1. CASE hits = {}
        BY <1>1 DEF EvaluateWaterfall
    <1>2. CASE hits # {}
        <2>1. hits \subseteq Nat
            BY DEF WaterfallContent
        <2>2. first \in hits
            <3>1. \E i \in hits : \A j \in hits : i <= j
                BY <1>2, <2>1, LeastNatural
            <3>2. QED
                BY <3>1
        <2>3. /\ E.decision = IF name = "decline" THEN "declined" ELSE "approved"
              /\ E.funding = Funding(name, amount, usd, usdc)
            BY <1>2 DEF EvaluateWaterfall
        <2>4. Applies(name, content.allow_split, amount, usd, usdc)
            BY <2>2
        <2> HIDE DEF name, E
        <2>5. Funding(name, amount, usd, usdc) \in Seq(FundingLegs)
            <3>1. CASE name = "prefer_fiat_if_sufficient"
                <4>1. Leg("USD", amount, 100) \in FundingLegs
                    BY <1>0 DEF Currencies
                <4>2. QED
                    BY <3>1, <4>1 DEF Funding, approvedSingle
            <3>2. CASE name = "prefer_stablecoin_if_sufficient"
                <4>1. Leg("USDC", amount, 100) \in FundingLegs
                    BY <1>0 DEF Currencies
                <4>2. QED
                    BY <3>2, <4>1 DEF Funding, approvedSingle
            <3>3. CASE name = "split_fiat_then_stablecoin"
                BY <2>4, <3>3, SplitTyped DEF Funding, Applies, Currencies
            <3>4. CASE name = "split_stablecoin_then_fiat"
                BY <2>4, <3>4, SplitTyped DEF Funding, Applies, Currencies
            <3>5. CASE name = "decline"
                BY <3>5 DEF Funding
            <3>6. QED
                BY <2>4, <3>1, <3>2, <3>3, <3>4, <3>5 DEF Applies
        <2>6. QED
            BY <2>3, <2>5 DEF E
    <1>3. QED
        BY <1>1, <1>2

(* A purchase another goroutine is making is left as it is.                *)
LEMMA JobKept ==
    ASSUME NEW q \in Procs, JobOK(q),
           pc'[q] = pc[q], job'[q] = job[q],
           job[q].id \in DOMAIN outcome',
           outcome'[job[q].id] = outcome[job[q].id],
           LegsOf(job[q].id)' = LegsOf(job[q].id),
           \A r \in Procs : r # q /\ pc'[r] \in Making => job'[r].id # job[q].id
    PROVE  JobOK(q)'
    <1>1. \A l \in LegsOf(job[q].id)' : l \in legs'
        BY DEF LegsOf
    <1>2. ToPost(job[q]) => ToPost(job[q])'
        <2> DEFINE i == job[q].id
        <2>1. LegsOf(i)' = LegsOf(i)
            OBVIOUS
        <2>2. \A l \in legs : LegsOf(i) = {l} => l \in legs'
            BY <1>1
        <2>3. QED
            BY <2>1, <2>2 DEF ToPost
    <1>3. QED
        BY <1>2 DEF JobOK, OwnJob

LEMMA PaidKept ==
    ASSUME NEW i, LegsOf(i)' = LegsOf(i)
    PROVE  /\ PartPaid(i) => PartPaid(i)'
           /\ FullyPaid(i) => FullyPaid(i)'
    <1>1. \A l \in LegsOf(i)' : l \in legs'
        BY DEF LegsOf
    <1>2. PartPaid(i) => PartPaid(i)'
        BY <1>1 DEF PartPaid
    <1>3. FullyPaid(i) => FullyPaid(i)'
        BY <1>1 DEF FullyPaid
    <1>4. QED
        BY <1>2, <1>3

LEMMA TypedInv ==
    ASSUME PurchaseInv
    PROVE  /\ bal \in [Currencies -> Int]
           /\ pc \in [Procs -> {"idle", "next"} \cup Making]
           /\ job \in [Procs -> JobType]
           /\ outcome \in Seq({"running", "approved", "declined", "error"})
           /\ \A p \in Procs : pc[p] \in Making => JobOK(p)
    BY DEF PurchaseInv, BookInv, ControlInv

(* What a step of goroutine p's purchase leaves as it was.                 *)
OthersKept(p, id) ==
    /\ \A q \in Procs \ {p} : pc'[q] = pc[q] /\ job'[q] = job[q]
    /\ DOMAIN outcome' = DOMAIN outcome
    /\ \A i \in DOMAIN outcome : i # id =>
         outcome'[i] = outcome[i] /\ LegsOf(i)' = LegsOf(i)

LEMMA OthersKeep ==
    ASSUME PurchaseInv, NEW p \in Procs, pc[p] \in Making,
           OthersKept(p, job[p].id), job'[p].id = job[p].id
    PROVE  /\ \A q \in Procs \ {p} : pc'[q] \in Making => JobOK(q)'
           /\ \A q \in Procs : q # p /\ pc'[q] \in Making => job'[q].id # job'[p].id
           /\ \A i \in DOMAIN outcome' : i # job[p].id =>
                /\ (LegsOf(i) = {} \/ PartPaid(i) \/ FullyPaid(i))'
                /\ outcome'[i] = "declined" => LegsOf(i)' = {}
                /\ outcome'[i] = "approved" => FullyPaid(i)'
    <1>1. JobOK(p) /\ \A q \in Procs : pc[q] \in Making => JobOK(q)
        BY TypedInv
    <1>2. ASSUME NEW q \in Procs \ {p}, pc'[q] \in Making
          PROVE  JobOK(q)'
        <2>1. pc'[q] = pc[q] /\ job'[q] = job[q]
            BY DEF OthersKept
        <2>2. JobOK(q) /\ job[q].id # job[p].id
            BY <1>1, <1>2, <2>1 DEF JobOK, OwnJob
        <2>3. /\ job[q].id \in DOMAIN outcome'
              /\ outcome'[job[q].id] = outcome[job[q].id]
              /\ LegsOf(job[q].id)' = LegsOf(job[q].id)
            BY <2>2 DEF JobOK, OwnJob, OthersKept
        <2>4. ASSUME NEW r \in Procs, r # q, pc'[r] \in Making
              PROVE  job'[r].id # job[q].id
            <3>1. CASE r = p
                BY <2>2, <3>1
            <3>2. CASE r # p
                BY <2>1, <2>2, <2>4, <3>2, <1>2 DEF OthersKept, JobOK, OwnJob
            <3>3. QED
                BY <3>1, <3>2
        <2>5. QED
            BY <2>1, <2>2, <2>3, <2>4, JobKept
    <1>3. ASSUME NEW q \in Procs, q # p, pc'[q] \in Making
          PROVE  job'[q].id # job'[p].id
        BY <1>1, <1>3 DEF OthersKept, JobOK, OwnJob
    <1>4. ASSUME NEW i \in DOMAIN outcome', i # job[p].id
          PROVE  /\ (LegsOf(i) = {} \/ PartPaid(i) \/ FullyPaid(i))'
                 /\ outcome'[i] = "declined" => LegsOf(i)' = {}
                 /\ outcome'[i] = "approved" => FullyPaid(i)'
        <2>1. i \in DOMAIN outcome /\ outcome'[i] = outcome[i] /\ LegsOf(i)' = LegsOf(i)
            BY <1>4 DEF OthersKept
        <2>2. /\ LegsOf(i) = {} \/ PartPaid(i) \/ FullyPaid(i)
              /\ outcome[i] = "declined" => LegsOf(i) = {}
              /\ outcome[i] = "approved" => FullyPaid(i)
            BY <2>1 DEF PurchaseInv, PaidInv
        <2>3. QED
            BY <2>1, <2>2, PaidKept
    <1>5. QED
        BY <1>2, <1>3, <1>4

(* So a step of a purchase has to answer for that purchase only.           *)
LEMMA PurchaseStep ==
    ASSUME PurchaseInv, NEW p \in Procs, pc[p] \in Making,
           OthersKept(p, job[p].id), job'[p].id = job[p].id,
           BookInv', ControlInv',
           pc'[p] \in Making => OwnJob(job[p], pc[p])',
           (LegsOf(job[p].id) = {} \/ PartPaid(job[p].id) \/ FullyPaid(job[p].id))',
           (outcome[job[p].id] = "declined" => LegsOf(job[p].id) = {})',
           (outcome[job[p].id] = "approved" => FullyPaid(job[p].id))'
    PROVE  PurchaseInv'
    <1>1. PaidInv'
        BY OthersKeep DEF PaidInv
    <1>2. ASSUME NEW q \in Procs, pc'[q] \in Making
          PROVE  JobOK(q)'
        <2>1. CASE q = p
            <3>1. OwnJob(job[p], pc[p])'
                BY <1>2, <2>1
            <3>2. \A r \in Procs : r # p /\ pc'[r] \in Making => job'[r].id # job'[p].id
                BY OthersKeep
            <3>3. QED
                BY <2>1, <3>1, <3>2 DEF JobOK
        <2>2. CASE q # p
            BY <1>2, <2>2, OthersKeep
        <2>3. QED
            BY <2>1, <2>2
    <1>3. QED
        BY <1>1, <1>2 DEF PurchaseInv

(* Steps that touch neither requests nor the transactions posted.          *)
LEMMA QuietStep ==
    ASSUME PurchaseInv, UNCHANGED <<legs, clients>>, BookInv', ControlInv'
    PROVE  PurchaseInv'
    <1>1. /\ legs' = legs /\ pc' = pc /\ job' = job /\ outcome' = outcome
        BY DEF clients
    <1>2. \A i : LegsOf(i)' = LegsOf(i)
        BY <1>1 DEF LegsOf
    <1>3. PaidInv'
        BY <1>1, <1>2, PaidKept DEF PaidInv, PurchaseInv
    <1>4. ASSUME NEW q \in Procs, pc'[q] \in Making
          PROVE  JobOK(q)'
        <2>1. JobOK(q)
            BY <1>1, <1>4, TypedInv
        <2>2. QED
            BY <1>1, <1>2, <2>1, JobKept DEF JobOK, OwnJob
    <1>5. QED
        BY <1>3, <1>4 DEF PurchaseInv

LEMMA SeedStep ==
    ASSUME PurchaseInv, openCustomerAccount \/ depositIfEmpty \/ Deposit
    PROVE  PurchaseInv'
    <1>1. /\ UNCHANGED <<legs, clients, reads, edits, faults>>
          /\ phase' \in {"open", "fund", "up"}
        BY DEF openCustomerAccount, depositIfEmpty, Deposit, clients, reads,
               PurchaseInv, ControlInv
    <1>2. ControlInv'
        BY <1>1 DEF PurchaseInv, ControlInv, clients, reads
    <1>3. opened' \subseteq Currencies
        BY DEF openCustomerAccount, depositIfEmpty, Deposit, PurchaseInv, BookInv, Currencies
    <1>4. bal' \in [Currencies -> Int] /\ deposits' \in [Currencies -> Nat]
        <2>1. CASE openCustomerAccount
            BY <2>1 DEF openCustomerAccount, PurchaseInv, BookInv
        <2>2. CASE depositIfEmpty
            <3> DEFINE c == IF NeedsSeed("USD") THEN "USD" ELSE "USDC"
            <3>1. c \in Currencies /\ SeedAmount[c] \in Nat
                BY AccountAssumption DEF Currencies
            <3>2. \/ UNCHANGED <<bal, deposits>>
                  \/ /\ bal' = [bal EXCEPT ![c] = @ + SeedAmount[c]]
                     /\ deposits' = [deposits EXCEPT ![c] = @ + 1]
                BY <2>2 DEF depositIfEmpty
            <3> HIDE DEF c
            <3>3. QED
                BY <3>1, <3>2 DEF PurchaseInv, BookInv
        <2>3. CASE Deposit
            <3>1. PICK c \in Currencies, minor \in Amounts :
                    /\ bal' = [bal EXCEPT ![c] = @ + minor]
                    /\ deposits' = [deposits EXCEPT ![c] = @ + 1]
                BY <2>3 DEF Deposit
            <3>2. minor \in Nat
                BY AccountAssumption
            <3>3. QED
                BY <3>1, <3>2 DEF PurchaseInv, BookInv
        <2>4. QED
            BY <2>1, <2>2, <2>3
    <1>5. BookInv'
        BY <1>1, <1>3, <1>4 DEF PurchaseInv, BookInv, clients
    <1>6. QED
        BY <1>1, <1>2, <1>5, QuietStep

LEMMA EditStep ==
    ASSUME PurchaseInv, EditWaterfall \/ EditPolicy
    PROVE  PurchaseInv'
    <1>1. UNCHANGED <<books, clients, phase, faults>> /\ edits' = edits + 1 /\ edits < MaxEdits
        BY DEF EditWaterfall, EditPolicy
    <1>2. rule' \in Waterfalls /\ fx' \in lived' /\ lived' \subseteq Policies
        BY DEF EditWaterfall, EditPolicy, PurchaseInv, ControlInv
    <1>3. edits' \in 0..MaxEdits
        BY <1>1, AccountAssumption DEF PurchaseInv, ControlInv
    <1>4. BookInv' /\ ControlInv'
        BY <1>1, <1>2, <1>3 DEF PurchaseInv, BookInv, ControlInv, books, clients
    <1>5. QED
        BY <1>1, <1>4, QuietStep DEF books

(* A purchase begins.                                                      *)
LEMMA BeginStep ==
    ASSUME PurchaseInv, NEW p \in Procs, NEW left \in Int, Begin(p, left),
           pc[p] \notin Making
    PROVE  PurchaseInv'
    <1> DEFINE id == Len(outcome) + 1
    <1>1. PICK a \in Amounts :
            job' = [job EXCEPT ![p] = [NoJob EXCEPT !.id = id, !.left = left, !.amount = a]]
        BY DEF Begin
    <1>2. /\ outcome' = Append(outcome, "running")
          /\ pc' = [pc EXCEPT ![p] = "usd"]
          /\ UNCHANGED <<books, reads, phase, edits, faults>>
        BY DEF Begin
    <1>3. /\ outcome \in Seq({"running", "approved", "declined", "error"})
          /\ pc \in [Procs -> {"idle", "next"} \cup Making]
          /\ job \in [Procs -> JobType]
        BY TypedInv
    <1>4. /\ DOMAIN outcome = 1..Len(outcome) /\ Len(outcome) \in Nat
          /\ DOMAIN outcome' = 1..id /\ outcome'[id] = "running"
          /\ outcome' \in Seq({"running", "approved", "declined", "error"})
          /\ \A i \in DOMAIN outcome : i # id /\ outcome'[i] = outcome[i]
        BY <1>2, <1>3
    <1> DEFINE j == [NoJob EXCEPT !.id = id, !.left = left, !.amount = a]
    <1>5. j.id = id /\ j.amount = a /\ j \in JobType
        <2>1. id \in Nat /\ a \in Nat
            BY <1>4, AccountAssumption
        <2> HIDE DEF id
        <2>2. << >> \in Seq(FundingLegs)
            OBVIOUS
        <2>3. NoJob \in JobType
            BY <2>2 DEF NoJob, JobType
        <2>4. ASSUME NEW r \in JobType
              PROVE  LET k == [r EXCEPT !.id = id, !.left = left, !.amount = a] IN
                     k.id = id /\ k.amount = a /\ k \in JobType
            BY <2>1 DEF JobType
        <2>5. QED
            BY <2>3, <2>4
    <1>6. /\ job'[p] = j /\ job' \in [Procs -> JobType]
          /\ \A q \in Procs \ {p} : job'[q] = job[q]
        <2> HIDE DEF j
        <2>1. job' = [job EXCEPT ![p] = j]
            BY <1>1 DEF j
        <2>2. QED
            BY <2>1, <1>3, <1>5
    <1> HIDE DEF j, id
    <1>7. /\ pc'[p] = "usd" /\ pc' \in [Procs -> {"idle", "next"} \cup Making]
          /\ \A q \in Procs \ {p} : pc'[q] = pc[q]
        BY <1>2, <1>3 DEF Making
    <1>8. \A i : LegsOf(i)' = LegsOf(i)
        BY <1>2 DEF books, LegsOf
    <1>9. LegsOf(id) = {} /\ id \notin DOMAIN outcome /\ id \in Nat
        BY <1>4 DEF LegsOf, PurchaseInv, BookInv, id
    <1>10. BookInv' /\ ControlInv'
        <2>1. \A l \in legs' : l.id \in DOMAIN outcome' /\ l.amount \in Nat
            BY <1>2, <1>4, <1>9 DEF PurchaseInv, BookInv, books
        <2>2. BookInv'
            BY <1>2, <2>1 DEF PurchaseInv, BookInv, books
        <2>3. ControlInv'
            BY <1>2, <1>4, <1>6, <1>7 DEF PurchaseInv, ControlInv, reads
        <2>4. QED
            BY <2>2, <2>3
    <1>11. PaidInv'
        <2>1. ASSUME NEW i \in DOMAIN outcome'
              PROVE  /\ (LegsOf(i) = {} \/ PartPaid(i) \/ FullyPaid(i))'
                     /\ outcome'[i] = "declined" => LegsOf(i)' = {}
                     /\ outcome'[i] = "approved" => FullyPaid(i)'
            <3>1. CASE i = id
                BY <1>4, <1>8, <1>9, <3>1
            <3>2. CASE i # id
                <4>1. i \in DOMAIN outcome
                    BY <1>4, <2>1, <3>2 DEF id
                <4>2. outcome'[i] = outcome[i]
                    BY <1>4, <4>1
                <4>3. QED
                    BY <1>8, <4>1, <4>2, PaidKept DEF PurchaseInv, PaidInv
            <3>3. QED
                BY <3>1, <3>2
        <2>2. QED
            BY <2>1 DEF PaidInv
    <1>12. ASSUME NEW q \in Procs, pc'[q] \in Making
           PROVE  JobOK(q)'
        <2>0. \A r \in Procs \ {p} : pc'[r] \in Making => JobOK(r) /\ job[r].id \in DOMAIN outcome
            BY <1>7, TypedInv DEF JobOK, OwnJob
        <2>1. CASE q = p
            <3>1. OwnJob(job[p], pc[p])'
                BY <1>4, <1>5, <1>6, <1>7, <1>8, <1>9 DEF OwnJob, id
            <3>2. \A r \in Procs : r # p /\ pc'[r] \in Making => job'[r].id # id
                BY <1>6, <1>9, <2>0
            <3>3. QED
                BY <1>5, <1>6, <2>1, <3>1, <3>2 DEF JobOK
        <2>2. CASE q # p
            <3>1. JobOK(q) /\ job[q].id \in DOMAIN outcome
                BY <1>12, <2>0, <2>2
            <3>2. /\ job[q].id \in DOMAIN outcome'
                  /\ outcome'[job[q].id] = outcome[job[q].id]
                BY <1>4, <3>1 DEF id
            <3>3. ASSUME NEW r \in Procs, r # q, pc'[r] \in Making
                  PROVE  job'[r].id # job[q].id
                <4>1. CASE r = p
                    BY <1>5, <1>6, <1>9, <3>1, <4>1
                <4>2. CASE r # p
                    BY <1>6, <1>7, <2>2, <3>1, <3>3, <4>2 DEF JobOK
                <4>3. QED
                    BY <4>1, <4>2
            <3>4. pc'[q] = pc[q] /\ job'[q] = job[q]
                BY <1>6, <1>7, <2>2
            <3>5. QED
                BY <1>8, <3>1, <3>2, <3>3, <3>4, JobKept
        <2>3. QED
            BY <2>1, <2>2
    <1>13. QED
        BY <1>10, <1>11, <1>12 DEF PurchaseInv

(* Steps of a purchase that post nothing.  It goes on ...                  *)
LEMMA WorkStep ==
    ASSUME PurchaseInv, NEW p \in Procs, pc[p] \in Making,
           UNCHANGED <<books, reads, outcome, phase, edits, faults>>,
           NEW j \in JobType, j.id = job[p].id, j.amount = job[p].amount,
           NEW at \in Making,
           job' = [job EXCEPT ![p] = j], pc' = [pc EXCEPT ![p] = at],
           at \in {"usd", "usdc", "quote", "evaluate"} =>
             pc[p] \in {"usd", "usdc", "quote", "evaluate"},
           at \in {"leg", "post"} => j.funding \in Seq(FundingLegs) /\ ToPost(j)
    PROVE  PurchaseInv'
    <1>1. /\ pc' \in [Procs -> {"idle", "next"} \cup Making] /\ pc'[p] = at
          /\ job' \in [Procs -> JobType] /\ job'[p] = j
          /\ \A q \in Procs \ {p} : pc'[q] = pc[q] /\ job'[q] = job[q]
        BY TypedInv
    <1>2. /\ legs' = legs /\ outcome' = outcome
          /\ \A i : LegsOf(i)' = LegsOf(i)
        BY DEF books, LegsOf
    <1>3. OthersKept(p, job[p].id)
        BY <1>1, <1>2 DEF OthersKept
    <1>4. BookInv' /\ ControlInv'
        BY <1>1, <1>2 DEF PurchaseInv, BookInv, ControlInv, books, reads
    <1>5. OwnJob(job[p], pc[p])
        BY TypedInv DEF JobOK
    <1>6. OwnJob(job[p], pc[p])'
        <2>1. ToPost(j) => ToPost(j)'
            BY <1>2 DEF ToPost
        <2>2. j.id \in DOMAIN outcome' /\ outcome'[j.id] = "running" /\ j.amount \in Amounts
            BY <1>2, <1>5 DEF OwnJob
        <2>3. at \in {"usd", "usdc", "quote", "evaluate"} => LegsOf(j.id)' = {}
            BY <1>2, <1>5 DEF OwnJob
        <2>4. QED
            BY <1>1, <2>1, <2>2, <2>3 DEF OwnJob
    <1>7. /\ job[p].id \in DOMAIN outcome /\ outcome'[job[p].id] = "running"
        BY <1>2, <1>5 DEF OwnJob
    <1>8. (LegsOf(job[p].id) = {} \/ PartPaid(job[p].id) \/ FullyPaid(job[p].id))'
        <2> DEFINE i == job[p].id
        <2>1. job'[p].id = i
            BY <1>1
        <2>2. LegsOf(i) = {} \/ PartPaid(i) \/ FullyPaid(i)
            BY <1>7 DEF PurchaseInv, PaidInv
        <2>3. LegsOf(i)' = {} \/ PartPaid(i)' \/ FullyPaid(i)'
            BY <1>2, <2>2, PaidKept
        <2>4. QED
            BY <2>1, <2>3
    <1>9. QED
        BY <1>1, <1>3, <1>4, <1>6, <1>7, <1>8, PurchaseStep

(* ... or its client is answered.                                          *)
LEMMA AnswerEffect ==
    ASSUME PurchaseInv, NEW p \in Procs, pc[p] \in Making,
           NEW result \in {"approved", "declined", "error"}, Answer(p, result)
    PROVE  /\ outcome' \in Seq({"running", "approved", "declined", "error"})
           /\ DOMAIN outcome' = DOMAIN outcome
           /\ job[p].id \in DOMAIN outcome /\ outcome'[job[p].id] = result
           /\ \A i \in DOMAIN outcome : i # job[p].id => outcome'[i] = outcome[i]
           /\ pc' \in [Procs -> {"idle", "next"} \cup Making]
           /\ pc'[p] \notin Making
           /\ \A q \in Procs \ {p} : pc'[q] = pc[q]
    <1> DEFINE id == job[p].id
               R == {"running", "approved", "declined", "error"}
    <1>1. id \in DOMAIN outcome
        BY TypedInv DEF JobOK, OwnJob
    <1>2. outcome \in Seq(R) /\ outcome' = [outcome EXCEPT ![id] = result]
        BY TypedInv DEF Answer
    <1> HIDE DEF id
    <1>3. outcome' \in Seq(R)
        BY <1>1, <1>2, ExceptSeq
    <1>4. /\ DOMAIN outcome' = DOMAIN outcome /\ outcome'[id] = result
          /\ \A i \in DOMAIN outcome : i # id => outcome'[i] = outcome[i]
        BY <1>1, <1>2
    <1>5. PICK at \in {"idle", "next"} : pc' = [pc EXCEPT ![p] = at]
        BY DEF Answer
    <1>6. /\ pc' \in [Procs -> {"idle", "next"} \cup Making]
          /\ pc'[p] = at /\ \A q \in Procs \ {p} : pc'[q] = pc[q]
        BY <1>5, TypedInv
    <1>7. pc'[p] \notin Making
        BY <1>6 DEF Making
    <1>8. QED
        BY <1>1, <1>3, <1>4, <1>6, <1>7 DEF id

LEMMA AnswerStep ==
    ASSUME PurchaseInv, NEW p \in Procs, pc[p] \in Making,
           NEW result \in {"declined", "error"}, Answer(p, result),
           result = "declined" => LegsOf(job[p].id) = {},
           UNCHANGED <<books, reads, phase, edits>>, faults' \in 0..MaxFaults,
           NEW j \in JobType, j.id = job[p].id, job' = [job EXCEPT ![p] = j]
    PROVE  PurchaseInv'
    <1> DEFINE i == job[p].id
    <1>1. /\ job' \in [Procs -> JobType] /\ job'[p] = j
          /\ \A q \in Procs \ {p} : job'[q] = job[q]
        BY TypedInv
    <1>2. legs' = legs /\ \A k : LegsOf(k)' = LegsOf(k)
        BY DEF books, LegsOf
    <1>3. OthersKept(p, i)
        BY <1>1, <1>2, AnswerEffect DEF OthersKept
    <1>4. BookInv' /\ ControlInv'
        BY <1>1, <1>2, AnswerEffect DEF PurchaseInv, BookInv, ControlInv, books, reads
    <1>5. i \in DOMAIN outcome /\ outcome'[i] = result /\ job'[p].id = i
        BY <1>1, AnswerEffect
    <1>6. LegsOf(i)' = {} \/ PartPaid(i)' \/ FullyPaid(i)'
        BY <1>2, <1>5, PaidKept DEF PurchaseInv, PaidInv
    <1>7. pc'[p] \notin Making
        BY AnswerEffect
    <1> HIDE DEF i
    <1>8. /\ (LegsOf(job[p].id) = {} \/ PartPaid(job[p].id) \/ FullyPaid(job[p].id))'
          /\ (outcome[job[p].id] = "declined" => LegsOf(job[p].id) = {})'
          /\ (outcome[job[p].id] = "approved" => FullyPaid(job[p].id))'
        BY <1>2, <1>5, <1>6 DEF i
    <1>9. OthersKept(p, job[p].id) /\ job'[p].id = job[p].id
        BY <1>3, <1>5 DEF i
    <1>10. QED
        BY <1>4, <1>7, <1>8, <1>9, PurchaseStep

LEMMA FirstLeg ==
    ASSUME NEW j, j.funding \in Seq(FundingLegs), ToPost(j)
    PROVE  /\ Len(j.funding) \in {1, 2} /\ j.funding # << >>
           /\ Head(j.funding) = j.funding[1] /\ j.funding[1] \in FundingLegs
    <1> DEFINE f == j.funding
    <1>1. Len(f) \in {1, 2}
        BY DEF ToPost, Covers
    <1> HIDE DEF f
    <1>2. f \in Seq(FundingLegs)
        BY DEF f
    <1>3. Len(f) \in {1, 2} /\ f # << >> /\ Head(f) = f[1] /\ f[1] \in FundingLegs
        BY <1>1, <1>2
    <1>4. QED
        BY <1>3 DEF f

LEMMA ReadStep ==
    ASSUME PurchaseInv, NEW p \in Procs,
           ReadUSD(p) \/ ReadUSDC(p) \/ Quote(p) \/ LegQuote(p)
    PROVE  PurchaseInv'
    <1>1. job[p] \in JobType /\ bal["USD"] \in Int /\ bal["USDC"] \in Int /\ fx \in Policies
        BY TypedInv DEF PurchaseInv, ControlInv, Currencies
    <1>2. pc[p] \in Making => OwnJob(job[p], pc[p])
        BY TypedInv DEF JobOK
    <1>3. CASE ReadUSD(p)
        <2> DEFINE j == [job[p] EXCEPT !.usd = bal["USD"]]
        <2>1. j \in JobType /\ j.id = job[p].id /\ j.amount = job[p].amount
            BY <1>1 DEF JobType
        <2>2. /\ job' = [job EXCEPT ![p] = j] /\ pc' = [pc EXCEPT ![p] = "usdc"]
              /\ pc[p] = "usd" /\ UNCHANGED <<books, reads, outcome, phase, edits, faults>>
            BY <1>3 DEF ReadUSD
        <2> HIDE DEF j
        <2>3. QED
            BY <2>1, <2>2, WorkStep DEF Making
    <1>4. CASE ReadUSDC(p)
        <2> DEFINE j == [job[p] EXCEPT !.usdc = bal["USDC"]]
        <2>1. j \in JobType /\ j.id = job[p].id /\ j.amount = job[p].amount
            BY <1>1 DEF JobType
        <2>2. /\ job' = [job EXCEPT ![p] = j] /\ pc' = [pc EXCEPT ![p] = "quote"]
              /\ pc[p] = "usdc" /\ UNCHANGED <<books, reads, outcome, phase, edits, faults>>
            BY <1>4 DEF ReadUSDC
        <2> HIDE DEF j
        <2>3. QED
            BY <2>1, <2>2, WorkStep DEF Making
    <1>5. CASE Quote(p)
        <2> DEFINE w == QuoteToUSD(job[p].usdc, fx)
                   j == [job[p] EXCEPT !.worth = w]
        <2>1. w \in Int
            BY <1>1, QuotesTyped DEF JobType
        <2>2. /\ job' = [job EXCEPT ![p] = j] /\ pc' = [pc EXCEPT ![p] = "evaluate"]
              /\ pc[p] = "quote" /\ UNCHANGED <<books, reads, outcome, phase, edits, faults>>
            BY <1>5 DEF Quote
        <2> HIDE DEF w
        <2>3. j \in JobType /\ j.id = job[p].id /\ j.amount = job[p].amount
            BY <1>1, <2>1 DEF JobType
        <2> HIDE DEF j
        <2>4. QED
            BY <2>2, <2>3, WorkStep DEF Making
    <1>6. CASE LegQuote(p)
        <2> DEFINE leg == Head(job[p].funding)
                   m == IF leg.currency = "USD" THEN leg.cents ELSE QuoteToUSDC(leg.cents, fx)
                   j == [job[p] EXCEPT !.minor = m]
        <2>1. /\ job' = [job EXCEPT ![p] = j] /\ pc' = [pc EXCEPT ![p] = "post"]
              /\ pc[p] = "leg" /\ UNCHANGED <<books, reads, outcome, phase, edits, faults>>
            BY <1>6 DEF LegQuote
        <2>2. job[p].funding \in Seq(FundingLegs) /\ ToPost(job[p])
            BY <1>2, <2>1 DEF OwnJob, Making
        <2>3. m \in Int
            <3>2. leg \in FundingLegs
                BY <2>2, FirstLeg
            <3>3. leg.cents \in Int
                BY <3>2 DEF FundingLegs
            <3>4. leg.currency = "USD" \/ Invertible(fx)
                BY <1>6 DEF LegQuote
            <3>5. QED
                BY <1>1, <3>3, <3>4, QuotesTyped
        <2> HIDE DEF m
        <2>4. /\ j \in JobType /\ j.id = job[p].id /\ j.amount = job[p].amount
              /\ j.funding = job[p].funding /\ j.usd = job[p].usd /\ j.worth = job[p].worth
            BY <1>1, <2>3 DEF JobType
        <2> HIDE DEF j
        <2>5. ToPost(j)
            BY <2>2, <2>4 DEF ToPost
        <2>6. QED
            BY <2>1, <2>2, <2>4, <2>5, WorkStep DEF Making
    <1>7. QED
        BY <1>3, <1>4, <1>5, <1>6

LEMMA EvaluateStep ==
    ASSUME PurchaseInv, NEW p \in Procs, Evaluate(p)
    PROVE  PurchaseInv'
    <1> DEFINE d == EvaluateWaterfall(rule, job[p].amount, job[p].usd, job[p].worth)
               j == [job[p] EXCEPT !.funding = d.funding]
    <1>1. /\ pc[p] = "evaluate" /\ job' = [job EXCEPT ![p] = j]
          /\ UNCHANGED <<books, reads, phase, edits, faults>>
          /\ IF d.decision = "approved"
             THEN pc' = [pc EXCEPT ![p] = "leg"] /\ UNCHANGED outcome
             ELSE Answer(p, d.decision)
        BY DEF Evaluate
    <1>2. OwnJob(job[p], pc[p]) /\ job[p] \in JobType
        BY <1>1, TypedInv DEF JobOK, Making
    <1>3. job[p].amount \in Nat \ {0} /\ LegsOf(job[p].id) = {}
        BY <1>1, <1>2, AccountAssumption DEF OwnJob
    <1>4. rule \in WaterfallContent
        BY AccountAssumption DEF PurchaseInv, ControlInv
    <1>5. job[p].usd \in Int /\ job[p].worth \in Int
        BY <1>2 DEF JobType
    <1>6. /\ d.funding \in Seq(FundingLegs)
          /\ d.decision \in {"approved", "declined", "error"}
          /\ d.decision = "approved" =>
               Covers(d.funding, job[p].amount, job[p].usd, job[p].worth)
        BY <1>3, <1>4, <1>5, FundingTyped, WaterfallCovers
    <1> HIDE DEF d
    <1>7. /\ j \in JobType /\ j.id = job[p].id /\ j.amount = job[p].amount
          /\ j.usd = job[p].usd /\ j.worth = job[p].worth /\ j.funding = d.funding
        BY <1>2, <1>6 DEF JobType
    <1> HIDE DEF j
    <1>8. CASE d.decision = "approved"
        <2>1. ToPost(j)
            BY <1>3, <1>6, <1>7, <1>8 DEF ToPost
        <2>2. pc' = [pc EXCEPT ![p] = "leg"] /\ UNCHANGED outcome
            BY <1>1, <1>8
        <2>3. QED
            BY <1>1, <1>6, <1>7, <2>1, <2>2, WorkStep DEF Making
    <1>9. CASE d.decision # "approved"
        <2>1. d.decision \in {"declined", "error"} /\ Answer(p, d.decision)
            BY <1>1, <1>6, <1>9
        <2>2. faults' \in 0..MaxFaults
            BY <1>1 DEF PurchaseInv, ControlInv
        <2>3. QED
            BY <1>1, <1>3, <1>7, <2>1, <2>2, AnswerStep DEF Making
    <1>10. QED
        BY <1>8, <1>9

LEMMA ErrorStep ==
    ASSUME PurchaseInv, NEW p \in Procs, PostRefused(p) \/ QuoteRefused(p) \/ StoreError(p)
    PROVE  PurchaseInv'
    <1>1. /\ pc[p] \in Making /\ Answer(p, "error")
          /\ UNCHANGED <<books, reads, job, phase, edits>>
        BY DEF PostRefused, QuoteRefused, StoreError, Making
    <1>2. faults' \in 0..MaxFaults
        BY AccountAssumption DEF PostRefused, QuoteRefused, StoreError, PurchaseInv, ControlInv
    <1>3. job[p] \in JobType /\ job' = [job EXCEPT ![p] = job[p]]
        BY <1>1, TypedInv
    <1>4. QED
        BY <1>1, <1>2, <1>3, AnswerStep

LEMMA ShortTail ==
    ASSUME NEW S, NEW f \in Seq(S), Len(f) \in {1, 2}
    PROVE  /\ Len(f) = 1 => Tail(f) = << >>
           /\ Tail(f) \in Seq(S)
           /\ Len(f) = 2 => /\ Len(Tail(f)) = 1 /\ Tail(f) # << >>
                            /\ Tail(f)[1] = f[2] /\ f[2] \in S
    <1>1. f # << >>
        BY EmptySeq
    <1>2. /\ Tail(f) \in Seq(S) /\ Len(Tail(f)) = Len(f) - 1
          /\ \A i \in 1..Len(Tail(f)) : Tail(f)[i] = f[i + 1]
        BY <1>1, HeadTailProperties
    <1>3. ASSUME NEW t \in Seq(S)
          PROVE  (Len(t) = 0 => t = << >>) /\ (Len(t) = 1 => t # << >>)
        BY EmptySeq
    <1>4. Len(f) = 1 => Tail(f) = << >>
        <2>1. Len(f) = 1 => Len(Tail(f)) = 0
            BY <1>2
        <2>2. QED
            BY <1>2, <1>3, <2>1, Zenon
    <1>5. Len(f) = 2 => Len(Tail(f)) = 1 /\ Tail(f) # << >> /\ Tail(f)[1] = f[2]
        <2>1. Len(f) = 2 => Len(Tail(f)) = 1
            BY <1>2
        <2>2. Len(f) = 2 => Tail(f)[1] = f[2]
            BY <1>2, <2>1
        <2>3. Len(f) = 2 => Tail(f) # << >>
            BY <1>2, <1>3, <2>1, Zenon
        <2>4. QED
            BY <2>1, <2>2, <2>3
    <1>6. Len(f) = 2 => f[2] \in S
        BY ElementOfSeq
    <1>7. QED
        BY <1>2, <1>4, <1>5, <1>6

(* A leg is posted: if it was the last, the amount is posted.              *)
LEMMA PostEffect ==
    ASSUME PurchaseInv, NEW p \in Procs, pc[p] = "post", PostLeg(p),
           NEW i, i = job[p].id
    PROVE  /\ bal' \in [Currencies -> Int]
           /\ \A l \in legs' : l.id \in DOMAIN outcome /\ l.amount \in Nat
           /\ \A k : k # i => LegsOf(k)' = LegsOf(k)
           /\ Tail(job[p].funding) \in Seq(FundingLegs)
           /\ Tail(job[p].funding) = << >> => FullyPaid(i)'
           /\ Tail(job[p].funding) # << >> =>
                /\ PartPaid(i)'
                /\ \E l \in legs' :
                     /\ {k \in legs' : k.id = i} = {l}
                     /\ Len(Tail(job[p].funding)) = 1
                     /\ l.currency # Tail(job[p].funding)[1].currency
                     /\ l.amount = job[p].amount
                     /\ l.cents \in Nat \ {0}
                     /\ l.cents + Tail(job[p].funding)[1].cents = job[p].amount
           /\ PartPaid(i)' \/ FullyPaid(i)'
    <1> DEFINE j == job[p]
               f == j.funding
               new == [id |-> i, currency |-> f[1].currency, minor |-> j.minor,
                       cents |-> f[1].cents, amount |-> j.amount]
    <1>1. OwnJob(j, "post") /\ j \in JobType
        BY TypedInv DEF JobOK, Making
    <1>2. j.funding \in Seq(FundingLegs) /\ ToPost(j) /\ i \in DOMAIN outcome
        BY <1>1 DEF OwnJob
    <1>3. /\ Len(f) \in {1, 2} /\ f # << >> /\ Head(f) = f[1] /\ f[1] \in FundingLegs
        BY <1>2, FirstLeg
    <1>4. /\ bal' = [bal EXCEPT ![f[1].currency] = @ - j.minor]
          /\ legs' = legs \cup {new}
        BY <1>3 DEF PostLeg
    <1>5. /\ new.id = i /\ new.currency = f[1].currency /\ new.cents = f[1].cents
          /\ new.amount = j.amount
        OBVIOUS
    <1>6. j.minor \in Int /\ f[1].currency \in Currencies /\ f[1].cents \in Nat \ {0}
          /\ j.amount \in Nat
        BY <1>1, <1>3 DEF JobType, FundingLegs
    <1>7. ToPost(j) /\ Len(f) \in Nat /\ f \in Seq(FundingLegs)
        BY <1>2, <1>3
    <1> HIDE DEF new
    <1>8. bal' \in [Currencies -> Int]
        BY <1>4, <1>6, TypedInv
    <1>9. \A l \in legs' : l.id \in DOMAIN outcome /\ l.amount \in Nat
        <2>1. \A l \in legs : l.id \in DOMAIN outcome /\ l.amount \in Nat
            BY DEF PurchaseInv, BookInv
        <2>2. new.id \in DOMAIN outcome /\ new.amount \in Nat
            BY <1>2, <1>5, <1>6
        <2>3. QED
            BY <1>4, <2>1, <2>2
    <1>10. /\ \A k : k # i => LegsOf(k)' = LegsOf(k)
           /\ LegsOf(i)' = LegsOf(i) \cup {new} /\ new \in legs'
           /\ \A l \in legs : l \in legs'
        <2> HIDE DEF j, f
        <2>1. legs' = legs \cup {new} /\ new.id = i
            BY <1>4, <1>5
        <2>2. \A k : k # i => {l \in legs' : l.id = k} = {l \in legs : l.id = k}
            BY <2>1
        <2>3. {l \in legs' : l.id = i} = {l \in legs : l.id = i} \cup {new}
            BY <2>1
        <2>4. (\A k : k # i => LegsOf(k)' = LegsOf(k)) /\ LegsOf(i)' = LegsOf(i) \cup {new}
            BY <2>2, <2>3, Zenon DEF LegsOf
        <2>5. QED
            BY <2>1, <2>4
    <1>11. \/ LegsOf(i) = {} /\ Covers(f, j.amount, j.usd, j.worth)
           \/ \E l \in legs :
                /\ LegsOf(i) = {l}
                /\ Len(f) = 1
                /\ l.currency # f[1].currency
                /\ l.amount = j.amount
                /\ l.cents \in Nat \ {0}
                /\ l.cents + f[1].cents = j.amount
        BY <1>7 DEF ToPost
    <1>12. (Len(f) = 1 => Tail(f) = << >>) /\ Tail(f) \in Seq(FundingLegs)
           /\ (Len(f) = 2 => /\ Len(Tail(f)) = 1 /\ Tail(f) # << >>
                             /\ Tail(f)[1] = f[2] /\ f[2] \in FundingLegs)
        BY <1>3, <1>7, ShortTail
    <1>13. CASE LegsOf(i) = {} /\ Covers(f, j.amount, j.usd, j.worth)
        <2>1. LegsOf(i)' = {new}
            BY <1>10, <1>13
        <2>2. CASE Len(f) = 1
            <3>1. new.cents = new.amount
                BY <1>5, <1>13, <2>2 DEF Covers
            <3>2. FullyPaid(i)'
                BY <1>5, <1>6, <1>10, <2>1, <3>1 DEF FullyPaid
            <3>3. QED
                BY <1>8, <1>9, <1>10, <1>12, <2>2, <3>2
        <2>3. CASE Len(f) = 2
            <3>1. f[1].cents + f[2].cents = j.amount /\ f[1].currency # f[2].currency
                BY <1>13, <2>3 DEF Covers
            <3>2. f[2].cents \in Nat \ {0}
                BY <1>12, <2>3 DEF FundingLegs
            <3>3. new.cents \in 1..new.amount - 1
                BY <1>5, <1>6, <3>1, <3>2
            <3>4. PartPaid(i)'
                BY <1>10, <2>1, <3>3 DEF PartPaid
            <3>5. /\ {k \in legs' : k.id = i} = {new} /\ new \in legs'
                  /\ Len(Tail(f)) = 1 /\ new.currency # Tail(f)[1].currency
                  /\ new.amount = j.amount /\ new.cents \in Nat \ {0}
                  /\ new.cents + Tail(f)[1].cents = j.amount
                BY <1>5, <1>6, <1>10, <1>12, <2>1, <2>3, <3>1 DEF LegsOf
            <3>6. Tail(f) # << >>
                BY <1>12, <2>3
            <3>7. QED
                BY <1>8, <1>9, <1>10, <1>12, <3>4, <3>5, <3>6
        <2>4. QED
            BY <1>3, <2>2, <2>3
    <1>14. ASSUME NEW l \in legs, LegsOf(i) = {l}, Len(f) = 1,
                  l.currency # f[1].currency, l.amount = j.amount,
                  l.cents \in Nat \ {0}, l.cents + f[1].cents = j.amount
           PROVE  FullyPaid(i)' /\ Tail(f) = << >>
        <2>1. LegsOf(i)' = {l, new} /\ l # new /\ l \in legs' /\ new \in legs'
            BY <1>5, <1>10, <1>14
        <2>2. FullyPaid(i)'
            BY <1>5, <1>6, <1>14, <2>1 DEF FullyPaid
        <2>3. QED
            BY <1>12, <1>14, <2>2
    <1>15. QED
        BY <1>8, <1>9, <1>10, <1>11, <1>12, <1>13, <1>14

LEMMA PostStep ==
    ASSUME PurchaseInv, NEW p \in Procs, Post(p) \/ PostLost(p)
    PROVE  PurchaseInv'
    <1>1. PICK i : i = job[p].id
        OBVIOUS
    <1> DEFINE rest == Tail(job[p].funding)
    <1>2. /\ pc[p] = "post" /\ pc[p] \in Making /\ PostLeg(p)
          /\ UNCHANGED <<opened, deposits, reads, phase, edits>>
        BY DEF Post, PostLost, PostLeg, Making
    <1>3. /\ bal' \in [Currencies -> Int]
          /\ \A l \in legs' : l.id \in DOMAIN outcome /\ l.amount \in Nat
          /\ \A k : k # i => LegsOf(k)' = LegsOf(k)
          /\ rest \in Seq(FundingLegs)
          /\ rest = << >> => FullyPaid(i)'
          /\ rest # << >> =>
               /\ PartPaid(i)'
               /\ \E l \in legs' :
                     /\ {k \in legs' : k.id = i} = {l}
                     /\ Len(rest) = 1
                     /\ l.currency # rest[1].currency
                     /\ l.amount = job[p].amount
                     /\ l.cents \in Nat \ {0}
                     /\ l.cents + rest[1].cents = job[p].amount
          /\ PartPaid(i)' \/ FullyPaid(i)'
        <2>1. /\ bal' \in [Currencies -> Int]
              /\ \A l \in legs' : l.id \in DOMAIN outcome /\ l.amount \in Nat
              /\ \A k : k # i => LegsOf(k)' = LegsOf(k)
              /\ rest \in Seq(FundingLegs)
            BY <1>1, <1>2, PostEffect
        <2>2. rest = << >> => FullyPaid(i)'
            BY <1>1, <1>2, PostEffect
        <2>3. rest # << >> =>
                 /\ PartPaid(i)'
                 /\ \E l \in legs' :
                       /\ {k \in legs' : k.id = i} = {l}
                       /\ Len(rest) = 1
                       /\ l.currency # rest[1].currency
                       /\ l.amount = job[p].amount
                       /\ l.cents \in Nat \ {0}
                       /\ l.cents + rest[1].cents = job[p].amount
            BY <1>1, <1>2, PostEffect
        <2>4. PartPaid(i)' \/ FullyPaid(i)'
            BY <1>1, <1>2, PostEffect
        <2>5. QED
            BY <2>1, <2>2, <2>3, <2>4
    <1>4. job[p] \in JobType /\ OwnJob(job[p], pc[p])
        BY <1>2, TypedInv DEF JobOK
    <1>5. PICK j \in JobType :
            /\ j.id = i /\ j.amount = job[p].amount
            /\ job' = [job EXCEPT ![p] = j]
            /\ Post(p) => j.funding = rest
        <2>1. CASE Post(p)
            <3> DEFINE j == [job[p] EXCEPT !.funding = rest]
            <3>1. j \in JobType /\ j.id = i /\ j.amount = job[p].amount /\ j.funding = rest
                <4> HIDE DEF rest
                <4>1. QED
                    BY <1>1, <1>3, <1>4 DEF JobType
            <3>2. job' = [job EXCEPT ![p] = j]
                BY <2>1 DEF Post
            <3> HIDE DEF j, rest
            <3>3. QED
                BY <3>1, <3>2
        <2>2. CASE ~Post(p)
            <3>1. job' = job
                BY <2>2 DEF PostLost
            <3>2. job' = [job EXCEPT ![p] = job[p]]
                BY <3>1, TypedInv
            <3>3. QED
                BY <1>1, <1>4, <2>2, <3>2
        <2>3. QED
            BY <2>1, <2>2
    <1>6. /\ job' \in [Procs -> JobType] /\ job'[p] = j
          /\ \A q \in Procs \ {p} : job'[q] = job[q]
        BY <1>5, TypedInv
    <1>7. faults' \in 0..MaxFaults
        BY AccountAssumption DEF Post, PostLost, PurchaseInv, ControlInv
    <1>8. CASE \/ Post(p) /\ rest = << >> /\ Answer(p, "approved")
               \/ PostLost(p) /\ Answer(p, "error")
        <2>1. PICK result \in {"approved", "error"} :
                /\ Answer(p, result)
                /\ result = "approved" => FullyPaid(i)'
            BY <1>3, <1>8
        <2>2. /\ outcome' \in Seq({"running", "approved", "declined", "error"})
              /\ DOMAIN outcome' = DOMAIN outcome
              /\ i \in DOMAIN outcome /\ outcome'[i] = result
              /\ \A k \in DOMAIN outcome : k # i => outcome'[k] = outcome[k]
              /\ pc' \in [Procs -> {"idle", "next"} \cup Making]
              /\ pc'[p] \notin Making
              /\ \A q \in Procs \ {p} : pc'[q] = pc[q]
            BY <1>1, <1>2, <2>1, AnswerEffect
        <2>3. OthersKept(p, job[p].id)
            BY <1>1, <1>3, <1>6, <2>2 DEF OthersKept
        <2>4. BookInv' /\ ControlInv'
            BY <1>2, <1>3, <1>6, <1>7, <2>2 DEF PurchaseInv, BookInv, ControlInv, reads
        <2>5. job'[p].id = i /\ outcome'[i] # "declined"
            BY <1>5, <1>6, <2>2
        <2>6. /\ (LegsOf(job[p].id) = {} \/ PartPaid(job[p].id) \/ FullyPaid(job[p].id))'
              /\ (outcome[job[p].id] = "declined" => LegsOf(job[p].id) = {})'
              /\ (outcome[job[p].id] = "approved" => FullyPaid(job[p].id))'
            BY <1>3, <2>1, <2>2, <2>5
        <2>7. QED
            BY <1>1, <1>2, <2>2, <2>3, <2>4, <2>5, <2>6, PurchaseStep
    <1>9. CASE Post(p) /\ rest # << >>
        <2>1. pc' = [pc EXCEPT ![p] = "leg"] /\ outcome' = outcome
            BY <1>9 DEF Post
        <2>2. /\ pc' \in [Procs -> {"idle", "next"} \cup Making] /\ pc'[p] = "leg"
              /\ \A q \in Procs \ {p} : pc'[q] = pc[q]
            BY <2>1, TypedInv DEF Making
        <2>3. OthersKept(p, job[p].id)
            BY <1>1, <1>3, <1>6, <2>1, <2>2 DEF OthersKept
        <2>4. BookInv' /\ ControlInv'
            BY <1>2, <1>3, <1>6, <1>7, <2>1, <2>2 DEF PurchaseInv, BookInv, ControlInv, reads
        <2>5. i \in DOMAIN outcome /\ outcome[i] = "running" /\ job[p].amount \in Amounts
            BY <1>1, <1>4 DEF OwnJob
        <2>6. j.funding \in Seq(FundingLegs) /\ ToPost(j)'
            <3> HIDE DEF rest
            <3>1. j.funding = rest
                BY <1>5, <1>9
            <3>2. PICK l \in legs' :
                     /\ LegsOf(i)' = {l}
                     /\ Len(rest) = 1
                     /\ l.currency # rest[1].currency
                     /\ l.amount = job[p].amount
                     /\ l.cents \in Nat \ {0}
                     /\ l.cents + rest[1].cents = job[p].amount
                BY <1>3, <1>9 DEF LegsOf
            <3>3. ToPost(j)'
                BY <1>5, <3>1, <3>2 DEF ToPost
            <3>4. QED
                BY <1>3, <3>1, <3>3
        <2>7. OwnJob(job[p], pc[p])'
            <3>1. OwnJob(j, "leg")'
                BY <1>5, <2>1, <2>5, <2>6 DEF OwnJob
            <3>2. QED
                BY <1>6, <2>2, <3>1 DEF OwnJob, ToPost
        <2>8. job'[p].id = i /\ outcome'[i] = "running"
            BY <1>5, <1>6, <2>1, <2>5
        <2>9. /\ (LegsOf(job[p].id) = {} \/ PartPaid(job[p].id) \/ FullyPaid(job[p].id))'
              /\ (outcome[job[p].id] = "declined" => LegsOf(job[p].id) = {})'
              /\ (outcome[job[p].id] = "approved" => FullyPaid(job[p].id))'
            BY <1>3, <2>8
        <2>10. QED
            BY <1>1, <1>2, <2>3, <2>4, <2>7, <2>8, <2>9, PurchaseStep
    <1>10. QED
        BY <1>8, <1>9 DEF Post, PostLost

LEMMA CrashStep ==
    ASSUME PurchaseInv, Crash
    PROVE  PurchaseInv'
    <1> DEFINE R == {"running", "approved", "declined", "error"}
    <1>1. /\ pc' = [p \in Procs |-> "idle"] /\ job' = [p \in Procs |-> NoJob]
          /\ outcome' = [i \in DOMAIN outcome |->
                           IF outcome[i] = "running" THEN "error" ELSE outcome[i]]
          /\ UNCHANGED <<books, reads, edits>> /\ phase' = "open"
        BY DEF Crash
    <1>2. outcome \in Seq(R)
        BY TypedInv
    <1>3. DOMAIN outcome = 1..Len(outcome) /\ Len(outcome) \in Nat
          /\ \A i \in DOMAIN outcome : outcome[i] \in R
        BY <1>2, LenProperties, ElementOfSeq
    <1>4. /\ outcome' \in [1..Len(outcome) -> R] /\ DOMAIN outcome' = DOMAIN outcome
          /\ \A i \in DOMAIN outcome : outcome'[i] = IF outcome[i] = "running" THEN "error"
                                                     ELSE outcome[i]
        BY <1>1, <1>3
    <1>5. outcome' \in Seq(R)
        BY <1>3, <1>4
    <1>6. << >> \in Seq(FundingLegs)
        OBVIOUS
    <1>7. NoJob \in JobType
        BY <1>6 DEF NoJob, JobType
    <1>8. faults' \in 0..MaxFaults
        BY AccountAssumption DEF Crash, PurchaseInv, ControlInv
    <1>9. \A i : LegsOf(i)' = LegsOf(i)
        BY <1>1 DEF books, LegsOf
    <1>10. BookInv'
        BY <1>1, <1>4 DEF PurchaseInv, BookInv, books
    <1>11. ControlInv'
        <2>1. pc' \in [Procs -> {"idle", "next"} \cup Making] /\ job' \in [Procs -> JobType]
            BY <1>1, <1>7
        <2>2. QED
            BY <1>1, <1>5, <1>8, <2>1 DEF PurchaseInv, ControlInv, reads
    <1>12. PaidInv'
        <2>1. ASSUME NEW i \in DOMAIN outcome
              PROVE  /\ (LegsOf(i) = {} \/ PartPaid(i) \/ FullyPaid(i))'
                     /\ outcome'[i] = "declined" => LegsOf(i)' = {}
                     /\ outcome'[i] = "approved" => FullyPaid(i)'
            BY <1>4, <1>9, PaidKept DEF PurchaseInv, PaidInv
        <2>2. QED
            BY <1>4, <2>1 DEF PaidInv
    <1>13. \A p \in Procs : pc'[p] \notin Making
        BY <1>1 DEF Making
    <1>14. QED
        BY <1>10, <1>11, <1>12, <1>13 DEF PurchaseInv

LEMMA InitPurchases ==
    ASSUME Init
    PROVE  PurchaseInv
    <1>1. << >> \in Seq(FundingLegs)
          /\ << >> \in Seq({"running", "approved", "declined", "error"})
          /\ DOMAIN << >> = {}
        OBVIOUS
    <1>2. NoJob \in JobType
        BY <1>1 DEF NoJob, JobType
    <1>3. BookInv
        BY DEF Init, BookInv
    <1>4. ControlInv
        BY <1>1, <1>2, AccountAssumption DEF Init, ControlInv
    <1>5. PaidInv
        BY <1>1 DEF Init, PaidInv
    <1>6. \A p \in Procs : pc[p] \notin Making
        BY DEF Init, Making
    <1>7. QED
        BY <1>3, <1>4, <1>5, <1>6 DEF PurchaseInv

LEMMA PurchaseInductive ==
    ASSUME PurchaseInv, [Next]_vars
    PROVE  PurchaseInv'
    <1>1. CASE openCustomerAccount \/ depositIfEmpty \/ Deposit
        BY <1>1, SeedStep
    <1>2. ASSUME NEW p \in Procs, Step(p)
          PROVE  PurchaseInv'
        <2>1. CASE BulkRandomPurchases(p)
            <3>1. PICK n \in 1..MaxBulk : Begin(p, n - 1) /\ pc[p] = "idle"
                BY <2>1 DEF BulkRandomPurchases
            <3>2. n - 1 \in Int
                BY AccountAssumption
            <3>3. QED
                BY <3>1, <3>2, BeginStep DEF Making
        <2>2. CASE NextPurchase(p)
            <3>1. Begin(p, job[p].left - 1) /\ pc[p] = "next"
                BY <2>2 DEF NextPurchase
            <3>2. job[p].left - 1 \in Int
                BY TypedInv DEF JobType
            <3>3. QED
                BY <3>1, <3>2, BeginStep DEF Making
        <2>3. QED
            BY <1>2, <2>1, <2>2, ReadStep, EvaluateStep, PostStep, ErrorStep DEF Step
    <1>3. CASE EditWaterfall \/ EditPolicy
        BY <1>3, EditStep
    <1>4. CASE UNCHANGED vars
        <2>1. UNCHANGED <<legs, clients>>
            BY <1>4 DEF vars, books
        <2>2. BookInv' /\ ControlInv'
            BY <1>4 DEF vars, books, reads, clients, PurchaseInv, BookInv, ControlInv
        <2>3. QED
            BY <2>1, <2>2, QuietStep
    <1>5. QED
        BY <1>1, <1>2, <1>3, <1>4, CrashStep DEF Next

(* The inductive invariant of the purchases, through every interleaving of *)
(* requests, edits, failures and restarts.                                 *)
THEOREM PurchaseInvariant == Spec => []PurchaseInv
    <1>1. Init => PurchaseInv
        BY InitPurchases
    <1>2. PurchaseInv /\ [Next]_vars => PurchaseInv'
        BY PurchaseInductive
    <1>3. QED
        BY <1>1, <1>2, PTL DEF Spec

(* The types, and that a goroutine in the loop over the legs has a leg     *)
(* left to post and a client still waiting (Purchase).                     *)
THEOREM TypeCorrect == Spec => []TypeOK
    <1>1. PurchaseInv => TypeOK
        <2>1. SUFFICES ASSUME PurchaseInv PROVE TypeOK
            OBVIOUS
        <2>2. ASSUME NEW p \in Procs, pc[p] \in {"leg", "post"}
              PROVE  job[p].funding # << >> /\ outcome[job[p].id] = "running"
            <3>1. OwnJob(job[p], pc[p])
                BY <2>1, <2>2, TypedInv DEF JobOK, Making
            <3>2. QED
                BY <2>2, <3>1, FirstLeg DEF OwnJob
        <2>3. QED
            BY <2>1, <2>2 DEF TypeOK, PurchaseInv, BookInv, ControlInv, Making
    <1>2. QED
        BY <1>1, PurchaseInvariant, PTL

(* A purchase about to post its first leg holds a funding that covers its  *)
(* amount exactly, within the balances it has read (EvaluateWaterfall).    *)
THEOREM FundingIsCovered == Spec => []FundingCovers
    <1>1. PurchaseInv => FundingCovers
        <2>1. SUFFICES ASSUME PurchaseInv, NEW p \in Procs, pc[p] \in {"leg", "post"},
                              \A l \in legs : l.id # job[p].id
                       PROVE  Covers(job[p].funding, job[p].amount, job[p].usd, job[p].worth)
            BY DEF FundingCovers
        <2>2. ToPost(job[p])
            BY <2>1, TypedInv DEF JobOK, OwnJob, Making
        <2>3. LegsOf(job[p].id) = {}
            BY <2>1 DEF LegsOf
        <2>4. QED
            BY <2>2, <2>3 DEF ToPost
    <1>2. QED
        BY <1>1, PurchaseInvariant, PTL

(* What Funded adds up is a sum in the sense of SumTheorems.               *)
LEMMA CentsSum ==
    ASSUME NEW S, IsFiniteSet(S), NEW g, \A l \in S : g[l] = l.cents
    PROVE  MapThenSumSet(LAMBDA l : l.cents, S) = SumOver(g, S)
    <1> DEFINE R(h) == h = [s \in SUBSET S |-> IF s = {} THEN 0
                              ELSE pick(s).cents + h[s \ {pick(s)}]]
    <1>1. PICK h : IsSum(g, S, h)
        BY SumExists
    <1>2. \A s \in SUBSET S : s # {} => g[pick(s)] = pick(s).cents
        BY PickIn
    <1>3. \A k : R(k) <=> IsSum(g, S, k)
        BY <1>2 DEF IsSum
    <1>4. R(h)
        BY <1>1, <1>3
    <1>5. \E k : R(k) /\ MapThenSumSet(LAMBDA l : l.cents, S) = k[S]
        BY <1>4 DEF MapThenSumSet, MapThenFoldSet, pick
    <1> HIDE DEF R
    <1>6. QED
        BY <1>3, <1>5, SumOverIs

LEMMA FundedValue ==
    ASSUME NEW i
    PROVE  /\ LegsOf(i) = {} => Funded(i) = 0
           /\ \A l : LegsOf(i) = {l} /\ l.cents \in Int => Funded(i) = l.cents
           /\ \A l, m : LegsOf(i) = {l, m} /\ l # m /\ l.cents \in Int /\ m.cents \in Int
                => Funded(i) = l.cents + m.cents
    <1> DEFINE S == LegsOf(i)
               g == [l \in S |-> l.cents]
    <1>1. Funded(i) = MapThenSumSet(LAMBDA l : l.cents, S)
        BY DEF Funded, LegsOf
    <1>2. \A l \in S : g[l] = l.cents
        OBVIOUS
    <1> HIDE DEF g
    <1>3. IsFiniteSet(S) => Funded(i) = SumOver(g, S)
        BY <1>1, <1>2, CentsSum
    <1>4. S = {} => Funded(i) = 0
        BY <1>3, SumOverEmpty, FS_EmptySet
    <1>5. ASSUME NEW l, S = {l}, l.cents \in Int
          PROVE  Funded(i) = l.cents
        <2>1. IsFiniteSet(S) /\ S \ {l} = {} /\ g[l] = l.cents
            BY <1>2, <1>5, FS_Singleton
        <2>2. SumOver(g, S) = g[l] + SumOver(g, S \ {l})
            BY <1>2, <1>5, <2>1, SumOverRemove
        <2>3. SumOver(g, S \ {l}) = 0
            BY <2>1, SumOverEmpty
        <2>4. QED
            BY <1>3, <1>5, <2>1, <2>2, <2>3
    <1>6. ASSUME NEW l, NEW m, S = {l, m}, l # m, l.cents \in Int, m.cents \in Int
          PROVE  Funded(i) = l.cents + m.cents
        <2>1. IsFiniteSet({m}) /\ g[l] = l.cents /\ g[m] = m.cents
            BY <1>2, <1>6, FS_Singleton
        <2>2. IsFiniteSet(S) /\ S \ {l} = {m} /\ {m} \ {m} = {}
            BY <1>6, <2>1, FS_AddElement
        <2>3. SumOver(g, S) = g[l] + SumOver(g, S \ {l})
            BY <1>2, <1>6, <2>2, SumOverRemove
        <2>4. SumOver(g, {m}) = g[m] + SumOver(g, {m} \ {m})
            BY <1>6, <2>1, SumOverRemove
        <2>5. SumOver(g, {m} \ {m}) = 0
            BY <2>2, SumOverEmpty
        <2>6. SumOver(g, S) = g[l] + SumOver(g, {m}) /\ SumOver(g, {m}) = g[m]
            <3>1. SumOver(g, {m}) = g[m] + 0
                BY <2>4, <2>5
            <3>2. SumOver(g, S) = g[l] + SumOver(g, {m})
                BY <2>2, <2>3
            <3>3. QED
                BY <1>6, <2>1, <3>1, <3>2
        <2>7. QED
            BY <1>3, <1>6, <2>1, <2>2, <2>6
    <1>7. QED
        BY <1>4, <1>5, <1>6

(* "approved" is told exactly when the posted legs add up to the amount,   *)
(* no purchase is ever overpaid and a declined one posts nothing, whatever *)
(* fails and whenever the process dies (Purchase).                         *)
THEOREM AnswersAreTrue == Spec => []AnswersTrue
    <1>1. PurchaseInv => AnswersTrue
        <2>1. SUFFICES ASSUME PurchaseInv, NEW i \in DOMAIN outcome
                       PROVE  /\ outcome[i] = "declined" => Funded(i) = 0
                              /\ outcome[i] = "approved" => Funded(i) > 0
                              /\ \A l \in legs : l.id = i =>
                                   /\ outcome[i] = "approved" => Funded(i) = l.amount
                                   /\ Funded(i) <= l.amount
            BY DEF AnswersTrue
        <2>2. /\ LegsOf(i) = {} \/ PartPaid(i) \/ FullyPaid(i)
              /\ outcome[i] = "declined" => LegsOf(i) = {}
              /\ outcome[i] = "approved" => FullyPaid(i)
            BY <2>1 DEF PurchaseInv, PaidInv
        <2>3. \A l \in legs : l.id = i => l \in LegsOf(i)
            BY DEF LegsOf
        <2>4. outcome[i] = "declined" => Funded(i) = 0
            BY <2>2, FundedValue
        <2>5. FullyPaid(i) => Funded(i) > 0 /\ \A l \in LegsOf(i) : Funded(i) = l.amount
            <3>1. ASSUME NEW l \in legs, LegsOf(i) = {l}, l.cents = l.amount,
                         l.cents \in Nat \ {0}
                  PROVE  Funded(i) > 0 /\ \A k \in LegsOf(i) : Funded(i) = k.amount
                <4>1. Funded(i) = l.cents
                    BY <3>1, FundedValue
                <4>2. QED
                    BY <3>1, <4>1
            <3>2. ASSUME NEW l \in legs, NEW m \in legs, LegsOf(i) = {l, m}, l # m,
                         l.amount = m.amount, l.cents \in Nat \ {0},
                         m.cents \in Nat \ {0}, l.cents + m.cents = l.amount
                  PROVE  Funded(i) > 0 /\ \A k \in LegsOf(i) : Funded(i) = k.amount
                <4>1. Funded(i) = l.cents + m.cents
                    BY <3>2, FundedValue
                <4>2. QED
                    BY <3>2, <4>1
            <3>3. QED
                BY <3>1, <3>2 DEF FullyPaid
        <2>6. PartPaid(i) => \A l \in LegsOf(i) : Funded(i) <= l.amount
            <3>1. ASSUME NEW l \in legs, LegsOf(i) = {l}, l.cents \in 1..l.amount - 1
                  PROVE  \A k \in LegsOf(i) : Funded(i) <= k.amount
                <4>1. l.amount \in Int
                    BY <2>1, <3>1 DEF PurchaseInv, BookInv
                <4>2. Funded(i) = l.cents
                    BY <3>1, FundedValue
                <4>3. QED
                    BY <3>1, <4>1, <4>2
            <3>2. QED
                BY <3>1 DEF PartPaid
        <2>7. ASSUME NEW l \in legs, l.id = i
              PROVE  /\ outcome[i] = "approved" => Funded(i) = l.amount
                     /\ Funded(i) <= l.amount
            <3>1. l.amount \in Nat
                BY <2>1 DEF PurchaseInv, BookInv
            <3>2. l \in LegsOf(i)
                BY <2>3, <2>7
            <3>3. QED
                BY <2>2, <2>5, <2>6, <3>1, <3>2
        <2>8. QED
            BY <2>2, <2>4, <2>5, <2>7
    <1>2. QED
        BY <1>1, PurchaseInvariant, PTL

-----------------------------------------------------------------------------
(* A quotient rounded by roundRat is at most half a unit too large, and    *)
(* not too large at all when it is rounded down.                           *)
LEMMA RoundBound ==
    ASSUME NEW n \in Int, NEW d \in Nat \ {0}, NEW m \in Modes
    PROVE  LET v == roundRat(n, d, m) IN
           /\ v \in Int
           /\ n >= 0 => /\ v >= 0
                        /\ 2 * (d * v) <= 2 * n + d
                        /\ m = "down" => d * v <= n
           /\ n <= 0 => v <= 0
    <1>1. PICK a : a = IF n < 0 THEN -n ELSE n
        OBVIOUS
    <1>2. a \in Nat
        BY <1>1
    <1>3. PICK q : q = a \div d
        OBVIOUS
    <1>4. PICK r : r = a % d
        OBVIOUS
    <1>5. q \in Int /\ r \in 0..d - 1 /\ a = d * q + r
        BY <1>2, <1>3, <1>4
    <1>6. q >= 0
        <2>1. SUFFICES ASSUME q <= -1 PROVE FALSE
            BY <1>5
        <2>2. d * q <= d * (-1)
            BY <1>5, <2>1, MulMono
        <2>3. QED
            BY <1>2, <1>5, <2>2
    <1>7. PICK v : v = IF m = "half_up" /\ 2 * r >= d THEN q + 1 ELSE q
        OBVIOUS
    <1>8. roundRat(n, d, m) = IF n < 0 THEN -v ELSE v
        BY <1>1, <1>3, <1>4, <1>7 DEF roundRat
    <1>9. /\ v \in Int /\ v >= 0 /\ (m = "down" => d * v <= a)
          /\ 2 * (d * v) <= 2 * a + d
        <2>1. d * (q + 1) = d * q + d
            BY <1>5
        <2>2. PICK k : k = d * q
            OBVIOUS
        <2>3. k \in Int /\ d * v = IF m = "half_up" /\ 2 * r >= d THEN k + d ELSE k
            BY <1>5, <1>7, <2>1, <2>2
        <2>4. a = k + r
            BY <1>5, <2>2
        <2>5. QED
            BY <1>5, <1>6, <1>7, <2>3, <2>4
    <1>10. n = 0 => v = 0
        <2>1. SUFFICES ASSUME n = 0 PROVE v = 0
            OBVIOUS
        <2>2. a = 0 /\ q = 0 /\ r = 0
            BY <1>1, <1>3, <1>4, <2>1
        <2>3. QED
            BY <1>7, <2>2
    <1>11. QED
        BY <1>1, <1>8, <1>9, <1>10

(* A USDC leg no larger than what a balance was quoted at takes at most    *)
(* the balance, and what the quotes were rounded up by.                    *)
LEMMA LegWithin ==
    ASSUME NEW f \in Policies, NEW usdc \in Int, NEW cents \in Nat \ {0},
           cents <= QuoteToUSD(usdc, f)
    PROVE  \/ QuoteToUSDC(cents, f) <= usdc
           \/ RoundedUp(QuoteToUSDC(cents, f) - usdc, cents, f)
    <1>1. f.rate \in Nat \ {0} /\ f.mode \in Modes
        <2>1. f.rate \in Nat /\ f.mode \in Modes
            BY AccountAssumption
        <2>2. SUFFICES ASSUME f.rate = 0 PROVE FALSE
            BY <2>1
        <2>3. Scale * Unit \in Nat /\ Scale * 1 <= Scale * Unit
            BY ExchangeAssumption, MulMono
        <2>4. PICK d \in Nat \ {0} : d = Scale * Unit
            BY <2>3, ExchangeAssumption
        <2>5. roundRat(0, d, f.mode) = 0
            BY <2>1, <2>4 DEF roundRat
        <2>6. usdc * f.rate = 0
            BY <2>2
        <2>7. QED
            BY <2>4, <2>5, <2>6 DEF QuoteToUSD
    <1>2. Scale \in Nat \ {0} /\ Unit \in Nat \ {0}
        BY ExchangeAssumption
    <1>3. PICK r \in Nat \ {0} : r = f.rate
        BY <1>1
    <1>4. PICK m \in Modes : m = f.mode
        BY <1>1
    <1>5. PICK su \in Nat \ {0} : su = Scale * Unit
        <2>1. Scale * Unit \in Nat /\ Scale * 1 <= Scale * Unit
            BY <1>2, MulMono
        <2>2. QED
            BY <1>2, <2>1
    <1>6. PICK n \in Int : n = usdc * r
        OBVIOUS
    <1>7. PICK w : w = roundRat(n, su, m)
        OBVIOUS
    <1>8. cents <= w
        BY <1>3, <1>4, <1>5, <1>6, <1>7 DEF QuoteToUSD
    <1>9. /\ w \in Int /\ n >= 0
          /\ 2 * (su * w) <= 2 * n + su
          /\ m = "down" => su * w <= n
        <2>1. /\ w \in Int
              /\ n >= 0 => 2 * (su * w) <= 2 * n + su /\ (m = "down" => su * w <= n)
              /\ n <= 0 => w <= 0
            BY <1>7, RoundBound
        <2>2. QED
            BY <1>8, <2>1
    <1>10. su * cents <= su * w
        BY <1>8, <1>9, MulMono
    <1>11. /\ 2 * (su * cents) <= 2 * n + su
           /\ m = "down" => su * cents <= n
        <2>1. PICK x, y \in Int : x = su * cents /\ y = su * w
            BY <1>9
        <2>2. QED
            BY <1>9, <1>10, <2>1
    <1>12. PICK ss \in Nat : ss = Scale * Scale
        BY <1>2
    <1>13. PICK inv : inv = roundRat(ss, r, m)
        OBVIOUS
    <1>14. /\ inv \in Int /\ inv >= 0
           /\ 2 * (r * inv) <= 2 * ss + r
           /\ m = "down" => r * inv <= ss
        BY <1>13, RoundBound
    <1>15. PICK z \in Int : z = cents * inv * Unit
        BY <1>2, <1>14
    <1>16. PICK v : v = roundRat(z, Scale, m)
        OBVIOUS
    <1>17. QuoteToUSDC(cents, f) = v
        BY <1>3, <1>4, <1>12, <1>13, <1>15, <1>16 DEF QuoteToUSDC, invertScaled
    <1>18. z >= 0
        BY <1>2, <1>14, <1>15
    <1>19. /\ v \in Int
           /\ 2 * (Scale * v) <= 2 * z + Scale
           /\ m = "down" => Scale * v <= z
        BY <1>2, <1>16, <1>18, RoundBound
    <1>20. PICK cu \in Nat : cu = cents * Unit
        BY <1>2
    (* Everything over the denominator 2 * rate * Scale.                   *)
    <1>21. r * z = cu * (r * inv)
        BY <1>2, <1>14, <1>15, <1>20
    <1>22. cu * ss = Scale * (su * cents)
        BY <1>2, <1>5, <1>12, <1>20
    <1>23. Scale * n = r * (Scale * usdc)
        BY <1>2, <1>6
    <1>24. CASE m = "down"
        <2>1. r * (Scale * v) <= r * z
            BY <1>2, <1>19, <1>24, MulMono
        <2>2. cu * (r * inv) <= cu * ss
            BY <1>14, <1>24, MulMono
        <2>3. Scale * (su * cents) <= Scale * n
            BY <1>2, <1>11, <1>24, MulMono
        <2>4. r * (Scale * v) <= r * (Scale * usdc)
            <3>1. PICK x1, x2, x3, x4, x5, x6 \in Int :
                    /\ x1 = r * (Scale * v) /\ x2 = r * z /\ x3 = cu * (r * inv)
                    /\ x4 = cu * ss /\ x5 = Scale * n /\ x6 = r * (Scale * usdc)
                BY <1>2, <1>14, <1>19
            <3>2. x1 <= x2 /\ x2 = x3 /\ x3 <= x4 /\ x4 <= x5 /\ x5 = x6
                BY <1>21, <1>22, <1>23, <2>1, <2>2, <2>3, <3>1
            <3>3. QED
                BY <3>1, <3>2
        <2>5. v <= usdc
            <3>1. SUFFICES ASSUME usdc + 1 <= v PROVE FALSE
                BY <1>19
            <3>2. Scale * (usdc + 1) <= Scale * v
                BY <1>2, <1>19, <3>1, MulMono
            <3>3. r * (Scale * (usdc + 1)) <= r * (Scale * v)
                BY <1>2, <1>19, <3>2, MulMono
            <3>4. r * (Scale * (usdc + 1)) = r * (Scale * usdc) + r * Scale
                BY <1>2
            <3>5. r * Scale >= 1
                <4>1. r * 1 <= r * Scale
                    BY <1>2, MulMono
                <4>2. QED
                    BY <1>2, <4>1
            <3>6. PICK x, y, u \in Int : x = r * (Scale * usdc) /\ y = r * (Scale * v)
                                           /\ u = r * Scale
                BY <1>2, <1>19
            <3>7. QED
                BY <2>4, <3>3, <3>4, <3>5, <3>6
        <2>6. QED
            BY <1>17, <2>5
    <1>25. CASE m # "down"
        <2>1. r * (2 * (Scale * v)) <= r * (2 * z + Scale)
            BY <1>2, <1>19, MulMono
        <2>2. cu * (2 * (r * inv)) <= cu * (2 * ss + r)
            BY <1>14, MulMono
        <2>3. Scale * (2 * (su * cents)) <= Scale * (2 * n + su)
            BY <1>2, <1>11, MulMono
        <2>4. PICK x1, x2, x3, x4, x5, x6, x7, x8, x9 \in Int :
                /\ x1 = r * (Scale * v) /\ x2 = r * z /\ x3 = cu * (r * inv)
                /\ x4 = cu * ss /\ x5 = Scale * n /\ x6 = r * (Scale * usdc)
                /\ x7 = r * Scale /\ x8 = cu * r /\ x9 = Scale * su
            BY <1>2, <1>14, <1>19
        <2>5. x2 = x3 /\ x5 = x6
            BY <1>21, <1>23, <2>4
        <2>6. 2 * x1 <= 2 * x2 + x7
            <3>1. r * (2 * (Scale * v)) = 2 * x1 /\ r * (2 * z + Scale) = 2 * x2 + x7
                BY <1>2, <1>19, <2>4
            <3>2. QED
                BY <2>1, <3>1
        <2>7. 2 * x3 <= 2 * x4 + x8
            <3>1. cu * (2 * (r * inv)) = 2 * x3 /\ cu * (2 * ss + r) = 2 * x4 + x8
                BY <1>14, <2>4
            <3>2. QED
                BY <2>2, <3>1
        <2>8. 2 * x4 <= 2 * x5 + x9
            <3>1. Scale * (2 * (su * cents)) = 2 * (Scale * (su * cents))
                  /\ Scale * (2 * n + su) = 2 * x5 + x9
                BY <1>2, <2>4
            <3>2. QED
                BY <1>22, <2>3, <2>4, <3>1
        <2>9. 2 * x1 - 2 * x6 <= x9 + x8 + x7
            BY <2>4, <2>5, <2>6, <2>7, <2>8
        <2>10. 2 * r * Scale * (v - usdc) = 2 * x1 - 2 * x6
            BY <1>2, <1>19, <2>4
        <2>11. Unit * Scale * Scale + cents * Unit * r + Scale * r = x9 + x8 + x7
            BY <1>2, <1>5, <1>20, <2>4
        <2>12. 2 * r * Scale * (v - usdc)
                 <= Unit * Scale * Scale + cents * Unit * r + Scale * r
            BY <2>9, <2>10, <2>11
        <2>13. QED
            BY <1>3, <1>4, <1>17, <1>25, <2>12 DEF RoundedUp, Invertible
    <1>26. QED
        BY <1>24, <1>25
-----------------------------------------------------------------------------
(* What a purchase that is not stale may rely on: the balances are at      *)
(* least what it read, for the legs it has still to post, and the policy   *)
(* is the one it quoted with.                                              *)
LegSeen(j, l, b, f) ==
    IF l.currency = "USD" THEN l.cents <= b["USD"]
    ELSE l.cents <= QuoteToUSD(j.usdc, f) /\ j.usdc <= b["USDC"]

Sees(j, at, b, f) ==
    /\ at \in {"usdc", "quote", "evaluate"} => j.usd <= b["USD"]
    /\ at \in {"quote", "evaluate"} => j.usdc <= b["USDC"]
    /\ at = "evaluate" => j.worth = QuoteToUSD(j.usdc, f)
    /\ at \in {"leg", "post"} =>
         \A i \in 1..Len(j.funding) : LegSeen(j, j.funding[i], b, f)
    /\ at = "post" =>
         j.minor = IF j.funding[1].currency = "USD" THEN j.funding[1].cents
                   ELSE QuoteToUSDC(j.funding[1].cents, f)

MoneyInv == /\ stale \in [Procs -> BOOLEAN]
            /\ \A p \in Procs : ~stale[p] => Sees(job[p], pc[p], bal, fx)
            /\ NoOverdraft

(* Before its quote a purchase depends on no policy.                       *)
LEMMA SeesAnyPolicy ==
    ASSUME NEW j, NEW at, NEW b, NEW f, NEW g, Sees(j, at, b, f),
           at \notin {"evaluate", "leg", "post"}
    PROVE  Sees(j, at, b, g)
    BY DEF Sees

(* Money that comes in harms no purchase.                                  *)
LEMMA SeesMore ==
    ASSUME PurchaseInv, NEW p \in Procs, NEW b \in [Currencies -> Int],
           \A c \in Currencies : bal[c] <= b[c], Sees(job[p], pc[p], bal, fx)
    PROVE  Sees(job[p], pc[p], b, fx)
    <1> DEFINE j == job[p]
    <1>1. /\ bal \in [Currencies -> Int] /\ pc[p] \in {"idle", "next"} \cup Making
          /\ job[p] \in JobType
        BY TypedInv
    <1>2. j.usd \in Int /\ j.usdc \in Int /\ j.funding \in Seq(FundingLegs)
        BY <1>1 DEF JobType
    <1>3. "USD" \in Currencies /\ "USDC" \in Currencies
        BY DEF Currencies
    <1>4. \A x \in Int : \A c \in Currencies : x <= bal[c] => x <= b[c]
        BY <1>1
    <1>5. ASSUME NEW i \in 1..Len(j.funding), LegSeen(j, j.funding[i], bal, fx)
          PROVE  LegSeen(j, j.funding[i], b, fx)
        <2>1. j.funding[i] \in FundingLegs
            BY <1>2, ElementOfSeq
        <2>2. j.funding[i].cents \in Int
            BY <2>1 DEF FundingLegs
        <2>3. QED
            BY <1>2, <1>3, <1>4, <1>5, <2>2 DEF LegSeen
    <1>6. QED
        BY <1>2, <1>3, <1>4, <1>5 DEF Sees

(* Steps of p that move no money.                                          *)
LEMMA IdleMoney ==
    ASSUME MoneyInv, NEW p \in Procs, UNCHANGED <<bal, legs, fx, lived, overlapped>>,
           \A q \in Procs \ {p} : pc'[q] = pc[q] /\ job'[q] = job[q] /\ stale'[q] = stale[q],
           stale' \in [Procs -> BOOLEAN],
           ~stale'[p] => Sees(job'[p], pc'[p], bal, fx)
    PROVE  MoneyInv'
    <1>1. NoOverdraft'
        BY DEF MoneyInv, NoOverdraft, BalancesHeld
    <1>2. ASSUME NEW q \in Procs, ~stale'[q]
          PROVE  Sees(job'[q], pc'[q], bal', fx')
        BY <1>2 DEF MoneyInv
    <1>3. QED
        BY <1>1, <1>2 DEF MoneyInv

(* A smaller shortfall is explained as well.                               *)
LEMMA RoundedLess ==
    ASSUME NEW f \in Policies, NEW cents \in Nat, NEW x \in Int, NEW y \in Int, x <= y,
           RoundedUp(y, cents, f)
    PROVE  RoundedUp(x, cents, f)
    <1>1. f.rate \in Nat
        BY AccountAssumption
    <1>2. Scale \in Nat /\ Unit \in Nat
        BY ExchangeAssumption
    <1>3. PICK k \in Nat : k = 2 * f.rate * Scale
        BY <1>1, <1>2
    <1>4. k * x <= k * y /\ k * x \in Int /\ k * y \in Int
        BY MulMono
    <1>5. PICK t \in Int :
            t = Unit * Scale * Scale + cents * Unit * f.rate + Scale * f.rate
        BY <1>1, <1>2
    <1>6. k * y <= t
        BY <1>3, <1>5 DEF RoundedUp
    <1>7. k * x <= t
        BY <1>4, <1>6
    <1>8. QED
        BY <1>3, <1>5, <1>7 DEF RoundedUp

LEMMA LegsTyped ==
    ASSUME PurchaseInv, NEW l \in legs
    PROVE  l.cents \in Nat
    <1>1. l.id \in DOMAIN outcome /\ l \in LegsOf(l.id) /\ \A m \in legs : m.amount \in Nat
        BY DEF PurchaseInv, BookInv, LegsOf
    <1>2. PartPaid(l.id) \/ FullyPaid(l.id)
        BY <1>1 DEF PurchaseInv, PaidInv
    <1>3. CASE PartPaid(l.id)
        BY <1>1, <1>3 DEF PartPaid
    <1>4. CASE FullyPaid(l.id)
        BY <1>1, <1>4 DEF FullyPaid
    <1>5. QED
        BY <1>2, <1>3, <1>4

(* Money comes in.                                                         *)
LEMMA SeedMoney ==
    ASSUME PurchaseInv, PurchaseInv', MoneyInv,
           openCustomerAccount \/ depositIfEmpty \/ Deposit
    PROVE  MoneyInv'
    <1>1. UNCHANGED <<legs, pc, job, fx, lived, stale, overlapped>>
        BY DEF openCustomerAccount, depositIfEmpty, Deposit, clients, reads, history
    <1>2. bal \in [Currencies -> Int] /\ bal' \in [Currencies -> Int]
        BY DEF PurchaseInv, BookInv
    <1>3. \A c \in Currencies : bal[c] <= bal'[c]
        <2>1. CASE openCustomerAccount
            BY <1>2, <2>1 DEF openCustomerAccount
        <2>2. CASE depositIfEmpty
            <3> DEFINE c == IF NeedsSeed("USD") THEN "USD" ELSE "USDC"
            <3>1. c \in Currencies /\ SeedAmount[c] \in Nat
                BY AccountAssumption DEF Currencies
            <3>2. \/ UNCHANGED bal
                  \/ bal' = [bal EXCEPT ![c] = @ + SeedAmount[c]]
                BY <2>2 DEF depositIfEmpty
            <3> HIDE DEF c
            <3>3. QED
                BY <1>2, <3>1, <3>2
        <2>3. CASE Deposit
            <3>1. PICK c \in Currencies, minor \in Amounts :
                    bal' = [bal EXCEPT ![c] = @ + minor]
                BY <2>3 DEF Deposit
            <3>2. minor \in Nat
                BY AccountAssumption
            <3>3. QED
                BY <1>2, <3>1, <3>2
        <2>4. QED
            BY <2>1, <2>2, <2>3
    <1>4. NoOverdraft'
        <2>0. SUFFICES ASSUME ~overlapped PROVE NoOverdraft'
            BY <1>1 DEF NoOverdraft, BalancesHeld
        <2>1. /\ bal["USD"] \in Int /\ bal'["USD"] \in Int /\ bal["USD"] <= bal'["USD"]
              /\ bal["USDC"] \in Int /\ bal'["USDC"] \in Int /\ bal["USDC"] <= bal'["USDC"]
            BY <1>2, <1>3 DEF Currencies
        <2>2. bal["USD"] >= 0
            BY <2>0 DEF MoneyInv, NoOverdraft, BalancesHeld
        <2>3. CASE bal["USDC"] >= 0
            BY <2>1, <2>2, <2>3 DEF NoOverdraft, BalancesHeld
        <2>4. ASSUME NEW l \in legs, NEW f \in lived, l.currency = "USDC",
                     RoundedUp(-bal["USDC"], l.cents, f), l.cents \in Nat
              PROVE  RoundedUp(-bal'["USDC"], l.cents, f)
            <3>1. f \in Policies
                BY DEF PurchaseInv, ControlInv
            <3>2. -bal'["USDC"] <= -bal["USDC"]
                BY <2>1
            <3>3. QED
                BY <2>1, <2>4, <3>1, <3>2, RoundedLess
        <2>5. \A l \in legs : l.cents \in Nat
            BY LegsTyped
        <2>6. QED
            BY <1>1, <2>0, <2>1, <2>2, <2>3, <2>4, <2>5 DEF MoneyInv, NoOverdraft, BalancesHeld
    <1>5. ASSUME NEW p \in Procs, ~stale'[p]
          PROVE  Sees(job'[p], pc'[p], bal', fx')
        BY <1>1, <1>2, <1>3, <1>5, SeesMore DEF MoneyInv
    <1>6. QED
        BY <1>1, <1>4, <1>5 DEF MoneyInv

LEMMA EditMoney ==
    ASSUME PurchaseInv, MoneyInv, EditWaterfall \/ EditPolicy
    PROVE  MoneyInv'
    <1>1. UNCHANGED <<bal, legs, pc, job, overlapped>> /\ lived \subseteq lived'
        BY DEF EditWaterfall, EditPolicy, books, clients, history
    <1>2. NoOverdraft'
        BY <1>1 DEF MoneyInv, NoOverdraft, BalancesHeld
    <1>3. stale' \in [Procs -> BOOLEAN]
        BY DEF EditWaterfall, EditPolicy, history, MoneyInv
    <1>4. ASSUME NEW p \in Procs, ~stale'[p]
          PROVE  Sees(job'[p], pc'[p], bal', fx')
        <2>1. CASE EditWaterfall
            BY <1>1, <1>4, <2>1 DEF EditWaterfall, history, MoneyInv
        <2>2. CASE EditPolicy
            <3>1. ~stale[p] /\ pc[p] \notin {"evaluate", "leg", "post"}
                BY <1>4, <2>2 DEF EditPolicy
            <3>2. Sees(job[p], pc[p], bal, fx)
                BY <3>1 DEF MoneyInv
            <3>3. QED
                BY <1>1, <3>1, <3>2, SeesAnyPolicy
        <2>3. QED
            BY <2>1, <2>2
    <1>5. QED
        BY <1>2, <1>3, <1>4 DEF MoneyInv

(* A purchase that has read nothing yet, or has ended, relies on nothing.  *)
LEMMA SeesNothing ==
    ASSUME NEW j, NEW at, NEW b, NEW f, at \notin Making \ {"usd"}
    PROVE  Sees(j, at, b, f)
    BY DEF Sees, Making

LEMMA BeginMoney ==
    ASSUME PurchaseInv, MoneyInv, NEW p \in Procs, NEW left, Begin(p, left)
    PROVE  MoneyInv'
    <1>1. /\ UNCHANGED <<bal, legs, fx, lived, stale, overlapped>>
          /\ pc' = [pc EXCEPT ![p] = "usd"]
        BY DEF Begin, books, reads, history
    <1>2. \A q \in Procs \ {p} : job'[q] = job[q]
        BY TypedInv DEF Begin
    <1>3. pc'[p] = "usd" /\ \A q \in Procs \ {p} : pc'[q] = pc[q]
        BY <1>1, TypedInv
    <1>4. Sees(job'[p], pc'[p], bal, fx)
        BY <1>3, SeesNothing
    <1>5. QED
        BY <1>1, <1>2, <1>3, <1>4, IdleMoney DEF MoneyInv

LEMMA ReadMoney ==
    ASSUME PurchaseInv, MoneyInv, NEW p \in Procs,
           ReadUSD(p) \/ ReadUSDC(p) \/ Quote(p) \/ LegQuote(p)
    PROVE  MoneyInv'
    <1>1. /\ bal \in [Currencies -> Int] /\ job[p] \in JobType
          /\ bal["USD"] \in Int /\ bal["USDC"] \in Int
          /\ job \in [Procs -> JobType] /\ pc \in [Procs -> {"idle", "next"} \cup Making]
        BY TypedInv DEF Currencies
    <1>2. /\ UNCHANGED <<bal, legs, fx, lived, overlapped>>
          /\ \A q \in Procs \ {p} : pc'[q] = pc[q] /\ job'[q] = job[q]
        BY <1>1 DEF ReadUSD, ReadUSDC, Quote, LegQuote, books, reads, history
    <1>3. stale' \in [Procs -> BOOLEAN] /\ \A q \in Procs \ {p} : stale'[q] = stale[q]
        BY DEF ReadUSD, ReadUSDC, Quote, LegQuote, history, MoneyInv
    <1>4. ASSUME ~stale'[p] PROVE Sees(job'[p], pc'[p], bal, fx)
        <2>1. CASE ReadUSD(p)
            <3>1. job' = [job EXCEPT ![p].usd = bal["USD"]] /\ pc' = [pc EXCEPT ![p] = "usdc"]
                BY <2>1 DEF ReadUSD
            <3>2. job'[p].usd = bal["USD"] /\ pc'[p] = "usdc"
                BY <1>1, <3>1 DEF JobType
            <3>3. QED
                BY <1>1, <3>2 DEF Sees
        <2>2. CASE ReadUSDC(p)
            <3>1. /\ job' = [job EXCEPT ![p].usdc = bal["USDC"]]
                  /\ pc' = [pc EXCEPT ![p] = "quote"] /\ pc[p] = "usdc" /\ stale' = stale
                BY <2>2 DEF ReadUSDC, history
            <3>2. job'[p].usdc = bal["USDC"] /\ job'[p].usd = job[p].usd /\ pc'[p] = "quote"
                BY <1>1, <3>1 DEF JobType
            <3>3. Sees(job[p], "usdc", bal, fx)
                BY <1>4, <3>1 DEF MoneyInv
            <3>4. QED
                BY <1>1, <3>2, <3>3 DEF Sees
        <2>3. CASE Quote(p)
            <3>1. PICK w : w = QuoteToUSD(job[p].usdc, fx)
                OBVIOUS
            <3>2. /\ job' = [job EXCEPT ![p].worth = w]
                  /\ pc' = [pc EXCEPT ![p] = "evaluate"] /\ pc[p] = "quote" /\ stale' = stale
                BY <2>3, <3>1 DEF Quote, history
            <3>3. /\ job'[p].worth = w /\ job'[p].usd = job[p].usd
                  /\ job'[p].usdc = job[p].usdc /\ pc'[p] = "evaluate"
                BY <1>1, <3>2 DEF JobType
            <3>4. Sees(job[p], "quote", bal, fx)
                BY <1>4, <3>2 DEF MoneyInv
            <3>5. QED
                BY <3>1, <3>3, <3>4 DEF Sees
        <2>4. CASE LegQuote(p)
            <3>0. PICK leg : leg = Head(job[p].funding)
                OBVIOUS
            <3>1. PICK m : m = IF leg.currency = "USD" THEN leg.cents
                               ELSE QuoteToUSDC(leg.cents, fx)
                OBVIOUS
            <3>2. /\ job' = [job EXCEPT ![p].minor = m]
                  /\ pc' = [pc EXCEPT ![p] = "post"] /\ pc[p] = "leg" /\ stale' = stale
                BY <2>4, <3>0, <3>1 DEF LegQuote, history
            <3>3. /\ job'[p].minor = m /\ job'[p].funding = job[p].funding
                  /\ job'[p].usdc = job[p].usdc /\ pc'[p] = "post"
                BY <1>1, <3>2 DEF JobType
            <3>4. Sees(job[p], "leg", bal, fx)
                BY <1>4, <3>2 DEF MoneyInv
            <3>5. leg = job[p].funding[1]
                <4>1. OwnJob(job[p], "leg")
                    BY <3>2, TypedInv DEF JobOK, Making
                <4>2. QED
                    BY <3>0, <4>1, FirstLeg DEF OwnJob
            <3>6. \A i \in 1..Len(job[p].funding) : LegSeen(job'[p], job[p].funding[i], bal, fx)
                BY <3>3, <3>4 DEF Sees, LegSeen
            <3>7. QED
                BY <3>1, <3>3, <3>5, <3>6 DEF Sees
        <2>5. QED
            BY <2>1, <2>2, <2>3, <2>4
    <1>5. QED
        BY <1>2, <1>3, <1>4, IdleMoney

(* An approved funding asks for no more than was read; an answer ends it.  *)
LEMMA AnswerMoney ==
    ASSUME PurchaseInv, MoneyInv, NEW p \in Procs,
           Evaluate(p) \/ PostRefused(p) \/ QuoteRefused(p) \/ StoreError(p)
    PROVE  MoneyInv'
    <1>1. /\ bal \in [Currencies -> Int] /\ job[p] \in JobType
          /\ job \in [Procs -> JobType] /\ pc \in [Procs -> {"idle", "next"} \cup Making]
          /\ pc[p] \in Making
        BY TypedInv DEF Evaluate, PostRefused, QuoteRefused, StoreError, Making
    <1>2. UNCHANGED <<bal, legs, fx, lived, stale, overlapped>>
        BY DEF Evaluate, PostRefused, QuoteRefused, StoreError, books, reads, history
    <1>3. \A q \in Procs \ {p} : pc'[q] = pc[q] /\ job'[q] = job[q]
        BY <1>1 DEF Evaluate, PostRefused, QuoteRefused, StoreError, Answer
    <1>4. ASSUME NEW result \in {"approved", "declined", "error"}, Answer(p, result)
          PROVE  Sees(job'[p], pc'[p], bal, fx)
        BY <1>1, <1>4, AnswerEffect, SeesNothing
    <1>5. ASSUME ~stale[p] PROVE Sees(job'[p], pc'[p], bal, fx)
        <2>1. CASE Evaluate(p)
            <3>1. PICK d : d = EvaluateWaterfall(rule, job[p].amount, job[p].usd, job[p].worth)
                OBVIOUS
            <3>2. /\ pc[p] = "evaluate" /\ job' = [job EXCEPT ![p].funding = d.funding]
                  /\ IF d.decision = "approved"
                     THEN pc' = [pc EXCEPT ![p] = "leg"] /\ UNCHANGED outcome
                     ELSE Answer(p, d.decision)
                BY <2>1, <3>1 DEF Evaluate
            <3>3. PurchaseInv'
                BY <2>1, EvaluateStep
            <3>4. /\ job'[p].funding = d.funding /\ job'[p].usd = job[p].usd
                  /\ job'[p].usdc = job[p].usdc /\ job'[p].worth = job[p].worth
                  /\ job'[p].amount = job[p].amount
                BY <1>1, <3>2 DEF JobType
            <3>5. /\ job[p].usd \in Int /\ job[p].usdc \in Int /\ job[p].worth \in Int
                  /\ job[p].amount \in Nat \ {0} /\ rule \in WaterfallContent
                <4>1. OwnJob(job[p], pc[p])
                    BY <1>1, TypedInv DEF JobOK
                <4>2. QED
                    BY <1>1, <4>1, AccountAssumption DEF JobType, OwnJob, PurchaseInv, ControlInv
            <3>6. /\ d.funding \in Seq(FundingLegs)
                  /\ d.decision \in {"approved", "declined", "error"}
                  /\ d.decision = "approved" =>
                       Covers(d.funding, job[p].amount, job[p].usd, job[p].worth)
                BY <3>1, <3>5, FundingTyped, WaterfallCovers
            <3>7. CASE d.decision = "approved"
                <4>1. pc'[p] = "leg"
                    BY <1>1, <3>2, <3>7
                <4>2. Sees(job[p], "evaluate", bal, fx)
                    BY <1>5, <3>2 DEF MoneyInv
                <4>3. /\ job[p].usd <= bal["USD"] /\ job[p].usdc <= bal["USDC"]
                      /\ job[p].worth = QuoteToUSD(job[p].usdc, fx)
                    BY <4>2 DEF Sees
                <4>4. ASSUME NEW i \in 1..Len(d.funding)
                      PROVE  LegSeen(job'[p], d.funding[i], bal, fx)
                    <5>1. bal["USD"] \in Int
                        BY <1>1 DEF Currencies
                    <5>2. \/ /\ d.funding[i].currency = "USD"
                             /\ d.funding[i].cents \in 1..job[p].usd
                          \/ /\ d.funding[i].currency = "USDC"
                             /\ d.funding[i].cents \in 1..job[p].worth
                        BY <3>6, <3>7 DEF Covers
                    <5>3. QED
                        BY <3>4, <3>5, <4>3, <5>1, <5>2 DEF LegSeen
                <4>5. QED
                    BY <3>4, <4>1, <4>4 DEF Sees
            <3>8. CASE d.decision # "approved"
                BY <1>4, <3>2, <3>6, <3>8
            <3>9. QED
                BY <3>7, <3>8
        <2>2. CASE PostRefused(p) \/ QuoteRefused(p) \/ StoreError(p)
            BY <1>4, <2>2 DEF PostRefused, QuoteRefused, StoreError
        <2>3. QED
            BY <2>1, <2>2
    <1>6. QED
        BY <1>2, <1>3, <1>5, IdleMoney DEF MoneyInv

(* A leg is posted: the others that are under way are stale from now on.   *)
LEMMA PostMoney ==
    ASSUME PurchaseInv, PurchaseInv', MoneyInv, NEW p \in Procs, Post(p) \/ PostLost(p)
    PROVE  MoneyInv'
    <1>1. PICK j : j = job[p]
        OBVIOUS
    <1>2. PICK l : l = j.funding[1]
        OBVIOUS
    <1>3. /\ bal \in [Currencies -> Int] /\ j \in JobType /\ OwnJob(j, "post")
          /\ job \in [Procs -> JobType] /\ pc \in [Procs -> {"idle", "next"} \cup Making]
          /\ pc[p] = "post"
        BY <1>1, TypedInv DEF Post, PostLost, JobOK, Making
    <1>4. /\ j.funding \in Seq(FundingLegs) /\ ToPost(j)
        BY <1>3 DEF OwnJob
    <1>5. /\ Len(j.funding) \in {1, 2} /\ Head(j.funding) = l /\ l \in FundingLegs
        BY <1>2, <1>4, FirstLeg
    <1>6. PICK new : new = [id |-> j.id, currency |-> l.currency, minor |-> j.minor,
                            cents |-> l.cents, amount |-> j.amount]
        OBVIOUS
    <1>7. /\ bal' = [bal EXCEPT ![l.currency] = @ - j.minor]
          /\ legs' = legs \cup {new}
          /\ stale' = [q \in Procs |-> stale[q] \/ (q # p /\ pc[q] # "idle")]
          /\ overlapped' = (overlapped \/ stale[p])
          /\ UNCHANGED <<fx, lived>>
        BY <1>1, <1>5, <1>6 DEF Post, PostLost, PostLeg, reads
    <1>8. l.currency \in Currencies /\ l.cents \in Nat \ {0} /\ j.minor \in Int
          /\ j.usdc \in Int /\ fx \in Policies /\ fx \in lived
        BY <1>3, <1>5 DEF FundingLegs, JobType, PurchaseInv, ControlInv
    <1>9. stale' \in [Procs -> BOOLEAN]
        BY <1>7 DEF MoneyInv
    <1>10. /\ \A c \in Currencies : c # l.currency => bal'[c] = bal[c]
           /\ bal'[l.currency] = bal[l.currency] - j.minor
        BY <1>3, <1>7, <1>8
    <1>11. /\ \A q \in Procs \ {p} : pc'[q] = pc[q] /\ job'[q] = job[q]
        BY <1>3 DEF Post, PostLost, Answer
    <1>12. ASSUME ~stale[p]
           PROVE  /\ \A i \in 1..Len(j.funding) : LegSeen(j, j.funding[i], bal, fx)
                  /\ LegSeen(j, l, bal, fx)
                  /\ j.minor = IF l.currency = "USD" THEN l.cents
                               ELSE QuoteToUSDC(l.cents, fx)
        <2>1. Sees(j, "post", bal, fx)
            BY <1>1, <1>3, <1>12 DEF MoneyInv
        <2>2. 1 \in 1..Len(j.funding)
            BY <1>5
        <2>3. QED
            BY <1>2, <2>1, <2>2 DEF Sees
    <1>13. NoOverdraft'
        <2>1. SUFFICES ASSUME ~overlapped' PROVE NoOverdraft'
            BY DEF NoOverdraft, BalancesHeld
        <2>2. ~overlapped /\ ~stale[p]
            BY <1>7, <2>1
        <2>3. /\ bal["USD"] >= 0
              /\ \/ bal["USDC"] >= 0
                 \/ \E m \in legs, f \in lived :
                      m.currency = "USDC" /\ RoundedUp(-bal["USDC"], m.cents, f)
            BY <2>2 DEF MoneyInv, NoOverdraft, BalancesHeld
        <2>4. bal["USD"] \in Int /\ bal["USDC"] \in Int
            BY <1>3 DEF Currencies
        <2>5. CASE l.currency = "USD"
            <3>1. bal'["USD"] = bal["USD"] - l.cents /\ bal'["USDC"] = bal["USDC"]
                BY <1>10, <1>12, <2>2, <2>5 DEF Currencies
            <3>2. l.cents <= bal["USD"]
                BY <1>12, <2>2, <2>5 DEF LegSeen
            <3>3. bal'["USD"] >= 0
                BY <1>8, <2>4, <3>1, <3>2
            <3>4. QED
                BY <1>7, <2>3, <3>1, <3>3 DEF NoOverdraft, BalancesHeld
        <2>6. CASE l.currency = "USDC"
            <3>1. PICK v : v = QuoteToUSDC(l.cents, fx)
                OBVIOUS
            <3>2. v \in Int /\ bal'["USDC"] = bal["USDC"] - v /\ bal'["USD"] = bal["USD"]
                BY <1>8, <1>10, <1>12, <2>2, <2>6, <3>1 DEF Currencies
            <3>3. l.cents <= QuoteToUSD(j.usdc, fx) /\ j.usdc <= bal["USDC"]
                BY <1>12, <2>2, <2>6 DEF LegSeen
            <3>4. v <= j.usdc \/ RoundedUp(v - j.usdc, l.cents, fx)
                BY <1>8, <3>1, <3>3, LegWithin
            <3>5. CASE v <= j.usdc
                BY <1>8, <2>3, <2>4, <3>2, <3>3, <3>5 DEF NoOverdraft, BalancesHeld
            <3>6. CASE RoundedUp(v - j.usdc, l.cents, fx)
                <4>1. -bal'["USDC"] <= v - j.usdc /\ -bal'["USDC"] \in Int
                    BY <1>8, <2>4, <3>2, <3>3
                <4>2. RoundedUp(-bal'["USDC"], l.cents, fx)
                    BY <1>8, <3>2, <3>6, <4>1, RoundedLess
                <4>3. new \in legs' /\ new.currency = "USDC" /\ new.cents = l.cents
                    BY <1>6, <1>7, <2>6
                <4>4. QED
                    BY <1>7, <1>8, <2>3, <3>2, <4>2, <4>3 DEF NoOverdraft, BalancesHeld
            <3>7. QED
                BY <3>4, <3>5, <3>6
        <2>7. QED
            BY <1>8, <2>5, <2>6 DEF Currencies
    <1>14. ASSUME NEW q \in Procs, ~stale'[q]
           PROVE  Sees(job'[q], pc'[q], bal', fx')
        <2>1. CASE q # p
            <3>1. pc'[q] = "idle"
                BY <1>7, <1>11, <1>14, <2>1
            <3>2. QED
                BY <3>1, SeesNothing DEF Making
        <2>2. CASE q = p /\ pc'[p] \notin Making
            BY <2>2, SeesNothing
        <2>3. CASE q = p /\ pc'[p] \in Making
            <3>1. Post(p) /\ Tail(j.funding) # << >>
                <4>1. ASSUME NEW result \in {"approved", "error"}, Answer(p, result)
                      PROVE  pc'[p] \notin Making
                    BY <1>3, <4>1, AnswerEffect DEF Making
                <4>2. QED
                    BY <1>1, <2>3, <4>1 DEF Post, PostLost
            <3>2. /\ pc' = [pc EXCEPT ![p] = "leg"]
                  /\ job' = [job EXCEPT ![p].funding = Tail(j.funding)]
                BY <1>1, <3>1 DEF Post
            <3>3. Len(j.funding) = 2
                BY <1>4, <1>5, <3>1, ShortTail
            <3>4. /\ Tail(j.funding) \in Seq(FundingLegs)
                  /\ Len(Tail(j.funding)) = 1 /\ Tail(j.funding)[1] = j.funding[2]
                BY <1>4, <3>3, ShortTail
            <3>5. PICK rest : rest = Tail(j.funding)
                OBVIOUS
            <3>6. /\ pc'[p] = "leg" /\ job'[p].funding = rest
                  /\ job'[p].usdc = j.usdc
                BY <1>1, <1>3, <3>2, <3>5 DEF JobType
            <3>7. j.funding[1].currency # j.funding[2].currency
                BY <1>4, <3>3 DEF ToPost, Covers
            <3>8. LegSeen(j, j.funding[2], bal, fx)
                <4>1. ~stale[p]
                    BY <1>7, <1>14, <2>3
                <4>2. 2 \in 1..Len(j.funding)
                    BY <3>3
                <4>3. QED
                    BY <1>12, <4>1, <4>2
            <3>9. j.funding[2] \in FundingLegs
                BY <1>4, <3>3, ShortTail
            <3>10. LegSeen(job'[p], j.funding[2], bal', fx')
                <4>1. j.funding[2].currency \in Currencies
                    BY <3>9 DEF FundingLegs
                <4>2. bal'[j.funding[2].currency] = bal[j.funding[2].currency]
                    BY <1>2, <1>10, <3>7, <4>1
                <4>3. QED
                    BY <1>7, <3>6, <3>8, <4>1, <4>2 DEF LegSeen, Currencies
            <3>11. \A i \in 1..Len(rest) : LegSeen(job'[p], rest[i], bal', fx')
                BY <3>4, <3>5, <3>10
            <3>12. QED
                BY <2>3, <3>6, <3>11 DEF Sees
        <2>4. QED
            BY <2>1, <2>2, <2>3
    <1>15. QED
        BY <1>9, <1>13, <1>14 DEF MoneyInv

LEMMA CrashMoney ==
    ASSUME MoneyInv, Crash
    PROVE  MoneyInv'
    <1>1. /\ pc' = [p \in Procs |-> "idle"] /\ stale' = [p \in Procs |-> FALSE]
          /\ UNCHANGED <<bal, legs, lived, overlapped>>
        BY DEF Crash, books, reads
    <1>2. \A p \in Procs : Sees(job'[p], pc'[p], bal', fx')
        BY <1>1, SeesNothing DEF Making
    <1>3. NoOverdraft'
        BY <1>1 DEF MoneyInv, NoOverdraft, BalancesHeld
    <1>4. QED
        BY <1>1, <1>2, <1>3 DEF MoneyInv

LEMMA MoneyInductive ==
    ASSUME PurchaseInv, PurchaseInv', MoneyInv, [Next]_vars
    PROVE  MoneyInv'
    <1>1. CASE openCustomerAccount \/ depositIfEmpty \/ Deposit
        BY <1>1, SeedMoney
    <1>2. ASSUME NEW p \in Procs, Step(p)
          PROVE  MoneyInv'
        <2>1. CASE BulkRandomPurchases(p) \/ NextPurchase(p)
            BY <2>1, BeginMoney DEF BulkRandomPurchases, NextPurchase
        <2>2. QED
            BY <1>2, <2>1, ReadMoney, AnswerMoney, PostMoney DEF Step
    <1>3. CASE EditWaterfall \/ EditPolicy
        BY <1>3, EditMoney
    <1>4. CASE UNCHANGED vars
        <2>1. UNCHANGED <<bal, legs, fx, lived, overlapped, stale, pc, job>>
            BY <1>4 DEF vars, books, reads, clients, history
        <2>2. NoOverdraft'
            BY <2>1 DEF MoneyInv, NoOverdraft, BalancesHeld
        <2>3. QED
            BY <2>1, <2>2 DEF MoneyInv
    <1>5. QED
        BY <1>1, <1>2, <1>3, <1>4, CrashMoney DEF Next

(* Post checks no balance, yet a customer is overdrawn only by purchases   *)
(* that overlapped, by an edit of the rate during a purchase, or by what   *)
(* the quotes of a single leg were rounded up (Purchase, Quote).           *)
THEOREM OverdraftsExplained == Spec => []NoOverdraft
    <1>1. Init => PurchaseInv /\ MoneyInv
        <2>1. SUFFICES ASSUME Init PROVE PurchaseInv /\ MoneyInv
            OBVIOUS
        <2>2. PurchaseInv
            BY <2>1, InitPurchases
        <2>3. /\ \A p \in Procs : pc[p] = "idle" /\ stale[p] = FALSE
              /\ stale \in [Procs -> BOOLEAN] /\ bal["USD"] = 0 /\ bal["USDC"] = 0
            BY <2>1 DEF Init, Currencies
        <2>4. \A p \in Procs : Sees(job[p], pc[p], bal, fx)
            BY <2>3, SeesNothing DEF Making
        <2>5. NoOverdraft
            BY <2>3 DEF NoOverdraft, BalancesHeld
        <2>6. QED
            BY <2>2, <2>3, <2>4, <2>5 DEF MoneyInv
    <1>2. PurchaseInv /\ MoneyInv /\ [Next]_vars => (PurchaseInv /\ MoneyInv)'
        BY PurchaseInductive, MoneyInductive
    <1>3. MoneyInv => NoOverdraft
        BY DEF MoneyInv
    <1>4. QED
        BY <1>1, <1>2, <1>3, PTL DEF Spec
=============================================================================
