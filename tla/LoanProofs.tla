----------------------------- MODULE LoanProofs -----------------------------
(***************************************************************************)
(* Proofs about the loans of module Loan: types, what is lent, the fees    *)
(* that are charged, the terms on which money is lent, and the projection. *)
(***************************************************************************)
EXTENDS Loan, SumTheorems, SequenceTheorems, TLAPS

(* Multiplication by a natural number is monotone.                         *)
LEMMA MulMono ==
    ASSUME NEW a \in Nat, NEW x \in Int, NEW y \in Int, x <= y
    PROVE  a * x <= a * y
    OBVIOUS

(* What holds of 0 and passes from each number to the next.                *)
LEMMA Induction ==
    ASSUME NEW S, 0 \in S, \A k \in Nat : k \in S => k + 1 \in S
    PROVE  \A k \in Nat : k \in S
    <1>1. SUFFICES ASSUME {k \in Nat : k \notin S} # {} PROVE FALSE
        OBVIOUS
    <1>2. PICK m \in {k \in Nat : k \notin S} : \A i \in {k \in Nat : k \notin S} : m <= i
        BY <1>1, LeastNatural
    <1>3. m # 0
        BY <1>2
    <1>4. m - 1 \in Nat /\ m - 1 \in S
        BY <1>2, <1>3
    <1>5. (m - 1) + 1 \in S
        BY <1>4
    <1>6. QED
        BY <1>2, <1>5

(* Functions defined by recursion over 0..n exist, and have the values     *)
(* that their step yields.                                                 *)
IsRec(h, n, a, step) ==
    h = [i \in 0..n |-> IF i = 0 THEN a ELSE step[<<i, h[i - 1]>>]]

LEMMA RecExists ==
    ASSUME NEW n \in Nat, NEW a, NEW step
    PROVE  \E h : IsRec(h, n, a, step)
    <1> DEFINE S == {k \in Nat : \E h : IsRec(h, k, a, step)}
    <1>1. 0 \in S
        <2>1. IsRec([i \in 0..0 |-> a], 0, a, step)
            BY DEF IsRec
        <2>2. QED
            BY <2>1
    <1>2. ASSUME NEW k \in Nat, k \in S
          PROVE  k + 1 \in S
        <2>1. PICK g : IsRec(g, k, a, step)
            BY <1>2
        <2> DEFINE h == [i \in 0..k + 1 |-> IF i = 0 THEN a ELSE step[<<i, g[i - 1]>>]]
        <2>2. \A i \in 0..k : g[i] = IF i = 0 THEN a ELSE step[<<i, g[i - 1]>>]
            BY <2>1 DEF IsRec
        <2>3. \A i \in 0..k : h[i] = g[i]
            BY <2>2
        <2>4. \A i \in 0..k + 1 : i # 0 => h[i - 1] = g[i - 1]
            BY <2>3
        <2>5. h = [i \in 0..k + 1 |-> IF i = 0 THEN a ELSE step[<<i, h[i - 1]>>]]
            BY <2>4
        <2> HIDE DEF h
        <2>6. IsRec(h, k + 1, a, step)
            BY <2>5 DEF IsRec
        <2>7. QED
            BY <2>6
    <1> HIDE DEF S
    <1>3. n \in S
        BY <1>1, <1>2, Induction
    <1>4. QED
        BY <1>3 DEF S

Closed(step, n, S) == \A i \in 1..n : \A x \in S : step[<<i, x>>] \in S

LEMMA RecValues ==
    ASSUME NEW n \in Nat, NEW a, NEW step, NEW h, IsRec(h, n, a, step), NEW S, a \in S,
           Closed(step, n, S)
    PROVE  h \in [0..n -> S]
    <1> DEFINE T == {k \in Nat : k <= n => h[k] \in S}
    <1>1. /\ h[0] = a /\ \A i \in 1..n : h[i] = step[<<i, h[i - 1]>>]
          /\ h = [i \in 0..n |-> h[i]]
        BY DEF IsRec
    <1>2. 0 \in T
        BY <1>1
    <1>3. ASSUME NEW k \in Nat, k \in T
          PROVE  k + 1 \in T
        <2>1. SUFFICES ASSUME k + 1 <= n PROVE h[k + 1] \in S
            OBVIOUS
        <2>2. k + 1 \in 1..n /\ (k + 1) - 1 = k
            BY <2>1
        <2>3. h[k] \in S
            BY <1>3, <2>1
        <2>4. h[k + 1] = step[<<k + 1, h[k]>>]
            BY <1>1, <2>2
        <2>5. QED
            BY <2>2, <2>3, <2>4 DEF Closed
    <1> HIDE DEF T
    <1>4. \A k \in 0..n : h[k] \in S
        <2>1. \A k \in Nat : k \in T
            BY <1>2, <1>3, Induction
        <2>2. QED
            BY <2>1 DEF T
    <1>5. QED
        BY <1>1, <1>4

-----------------------------------------------------------------------------
(* Schedules.  ratPow multiplies.                                          *)
LEMMA PowFacts ==
    ASSUME NEW b \in Nat, NEW n \in Nat
    PROVE  \E h \in [0..n -> Nat] :
             /\ ratPow(b, n) = h[n]
             /\ h[0] = 1 /\ \A i \in 1..n : h[i] = h[i - 1] * b
    <1> DEFINE step == [x \in (1..n) \X Nat |-> x[2] * b]
               R(h) == h = [i \in 0..n |-> IF i = 0 THEN 1 ELSE h[i - 1] * b]
    <1>1. \A i \in 1..n : \A x \in Nat : step[<<i, x>>] = x * b /\ step[<<i, x>>] \in Nat
        <2>1. SUFFICES ASSUME NEW i \in 1..n, NEW x \in Nat
                       PROVE  step[<<i, x>>] = x * b /\ step[<<i, x>>] \in Nat
            OBVIOUS
        <2>2. x * b \in Nat
            OBVIOUS
        <2>3. PICK y : y = <<i, x>>
            OBVIOUS
        <2>4. y \in (1..n) \X Nat /\ y[2] = x
            BY <2>3
        <2>5. step[y] = y[2] * b
            BY <2>4
        <2>6. QED
            BY <2>2, <2>3, <2>4, <2>5
    <1> HIDE DEF step
    <1>2. PICK g : IsRec(g, n, 1, step)
        BY RecExists
    <1>3. g \in [0..n -> Nat]
        <2>1. PICK S : S = Nat
            OBVIOUS
        <2>2. Closed(step, n, S)
            BY <1>1, <2>1 DEF Closed
        <2>3. 1 \in S
            BY <2>1
        <2>4. g \in [0..n -> S]
            BY <1>2, <2>2, <2>3, RecValues
        <2>5. QED
            BY <2>1, <2>4
    <1>4. R(g)
        <2>1. /\ g = [i \in 0..n |-> g[i]] /\ g[0] = 1
              /\ \A i \in 1..n : g[i] = step[<<i, g[i - 1]>>]
            <3>1. g = [i \in 0..n |-> IF i = 0 THEN 1 ELSE step[<<i, g[i - 1]>>]]
                BY <1>2 DEF IsRec
            <3>2. QED
                BY <3>1
        <2>2. ASSUME NEW i \in 1..n PROVE g[i] = g[i - 1] * b
            <3>1. i - 1 \in 0..n
                OBVIOUS
            <3>2. g[i - 1] \in Nat
                BY <1>3, <3>1
            <3>3. QED
                BY <1>1, <2>1, <3>2
        <2>3. \A i \in 0..n : g[i] = IF i = 0 THEN 1 ELSE g[i - 1] * b
            <3>1. SUFFICES ASSUME NEW i \in 0..n, i # 0 PROVE g[i] = g[i - 1] * b
                BY <2>1
            <3>2. i \in 1..n
                BY <3>1
            <3>3. QED
                BY <2>2, <3>2
        <2>4. [i \in 0..n |-> g[i]] = [i \in 0..n |-> IF i = 0 THEN 1 ELSE g[i - 1] * b]
            BY <2>3
        <2>5. QED
            BY <2>1, <2>4
    <1>5. \E h : R(h) /\ ratPow(b, n) = h[n]
        BY <1>4 DEF ratPow
    <1>6. PICK h : R(h) /\ ratPow(b, n) = h[n]
        BY <1>5
    <1>7. /\ h = [i \in 0..n |-> h[i]] /\ h[0] = 1 /\ \A i \in 1..n : h[i] = h[i - 1] * b
        BY <1>6
    <1>8. h \in [0..n -> Nat]
        <2> DEFINE T == {k \in Nat : k <= n => h[k] \in Nat}
        <2>1. 0 \in T
            BY <1>7
        <2>2. ASSUME NEW k \in Nat, k \in T
              PROVE  k + 1 \in T
            <3>1. SUFFICES ASSUME k + 1 <= n PROVE h[k + 1] \in Nat
                OBVIOUS
            <3>2. k + 1 \in 1..n /\ (k + 1) - 1 = k /\ h[k] \in Nat
                BY <2>2, <3>1
            <3>3. h[k + 1] = h[k] * b
                BY <1>7, <3>2
            <3>4. QED
                BY <3>2, <3>3
        <2> HIDE DEF T
        <2>3. \A k \in Nat : k \in T
            BY <2>1, <2>2, Induction
        <2>4. \A k \in 0..n : h[k] \in Nat
            BY <2>3 DEF T
        <2>5. QED
            BY <1>7, <2>4
    <1>9. QED
        BY <1>6, <1>7, <1>8

-----------------------------------------------------------------------------
(* The inductive invariant.  What a goroutine carries: an application, and *)
(* on the way to a write the terms or the event it is about.               *)
Fields == {"op", "then", "loan", "terms", "ask", "score", "priced", "decided", "amount", "st",
           "paid", "no", "event", "seq", "default", "list", "views", "todo", "ticks",
           "target", "grace"}

IsJob(j) == j = [f \in Fields |-> j[f]]

TermsOK(t) == /\ t = [principal |-> t.principal, rate |-> t.rate, term |-> t.term]
              /\ t.principal \in Nat \ {0}

EventOK(e) == /\ e.type = "originated" => e.terms.principal \in Nat \ {0}
              /\ e.type = "missed" => e.fee \in Nat

JobOK(at, j) ==
    /\ IsJob(j)
    /\ j.ask \in Asked
    /\ at \in {"decide", "open", "disburse"} => TermsOK(j.terms)
    /\ at \in {"fee", "writeoff", "insert", "commit"} => /\ EventOK(j.event)
                                                         /\ j.event.loan = j.loan
    /\ at = "fee" => j.event.type = "missed"
    /\ at = "writeoff" => j.event.type = "defaulted"

JobsOK == /\ pc = [p \in Procs |-> pc[p]] /\ job = [p \in Procs |-> job[p]]
          /\ \A p \in Procs : JobOK(pc[p], job[p])

(* A goroutine seeds alone, before there are requests.                     *)
PhaseOK ==
    /\ phase \in {"start", "down"} => \A p \in Procs : pc[p] = "idle"
    /\ phase = "seeding" =>
         \A p \in Procs : pc[p] # "idle" =>
             job[p].op = "seed" /\ \A q \in Procs : pc[q] # "idle" => q = p
    /\ phase = "up" => \A p \in Procs : pc[p] # "idle" => job[p].op # "seed"
    /\ phase \in {"start", "seeding", "up", "down"}

RulesOK == /\ DOMAIN rule = DOMAIN Contents
           /\ \A r \in DOMAIN Contents : rule[r] \in Contents[r]

BooksOK == /\ opened \subseteq Loans /\ lent \in [Loans -> Nat] /\ fees \in [Loans -> Nat]
           /\ \A l \in Loans : l \notin opened => lent[l] = 0
           /\ upsets \in Nat

Originates(e, l) == e.type = "originated" /\ e.loan = l

LogOK == /\ nextSeq \in Nat /\ DOMAIN log \subseteq 1..nextSeq
         /\ \A n \in DOMAIN log :
              /\ EventOK(log[n])
              /\ \A l \in Loans : Originates(log[n], l) =>
                                    l \in opened /\ lent[l] = log[n].terms.principal

(* Goroutine in step `at` with job j is about to bring the loan l to life. *)
Bears(at, j, l) ==
    /\ j.loan = l
    /\ at \in {"open", "disburse"} \/ (at \in {"insert", "commit"} /\ j.event.type = "originated")

Unlogged(l) == \A n \in DOMAIN log : ~Originates(log[n], l)

BirthOK(at, j) ==
    /\ at = "open" => j.loan \in Loans \ opened
    /\ at = "disburse" => j.loan \in opened /\ lent[j.loan] = 0 /\ Unlogged(j.loan)
    /\ at \in {"insert", "commit"} /\ j.event.type = "originated" =>
         /\ j.loan \in opened /\ lent[j.loan] = j.event.terms.principal
         /\ Unlogged(j.loan)

BirthsOK ==
    /\ \A p \in Procs : BirthOK(pc[p], job[p])
    /\ \A p, q \in Procs : p # q =>
         ~ \E l \in Loans : Bears(pc[p], job[p], l) /\ Bears(pc[q], job[q], l)

SeqOK(at, j) == /\ at = "commit" => j.seq \in (1..nextSeq) \ DOMAIN log
                /\ at = "apply" => j.seq \in DOMAIN log

SeqsOK ==
    /\ \A p \in Procs : SeqOK(pc[p], job[p])
    /\ \A p, q \in Procs : (p # q /\ {pc[p], pc[q]} \subseteq {"commit", "apply"})
                              => job[p].seq # job[q].seq

LentOK ==
    \A l \in Loans : lent[l] > 0 =>
        \/ upsets > 0
        \/ \E n \in DOMAIN log : Originates(log[n], l)
        \/ \E p \in Procs : /\ pc[p] \in {"insert", "commit"} /\ job[p].loan = l
                            /\ job[p].event.type = "originated"

(* The late fees of the events in a log, and of those on their way there.  *)
Fee(e, l) == IF e.loan = l /\ e.type = "missed" THEN e.fee ELSE 0

Logged(lg, l) == SumOver([n \in DOMAIN lg |-> Fee(lg[n], l)], DOMAIN lg)

Carried(at, j, l) == IF at \in {"insert", "commit"} THEN Fee(j.event, l) ELSE 0

OnWay(at, jobs, l) == SumOver([p \in Procs |-> Carried(at[p], jobs[p], l)], Procs)

FeesOK ==
    \A l \in Loans : /\ fees[l] >= Logged(log, l) + OnWay(pc, job, l)
                     /\ upsets = 0 => fees[l] = Logged(log, l) + OnWay(pc, job, l)

LoanInv == /\ JobsOK /\ PhaseOK /\ RulesOK
           /\ BooksOK /\ LogOK /\ BirthsOK /\ SeqsOK /\ LentOK /\ FeesOK

-----------------------------------------------------------------------------
(* Fees carried by goroutines, when one of them moves.                     *)
LEMMA CarriedNat ==
    ASSUME NEW at, NEW j, NEW l, JobOK(at, j)
    PROVE  Carried(at, j, l) \in Nat
    BY DEF Carried, Fee, JobOK, EventOK

Carriers(at, jobs, l) ==
    /\ at = [q \in Procs |-> at[q]] /\ jobs = [q \in Procs |-> jobs[q]]
    /\ \A q \in Procs : Carried(at[q], jobs[q], l) \in Nat

Moved(at, jobs, a, b, p, s, j) == a = [at EXCEPT ![p] = s] /\ b = [jobs EXCEPT ![p] = j]

LEMMA OnWayMove ==
    ASSUME NEW at, NEW jobs, NEW l, NEW p \in Procs, NEW s, NEW j, NEW a, NEW b,
           Carriers(at, jobs, l), Carried(s, j, l) \in Nat, Moved(at, jobs, a, b, p, s, j)
    PROVE  /\ OnWay(at, jobs, l) \in Nat /\ OnWay(a, b, l) \in Nat
           /\ OnWay(at, jobs, l) >= Carried(at[p], jobs[p], l)
           /\ OnWay(a, b, l) = OnWay(at, jobs, l) - Carried(at[p], jobs[p], l)
                                                   + Carried(s, j, l)
    <1> DEFINE f == [q \in Procs |-> Carried(at[q], jobs[q], l)]
               g == [q \in Procs |-> Carried(a[q], b[q], l)]
               rest == Procs \ {p}
    <1>1. /\ IsFiniteSet(Procs) /\ IsFiniteSet(rest)
        BY LoanAssumption, FS_Subset
    <1>2. /\ \A q \in Procs : f[q] \in Nat
          /\ f[p] = Carried(at[p], jobs[p], l)
        BY DEF Carriers
    <1>3. a[p] = s /\ b[p] = j /\ \A q \in rest : a[q] = at[q] /\ b[q] = jobs[q]
        BY DEF Carriers, Moved
    <1>4. g[p] = Carried(s, j, l) /\ \A q \in rest : g[q] = f[q]
        BY <1>3
    <1>5. \A q \in Procs : g[q] \in Nat
        BY <1>2, <1>4
    <1>6. OnWay(at, jobs, l) = SumOver(f, Procs) /\ OnWay(a, b, l) = SumOver(g, Procs)
        BY DEF OnWay
    <1> HIDE DEF f, g
    <1>7. /\ SumOver(f, Procs) = f[p] + SumOver(f, rest)
          /\ SumOver(g, Procs) = g[p] + SumOver(g, rest)
        BY <1>1, <1>2, <1>5, SumOverRemove
    <1>8. SumOver(f, rest) = SumOver(g, rest) /\ SumOver(f, rest) \in Nat
        BY <1>1, <1>2, <1>4, SumOverSame, SumOverNat
    <1>9. SumOver(f, Procs) \in Nat /\ SumOver(g, Procs) \in Nat
        BY <1>1, <1>2, <1>5, SumOverNat
    <1>10. f[p] \in Nat /\ g[p] \in Nat
        BY <1>2, <1>5
    <1>11. /\ OnWay(at, jobs, l) \in Nat /\ OnWay(a, b, l) \in Nat
           /\ OnWay(at, jobs, l) >= f[p]
           /\ OnWay(a, b, l) = OnWay(at, jobs, l) - f[p] + g[p]
        BY <1>6, <1>7, <1>8, <1>9, <1>10
    <1>12. QED
        BY <1>2, <1>4, <1>11

LEMMA LoggedNat ==
    ASSUME LogOK, NEW l
    PROVE  Logged(log, l) \in Nat /\ IsFiniteSet(DOMAIN log)
    <1>1. IsFiniteSet(DOMAIN log)
        <2>1. 1 \in Int /\ nextSeq \in Int /\ DOMAIN log \subseteq 1..nextSeq
            BY DEF LogOK
        <2>2. IsFiniteSet(1..nextSeq)
            BY <2>1, FS_Interval
        <2>3. QED
            BY <2>1, <2>2, FS_Subset
    <1> DEFINE f == [n \in DOMAIN log |-> Fee(log[n], l)]
    <1>2. \A n \in DOMAIN log : f[n] \in Nat
        BY DEF LogOK, EventOK, Fee
    <1>3. Logged(log, l) = SumOver(f, DOMAIN log)
        BY DEF Logged
    <1> HIDE DEF f
    <1>4. QED
        BY <1>1, <1>2, <1>3, SumOverNat

(* Goroutine p goes on, comes to an end or begins.                         *)
Moves(p, s, j) ==
    /\ pc' = [pc EXCEPT ![p] = s] /\ job' = [job EXCEPT ![p] = j]
    /\ JobOK(s, j)
    /\ \/ pc[p] # "idle" /\ s # "idle" /\ phase' = phase /\ j.op = job[p].op
       \/ /\ pc[p] # "idle" /\ s = "idle"
          /\ IF job[p].op = "seed" THEN phase' \in {"up", "down"} ELSE phase' = phase
       \/ pc[p] = "idle" /\ phase = "up" /\ phase' = phase /\ j.op # "seed"
       \/ phase = "start" /\ phase' = "seeding" /\ j.op = "seed"

LEMMA MoveAt ==
    ASSUME JobsOK, NEW p \in Procs, NEW s, NEW j, Moves(p, s, j)
    PROVE  /\ pc' = [q \in Procs |-> IF q = p THEN s ELSE pc[q]]
           /\ job' = [q \in Procs |-> IF q = p THEN j ELSE job[q]]
           /\ pc'[p] = s /\ job'[p] = j
           /\ \A q \in Procs : q # p => pc'[q] = pc[q] /\ job'[q] = job[q]
    BY DEF JobsOK, Moves

LEMMA MoveJobs ==
    ASSUME JobsOK, PhaseOK, NEW p \in Procs, NEW s, NEW j, Moves(p, s, j)
    PROVE  JobsOK' /\ PhaseOK'
    <1>1. /\ pc' = [q \in Procs |-> IF q = p THEN s ELSE pc[q]]
          /\ job' = [q \in Procs |-> IF q = p THEN j ELSE job[q]]
          /\ pc'[p] = s /\ job'[p] = j
          /\ \A q \in Procs : q # p => pc'[q] = pc[q] /\ job'[q] = job[q]
        BY MoveAt
    <1>2. JobsOK'
        <2>1. \A q \in Procs : JobOK(pc'[q], job'[q])
            BY <1>1 DEF JobsOK, Moves
        <2>2. pc' = [q \in Procs |-> pc'[q]] /\ job' = [q \in Procs |-> job'[q]]
            BY <1>1
        <2>3. QED
            BY <2>1, <2>2 DEF JobsOK
    <1>3. PhaseOK'
        BY <1>1 DEF PhaseOK, Moves
    <1>4. QED
        BY <1>2, <1>3

LEMMA WayMove ==
    ASSUME JobsOK, NEW p \in Procs, NEW s, NEW j, Moves(p, s, j), NEW l
    PROVE  /\ OnWay(pc, job, l) \in Nat /\ OnWay(pc', job', l) \in Nat
           /\ Carried(pc[p], job[p], l) \in Nat /\ Carried(s, j, l) \in Nat
           /\ OnWay(pc, job, l) >= Carried(pc[p], job[p], l)
           /\ OnWay(pc', job', l) = OnWay(pc, job, l) - Carried(pc[p], job[p], l)
                                                    + Carried(s, j, l)
    <1>1. \A q \in Procs : Carried(pc[q], job[q], l) \in Nat
        BY CarriedNat DEF JobsOK
    <1>2. Carriers(pc, job, l)
        BY <1>1 DEF JobsOK, Carriers
    <1>3. Carried(s, j, l) \in Nat
        BY CarriedNat DEF Moves
    <1>4. Moved(pc, job, pc', job', p, s, j)
        BY DEF Moves, Moved
    <1>5. QED
        BY <1>1, <1>2, <1>3, <1>4, OnWayMove

(* A step of goroutine p that leaves the log, the loans and the fees alone *)
(* and is not on its way to a write of theirs, or gives such a write up.   *)
Calm(p, s, j) ==
    /\ Moves(p, s, j)
    /\ UNCHANGED <<log, nextSeq, opened, lent, fees, rule>>
    /\ upsets' \in Nat /\ upsets' >= upsets
    /\ pc[p] \in {"insert", "commit"} => upsets' > 0
    /\ s \notin {"open", "disburse", "commit", "apply"}
    /\ s = "insert" => /\ j.event.type # "originated"
                       /\ j.event.type = "missed" => j.event.fee = 0

LEMMA CalmStep ==
    ASSUME LoanInv, NEW p \in Procs, NEW s, NEW j, Calm(p, s, j)
    PROVE  LoanInv'
    <1>0. /\ JobsOK /\ PhaseOK /\ RulesOK /\ BooksOK /\ LogOK /\ BirthsOK /\ SeqsOK
          /\ LentOK /\ FeesOK
        BY DEF LoanInv
    <1>1. /\ pc'[p] = s /\ job'[p] = j
          /\ \A q \in Procs : q # p => pc'[q] = pc[q] /\ job'[q] = job[q]
        BY <1>0, MoveAt DEF Calm
    <1>2. JobsOK' /\ PhaseOK'
        BY <1>0, MoveJobs DEF Calm
    <1>3. RulesOK' /\ BooksOK' /\ LogOK'
        BY <1>0 DEF Calm, RulesOK, BooksOK, LogOK
    <1>4. BirthsOK'
        <2>1. \A l : ~Bears(s, j, l)
            BY DEF Calm, Bears
        <2>2. \A q \in Procs : BirthOK(pc[q], job[q])'
            <3>1. SUFFICES ASSUME NEW q \in Procs PROVE BirthOK(pc[q], job[q])'
                OBVIOUS
            <3>2. CASE q = p
                BY <1>1, <3>2 DEF BirthOK, Calm
            <3>3. CASE q # p
                BY <1>0, <1>1, <3>3 DEF BirthsOK, BirthOK, Unlogged, Calm
            <3>4. QED
                BY <3>2, <3>3
        <2>3. ASSUME NEW q \in Procs, NEW r \in Procs, q # r, NEW l \in Loans,
                     Bears(pc[q], job[q], l)', Bears(pc[r], job[r], l)'
              PROVE  FALSE
            <3>1. q # p /\ r # p
                BY <1>1, <2>1, <2>3
            <3>2. Bears(pc[q], job[q], l) /\ Bears(pc[r], job[r], l)
                BY <1>1, <2>3, <3>1
            <3>3. QED
                BY <1>0, <2>3, <3>2 DEF BirthsOK
        <2>4. QED
            BY <2>2, <2>3 DEF BirthsOK
    <1>5. SeqsOK'
        <2>1. \A q \in Procs : SeqOK(pc[q], job[q])'
            BY <1>0, <1>1 DEF SeqsOK, SeqOK, Calm
        <2>2. \A q, r \in Procs : (q # r /\ {pc[q], pc[r]}' \subseteq {"commit", "apply"})
                                     => job'[q].seq # job'[r].seq
            BY <1>0, <1>1 DEF SeqsOK, Calm
        <2>3. QED
            BY <2>1, <2>2 DEF SeqsOK
    <1>6. LentOK'
        <2>1. SUFFICES ASSUME NEW l \in Loans, lent[l] > 0, upsets' = 0, Unlogged(l)
                       PROVE  \E q \in Procs : /\ pc'[q] \in {"insert", "commit"}
                                               /\ job'[q].loan = l
                                               /\ job'[q].event.type = "originated"
            BY <1>0 DEF LentOK, Unlogged, Calm, BooksOK
        <2>2. upsets = 0 /\ pc[p] \notin {"insert", "commit"}
            BY <1>0, <2>1 DEF Calm, BooksOK
        <2>3. PICK q \in Procs : /\ pc[q] \in {"insert", "commit"} /\ job[q].loan = l
                                 /\ job[q].event.type = "originated"
            BY <1>0, <2>1, <2>2 DEF LentOK, Unlogged
        <2>4. q # p
            BY <2>2, <2>3
        <2>5. QED
            BY <1>1, <2>3, <2>4
    <1>7. FeesOK'
        <2>1. SUFFICES ASSUME NEW l \in Loans
                       PROVE  /\ fees[l] >= Logged(log, l) + OnWay(pc', job', l)
                              /\ upsets' = 0 => fees[l] = Logged(log, l) + OnWay(pc', job', l)
            BY DEF FeesOK, Calm
        <2>2. Carried(s, j, l) = 0
            BY DEF Calm, Carried, Fee
        <2>4. /\ OnWay(pc, job, l) \in Nat /\ OnWay(pc', job', l) \in Nat
              /\ Carried(pc[p], job[p], l) \in Nat
              /\ OnWay(pc', job', l) = OnWay(pc, job, l) - Carried(pc[p], job[p], l)
                                                       + Carried(s, j, l)
            BY <1>0, WayMove DEF Calm
        <2>5. upsets' = 0 => upsets = 0 /\ Carried(pc[p], job[p], l) = 0
            BY <1>0 DEF Calm, Carried, BooksOK
        <2>6. Logged(log, l) \in Nat /\ fees[l] \in Nat
            BY <1>0, LoggedNat DEF BooksOK
        <2>7. /\ fees[l] >= Logged(log, l) + OnWay(pc, job, l)
              /\ upsets = 0 => fees[l] = Logged(log, l) + OnWay(pc, job, l)
            BY <1>0 DEF FeesOK
        <2>8. QED
            BY <2>2, <2>4, <2>5, <2>6, <2>7
    <1>8. QED
        BY <1>2, <1>3, <1>4, <1>5, <1>6, <1>7 DEF LoanInv

-----------------------------------------------------------------------------
(* The calm steps, one by one.                                             *)
Plain == {"score", "price", "get", "txs", "balance", "funds", "pay", "repaid", "evaluate",
          "owed", "reread", "set", "list", "copy", "plan", "served"}

Still == UNCHANGED <<log, nextSeq, opened, lent, fees, rule, upsets>>

LEMMA NoJobOK == IsJob(NoJob) /\ NoJob.ask \in Asked /\ JobOK("idle", NoJob)
    <1>1. IsJob(NoJob) /\ NoJob.ask = SeedApplication
        BY DEF IsJob, NoJob, Fields
    <1>2. QED
        BY <1>1 DEF JobOK, Asked

LEMMA JobHere ==
    ASSUME LoanInv, NEW p \in Procs
    PROVE  JobOK(pc[p], job[p]) /\ IsJob(job[p]) /\ job[p].ask \in Asked
    BY DEF LoanInv, JobsOK, JobOK

LEMMA PlainStep ==
    ASSUME LoanInv, NEW p \in Procs, pc[p] \notin {"idle", "insert", "commit"},
           NEW s \in Plain, NEW j, IsJob(j), j.ask \in Asked, j.op = job[p].op,
           Go(p, s, j), Still
    PROVE  LoanInv'
    <1>1. Moves(p, s, j)
        BY DEF Go, Moves, JobOK, Plain
    <1>2. Calm(p, s, j)
        BY <1>1 DEF Calm, Still, Plain, LoanInv, BooksOK
    <1>3. QED
        BY <1>2, CalmStep

LEMMA EndStep ==
    ASSUME LoanInv, NEW p \in Procs, pc[p] # "idle", NEW ok, Return(p, ok),
           UNCHANGED <<log, nextSeq, opened, lent, fees, rule>>,
           upsets' \in Nat, upsets' >= upsets, pc[p] \in {"insert", "commit"} => upsets' > 0
    PROVE  LoanInv'
    <1>1. Moves(p, "idle", NoJob)
        BY NoJobOK DEF Return, Moves
    <1>2. Calm(p, "idle", NoJob)
        BY <1>1 DEF Calm
    <1>3. QED
        BY <1>2, CalmStep

LEMMA ReturnStep ==
    ASSUME LoanInv, NEW p \in Procs, pc[p] \notin {"idle", "insert", "commit"}, NEW ok,
           Return(p, ok), Still
    PROVE  LoanInv'
    <1>1. upsets' \in Nat /\ upsets' >= upsets
        BY DEF LoanInv, BooksOK, Still
    <1>2. QED
        BY <1>1, EndStep DEF Still

LEMMA BeginStep ==
    ASSUME LoanInv, NEW p \in Procs, NEW s \in Plain, NEW j, NEW S, IsJob(j),
           j.ask \in Asked, j.op # "seed", Begin(p, s, j, S)
    PROVE  LoanInv'
    <1>1. Moves(p, s, j)
        BY DEF Begin, Go, Moves, JobOK, Plain
    <1>2. Calm(p, s, j)
        BY <1>1 DEF Calm, Begin, Plain, LoanInv, BooksOK, events, books, world
    <1>3. QED
        BY <1>2, CalmStep

(* To a write that brings no loan to life and charges no fee.              *)
LEMMA InsertStep ==
    ASSUME LoanInv, NEW p \in Procs, pc[p] \notin {"idle", "insert", "commit"},
           NEW j, IsJob(j), j.ask \in Asked, j.op = job[p].op,
           j.event.loan = j.loan, j.event.type # "originated",
           j.event.type = "missed" => j.event.fee = 0,
           Go(p, "insert", j), Still
    PROVE  LoanInv'
    <1>1. Moves(p, "insert", j)
        BY DEF Go, Moves, JobOK, EventOK
    <1>2. Calm(p, "insert", j)
        BY <1>1 DEF Calm, Still, LoanInv, BooksOK
    <1>3. QED
        BY <1>2, CalmStep

LEMMA AskStep ==
    ASSUME LoanInv, NEW p \in Procs, Ask(p)
    PROVE  LoanInv'
    <1>1. Applications \subseteq Asked /\ SeedApplication \in Asked
        BY DEF Asked
    <1>2. CASE Underwrite(p)
        <2>1. PICK x \in Applications :
                Begin(p, "score", [NoJob EXCEPT !.op = "underwrite", !.ask = x], {})
            BY <1>2 DEF Underwrite
        <2> DEFINE j == [NoJob EXCEPT !.op = "underwrite", !.ask = x]
        <2>2. IsJob(j) /\ j.ask = x /\ j.op = "underwrite"
            BY DEF IsJob, NoJob, Fields
        <2> HIDE DEF j
        <2>3. Begin(p, "score", j, {})
            BY <2>1 DEF j
        <2>4. QED
            BY <1>1, <2>2, <2>3, BeginStep DEF Plain
    <1>3. CASE Originate(p)
        <2>1. PICK x \in Applications :
                Begin(p, "score", [NoJob EXCEPT !.op = "originate", !.ask = x], {})
            BY <1>3 DEF Originate
        <2> DEFINE j == [NoJob EXCEPT !.op = "originate", !.ask = x]
        <2>2. IsJob(j) /\ j.ask = x /\ j.op = "originate"
            BY DEF IsJob, NoJob, Fields
        <2> HIDE DEF j
        <2>3. Begin(p, "score", j, {})
            BY <2>1 DEF j
        <2>4. QED
            BY <1>1, <2>2, <2>3, BeginStep DEF Plain
    <1>4. CASE Repay(p)
        <2>1. PICK l \in opened, a \in Amounts :
                Begin(p, "get", [NoJob EXCEPT !.op = "repay", !.then = "repay", !.loan = l,
                                              !.amount = a], {l})
            BY <1>4 DEF Repay
        <2> DEFINE j == [NoJob EXCEPT !.op = "repay", !.then = "repay", !.loan = l, !.amount = a]
        <2>2. IsJob(j) /\ j.ask = SeedApplication /\ j.op = "repay"
            BY DEF IsJob, NoJob, Fields
        <2> HIDE DEF j
        <2>3. Begin(p, "get", j, {l})
            BY <2>1 DEF j
        <2>4. QED
            BY <1>1, <2>2, <2>3, BeginStep DEF Plain
    <1>5. CASE MissPayment(p)
        <2>1. PICK l \in opened :
                Begin(p, "get", [NoJob EXCEPT !.op = "miss", !.then = "miss", !.loan = l], {l})
            BY <1>5 DEF MissPayment
        <2> DEFINE j == [NoJob EXCEPT !.op = "miss", !.then = "miss", !.loan = l]
        <2>2. IsJob(j) /\ j.ask = SeedApplication /\ j.op = "miss"
            BY DEF IsJob, NoJob, Fields
        <2> HIDE DEF j
        <2>3. Begin(p, "get", j, {l})
            BY <2>1 DEF j
        <2>4. QED
            BY <1>1, <2>2, <2>3, BeginStep DEF Plain
    <1>6. CASE Default(p)
        <2>1. PICK l \in opened :
                Begin(p, "get", [NoJob EXCEPT !.op = "default", !.then = "default",
                                              !.loan = l], {l})
            BY <1>6 DEF Default
        <2> DEFINE j == [NoJob EXCEPT !.op = "default", !.then = "default", !.loan = l]
        <2>2. IsJob(j) /\ j.ask = SeedApplication /\ j.op = "default"
            BY DEF IsJob, NoJob, Fields
        <2> HIDE DEF j
        <2>3. Begin(p, "get", j, {l})
            BY <2>1 DEF j
        <2>4. QED
            BY <1>1, <2>2, <2>3, BeginStep DEF Plain
    <1>7. CASE AdvanceTime(p)
        <2>1. PICK d \in Jumps :
                Begin(p, "set", [NoJob EXCEPT !.op = "advance", !.target = clock + d], Loans)
            BY <1>7 DEF AdvanceTime
        <2> DEFINE j == [NoJob EXCEPT !.op = "advance", !.target = clock + d]
        <2>2. IsJob(j) /\ j.ask = SeedApplication /\ j.op = "advance"
            BY DEF IsJob, NoJob, Fields
        <2> HIDE DEF j
        <2>3. Begin(p, "set", j, Loans)
            BY <2>1 DEF j
        <2>4. QED
            BY <1>1, <2>2, <2>3, BeginStep DEF Plain
    <1>8. QED
        BY <1>2, <1>3, <1>4, <1>5, <1>6, <1>7 DEF Ask

LEMMA NextMissStep ==
    ASSUME LoanInv, NEW p \in Procs, pc[p] \notin {"idle", "insert", "commit"},
           NEW j, j.op = job[p].op, NextMiss(p, j), Still
    PROVE  LoanInv'
    <1> DEFINE i == [NoJob EXCEPT !.op = j.op, !.ticks = j.ticks, !.grace = j.grace,
                                  !.todo = j.todo]
               m == [i EXCEPT !.then = "miss", !.loan = Head(j.todo).loan]
               t == [i EXCEPT !.then = "tick", !.ticks = @ + 1]
    <1>1. Go(p, "get", m) \/ Go(p, "list", t) \/ Go(p, "served", i)
        BY DEF NextMiss
    <1>2. /\ IsJob(i) /\ i.ask = SeedApplication /\ i.op = job[p].op
          /\ IsJob(m) /\ m.ask = SeedApplication /\ m.op = job[p].op
          /\ IsJob(t) /\ t.ask = SeedApplication /\ t.op = job[p].op
        <2>1. IsJob(i) /\ i.ask = SeedApplication /\ i.op = job[p].op
            BY DEF IsJob, NoJob, Fields
        <2> HIDE DEF i
        <2>2. IsJob(m) /\ m.ask = i.ask /\ m.op = i.op
            BY <2>1 DEF IsJob, Fields
        <2>3. IsJob(t) /\ t.ask = i.ask /\ t.op = i.op
            BY <2>1 DEF IsJob, Fields
        <2> HIDE DEF m, t
        <2>4. QED
            BY <2>1, <2>2, <2>3
    <1> HIDE DEF i, m, t
    <1>3. SeedApplication \in Asked /\ {"get", "list", "served"} \subseteq Plain
        BY DEF Asked, Plain
    <1>4. QED
        BY <1>1, <1>2, <1>3, PlainStep

LEMMA FinishStep ==
    ASSUME LoanInv, NEW p \in Procs, pc[p] \notin {"idle", "insert", "commit"},
           Finish(p), Still
    PROVE  LoanInv'
    <1> DEFINE j == job[p]
               rest == IF Head(j.todo).left = 1 THEN Tail(j.todo)
                       ELSE [j.todo EXCEPT ![1].left = @ - 1]
               d == [j EXCEPT !.then = "default", !.default = FALSE, !.todo = Tail(@)]
               r == [j EXCEPT !.todo = rest]
    <1>1. IsJob(j) /\ j.ask \in Asked
        BY JobHere
    <1>2. /\ IsJob(d) /\ d.ask = j.ask /\ d.op = j.op /\ r.op = j.op
        BY <1>1 DEF IsJob, Fields
    <1>3. \/ Return(p, TRUE) \/ NextMiss(p, j) \/ Go(p, "get", d) \/ NextMiss(p, r)
        BY DEF Finish
    <1> HIDE DEF d, r
    <1>4. "get" \in Plain
        BY DEF Plain
    <1>5. QED
        BY <1>1, <1>2, <1>3, <1>4, ReturnStep, NextMissStep, PlainStep

LEMMA NextInListStep ==
    ASSUME LoanInv, NEW p \in Procs, pc[p] \notin {"idle", "insert", "commit"},
           NEW j, IsJob(j), j.ask \in Asked, j.op = job[p].op, NextInList(p, j), Still
    PROVE  LoanInv'
    <1>1. CASE Go(p, "plan", j)
        BY <1>1, PlainStep DEF Plain
    <1>2. CASE \E l \in Loans : Go(p, "copy", [j EXCEPT !.loan = l, !.list[l] = @ - 1])
        <2>1. PICK l \in Loans : Go(p, "copy", [j EXCEPT !.loan = l, !.list[l] = @ - 1])
            BY <1>2
        <2> DEFINE k == [j EXCEPT !.loan = l, !.list[l] = @ - 1]
        <2>2. IsJob(k) /\ k.ask = j.ask /\ k.op = j.op
            BY DEF IsJob, Fields
        <2> HIDE DEF k
        <2>3. Go(p, "copy", k)
            BY <2>1 DEF k
        <2>4. QED
            BY <2>2, <2>3, PlainStep DEF Plain
    <1>3. QED
        BY <1>1, <1>2 DEF NextInList

(* Steps that read.                                                        *)
LEMMA ReadingStep ==
    ASSUME LoanInv, NEW p \in Procs,
           \/ Get(p) \/ Txs(p) \/ RepayBuilt(p) \/ Funds(p) \/ Pay(p) \/ PayBuilt(p)
           \/ MissBuilt(p) \/ DefaultBuilt(p)
    PROVE  LoanInv'
    <1> DEFINE j == job[p]
    <1>1. IsJob(j) /\ j.ask \in Asked
        BY JobHere
    <1>2. {"get", "txs", "balance", "funds", "pay", "repaid", "evaluate", "owed"} \subseteq Plain
        BY DEF Plain
    <1>3. CASE Get(p)
        <2> DEFINE k == [j EXCEPT !.st = st'[j.loan]]
        <2>1. IsJob(k) /\ k.ask = j.ask /\ k.op = j.op
            BY <1>1 DEF IsJob, Fields
        <2>2. (Go(p, "txs", k) \/ Return(p, FALSE)) /\ pc[p] = "get" /\ Still
            BY <1>3 DEF Get, Still, events, books, world
        <2> HIDE DEF k
        <2>3. QED
            BY <1>1, <1>2, <2>1, <2>2, PlainStep, ReturnStep
    <1>4. CASE Txs(p)
        <2> DEFINE k == [j EXCEPT !.paid = paid[j.loan]]
        <2>1. IsJob(k) /\ k.ask = j.ask /\ k.op = j.op
            BY <1>1 DEF IsJob, Fields
        <2>2. Go(p, "balance", k) /\ pc[p] = "txs" /\ Still
            BY <1>4 DEF Txs, Still, events, books, world
        <2> HIDE DEF k
        <2>3. QED
            BY <1>1, <1>2, <2>1, <2>2, PlainStep
    <1>5. CASE RepayBuilt(p)
        <2> DEFINE k(n) == [j EXCEPT !.no = n,
                 !.amount = IF @ > 0 THEN @ ELSE Schedule(j.st.terms)[n].payment]
        <2>1. \A n : IsJob(k(n)) /\ k(n).ask = j.ask /\ k(n).op = j.op
            BY <1>1 DEF IsJob, Fields
        <2>2. /\ Go(p, "funds", k(firstScheduled(j))) \/ Return(p, FALSE)
              /\ pc[p] = "balance" /\ Still
            BY <1>5 DEF RepayBuilt, Built, Still, events, books, world
        <2> HIDE DEF k
        <2>3. QED
            BY <1>1, <1>2, <2>1, <2>2, PlainStep, ReturnStep
    <1>6. CASE Funds(p)
        <2>1. (Go(p, "pay", j) \/ Return(p, FALSE)) /\ pc[p] = "funds" /\ Still
            BY <1>6 DEF Funds, Still, events, books, world
        <2>2. QED
            BY <1>1, <1>2, <2>1, PlainStep, ReturnStep
    <1>7. CASE Pay(p)
        <2> DEFINE k == [j EXCEPT !.then = "settled"]
        <2>1. IsJob(k) /\ k.ask = j.ask /\ k.op = j.op
            BY <1>1 DEF IsJob, Fields
        <2>2. Go(p, "get", k) /\ pc[p] = "pay" /\ Still
            BY <1>7 DEF Pay, PayEffect, Still, events, world
        <2> HIDE DEF k
        <2>3. QED
            BY <1>1, <1>2, <2>1, <2>2, PlainStep
    <1>8. CASE PayBuilt(p)
        <2>1. (Go(p, "repaid", j) \/ Return(p, TRUE)) /\ pc[p] = "balance" /\ Still
            BY <1>8 DEF PayBuilt, Built, Still, events, books, world
        <2>2. QED
            BY <1>1, <1>2, <2>1, PlainStep, ReturnStep
    <1>9. CASE MissBuilt(p)
        <2> DEFINE k == [j EXCEPT !.no = firstScheduled(j)]
        <2>1. IsJob(k) /\ k.ask = j.ask /\ k.op = j.op
            BY <1>1 DEF IsJob, Fields
        <2>2. (Go(p, "evaluate", k) \/ Return(p, FALSE)) /\ pc[p] = "balance" /\ Still
            BY <1>9 DEF MissBuilt, Built, Still, events, books, world
        <2> HIDE DEF k
        <2>3. QED
            BY <1>1, <1>2, <2>1, <2>2, PlainStep, ReturnStep
    <1>10. CASE DefaultBuilt(p)
        <2>1. Status(j.st, recv[j.loan]) \in {"defaulted", "repaid", "active"}
            BY DEF Status
        <2>2. pc[p] = "balance" /\ Still
            BY <1>10 DEF DefaultBuilt, Built, Still, events, books, world
        <2>3. Finish(p) \/ Return(p, FALSE) \/ Go(p, "owed", j)
            BY <1>10, <2>1 DEF DefaultBuilt
        <2>4. QED
            BY <1>1, <1>2, <2>2, <2>3, PlainStep, ReturnStep, FinishStep
    <1>11. QED
        BY <1>3, <1>4, <1>5, <1>6, <1>7, <1>8, <1>9, <1>10

(* Steps that decide, up to the write they lead to.                        *)
LEMMA WorkingStep ==
    ASSUME LoanInv, NEW p \in Procs,
           \/ appendRepaidEvent(p) \/ Owed(p) \/ WriteOff(p) \/ Score(p) \/ Price(p)
           \/ ApplyAppended(p) \/ Reread(p) \/ SetTo(p) \/ List(p) \/ Copy(p)
           \/ TickBuilt(p) \/ Plan(p) \/ Served(p)
    PROVE  LoanInv'
    <1> DEFINE j == job[p]
    <1>1. IsJob(j) /\ j.ask \in Asked
        BY JobHere
    <1>2. {"price", "reread", "list", "txs", "served"} \subseteq Plain
        BY DEF Plain
    <1>3. CASE appendRepaidEvent(p)
        <2> DEFINE k == [j EXCEPT !.event = [type |-> "repaid", loan |-> j.loan]]
        <2>1. /\ IsJob(k) /\ k.ask = j.ask /\ k.op = j.op /\ k.loan = j.loan
              /\ k.event = [type |-> "repaid", loan |-> j.loan]
            BY <1>1 DEF IsJob, Fields
        <2>2. (Go(p, "reread", j) \/ Go(p, "insert", k)) /\ pc[p] = "repaid" /\ Still
            BY <1>3 DEF appendRepaidEvent, Still, events, books, world
        <2> HIDE DEF k
        <2>3. k.event.loan = k.loan /\ k.event.type = "repaid"
            BY <2>1
        <2>4. QED
            BY <1>1, <1>2, <2>1, <2>2, <2>3, PlainStep, InsertStep
    <1>4. CASE Owed(p)
        <2> DEFINE k == [j EXCEPT !.amount = recv[j.loan],
                                  !.event = [type |-> "defaulted", loan |-> j.loan]]
        <2>1. /\ IsJob(k) /\ k.ask = j.ask /\ k.op = j.op /\ k.loan = j.loan
              /\ k.event = [type |-> "defaulted", loan |-> j.loan]
            BY <1>1 DEF IsJob, Fields
        <2>2. (Go(p, "writeoff", k) \/ Go(p, "insert", k)) /\ pc[p] = "owed" /\ Still
            BY <1>4 DEF Owed, Still, events, books, world
        <2> HIDE DEF k
        <2>3. k.event.loan = k.loan /\ k.event.type = "defaulted"
            BY <2>1
        <2>4. CASE Go(p, "writeoff", k)
            <3>1. JobOK("writeoff", k)
                BY <1>1, <2>1, <2>3 DEF JobOK, EventOK
            <3>2. Moves(p, "writeoff", k)
                BY <2>1, <2>2, <2>4, <3>1 DEF Go, Moves
            <3>3. Calm(p, "writeoff", k)
                BY <2>2, <3>2 DEF Calm, Still, LoanInv, BooksOK
            <3>4. QED
                BY <3>3, CalmStep
        <2>5. QED
            BY <1>1, <2>1, <2>2, <2>3, <2>4, InsertStep
    <1>5. CASE WriteOff(p)
        <2>1. Go(p, "insert", j) /\ pc[p] = "writeoff" /\ Still
            BY <1>5 DEF WriteOff, WriteOffEffect, Still, events, world
        <2>2. j.event.loan = j.loan /\ j.event.type = "defaulted"
            BY <2>1, JobHere DEF JobOK
        <2>3. QED
            BY <1>1, <2>1, <2>2, InsertStep
    <1>6. CASE Score(p)
        <2> DEFINE d == EvaluateRiskScore(rule.scoring, j.ask.applicant)
                   k == [j EXCEPT !.score = d.score]
        <2>1. IsJob(k) /\ k.ask = j.ask /\ k.op = j.op
            BY <1>1 DEF IsJob, Fields
        <2>2. (Go(p, "price", k) \/ Return(p, FALSE)) /\ pc[p] = "score" /\ Still
            BY <1>6 DEF Score, Still, events, books, world
        <2> HIDE DEF k
        <2>3. QED
            BY <1>1, <1>2, <2>1, <2>2, PlainStep, ReturnStep
    <1>7. CASE Price(p)
        <2> DEFINE c == rule.underwriting
                   t == [principal |-> j.ask.principal, term |-> j.ask.term,
                         rate |-> Pricing(c, j.score).rate]
                   k == [j EXCEPT !.priced = c, !.terms = t]
        <2>1. IsJob(k) /\ k.ask = j.ask /\ k.op = j.op /\ k.terms = t
            BY <1>1 DEF IsJob, Fields
        <2>2. (Go(p, "decide", k) \/ Return(p, FALSE)) /\ pc[p] = "price" /\ Still
            BY <1>7 DEF Price, Still, events, books, world
        <2>3. j.ask.principal \in Nat \ {0}
            BY <1>1, LoanAssumption
        <2>4. TermsOK(t)
            BY <2>3 DEF TermsOK
        <2> HIDE DEF k, t
        <2>5. CASE Go(p, "decide", k)
            <3>1. JobOK("decide", k)
                BY <1>1, <2>1, <2>4 DEF JobOK
            <3>2. Moves(p, "decide", k)
                BY <2>1, <2>2, <2>5, <3>1 DEF Go, Moves
            <3>3. Calm(p, "decide", k)
                BY <2>2, <3>2 DEF Calm, Still, LoanInv, BooksOK
            <3>4. QED
                BY <3>3, CalmStep
        <2>6. QED
            BY <2>2, <2>5, ReturnStep
    <1>8. CASE ApplyAppended(p)
        <2>1. Go(p, "reread", j) /\ pc[p] = "apply" /\ Still
            BY <1>8 DEF ApplyAppended, Still, events, books, world
        <2>2. QED
            BY <1>1, <1>2, <2>1, PlainStep
    <1>9. CASE Reread(p)
        <2>1. Finish(p) /\ pc[p] = "reread" /\ Still
            BY <1>9 DEF Reread, Still, events, books, world
        <2>2. QED
            BY <2>1, FinishStep
    <1>10. CASE SetTo(p)
        <2> DEFINE k == [j EXCEPT !.then = "tick", !.ticks = 1]
        <2>1. IsJob(k) /\ k.ask = j.ask /\ k.op = j.op
            BY <1>1 DEF IsJob, Fields
        <2>2. (Go(p, "list", k) \/ Return(p, FALSE)) /\ pc[p] = "set" /\ Still
            BY <1>10 DEF SetTo, Still, events, books
        <2> HIDE DEF k
        <2>3. QED
            BY <1>1, <1>2, <2>1, <2>2, PlainStep, ReturnStep
    <1>11. CASE List(p)
        <2> DEFINE k == [j EXCEPT !.list = listed', !.views = << >>]
        <2>1. IsJob(k) /\ k.ask = j.ask /\ k.op = j.op
            BY <1>1 DEF IsJob, Fields
        <2>2. NextInList(p, k) /\ pc[p] = "list" /\ Still
            BY <1>11 DEF List, Still, events, books, world
        <2> HIDE DEF k
        <2>3. QED
            BY <1>1, <2>1, <2>2, NextInListStep
    <1>12. CASE Copy(p)
        <2> DEFINE k == [j EXCEPT !.st = st[j.loan]]
        <2>1. IsJob(k) /\ k.ask = j.ask /\ k.op = j.op
            BY <1>1 DEF IsJob, Fields
        <2>2. Go(p, "txs", k) /\ pc[p] = "copy" /\ Still
            BY <1>12 DEF Copy, Still, events, books, world
        <2> HIDE DEF k
        <2>3. QED
            BY <1>1, <1>2, <2>1, <2>2, PlainStep
    <1>13. CASE TickBuilt(p)
        <2> DEFINE v == [loan |-> j.loan, st |-> j.st,
                         scheduled |-> IF Status(j.st, recv[j.loan]) = "active"
                                       THEN Scheduled(j.st, j.paid) ELSE {}]
                   k == [j EXCEPT !.views = Append(@, v)]
        <2>1. IsJob(k) /\ k.ask = j.ask /\ k.op = j.op
            BY <1>1 DEF IsJob, Fields
        <2>2. NextInList(p, k) /\ pc[p] = "balance" /\ Still
            BY <1>13 DEF TickBuilt, Built, Still, events, books, world
        <2> HIDE DEF k
        <2>3. QED
            BY <1>1, <2>1, <2>2, NextInListStep
    <1>14. CASE Plan(p)
        <2> DEFINE next == [j EXCEPT !.todo = Calls(j.views, rule.servicing.grace),
                                 !.grace = rule.servicing.grace]
                   k == [NoJob EXCEPT !.op = j.op, !.grace = rule.servicing.grace]
        <2>1. next.op = j.op
            BY <1>1 DEF IsJob, Fields
        <2>2. IsJob(k) /\ k.ask = SeedApplication /\ k.op = j.op
            BY DEF IsJob, NoJob, Fields
        <2>3. (Go(p, "served", k) \/ NextMiss(p, next)) /\ pc[p] = "plan" /\ Still
            BY <1>14 DEF Plan, Still, events, books, world
        <2> HIDE DEF k, next
        <2>4. SeedApplication \in Asked
            BY DEF Asked
        <2>5. QED
            BY <1>2, <2>1, <2>2, <2>3, <2>4, PlainStep, NextMissStep
    <1>15. CASE Served(p)
        <2>1. Return(p, TRUE) /\ pc[p] = "served" /\ Still
            BY <1>15 DEF Served, Still, events, books, world
        <2>2. QED
            BY <2>1, ReturnStep
    <1>16. QED
        BY <1>3, <1>4, <1>5, <1>6, <1>7, <1>8, <1>9, <1>10, <1>11, <1>12, <1>13, <1>14, <1>15

-----------------------------------------------------------------------------
(* The writes.                                                             *)
LEMMA SeqsFrame ==
    ASSUME JobsOK, SeqsOK, NEW p \in Procs, NEW s, NEW j, Moves(p, s, j),
           UNCHANGED <<log, nextSeq>>, s \notin {"commit", "apply"}
    PROVE  SeqsOK'
    <1>1. /\ pc'[p] = s /\ job'[p] = j
          /\ \A q \in Procs : q # p => pc'[q] = pc[q] /\ job'[q] = job[q]
        BY MoveAt
    <1>2. \A q \in Procs : SeqOK(pc[q], job[q])'
        BY <1>1 DEF SeqsOK, SeqOK
    <1>3. \A q, r \in Procs : (q # r /\ {pc[q], pc[r]}' \subseteq {"commit", "apply"})
                                 => job'[q].seq # job'[r].seq
        BY <1>1 DEF SeqsOK
    <1>4. QED
        BY <1>2, <1>3 DEF SeqsOK

(* No fee is posted or logged: what is carried is given up at most.        *)
LEMMA FeesFrame ==
    ASSUME JobsOK, BooksOK, LogOK, FeesOK, NEW p \in Procs, NEW s, NEW j, Moves(p, s, j),
           UNCHANGED <<log, fees>>, upsets' \in Nat, upsets' >= upsets,
           \A l \in Loans : /\ Carried(s, j, l) <= Carried(pc[p], job[p], l)
                            /\ upsets' = 0 => Carried(s, j, l) = Carried(pc[p], job[p], l)
    PROVE  FeesOK'
    <1>1. SUFFICES ASSUME NEW l \in Loans
                   PROVE  /\ fees[l] >= Logged(log, l) + OnWay(pc', job', l)
                          /\ upsets' = 0 => fees[l] = Logged(log, l) + OnWay(pc', job', l)
        BY DEF FeesOK
    <1>2. /\ OnWay(pc, job, l) \in Nat /\ OnWay(pc', job', l) \in Nat
          /\ Carried(pc[p], job[p], l) \in Nat /\ Carried(s, j, l) \in Nat
          /\ OnWay(pc', job', l) = OnWay(pc, job, l) - Carried(pc[p], job[p], l)
                                                   + Carried(s, j, l)
        BY WayMove
    <1>3. Logged(log, l) \in Nat /\ fees[l] \in Nat /\ upsets \in Nat
        BY LoggedNat DEF BooksOK
    <1>4. /\ fees[l] >= Logged(log, l) + OnWay(pc, job, l)
          /\ upsets = 0 => fees[l] = Logged(log, l) + OnWay(pc, job, l)
        BY DEF FeesOK
    <1>5. upsets' = 0 => upsets = 0
        BY <1>3
    <1>6. QED
        BY <1>2, <1>3, <1>4, <1>5

(* A loan gets its identifier.                                             *)
LEMMA NameStep ==
    ASSUME LoanInv, NEW p \in Procs, NEW j, Moves(p, "open", j), pc[p] = "decide",
           j.loan \in Loans, Fresh(j.loan), Still
    PROVE  LoanInv'
    <1>0. /\ JobsOK /\ PhaseOK /\ RulesOK /\ BooksOK /\ LogOK /\ BirthsOK /\ SeqsOK
          /\ LentOK /\ FeesOK
        BY DEF LoanInv
    <1>1. /\ pc'[p] = "open" /\ job'[p] = j
          /\ \A q \in Procs : q # p => pc'[q] = pc[q] /\ job'[q] = job[q]
        BY <1>0, MoveAt
    <1>2. JobsOK' /\ PhaseOK' /\ RulesOK' /\ BooksOK' /\ LogOK' /\ SeqsOK'
        BY <1>0, MoveJobs, SeqsFrame DEF Still, RulesOK, BooksOK, LogOK
    <1>3. BirthsOK'
        <2>1. \A q \in Procs : BirthOK(pc[q], job[q])'
            <3>1. SUFFICES ASSUME NEW q \in Procs PROVE BirthOK(pc[q], job[q])'
                OBVIOUS
            <3>2. CASE q = p
                BY <1>1, <3>2 DEF BirthOK, Fresh, Still
            <3>3. CASE q # p
                BY <1>0, <1>1, <3>3 DEF BirthsOK, BirthOK, Unlogged, Still
            <3>4. QED
                BY <3>2, <3>3
        <2>2. \A q \in Procs : q # p => job'[q].loan # j.loan
            BY <1>1 DEF Fresh
        <2>3. ASSUME NEW q \in Procs, NEW r \in Procs, q # r, NEW l \in Loans,
                     Bears(pc[q], job[q], l)', Bears(pc[r], job[r], l)'
              PROVE  FALSE
            <3>1. q # p /\ r # p
                BY <1>1, <2>2, <2>3 DEF Bears
            <3>2. Bears(pc[q], job[q], l) /\ Bears(pc[r], job[r], l)
                BY <1>1, <2>3, <3>1
            <3>3. QED
                BY <1>0, <2>3, <3>2 DEF BirthsOK
        <2>4. QED
            BY <2>1, <2>3 DEF BirthsOK
    <1>4. LentOK'
        BY <1>0, <1>1 DEF LentOK, Still
    <1>5. FeesOK'
        <2>1. \A l \in Loans : Carried("open", j, l) = 0 /\ Carried(pc[p], job[p], l) = 0
            BY DEF Carried
        <2>2. upsets' \in Nat /\ upsets' >= upsets
            BY <1>0 DEF BooksOK, Still
        <2>3. QED
            BY <1>0, <2>1, <2>2, FeesFrame DEF Still
    <1>6. QED
        BY <1>2, <1>3, <1>4, <1>5 DEF LoanInv

(* No other goroutine brings the loan of p to life.                        *)
LEMMA BearsAlone ==
    ASSUME LoanInv, NEW p \in Procs, NEW q \in Procs, q # p, NEW l \in Loans,
           Bears(pc[p], job[p], l)
    PROVE  ~Bears(pc[q], job[q], l)
    BY DEF LoanInv, BirthsOK

LEMMA OpenStep ==
    ASSUME LoanInv, NEW p \in Procs, OpenReceivable(p)
    PROVE  LoanInv'
    <1> DEFINE j == job[p]
               o == j.loan
    <1>0. /\ JobsOK /\ PhaseOK /\ RulesOK /\ BooksOK /\ LogOK /\ BirthsOK /\ SeqsOK
          /\ LentOK /\ FeesOK
        BY DEF LoanInv
    <1>1. /\ pc[p] = "open" /\ opened' = opened \cup {o} /\ Go(p, "disburse", j)
          /\ UNCHANGED <<log, nextSeq, lent, fees, rule, upsets>>
        BY DEF OpenReceivable, events, world
    <1>2. Moves(p, "disburse", j)
        <2>1. JobOK("disburse", j)
            BY <1>1, JobHere DEF JobOK
        <2>2. QED
            BY <1>1, <2>1 DEF Go, Moves
    <1>3. /\ pc'[p] = "disburse" /\ job'[p] = j
          /\ \A q \in Procs : q # p => pc'[q] = pc[q] /\ job'[q] = job[q]
        BY <1>0, <1>2, MoveAt
    <1>4. o \in Loans \ opened
        BY <1>0, <1>1 DEF BirthsOK, BirthOK
    <1>5. JobsOK' /\ PhaseOK' /\ RulesOK' /\ SeqsOK'
        BY <1>0, <1>1, <1>2, MoveJobs, SeqsFrame DEF RulesOK
    <1>6. BooksOK' /\ LogOK'
        BY <1>0, <1>1, <1>4 DEF BooksOK, LogOK
    <1>7. lent[o] = 0 /\ Unlogged(o)
        BY <1>0, <1>4 DEF BooksOK, LogOK, Unlogged
    <1>8. BirthsOK'
        <2>1. \A q \in Procs : BirthOK(pc[q], job[q])'
            <3>1. SUFFICES ASSUME NEW q \in Procs PROVE BirthOK(pc[q], job[q])'
                OBVIOUS
            <3>2. CASE q = p
                BY <1>1, <1>3, <1>7, <3>2 DEF BirthOK, Unlogged
            <3>3. CASE q # p
                <4>1. BirthOK(pc[q], job[q])
                    BY <1>0 DEF BirthsOK
                <4>2. ~Bears(pc[q], job[q], o)
                    BY <1>1, <1>4, <3>3, BearsAlone DEF Bears
                <4>3. QED
                    BY <1>1, <1>3, <3>3, <4>1, <4>2 DEF BirthOK, Unlogged, Bears
            <3>4. QED
                BY <3>2, <3>3
        <2>2. \A q \in Procs, l \in Loans : Bears(pc'[q], job'[q], l) = Bears(pc[q], job[q], l)
            BY <1>1, <1>3 DEF Bears
        <2>3. QED
            BY <1>0, <2>1, <2>2 DEF BirthsOK
    <1>9. LentOK'
        BY <1>0, <1>1, <1>3 DEF LentOK
    <1>10. FeesOK'
        <2>1. \A l \in Loans : Carried("disburse", j, l) = 0 /\ Carried(pc[p], job[p], l) = 0
            BY <1>1 DEF Carried
        <2>2. upsets' \in Nat /\ upsets' >= upsets
            BY <1>0, <1>1 DEF BooksOK
        <2>3. QED
            BY <1>0, <1>1, <1>2, <2>1, <2>2, FeesFrame
    <1>11. QED
        BY <1>5, <1>6, <1>8, <1>9, <1>10 DEF LoanInv

(* Money is lent, with the event to follow or after a failure without it.  *)
LEMMA LendStep ==
    ASSUME LoanInv, NEW p \in Procs, NEW s, NEW j, Moves(p, s, j), pc[p] = "disburse",
           DisburseEffect(job[p]), UNCHANGED <<log, nextSeq, rule>>,
           upsets' \in Nat, upsets' >= upsets,
           \/ /\ s = "insert" /\ j.event.type = "originated" /\ j.loan = job[p].loan
              /\ j.event.terms.principal = job[p].terms.principal
           \/ s = "idle" /\ upsets' > 0
    PROVE  LoanInv'
    <1> DEFINE o == job[p].loan
               sum == job[p].terms.principal
    <1>0. /\ JobsOK /\ PhaseOK /\ RulesOK /\ BooksOK /\ LogOK /\ BirthsOK /\ SeqsOK
          /\ LentOK /\ FeesOK
        BY DEF LoanInv
    <1>1. /\ pc'[p] = s /\ job'[p] = j
          /\ \A q \in Procs : q # p => pc'[q] = pc[q] /\ job'[q] = job[q]
        BY <1>0, MoveAt
    <1>2. o \in opened /\ o \in Loans /\ lent[o] = 0 /\ Unlogged(o) /\ sum \in Nat \ {0}
        BY <1>0, JobHere DEF BirthsOK, BirthOK, BooksOK, JobOK, TermsOK
    <1>3. /\ opened' = opened /\ fees' = fees /\ lent' \in [Loans -> Nat]
          /\ lent'[o] = sum /\ \A l \in Loans : l # o => lent'[l] = lent[l]
        BY <1>0, <1>2 DEF DisburseEffect, BooksOK
    <1>4. JobsOK' /\ PhaseOK' /\ RulesOK' /\ SeqsOK'
        BY <1>0, MoveJobs, SeqsFrame DEF RulesOK
    <1>5. BooksOK' /\ LogOK'
        BY <1>0, <1>2, <1>3 DEF BooksOK, LogOK, Unlogged
    <1>6. BirthsOK'
        <2>1. \A q \in Procs : BirthOK(pc[q], job[q])'
            <3>1. SUFFICES ASSUME NEW q \in Procs PROVE BirthOK(pc[q], job[q])'
                OBVIOUS
            <3>2. CASE q = p
                BY <1>1, <1>2, <1>3, <3>2 DEF BirthOK, Unlogged
            <3>3. CASE q # p
                <4>1. BirthOK(pc[q], job[q])
                    BY <1>0 DEF BirthsOK
                <4>2. ~Bears(pc[q], job[q], o)
                    BY <1>2, <3>3, BearsAlone DEF Bears
                <4>3. QED
                    BY <1>0, <1>1, <1>3, <3>3, <4>1, <4>2
                       DEF BirthOK, Unlogged, Bears, BooksOK
            <3>4. QED
                BY <3>2, <3>3
        <2>2. \A q \in Procs, l \in Loans :
                Bears(pc'[q], job'[q], l) => Bears(pc[q], job[q], l)
            BY <1>1 DEF Bears
        <2>3. QED
            BY <1>0, <2>1, <2>2 DEF BirthsOK
    <1>7. LentOK'
        <2>1. SUFFICES ASSUME NEW l \in Loans, lent'[l] > 0, upsets' = 0,
                              \A n \in DOMAIN log : ~Originates(log[n], l)
                       PROVE  \E q \in Procs : /\ pc'[q] \in {"insert", "commit"}
                                               /\ job'[q].loan = l
                                               /\ job'[q].event.type = "originated"
            BY DEF LentOK
        <2>2. s = "insert" /\ upsets = 0
            BY <1>0, <2>1 DEF BooksOK
        <2>3. CASE l = o
            BY <1>1, <2>2, <2>3
        <2>4. CASE l # o
            <3>1. PICK q \in Procs : /\ pc[q] \in {"insert", "commit"} /\ job[q].loan = l
                                     /\ job[q].event.type = "originated"
                BY <1>0, <1>3, <2>1, <2>2, <2>4 DEF LentOK
            <3>2. q # p
                BY <3>1
            <3>3. QED
                BY <1>1, <3>1, <3>2
        <2>5. QED
            BY <2>3, <2>4
    <1>8. FeesOK'
        <2>1. \A l \in Loans : Carried(s, j, l) = 0 /\ Carried(pc[p], job[p], l) = 0
            BY DEF Carried, Fee
        <2>2. QED
            BY <1>0, <1>3, <2>1, FeesFrame
    <1>9. QED
        BY <1>4, <1>5, <1>6, <1>7, <1>8 DEF LoanInv

(* Append draws a number.                                                  *)
LEMMA DrawStep ==
    ASSUME LoanInv, NEW p \in Procs, Insert(p)
    PROVE  LoanInv'
    <1> DEFINE j == [job[p] EXCEPT !.seq = nextSeq + 1]
    <1>0. /\ JobsOK /\ PhaseOK /\ RulesOK /\ BooksOK /\ LogOK /\ BirthsOK /\ SeqsOK
          /\ LentOK /\ FeesOK
        BY DEF LoanInv
    <1>1. /\ pc[p] = "insert" /\ nextSeq' = nextSeq + 1 /\ Go(p, "commit", j)
          /\ UNCHANGED <<log, opened, lent, fees, rule, upsets>>
        BY DEF Insert, books, world
    <1>2. /\ IsJob(j) /\ j.op = job[p].op /\ j.ask = job[p].ask /\ j.loan = job[p].loan
          /\ j.event = job[p].event /\ j.seq = nextSeq + 1
        BY JobHere DEF IsJob, Fields
    <1> HIDE DEF j
    <1>3. JobOK("commit", j)
        BY <1>1, <1>2, JobHere DEF JobOK
    <1>4. Moves(p, "commit", j)
        BY <1>1, <1>2, <1>3 DEF Go, Moves
    <1>5. /\ pc'[p] = "commit" /\ job'[p] = j
          /\ \A q \in Procs : q # p => pc'[q] = pc[q] /\ job'[q] = job[q]
        BY <1>0, <1>4, MoveAt
    <1>6. JobsOK' /\ PhaseOK' /\ RulesOK' /\ BooksOK'
        BY <1>0, <1>1, <1>4, MoveJobs DEF RulesOK, BooksOK
    <1>7. LogOK'
        <2>1. DOMAIN log \subseteq 1..nextSeq + 1 /\ nextSeq + 1 \in Nat
            BY <1>0 DEF LogOK
        <2>2. QED
            BY <1>0, <1>1, <2>1 DEF LogOK
    <1>8. BirthsOK'
        <2>1. \A q \in Procs : BirthOK(pc[q], job[q])'
            BY <1>0, <1>1, <1>2, <1>5 DEF BirthsOK, BirthOK, Unlogged
        <2>2. \A q \in Procs, l \in Loans : Bears(pc'[q], job'[q], l) = Bears(pc[q], job[q], l)
            BY <1>1, <1>2, <1>5 DEF Bears
        <2>3. QED
            BY <1>0, <2>1, <2>2 DEF BirthsOK
    <1>9. SeqsOK'
        <2>1. nextSeq \in Nat /\ \A n \in DOMAIN log : n \in 1..nextSeq
            BY <1>0 DEF LogOK
        <2>2. \A q \in Procs : q # p /\ pc[q] \in {"commit", "apply"} => job[q].seq \in 1..nextSeq
            BY <1>0, <2>1 DEF SeqsOK, SeqOK
        <2>3. nextSeq + 1 \in 1..nextSeq + 1 /\ nextSeq + 1 \notin 1..nextSeq
              /\ 1..nextSeq \subseteq 1..nextSeq + 1
            BY <2>1
        <2>4. \A q \in Procs : SeqOK(pc[q], job[q])'
            <3>1. SUFFICES ASSUME NEW q \in Procs PROVE SeqOK(pc[q], job[q])'
                OBVIOUS
            <3>2. CASE q = p
                BY <1>1, <1>2, <1>5, <2>1, <2>3, <3>2 DEF SeqOK
            <3>3. CASE q # p
                BY <1>0, <1>1, <1>5, <2>3, <3>3 DEF SeqsOK, SeqOK
            <3>4. QED
                BY <3>2, <3>3
        <2>5. ASSUME NEW q \in Procs, NEW r \in Procs, q # r,
                     {pc[q], pc[r]}' \subseteq {"commit", "apply"}
              PROVE  job'[q].seq # job'[r].seq
            <3>1. CASE q = p
                BY <1>2, <1>5, <2>2, <2>3, <2>5, <3>1
            <3>2. CASE r = p
                BY <1>2, <1>5, <2>2, <2>3, <2>5, <3>2
            <3>3. CASE q # p /\ r # p
                BY <1>0, <1>5, <2>5, <3>3 DEF SeqsOK
            <3>4. QED
                BY <3>1, <3>2, <3>3
        <2>6. QED
            BY <2>4, <2>5 DEF SeqsOK
    <1>10. LentOK'
        <2>1. SUFFICES ASSUME NEW l \in Loans, lent[l] > 0, upsets = 0,
                              \A n \in DOMAIN log : ~Originates(log[n], l)
                       PROVE  \E q \in Procs : /\ pc'[q] \in {"insert", "commit"}
                                               /\ job'[q].loan = l
                                               /\ job'[q].event.type = "originated"
            BY <1>0, <1>1 DEF LentOK, BooksOK
        <2>2. PICK q \in Procs : /\ pc[q] \in {"insert", "commit"} /\ job[q].loan = l
                                 /\ job[q].event.type = "originated"
            BY <1>0, <2>1 DEF LentOK
        <2>3. QED
            BY <1>2, <1>5, <2>2
    <1>11. FeesOK'
        <2>1. \A l \in Loans : Carried("commit", j, l) = Carried(pc[p], job[p], l)
            BY <1>1, <1>2 DEF Carried
        <2>2. \A l \in Loans : Carried("commit", j, l) \in Nat
            BY <1>3, CarriedNat
        <2>3. upsets' \in Nat /\ upsets' >= upsets
            BY <1>0, <1>1 DEF BooksOK
        <2>4. QED
            BY <1>0, <1>1, <1>4, <2>1, <2>2, <2>3, FeesFrame
    <1>12. QED
        BY <1>6, <1>7, <1>8, <1>9, <1>10, <1>11 DEF LoanInv

(* An event is committed, and its goroutine told or not.                   *)
LEMMA LoggedAdd ==
    ASSUME LogOK, NEW n, n \notin DOMAIN log, NEW e, NEW l, Fee(e, l) \in Nat, NEW new,
           new = [k \in DOMAIN log \cup {n} |-> IF k = n THEN e ELSE log[k]]
    PROVE  Logged(new, l) = Logged(log, l) + Fee(e, l)
    <1> DEFINE D == DOMAIN log
               f == [k \in D |-> Fee(log[k], l)]
               g == [k \in D \cup {n} |-> Fee(new[k], l)]
    <1>1. IsFiniteSet(D) /\ IsFiniteSet(D \cup {n})
        BY LoggedNat, FS_AddElement
    <1>2. \A k \in D : f[k] \in Nat /\ new[k] = log[k]
        BY DEF LogOK, EventOK, Fee
    <1>3. new[n] = e /\ DOMAIN new = D \cup {n}
        OBVIOUS
    <1>4. g[n] = Fee(e, l) /\ \A k \in D : g[k] = f[k]
        BY <1>2, <1>3
    <1>5. Logged(log, l) = SumOver(f, D)
        BY DEF Logged
    <1>6. Logged(new, l) = SumOver(g, D \cup {n})
        BY <1>3 DEF Logged
    <1> HIDE DEF f, g
    <1>7. SumOver(g, D \cup {n}) = g[n] + SumOver(g, D)
        BY <1>1, <1>2, <1>4, SumOverAdd
    <1>8. SumOver(g, D) = SumOver(f, D) /\ SumOver(f, D) \in Nat
        BY <1>1, <1>2, <1>4, SumOverSame, SumOverNat
    <1>9. QED
        BY <1>4, <1>5, <1>6, <1>7, <1>8

LEMMA CommitStep ==
    ASSUME LoanInv, NEW p \in Procs, NEW s, NEW j, Moves(p, s, j), pc[p] = "commit",
           CommitEffect(job[p]), UNCHANGED <<nextSeq, opened, lent, fees, rule>>,
           upsets' \in Nat, upsets' >= upsets,
           s = "idle" \/ (s = "apply" /\ j.seq = job[p].seq)
    PROVE  LoanInv'
    <1> DEFINE n == job[p].seq
               e == job[p].event
    <1>0. /\ JobsOK /\ PhaseOK /\ RulesOK /\ BooksOK /\ LogOK /\ BirthsOK /\ SeqsOK
          /\ LentOK /\ FeesOK
        BY DEF LoanInv
    <1>1. /\ pc'[p] = s /\ job'[p] = j
          /\ \A q \in Procs : q # p => pc'[q] = pc[q] /\ job'[q] = job[q]
        BY <1>0, MoveAt
    <1>2. n \in 1..nextSeq /\ n \notin DOMAIN log
        BY <1>0 DEF SeqsOK, SeqOK
    <1>3. EventOK(e) /\ e.loan = job[p].loan
        BY JobHere DEF JobOK
    <1>4. log' = [k \in DOMAIN log \cup {n} |-> IF k = n THEN e ELSE log[k]]
        BY DEF CommitEffect
    <1>5. /\ DOMAIN log' = DOMAIN log \cup {n} /\ log'[n] = e
          /\ \A k \in DOMAIN log : log'[k] = log[k]
        BY <1>2, <1>4
    <1>6. e.type = "originated" => /\ e.loan \in opened /\ lent[e.loan] = e.terms.principal
                                   /\ Unlogged(e.loan)
        BY <1>0, <1>3 DEF BirthsOK, BirthOK
    <1>7. JobsOK' /\ PhaseOK' /\ RulesOK' /\ BooksOK'
        BY <1>0, MoveJobs DEF RulesOK, BooksOK
    <1>8. LogOK'
        <2>1. nextSeq' \in Nat /\ DOMAIN log' \subseteq 1..nextSeq'
            BY <1>0, <1>2, <1>5 DEF LogOK
        <2>2. ASSUME NEW k \in DOMAIN log'
              PROVE  /\ EventOK(log'[k])
                     /\ \A l \in Loans : Originates(log'[k], l) =>
                          l \in opened /\ lent[l] = log'[k].terms.principal
            <3>1. CASE k = n
                BY <1>3, <1>5, <1>6, <3>1 DEF Originates
            <3>2. CASE k # n
                BY <1>0, <1>5, <3>2 DEF LogOK
            <3>3. QED
                BY <3>1, <3>2
        <2>3. QED
            BY <2>1, <2>2 DEF LogOK
    <1>9. BirthsOK'
        <2>1. \A q \in Procs : BirthOK(pc[q], job[q])'
            <3>1. SUFFICES ASSUME NEW q \in Procs PROVE BirthOK(pc[q], job[q])'
                OBVIOUS
            <3>2. CASE q = p
                BY <1>1, <3>2 DEF BirthOK
            <3>3. CASE q # p
                <4>1. BirthOK(pc[q], job[q])
                    BY <1>0 DEF BirthsOK
                <4>2. SUFFICES ASSUME Bears(pc[q], job[q], job[q].loan),
                                      pc[q] # "open"
                               PROVE  Unlogged(job[q].loan)'
                    BY <1>1, <3>3, <4>1 DEF BirthOK, Bears
                <4>3. Unlogged(job[q].loan) /\ job[q].loan \in Loans
                    BY <1>0, <4>1, <4>2 DEF BirthOK, Bears, BooksOK
                <4>4. ~Originates(e, job[q].loan)
                    <5>1. SUFFICES ASSUME Originates(e, job[q].loan) PROVE FALSE
                        OBVIOUS
                    <5>2. Bears(pc[p], job[p], job[q].loan)
                        BY <1>3, <5>1 DEF Originates, Bears
                    <5>3. QED
                        BY <3>3, <4>2, <4>3, <5>2, BearsAlone
                <4>5. QED
                    BY <1>1, <1>5, <3>3, <4>3, <4>4 DEF Unlogged
            <3>4. QED
                BY <3>2, <3>3
        <2>2. \A q \in Procs, l \in Loans :
                Bears(pc'[q], job'[q], l) => Bears(pc[q], job[q], l)
            BY <1>1 DEF Bears
        <2>3. QED
            BY <1>0, <2>1, <2>2 DEF BirthsOK
    <1>10. SeqsOK'
        <2>1. \A q \in Procs : q # p /\ pc[q] \in {"commit", "apply"} => job[q].seq # n
            BY <1>0 DEF SeqsOK
        <2>2. \A q \in Procs : SeqOK(pc[q], job[q])'
            BY <1>0, <1>1, <1>5, <2>1 DEF SeqsOK, SeqOK
        <2>3. ASSUME NEW q \in Procs, NEW r \in Procs, q # r,
                     {pc[q], pc[r]}' \subseteq {"commit", "apply"}
              PROVE  job'[q].seq # job'[r].seq
            <3>1. CASE q = p
                BY <1>1, <2>1, <2>3, <3>1
            <3>2. CASE r = p
                BY <1>1, <2>1, <2>3, <3>2
            <3>3. CASE q # p /\ r # p
                BY <1>0, <1>1, <2>3, <3>3 DEF SeqsOK
            <3>4. QED
                BY <3>1, <3>2, <3>3
        <2>4. QED
            BY <2>2, <2>3 DEF SeqsOK
    <1>11. LentOK'
        <2>1. SUFFICES ASSUME NEW l \in Loans, lent[l] > 0, upsets' = 0,
                              \A k \in DOMAIN log' : ~Originates(log'[k], l)
                       PROVE  \E q \in Procs : /\ pc'[q] \in {"insert", "commit"}
                                               /\ job'[q].loan = l
                                               /\ job'[q].event.type = "originated"
            BY <1>0 DEF LentOK, BooksOK
        <2>2. upsets = 0 /\ (\A k \in DOMAIN log : ~Originates(log[k], l))
              /\ ~Originates(e, l)
            BY <1>0, <1>5, <2>1 DEF BooksOK
        <2>3. PICK q \in Procs : /\ pc[q] \in {"insert", "commit"} /\ job[q].loan = l
                                 /\ job[q].event.type = "originated"
            BY <1>0, <2>1, <2>2 DEF LentOK
        <2>4. q # p
            BY <1>3, <2>2, <2>3 DEF Originates
        <2>5. QED
            BY <1>1, <2>3, <2>4
    <1>12. FeesOK'
        <2>1. SUFFICES ASSUME NEW l \in Loans
                       PROVE  /\ fees[l] >= Logged(log', l) + OnWay(pc', job', l)
                              /\ upsets' = 0 => fees[l] = Logged(log', l) + OnWay(pc', job', l)
            BY DEF FeesOK
        <2>2. Carried(s, j, l) = 0 /\ Carried(pc[p], job[p], l) = Fee(e, l)
            BY DEF Carried
        <2>3. /\ OnWay(pc, job, l) \in Nat /\ OnWay(pc', job', l) \in Nat
              /\ Fee(e, l) \in Nat
              /\ OnWay(pc', job', l) = OnWay(pc, job, l) - Fee(e, l) + 0
            BY <1>0, <2>2, WayMove
        <2>4. Logged(log', l) = Logged(log, l) + Fee(e, l)
            BY <1>0, <1>2, <1>4, <2>3, LoggedAdd
        <2>5. Logged(log, l) \in Nat /\ fees[l] \in Nat /\ upsets \in Nat
            BY <1>0, LoggedNat DEF BooksOK
        <2>6. /\ fees[l] >= Logged(log, l) + OnWay(pc, job, l)
              /\ upsets = 0 => fees[l] = Logged(log, l) + OnWay(pc, job, l)
            BY <1>0 DEF FeesOK
        <2>7. upsets' = 0 => upsets = 0
            BY <2>5
        <2>8. QED
            BY <2>3, <2>4, <2>5, <2>6, <2>7
    <1>13. QED
        BY <1>7, <1>8, <1>9, <1>10, <1>11, <1>12 DEF LoanInv

(* A late fee is posted, with the event to follow or after a failure       *)
(* without it.                                                             *)
LEMMA FeeStep ==
    ASSUME LoanInv, NEW p \in Procs, NEW s, NEW j, Moves(p, s, j), pc[p] = "fee",
           FeeEffect(job[p]), UNCHANGED <<log, nextSeq, rule>>,
           upsets' \in Nat, upsets' >= upsets,
           (s = "insert" /\ j = job[p]) \/ (s = "idle" /\ upsets' > 0)
    PROVE  LoanInv'
    <1> DEFINE e == job[p].event
               o == job[p].loan
    <1>0. /\ JobsOK /\ PhaseOK /\ RulesOK /\ BooksOK /\ LogOK /\ BirthsOK /\ SeqsOK
          /\ LentOK /\ FeesOK
        BY DEF LoanInv
    <1>1. /\ pc'[p] = s /\ job'[p] = j
          /\ \A q \in Procs : q # p => pc'[q] = pc[q] /\ job'[q] = job[q]
        BY <1>0, MoveAt
    <1>2. e.type = "missed" /\ e.fee \in Nat /\ e.loan = o
        BY JobHere DEF JobOK, EventOK
    <1>3. /\ opened' = opened /\ lent' = lent /\ fees' = [fees EXCEPT ![o] = @ + e.fee]
        BY DEF FeeEffect
    <1>4. \A l \in Loans : fees'[l] = fees[l] + Fee(e, l)
        BY <1>0, <1>2, <1>3 DEF Fee, BooksOK
    <1>5. JobsOK' /\ PhaseOK' /\ RulesOK' /\ SeqsOK' /\ LogOK'
        BY <1>0, <1>3, MoveJobs, SeqsFrame DEF RulesOK, LogOK
    <1>6. BooksOK'
        <2>1. fees' \in [Loans -> Nat]
            <3>1. fees' = [l \in Loans |-> fees'[l]]
                BY <1>0, <1>3 DEF BooksOK
            <3>2. \A l \in Loans : fees'[l] \in Nat
                BY <1>0, <1>2, <1>4 DEF BooksOK, Fee
            <3>3. QED
                BY <3>1, <3>2
        <2>2. QED
            BY <1>0, <1>3, <2>1 DEF BooksOK
    <1>7. BirthsOK'
        <2>1. \A q \in Procs : BirthOK(pc[q], job[q])'
            BY <1>0, <1>1, <1>2, <1>3 DEF BirthsOK, BirthOK, Unlogged
        <2>2. \A q \in Procs, l \in Loans :
                Bears(pc'[q], job'[q], l) => Bears(pc[q], job[q], l)
            BY <1>1, <1>2 DEF Bears
        <2>3. QED
            BY <1>0, <2>1, <2>2 DEF BirthsOK
    <1>8. LentOK'
        <2>1. SUFFICES ASSUME NEW l \in Loans, lent[l] > 0, upsets' = 0,
                              \A n \in DOMAIN log : ~Originates(log[n], l)
                       PROVE  \E q \in Procs : /\ pc'[q] \in {"insert", "commit"}
                                               /\ job'[q].loan = l
                                               /\ job'[q].event.type = "originated"
            BY <1>3 DEF LentOK
        <2>2. upsets = 0
            BY <1>0, <2>1 DEF BooksOK
        <2>3. PICK q \in Procs : /\ pc[q] \in {"insert", "commit"} /\ job[q].loan = l
                                 /\ job[q].event.type = "originated"
            BY <1>0, <2>1, <2>2 DEF LentOK
        <2>4. QED
            BY <1>1, <2>3
    <1>9. FeesOK'
        <2>1. SUFFICES ASSUME NEW l \in Loans
                       PROVE  /\ fees'[l] >= Logged(log, l) + OnWay(pc', job', l)
                              /\ upsets' = 0 => fees'[l] = Logged(log, l) + OnWay(pc', job', l)
            BY DEF FeesOK
        <2>2. /\ Carried(pc[p], job[p], l) = 0
              /\ Carried(s, j, l) = IF s = "idle" THEN 0 ELSE Fee(e, l)
            BY DEF Carried
        <2>3. /\ OnWay(pc, job, l) \in Nat /\ OnWay(pc', job', l) \in Nat
              /\ Carried(pc[p], job[p], l) \in Nat /\ Carried(s, j, l) \in Nat
              /\ OnWay(pc', job', l) = OnWay(pc, job, l) - Carried(pc[p], job[p], l)
                                                       + Carried(s, j, l)
            BY <1>0, WayMove
        <2>4. Logged(log, l) \in Nat /\ fees[l] \in Nat /\ upsets \in Nat
            BY <1>0, LoggedNat DEF BooksOK
        <2>5. /\ fees[l] >= Logged(log, l) + OnWay(pc, job, l)
              /\ upsets = 0 => fees[l] = Logged(log, l) + OnWay(pc, job, l)
            BY <1>0 DEF FeesOK
        <2>6. upsets' = 0 => upsets = 0 /\ s = "insert"
            BY <2>4
        <2>7. Fee(e, l) \in Nat /\ fees'[l] = fees[l] + Fee(e, l)
            BY <1>2, <1>4 DEF Fee
        <2>8. QED
            BY <2>2, <2>3, <2>4, <2>5, <2>6, <2>7
    <1>10. QED
        BY <1>5, <1>6, <1>7, <1>8, <1>9 DEF LoanInv

(* Steps of no goroutine.                                                  *)
LEMMA FrameStep ==
    ASSUME LoanInv, UNCHANGED <<log, nextSeq, opened, lent, fees, pc, job>>,
           RulesOK', PhaseOK', upsets' \in Nat, upsets' >= upsets
    PROVE  LoanInv'
    <1>1. JobsOK' /\ BirthsOK' /\ SeqsOK'
        BY DEF LoanInv, JobsOK, BirthsOK, BirthOK, Unlogged, SeqsOK, SeqOK
    <1>2. BooksOK' /\ LogOK' /\ upsets \in Nat
        BY DEF LoanInv, BooksOK, LogOK
    <1>3. LentOK' /\ FeesOK'
        BY <1>2 DEF LoanInv, LentOK, FeesOK
    <1>4. QED
        BY <1>1, <1>2, <1>3 DEF LoanInv

LEMMA RestartStep ==
    ASSUME LoanInv, Restart, upsets' \in Nat, upsets' >= upsets,
           phase # "down" => upsets' > 0
    PROVE  LoanInv'
    <1>0. /\ JobsOK /\ PhaseOK /\ RulesOK /\ BooksOK /\ LogOK /\ BirthsOK /\ SeqsOK
          /\ LentOK /\ FeesOK
        BY DEF LoanInv
    <1>1. /\ pc' = [p \in Procs |-> "idle"] /\ job' = [p \in Procs |-> NoJob]
          /\ phase' = "start" /\ UNCHANGED <<log, nextSeq, opened, lent, fees, rule>>
        BY DEF Restart, events, books
    <1>2. \A p \in Procs : pc'[p] = "idle" /\ job'[p] = NoJob
        BY <1>1
    <1>3. JobsOK'
        <2>1. pc' = [p \in Procs |-> pc'[p]] /\ job' = [p \in Procs |-> job'[p]]
            BY <1>1
        <2>2. QED
            BY <1>2, <2>1, NoJobOK DEF JobsOK
    <1>4. PhaseOK' /\ RulesOK' /\ BooksOK' /\ LogOK'
        BY <1>0, <1>1, <1>2 DEF PhaseOK, RulesOK, BooksOK, LogOK
    <1>5. BirthsOK' /\ SeqsOK'
        BY <1>2 DEF BirthsOK, BirthOK, Bears, SeqsOK, SeqOK
    <1>6. upsets' = 0 => upsets = 0 /\ \A p \in Procs : pc[p] = "idle"
        BY <1>0 DEF BooksOK, PhaseOK
    <1>7. LentOK'
        BY <1>0, <1>1, <1>6 DEF LentOK, BooksOK
    <1>8. FeesOK'
        <2>1. SUFFICES ASSUME NEW l \in Loans
                       PROVE  /\ fees[l] >= Logged(log, l) + OnWay(pc', job', l)
                              /\ upsets' = 0 => fees[l] = Logged(log, l) + OnWay(pc', job', l)
            BY <1>1 DEF FeesOK
        <2>2. ASSUME NEW at, NEW jobs, \A p \in Procs : at[p] = "idle"
              PROVE  OnWay(at, jobs, l) = 0
            <3> DEFINE f == [p \in Procs |-> Carried(at[p], jobs[p], l)]
            <3>1. \A p \in Procs : f[p] = 0
                BY <2>2 DEF Carried
            <3>2. OnWay(at, jobs, l) = SumOver(f, Procs)
                BY DEF OnWay
            <3> HIDE DEF f
            <3>3. QED
                BY <3>1, <3>2, SumOverZero, LoanAssumption
        <2>3. OnWay(pc', job', l) = 0
            BY <1>2, <2>2
        <2>4. upsets' = 0 => OnWay(pc, job, l) = 0
            BY <1>6, <2>2
        <2>5. OnWay(pc, job, l) \in Nat
            <3> DEFINE f == [p \in Procs |-> Carried(pc[p], job[p], l)]
            <3>1. \A p \in Procs : f[p] \in Nat
                BY <1>0, CarriedNat DEF JobsOK
            <3>2. OnWay(pc, job, l) = SumOver(f, Procs)
                BY DEF OnWay
            <3> HIDE DEF f
            <3>3. QED
                BY <3>1, <3>2, SumOverNat, LoanAssumption
        <2>6. Logged(log, l) \in Nat /\ fees[l] \in Nat
            BY <1>0, LoggedNat DEF BooksOK
        <2>7. /\ fees[l] >= Logged(log, l) + OnWay(pc, job, l)
              /\ upsets = 0 => fees[l] = Logged(log, l) + OnWay(pc, job, l)
            BY <1>0 DEF FeesOK
        <2>8. QED
            BY <1>6, <2>3, <2>4, <2>5, <2>6, <2>7
    <1>9. QED
        BY <1>3, <1>4, <1>5, <1>7, <1>8 DEF LoanInv

(* The other steps of goroutines.                                          *)
LEMMA EvaluateStep ==
    ASSUME LoanInv, NEW p \in Procs, Evaluate(p)
    PROVE  LoanInv'
    <1>1. PICK n : n = (IF clock < Due(job[p].st, job[p].no) THEN 0
                        ELSE (clock - Due(job[p].st, job[p].no)) \div Day)
        OBVIOUS
    <1>2. PICK d : d = EvaluateServicing(rule.servicing, n, Cardinality(job[p].st.missed))
        OBVIOUS
    <1>3. d.fee \in Nat
        <2>1. rule.servicing \in [grace : Nat, threshold : Nat, fee : Nat]
            BY LoanAssumption DEF LoanInv, RulesOK
        <2>2. QED
            BY <1>2, <2>1 DEF EvaluateServicing
    <1> DEFINE j == job[p]
               k == [j EXCEPT !.default = d.should_default,
                              !.event = [type |-> "missed", loan |-> j.loan, no |-> j.no,
                                         fee |-> d.fee]]
    <1>4. IsJob(j) /\ j.ask \in Asked
        BY JobHere
    <1>5. /\ IsJob(k) /\ k.ask = j.ask /\ k.op = j.op /\ k.loan = j.loan
          /\ k.event = [type |-> "missed", loan |-> j.loan, no |-> j.no, fee |-> d.fee]
        BY <1>4 DEF IsJob, Fields
    <1>6. /\ Go(p, IF d.fee > 0 THEN "fee" ELSE "insert", k)
          /\ pc[p] = "evaluate" /\ Still
        BY <1>1, <1>2 DEF Evaluate, Still, events, books, world
    <1> HIDE DEF k
    <1>7. k.event.loan = k.loan /\ k.event.type = "missed" /\ k.event.fee = d.fee
        BY <1>5
    <1>8. CASE d.fee > 0
        <2>1. JobOK("fee", k)
            BY <1>3, <1>4, <1>5, <1>7 DEF JobOK, EventOK
        <2>2. Moves(p, "fee", k)
            BY <1>5, <1>6, <1>8, <2>1 DEF Go, Moves
        <2>3. Calm(p, "fee", k)
            BY <1>6, <2>2 DEF Calm, Still, LoanInv, BooksOK
        <2>4. QED
            BY <2>3, CalmStep
    <1>9. CASE ~(d.fee > 0)
        <2>1. d.fee = 0 /\ Go(p, "insert", k)
            BY <1>3, <1>6, <1>9
        <2>2. QED
            BY <1>4, <1>5, <1>6, <1>7, <2>1, InsertStep
    <1>10. QED
        BY <1>8, <1>9

LEMMA AgreedTerms ==
    ASSUME NEW t, NEW tier, TermsOK(t)
    PROVE  /\ TermsOK(Agreed(t, tier))
           /\ Agreed(t, tier).principal = t.principal /\ Agreed(t, tier).term = t.term
           /\ Agreed(t, tier).rate = IF tier = Failed THEN t.rate ELSE tier.rate
    <1>1. PICK a, b, c : t = [principal |-> a, rate |-> b, term |-> c] /\ a \in Nat \ {0}
        BY DEF TermsOK
    <1>2. PICK r : r = tier.rate
        OBVIOUS
    <1>3. [t EXCEPT !.rate = r] = [principal |-> a, rate |-> r, term |-> c]
        BY <1>1
    <1>4. CASE tier = Failed
        BY <1>1, <1>4 DEF TermsOK, Agreed
    <1>5. CASE tier # Failed
        <2>1. Agreed(t, tier) = [principal |-> a, rate |-> r, term |-> c]
            BY <1>2, <1>3, <1>5 DEF Agreed
        <2>2. QED
            BY <1>1, <1>2, <1>5, <2>1 DEF TermsOK
    <1>6. QED
        BY <1>4, <1>5

LEMMA DecideStep ==
    ASSUME LoanInv, NEW p \in Procs, Decide(p)
    PROVE  LoanInv'
    <1>1. PICK x : x = [applicant |-> job[p].ask.applicant, score |-> job[p].score,
                        principal |-> job[p].terms.principal, term |-> job[p].terms.term,
                        installment |-> MonthlyPayment(job[p].terms.principal,
                                          job[p].terms.rate, job[p].terms.term)]
        OBVIOUS
    <1>2. pc[p] = "decide" /\ Still
        BY DEF Decide, Still, events, books, world
    <1>3. PICK up \in BOOLEAN :
            LET d == EvaluateUnderwriting(rule.underwriting, x, up) IN
            IF ~d.approved \/ job[p].op = "underwrite"
            THEN Return(p, job[p].op = "underwrite")
            ELSE \E l \in Loans :
                   /\ Fresh(l)
                   /\ Go(p, "open", [job[p] EXCEPT !.loan = l,
                                       !.terms = Agreed(job[p].terms, d.tier),
                                       !.decided = rule.underwriting])
        BY <1>1 DEF Decide
    <1>4. CASE Return(p, job[p].op = "underwrite")
        BY <1>2, <1>4, ReturnStep
    <1>5. CASE \E l \in Loans : \E tier :
                 /\ Fresh(l)
                 /\ Go(p, "open", [job[p] EXCEPT !.loan = l, !.terms = Agreed(job[p].terms, tier),
                                                 !.decided = rule.underwriting])
        <2>1. PICK l, tier :
                 /\ l \in Loans /\ Fresh(l)
                 /\ Go(p, "open", [job[p] EXCEPT !.loan = l, !.terms = Agreed(job[p].terms, tier),
                                                 !.decided = rule.underwriting])
            BY <1>5
        <2> DEFINE t == Agreed(job[p].terms, tier)
                   k == [job[p] EXCEPT !.loan = l, !.terms = t, !.decided = rule.underwriting]
        <2>2. /\ IsJob(k) /\ k.ask = job[p].ask /\ k.op = job[p].op /\ k.loan = l
              /\ k.terms = t
            BY JobHere DEF IsJob, Fields
        <2>3. TermsOK(t)
            BY <1>2, JobHere, AgreedTerms DEF JobOK
        <2>4. Go(p, "open", k)
            BY <2>1
        <2> HIDE DEF k, t
        <2>5. JobOK("open", k)
            BY <2>2, <2>3, JobHere DEF JobOK
        <2>6. Moves(p, "open", k)
            BY <1>2, <2>2, <2>4, <2>5 DEF Go, Moves
        <2>7. QED
            BY <1>2, <2>1, <2>2, <2>6, NameStep
    <1>6. QED
        BY <1>3, <1>4, <1>5

LEMMA DisburseStep ==
    ASSUME LoanInv, NEW p \in Procs, Disburse(p)
    PROVE  LoanInv'
    <1> DEFINE j == job[p]
               e == [type |-> "originated", loan |-> j.loan, terms |-> j.terms, at |-> clock]
               k == [j EXCEPT !.event = e]
    <1>1. /\ IsJob(k) /\ k.ask = j.ask /\ k.op = j.op /\ k.loan = j.loan /\ k.event = e
        BY JobHere DEF IsJob, Fields
    <1>2. /\ pc[p] = "disburse" /\ DisburseEffect(j) /\ Go(p, "insert", k)
          /\ UNCHANGED <<log, nextSeq, rule, upsets>>
        BY DEF Disburse, events, world
    <1> HIDE DEF k
    <1>3. k.event.type = "originated" /\ k.event.loan = k.loan /\ k.event.terms = j.terms
        BY <1>1
    <1> HIDE DEF e
    <1>4. j.terms.principal \in Nat \ {0}
        BY <1>2, JobHere DEF JobOK, TermsOK
    <1>5. JobOK("insert", k)
        BY <1>1, <1>3, <1>4, JobHere DEF JobOK, EventOK
    <1>6. Moves(p, "insert", k)
        BY <1>1, <1>2, <1>5 DEF Go, Moves
    <1>7. upsets' \in Nat /\ upsets' >= upsets
        BY <1>2 DEF LoanInv, BooksOK
    <1>8. QED
        BY <1>1, <1>2, <1>3, <1>6, <1>7, LendStep

LEMMA PostStep ==
    ASSUME LoanInv, NEW p \in Procs, PostFee(p) \/ Commit(p)
    PROVE  LoanInv'
    <1>1. upsets \in Nat /\ JobOK(pc[p], job[p]) /\ IsJob(job[p]) /\ job[p].ask \in Asked
        BY JobHere DEF LoanInv, BooksOK
    <1>2. CASE PostFee(p)
        <2>1. /\ pc[p] = "fee" /\ FeeEffect(job[p]) /\ Go(p, "insert", job[p])
              /\ UNCHANGED <<log, nextSeq, rule, upsets>>
            BY <1>2 DEF PostFee, events, world
        <2>2. Moves(p, "insert", job[p])
            BY <1>1, <2>1 DEF Go, Moves, JobOK
        <2>3. QED
            BY <1>1, <2>1, <2>2, FeeStep
    <1>3. CASE Commit(p)
        <2>1. /\ pc[p] = "commit" /\ CommitEffect(job[p]) /\ Go(p, "apply", job[p])
              /\ UNCHANGED <<nextSeq, opened, lent, fees, rule, upsets>>
            BY <1>3 DEF Commit, books, world
        <2>2. Moves(p, "apply", job[p])
            BY <1>1, <2>1 DEF Go, Moves, JobOK
        <2>3. QED
            BY <1>1, <2>1, <2>2, CommitStep
    <1>4. QED
        BY <1>2, <1>3

LEMMA FailStep ==
    ASSUME LoanInv, NEW p \in Procs, Fail(p)
    PROVE  LoanInv'
    <1>1. upsets \in Nat
        BY DEF LoanInv, BooksOK
    <1>2. upsets' = upsets + 1 /\ Return(p, FALSE) /\ pc[p] # "idle"
        BY DEF Fail, StoreError, PostLost, CommitLost, Upset
    <1>3. upsets' \in Nat /\ upsets' >= upsets /\ upsets' > 0
        BY <1>1, <1>2
    <1>4. Moves(p, "idle", NoJob)
        BY <1>2, NoJobOK DEF Return, Moves
    <1>5. CASE StoreError(p)
        <2>1. UNCHANGED <<log, nextSeq, opened, lent, fees, rule>>
            BY <1>5 DEF StoreError, events, books, world
        <2>2. QED
            BY <1>2, <1>3, <2>1, EndStep
    <1>6. CASE PostLost(p)
        <2>1. UNCHANGED <<log, nextSeq, rule>>
            BY <1>6 DEF PostLost, events, world
        <2>2. CASE pc[p] = "pay" /\ PayEffect(job[p])
            <3>1. UNCHANGED <<opened, lent, fees>>
                BY <2>2 DEF PayEffect
            <3>2. QED
                BY <1>2, <1>3, <2>1, <3>1, EndStep
        <2>3. CASE pc[p] = "fee" /\ FeeEffect(job[p])
            BY <1>3, <1>4, <2>1, <2>3, FeeStep
        <2>4. CASE pc[p] = "writeoff" /\ WriteOffEffect(job[p])
            <3>1. UNCHANGED <<opened, lent, fees>>
                BY <2>4 DEF WriteOffEffect
            <3>2. QED
                BY <1>2, <1>3, <2>1, <3>1, EndStep
        <2>5. CASE pc[p] = "disburse" /\ DisburseEffect(job[p])
            BY <1>3, <1>4, <2>1, <2>5, LendStep
        <2>6. QED
            BY <1>6, <2>2, <2>3, <2>4, <2>5 DEF PostLost
    <1>7. CASE CommitLost(p)
        <2>1. /\ pc[p] = "commit" /\ CommitEffect(job[p])
              /\ UNCHANGED <<nextSeq, opened, lent, fees, rule>>
            BY <1>7 DEF CommitLost, books, world
        <2>2. QED
            BY <1>3, <1>4, <2>1, CommitStep
    <1>8. QED
        BY <1>5, <1>6, <1>7 DEF Fail

LEMMA SeedStep ==
    ASSUME LoanInv, NEW p \in Procs, Seed(p)
    PROVE  LoanInv'
    <1>1. /\ phase = "start" /\ Still
          /\ \/ phase' = "up" /\ UNCHANGED <<pc, job>>
             \/ /\ phase' = "seeding" /\ pc' = [pc EXCEPT ![p] = "score"]
                /\ job' = [job EXCEPT ![p] = [NoJob EXCEPT !.op = "seed"]]
        BY DEF Seed, Still, events, books, world
    <1>2. upsets' \in Nat /\ upsets' >= upsets /\ \A q \in Procs : pc[q] = "idle"
        BY <1>1 DEF LoanInv, BooksOK, PhaseOK, Still
    <1>3. CASE phase' = "up" /\ UNCHANGED <<pc, job>>
        <2>1. PhaseOK' /\ RulesOK'
            BY <1>1, <1>2, <1>3 DEF LoanInv, PhaseOK, RulesOK, Still
        <2>2. QED
            BY <1>1, <1>2, <1>3, <2>1, FrameStep DEF Still
    <1>4. CASE /\ phase' = "seeding" /\ pc' = [pc EXCEPT ![p] = "score"]
               /\ job' = [job EXCEPT ![p] = [NoJob EXCEPT !.op = "seed"]]
        <2> DEFINE k == [NoJob EXCEPT !.op = "seed"]
        <2>1. IsJob(k) /\ k.op = "seed" /\ k.ask = SeedApplication
            BY DEF IsJob, NoJob, Fields
        <2>2. job' = [job EXCEPT ![p] = k]
            BY <1>4
        <2> HIDE DEF k
        <2>3. JobOK("score", k)
            BY <2>1 DEF JobOK, Asked
        <2>4. Moves(p, "score", k)
            BY <1>1, <1>4, <2>1, <2>2, <2>3 DEF Moves
        <2>5. Calm(p, "score", k)
            BY <1>1, <1>2, <2>4 DEF Calm, Still
        <2>6. QED
            BY <2>5, CalmStep
    <1>5. QED
        BY <1>1, <1>3, <1>4

LEMMA OtherStep ==
    ASSUME LoanInv, Read \/ EditRule \/ Crash \/ StartAgain
    PROVE  LoanInv'
    <1>1. upsets \in Nat /\ RulesOK /\ PhaseOK
        BY DEF LoanInv, BooksOK
    <1>2. CASE Read
        <2>1. UNCHANGED <<log, nextSeq, opened, lent, fees, pc, job, rule, phase, upsets>>
            BY <1>2 DEF Read, events, books, world, control
        <2>2. RulesOK' /\ PhaseOK'
            BY <1>1, <2>1 DEF RulesOK, PhaseOK
        <2>3. QED
            BY <1>1, <2>1, <2>2, FrameStep
    <1>3. CASE EditRule
        <2>1. /\ UNCHANGED <<log, nextSeq, opened, lent, fees, pc, job, phase>>
              /\ upsets' = upsets + 1
            BY <1>3 DEF EditRule, Upset, events, books, control
        <2>2. PICK r \in DOMAIN rule : \E c \in Contents[r] : rule' = [rule EXCEPT ![r] = c]
            BY <1>3 DEF EditRule
        <2>3. RulesOK' /\ PhaseOK'
            BY <1>1, <2>1, <2>2 DEF RulesOK, PhaseOK
        <2>4. QED
            BY <1>1, <2>1, <2>3, FrameStep
    <1>4. CASE Crash
        BY <1>1, <1>4, RestartStep DEF Crash, Upset
    <1>5. CASE StartAgain
        BY <1>1, <1>5, RestartStep DEF StartAgain
    <1>6. QED
        BY <1>2, <1>3, <1>4, <1>5

-----------------------------------------------------------------------------
LEMMA InitInv == Init => LoanInv
    <1>1. SUFFICES ASSUME Init PROVE LoanInv
        OBVIOUS
    <1>2. \A p \in Procs : pc[p] = "idle" /\ job[p] = NoJob
        BY <1>1 DEF Init
    <1>3. pc = [p \in Procs |-> pc[p]] /\ job = [p \in Procs |-> job[p]]
        BY <1>1 DEF Init
    <1>4. JobsOK /\ PhaseOK
        BY <1>1, <1>2, <1>3, NoJobOK DEF JobsOK, PhaseOK, Init
    <1>5. RulesOK
        BY <1>1, LoanAssumption DEF RulesOK, Init
    <1>6. DOMAIN log = {} /\ nextSeq = 0 /\ opened = {} /\ upsets = 0
        BY <1>1 DEF Init
    <1>7. \A l \in Loans : lent[l] = 0 /\ fees[l] = 0
        BY <1>1 DEF Init
    <1>8. BooksOK
        BY <1>1, <1>6 DEF BooksOK, Init
    <1>9. LogOK
        BY <1>6 DEF LogOK
    <1>10. BirthsOK /\ SeqsOK
        BY <1>2 DEF BirthsOK, BirthOK, Bears, SeqsOK, SeqOK
    <1>11. LentOK
        BY <1>7 DEF LentOK
    <1>12. ASSUME NEW l \in Loans
           PROVE  Logged(log, l) = 0 /\ OnWay(pc, job, l) = 0
        <2>1. Logged(log, l) = 0
            BY <1>6, SumOverEmpty DEF Logged
        <2> DEFINE f == [p \in Procs |-> Carried(pc[p], job[p], l)]
        <2>2. \A p \in Procs : f[p] = 0
            BY <1>2 DEF Carried
        <2>3. OnWay(pc, job, l) = SumOver(f, Procs)
            BY DEF OnWay
        <2> HIDE DEF f
        <2>4. QED
            BY <2>1, <2>2, <2>3, SumOverZero, LoanAssumption
    <1>13. FeesOK
        BY <1>7, <1>12 DEF FeesOK
    <1>14. QED
        BY <1>4, <1>5, <1>8, <1>9, <1>10, <1>11, <1>13 DEF LoanInv

LEMMA NextInv ==
    ASSUME LoanInv, [Next]_vars
    PROVE  LoanInv'
    <1>1. ASSUME NEW p \in Procs, Step(p)
          PROVE  LoanInv'
        BY <1>1, ReadingStep, WorkingStep, EvaluateStep, DecideStep, OpenStep, DisburseStep,
           DrawStep, PostStep DEF Step
    <1>2. CASE Next
        BY <1>1, <1>2, SeedStep, AskStep, FailStep, OtherStep DEF Next
    <1>3. CASE UNCHANGED vars
        <2>1. /\ UNCHANGED <<log, nextSeq, opened, lent, fees, pc, job>>
              /\ UNCHANGED <<rule, phase, upsets>>
            BY <1>3 DEF vars, events, books, world, control
        <2>2. RulesOK' /\ PhaseOK' /\ upsets \in Nat
            BY <2>1 DEF LoanInv, RulesOK, PhaseOK, BooksOK
        <2>3. QED
            BY <2>1, <2>2, FrameStep
    <1>4. QED
        BY <1>2, <1>3

(* The invariant behind the safety of loans holds in every state that the  *)
(* handlers, their failures and restarts lead to, for any number of        *)
(* goroutines, loans, applications and rules.                              *)
THEOREM LoanInvariant == Spec => []LoanInv
    BY InitInv, NextInv, PTL DEF Spec

(* Every loan in the log was disbursed once, before its event, with the    *)
(* principal the event records; and money without such an event means that *)
(* its origination is on its way or that something failed (Originate,      *)
(* Seed).                                                                  *)
THEOREM LoansAreDisbursed == Spec => []LoansDisbursed
    <1>1. LoanInv => LoansDisbursed
        BY DEF LoanInv, LoansDisbursed, Numbers, LogOK, LentOK, Originates
    <1>2. QED
        BY <1>1, LoanInvariant, PTL

(* The sums that FeesPosted is stated with.                                *)
LEMMA LoggedSum ==
    ASSUME NEW lg, NEW S, IsFiniteSet(S), NEW g, \A n \in S : g[n] = lg[n].fee
    PROVE  MapThenSumSet(LAMBDA n : lg[n].fee, S) = SumOver(g, S)
    <1> DEFINE R(h) == h = [s \in SUBSET S |-> IF s = {} THEN 0
                              ELSE lg[pick(s)].fee + h[s \ {pick(s)}]]
    <1>1. PICK h : IsSum(g, S, h)
        BY SumExists
    <1>2. \A s \in SUBSET S : s # {} => g[pick(s)] = lg[pick(s)].fee
        BY PickIn
    <1>3. \A k : R(k) <=> IsSum(g, S, k)
        BY <1>2 DEF IsSum
    <1>4. R(h)
        BY <1>1, <1>3
    <1>5. \E k : R(k) /\ MapThenSumSet(LAMBDA n : lg[n].fee, S) = k[S]
        BY <1>4 DEF MapThenSumSet, MapThenFoldSet, pick
    <1> HIDE DEF R
    <1>6. QED
        BY <1>3, <1>5, SumOverIs

LEMMA CarriedSum ==
    ASSUME NEW jobs, NEW S, IsFiniteSet(S), NEW g, \A p \in S : g[p] = jobs[p].event.fee
    PROVE  MapThenSumSet(LAMBDA p : jobs[p].event.fee, S) = SumOver(g, S)
    <1> DEFINE R(h) == h = [s \in SUBSET S |-> IF s = {} THEN 0
                              ELSE jobs[pick(s)].event.fee + h[s \ {pick(s)}]]
    <1>1. PICK h : IsSum(g, S, h)
        BY SumExists
    <1>2. \A s \in SUBSET S : s # {} => g[pick(s)] = jobs[pick(s)].event.fee
        BY PickIn
    <1>3. \A k : R(k) <=> IsSum(g, S, k)
        BY <1>2 DEF IsSum
    <1>4. \E k : R(k)
        BY <1>1, <1>3
    <1>5. R(CHOOSE k : R(k))
        BY <1>4, Zenon
    <1>6. MapThenSumSet(LAMBDA p : jobs[p].event.fee, S) = (CHOOSE k : R(k))[S]
        BY Zenon DEF MapThenSumSet, MapThenFoldSet, pick
    <1> HIDE DEF R
    <1>7. QED
        BY <1>3, <1>5, <1>6, SumOverIs

LEMMA FeeSums ==
    ASSUME LoanInv, NEW l \in Loans
    PROVE  LoggedFees(l) = Logged(log, l) /\ FeesOnTheirWay(l) = OnWay(pc, job, l)
    <1>1. LoggedFees(l) = Logged(log, l)
        <2> DEFINE S == Numbers(l, "missed")
                   g == [n \in DOMAIN log |-> Fee(log[n], l)]
        <2>1. IsFiniteSet(DOMAIN log) /\ IsFiniteSet(S) /\ S \in SUBSET DOMAIN log
            BY LoggedNat, FS_Subset DEF Numbers, LoanInv
        <2>2. /\ \A n \in S : g[n] = log[n].fee
              /\ \A n \in DOMAIN log \ S : g[n] = 0
              /\ \A n \in DOMAIN log : g[n] \in Int
            BY DEF Numbers, Fee, LoanInv, LogOK, EventOK
        <2>3. LoggedFees(l) = MapThenSumSet(LAMBDA n : log[n].fee, S)
            BY DEF LoggedFees
        <2>4. Logged(log, l) = SumOver(g, DOMAIN log)
            BY DEF Logged
        <2> HIDE DEF S, g
        <2>5. MapThenSumSet(LAMBDA n : log[n].fee, S) = SumOver(g, S)
            BY <2>1, <2>2, LoggedSum
        <2>6. SumOver(g, DOMAIN log) = SumOver(g, S)
            BY <2>1, <2>2, SumOverSubset
        <2>7. QED
            BY <2>3, <2>4, <2>5, <2>6
    <1>2. FeesOnTheirWay(l) = OnWay(pc, job, l)
        <2> DEFINE S == {p \in Procs : /\ pc[p] \in {"insert", "commit"} /\ job[p].loan = l
                                       /\ job[p].event.type = "missed"}
                   g == [p \in Procs |-> Carried(pc[p], job[p], l)]
        <2>1. IsFiniteSet(Procs) /\ IsFiniteSet(S) /\ S \in SUBSET Procs
            BY LoanAssumption, FS_Subset
        <2>2. \A p \in Procs : pc[p] \in {"insert", "commit"} => job[p].event.loan = job[p].loan
            BY JobHere DEF JobOK
        <2>3. /\ \A p \in S : g[p] = job[p].event.fee
              /\ \A p \in Procs \ S : g[p] = 0
            BY <2>2 DEF Carried, Fee
        <2>4. \A p \in Procs : g[p] \in Int
            BY JobHere, CarriedNat
        <2>5. FeesOnTheirWay(l) = MapThenSumSet(LAMBDA p : job[p].event.fee, S)
            BY DEF FeesOnTheirWay
        <2>6. OnWay(pc, job, l) = SumOver(g, Procs)
            BY DEF OnWay
        <2> HIDE DEF S, g
        <2>7. MapThenSumSet(LAMBDA p : job[p].event.fee, S) = SumOver(g, S)
            BY <2>1, <2>3, CarriedSum
        <2>8. SumOver(g, Procs) = SumOver(g, S)
            BY <2>1, <2>3, <2>4, SumOverSubset
        <2>9. QED
            BY <2>5, <2>6, <2>7, <2>8
    <1>3. QED
        BY <1>1, <1>2

(* Every late fee an event speaks of was posted before the event, one for  *)
(* each event however requests interleave; without a failure nothing else  *)
(* was posted (missPaymentInternal, Tick).                                 *)
THEOREM FeesArePosted == Spec => []FeesPosted
    <1>1. LoanInv => FeesPosted
        BY FeeSums DEF FeesPosted, LoanInv, FeesOK
    <1>2. QED
        BY <1>1, LoanInvariant, PTL

-----------------------------------------------------------------------------
(* The terms on which money is lent.  Rounded quotients.                   *)
LEMMA DivIs ==
    ASSUME NEW a \in Int, NEW d \in Nat \ {0}, NEW q \in Int, NEW m \in 0..d - 1,
           a = d * q + m
    PROVE  a \div d = q
    <1>1. PICK k : k = a \div d
        OBVIOUS
    <1>2. PICK r : r = a % d
        OBVIOUS
    <1>3. k \in Int /\ r \in 0..d - 1 /\ a = d * k + r
        BY <1>1, <1>2
    <1>4. d * (k - q) = m - r
        BY <1>3
    <1>5. k - q <= 0
        <2>1. SUFFICES ASSUME 1 <= k - q PROVE FALSE
            BY <1>3
        <2>2. d * 1 <= d * (k - q)
            BY <1>3, <2>1, MulMono
        <2>3. QED
            BY <1>3, <1>4, <2>2
    <1>6. k - q >= 0
        <2>1. SUFFICES ASSUME k - q <= -1 PROVE FALSE
            BY <1>3
        <2>2. d * (k - q) <= d * (-1)
            BY <1>3, <2>1, MulMono
        <2>3. QED
            BY <1>3, <1>4, <2>2
    <1>7. QED
        BY <1>1, <1>3, <1>5, <1>6

LEMMA RoundInt ==
    ASSUME NEW n \in Int, NEW d \in Nat \ {0}
    PROVE  roundHalfUp(n, d) \in Int
    BY DEF roundHalfUp

(* Interest does not change the sum that is rounded with it.               *)
LEMMA RoundGrown ==
    ASSUME NEW x \in Nat, NEW r \in Nat \ {0}, NEW u \in Nat \ {0}
    PROVE  roundHalfUp(x * r * (u + r), u * r) = x + roundHalfUp(x * r, u)
    <1>1. PICK y : y = x * r
        OBVIOUS
    <1>2. PICK w : w = u * r
        OBVIOUS
    <1>3. y \in Nat /\ w \in Nat \ {0}
        BY <1>1, <1>2
    <1>4. PICK q : q = (2 * y + u) \div (2 * u)
        OBVIOUS
    <1>5. PICK m : m = (2 * y + u) % (2 * u)
        OBVIOUS
    <1>6. q \in Int /\ m \in 0..(2 * u) - 1 /\ 2 * y + u = (2 * u) * q + m
        BY <1>3, <1>4, <1>5
    <1>7. roundHalfUp(y, u) = q
        BY <1>3, <1>4 DEF roundHalfUp
    <1>8. PICK z : z = x * r * (u + r)
        OBVIOUS
    <1>9. z = y * u + y * r /\ z \in Nat
        BY <1>1, <1>3, <1>8
    <1>10. 2 * z + w = (2 * w) * (x + q) + r * m
        <2>1. r * (2 * y + u) = r * ((2 * u) * q + m)
            BY <1>6
        <2>2. r * (2 * y + u) = 2 * (y * r) + w
            BY <1>2, <1>3
        <2>3. r * ((2 * u) * q + m) = (2 * w) * q + r * m
            BY <1>2, <1>3, <1>6
        <2>4. (2 * w) * x = 2 * (y * u)
            BY <1>1, <1>2
        <2>5. (2 * w) * (x + q) = (2 * w) * x + (2 * w) * q
            BY <1>3, <1>6
        <2>6. PICK a : a = y * u
            OBVIOUS
        <2>7. PICK b : b = y * r
            OBVIOUS
        <2>8. PICK c : c = (2 * w) * q
            OBVIOUS
        <2>9. PICK e : e = r * m
            OBVIOUS
        <2>10. a \in Int /\ b \in Int /\ c \in Int /\ e \in Int
            BY <1>3, <1>6, <2>6, <2>7, <2>8, <2>9
        <2>11. z = a + b /\ 2 * b + w = c + e /\ (2 * w) * (x + q) = 2 * a + c
            BY <1>9, <2>1, <2>2, <2>3, <2>4, <2>5, <2>6, <2>7, <2>8, <2>9
        <2>12. QED
            BY <1>3, <2>9, <2>10, <2>11
    <1>11. r * m \in 0..(2 * w) - 1
        <2>1. r * m \in Nat
            BY <1>6
        <2>2. r * m <= r * ((2 * u) - 1)
            BY <1>6, MulMono
        <2>3. r * ((2 * u) - 1) = 2 * w - r
            BY <1>2
        <2>4. QED
            BY <1>3, <2>1, <2>2, <2>3
    <1>12. (2 * z + w) \div (2 * w) = x + q
        <2>1. PICK a : a = 2 * z + w
            OBVIOUS
        <2>2. PICK d : d = 2 * w
            OBVIOUS
        <2>3. PICK k : k = x + q
            OBVIOUS
        <2>4. PICK e : e = r * m
            OBVIOUS
        <2>5. a \in Int /\ d \in Nat \ {0} /\ k \in Int /\ e \in 0..d - 1
            BY <1>3, <1>6, <1>9, <1>11, <2>1, <2>2, <2>3, <2>4
        <2>6. a = d * k + e
            BY <1>10, <2>1, <2>2, <2>3, <2>4
        <2>7. a \div d = k
            BY <2>5, <2>6, DivIs
        <2>8. QED
            BY <2>1, <2>2, <2>3, <2>7
    <1>13. roundHalfUp(z, w) = x + q
        <2>1. roundHalfUp(z, w) = (2 * z + w) \div (2 * w)
            BY <1>3, <1>9 DEF roundHalfUp
        <2>2. QED
            BY <1>12, <2>1
    <1>14. QED
        BY <1>1, <1>2, <1>7, <1>8, <1>13

(* Powers: of one, and of a larger base.                                   *)
LEMMA PowOne ==
    ASSUME NEW b \in Nat
    PROVE  ratPow(b, 1) = b
    <1>1. PICK n \in Nat : n = 1
        OBVIOUS
    <1>2. PICK h \in [0..n -> Nat] :
            ratPow(b, n) = h[n] /\ h[0] = 1 /\ \A i \in 1..n : h[i] = h[i - 1] * b
        BY PowFacts
    <1>3. n \in 1..n /\ n - 1 = 0
        BY <1>1
    <1>4. h[n] = h[0] * b
        BY <1>2, <1>3
    <1>5. 1 * b = b
        OBVIOUS
    <1>6. QED
        BY <1>1, <1>2, <1>4, <1>5

LEMMA PowGrows ==
    ASSUME NEW b \in Nat \ {0}, NEW c \in Nat, b < c, NEW n \in Nat \ {0}
    PROVE  ratPow(b, n) \in Nat /\ ratPow(c, n) \in Nat /\ ratPow(b, n) < ratPow(c, n)
    <1>1. PICK g \in [0..n -> Nat] :
            ratPow(b, n) = g[n] /\ g[0] = 1 /\ \A i \in 1..n : g[i] = g[i - 1] * b
        BY PowFacts
    <1>2. PICK h \in [0..n -> Nat] :
            ratPow(c, n) = h[n] /\ h[0] = 1 /\ \A i \in 1..n : h[i] = h[i - 1] * c
        BY PowFacts
    <1> DEFINE T == {k \in Nat : k <= n => /\ g[k] >= 1 /\ h[k] >= g[k]
                                           /\ k > 0 => h[k] > g[k]}
    <1>3. 0 \in T
        BY <1>1, <1>2
    <1>4. ASSUME NEW k \in Nat, k \in T
          PROVE  k + 1 \in T
        <2>1. SUFFICES ASSUME k + 1 <= n
                       PROVE  g[k + 1] >= 1 /\ h[k + 1] > g[k + 1]
            <3>1. k + 1 <= n => h[k + 1] \in Nat /\ g[k + 1] \in Nat
                BY <1>1, <1>2
            <3>2. QED
                BY <2>1, <3>1
        <2>2. /\ k \in 0..n /\ k + 1 \in 1..n /\ (k + 1) - 1 = k
              /\ g[k] \in Nat /\ h[k] \in Nat /\ g[k] >= 1 /\ h[k] >= g[k]
            BY <1>1, <1>2, <1>4, <2>1
        <2>3. g[k + 1] = g[k] * b /\ h[k + 1] = h[k] * c
            BY <1>1, <1>2, <2>2
        <2>4. PICK x : x = g[k]
            OBVIOUS
        <2>5. PICK y : y = h[k]
            OBVIOUS
        <2>6. x \in Nat /\ y \in Nat /\ x >= 1 /\ y >= x
            BY <2>2, <2>4, <2>5
        <2>7. b * 1 <= b * x /\ c * x <= c * y /\ x * (b + 1) <= x * c
            BY <2>6, MulMono
        <2>8. PICK v : v = x * b
            OBVIOUS
        <2>9. PICK z : z = x * c
            OBVIOUS
        <2>10. PICK u : u = y * c
            OBVIOUS
        <2>11. v \in Int /\ z \in Int /\ u \in Int
            BY <2>6, <2>8, <2>9, <2>10
        <2>12. b * 1 = b /\ b * x = v /\ c * x = z /\ c * y = u /\ x * (b + 1) = v + x
            BY <2>6, <2>8, <2>9, <2>10
        <2>13. b <= v /\ z <= u /\ v + x <= z
            BY <2>7, <2>9, <2>12
        <2>14. v >= 1 /\ u > v
            BY <2>6, <2>11, <2>13
        <2>15. QED
            BY <2>3, <2>4, <2>5, <2>8, <2>10, <2>14
    <1> HIDE DEF T
    <1>5. n \in T
        BY <1>3, <1>4, Induction
    <1>6. QED
        BY <1>1, <1>2, <1>5 DEF T

(* Installments.                                                           *)
LEMMA InterestInt ==
    ASSUME NEW x \in Int, NEW rate \in Nat
    PROVE  Interest(x, rate) \in Int
    <1>1. x * rate \in Int
        OBVIOUS
    <1>2. QED
        BY <1>1, RoundInt, RateUnitAssumption DEF Interest

LEMMA PaymentInt ==
    ASSUME NEW sum \in Nat \ {0}, NEW rate \in Nat, NEW term \in Nat \ {0}
    PROVE  MonthlyPayment(sum, rate, term) \in Int
    <1>1. ~(term <= 0 \/ sum <= 0)
        OBVIOUS
    <1>2. CASE rate = 0
        BY <1>1, <1>2, RoundInt DEF MonthlyPayment
    <1>3. CASE rate # 0
        <2>1. PICK g : g = ratPow(RateUnit + rate, term)
            OBVIOUS
        <2>2. PICK h : h = ratPow(RateUnit, term)
            OBVIOUS
        <2>3. g \in Nat /\ h \in Nat /\ h < g
            <3>1. PICK c : c = RateUnit + rate
                OBVIOUS
            <3>2. c \in Nat /\ RateUnit < c /\ RateUnit \in Nat \ {0}
                BY <1>3, <3>1, RateUnitAssumption
            <3>3. QED
                BY <2>1, <2>2, <3>1, <3>2, PowGrows
        <2>4. PICK d : d = RateUnit * (g - h)
            OBVIOUS
        <2>5. d \in Nat \ {0}
            <3>1. g - h \in Nat \ {0} /\ RateUnit \in Nat \ {0}
                BY <2>3, RateUnitAssumption
            <3>2. QED
                BY <2>4, <3>1
        <2>6. PICK n : n = sum * rate * g
            OBVIOUS
        <2>7. n \in Int
            BY <2>3, <2>6
        <2>8. MonthlyPayment(sum, rate, term) = roundHalfUp(n, d)
            BY <1>1, <1>3, <2>1, <2>2, <2>4, <2>6 DEF MonthlyPayment
        <2>9. QED
            BY <2>5, <2>7, <2>8, RoundInt
    <1>4. QED
        BY <1>2, <1>3

Amortizes(h, sum, rate, term) ==
    /\ h \in [0..term -> Int]
    /\ h[0] = sum
    /\ \A i \in 1..term : h[i] = IF i = term THEN 0
            ELSE h[i - 1] - (MonthlyPayment(sum, rate, term) - Interest(h[i - 1], rate))

LEMMA RemainingFacts ==
    ASSUME NEW sum \in Nat \ {0}, NEW rate \in Nat, NEW term \in Nat \ {0}
    PROVE  Amortizes(Remaining(sum, rate, term), sum, rate, term)
    <1>1. PICK pay \in Int : pay = MonthlyPayment(sum, rate, term)
        BY PaymentInt
    <1> DEFINE V(i, x) == IF i = term THEN 0 ELSE x - (pay - Interest(x, rate))
               step == [x \in (1..term) \X Int |-> V(x[1], x[2])]
               R(h) == h = [i \in 0..term |-> IF i = 0 THEN sum ELSE V(i, h[i - 1])]
    <1>2. ASSUME NEW i \in 1..term, NEW x \in Int
          PROVE  step[<<i, x>>] = V(i, x) /\ V(i, x) \in Int
        <2>1. Interest(x, rate) \in Int
            BY InterestInt
        <2>2. PICK y : y = <<i, x>>
            OBVIOUS
        <2>3. y \in (1..term) \X Int /\ y[1] = i /\ y[2] = x
            BY <2>2
        <2>4. step[y] = V(y[1], y[2])
            BY <2>3
        <2>5. QED
            BY <1>1, <2>1, <2>2, <2>3, <2>4
    <1> HIDE DEF V, step
    <1>3. PICK g : IsRec(g, term, sum, step)
        BY RecExists
    <1>4. g \in [0..term -> Int]
        <2>1. PICK S : S = Int
            OBVIOUS
        <2>2. Closed(step, term, S)
            BY <1>2, <2>1 DEF Closed
        <2>3. sum \in S
            BY <2>1
        <2>4. g \in [0..term -> S]
            BY <1>3, <2>2, <2>3, RecValues
        <2>5. QED
            BY <2>1, <2>4
    <1>5. R(g)
        <2>1. /\ g = [i \in 0..term |-> g[i]] /\ g[0] = sum
              /\ \A i \in 1..term : g[i] = step[<<i, g[i - 1]>>]
            <3>1. g = [i \in 0..term |-> IF i = 0 THEN sum ELSE step[<<i, g[i - 1]>>]]
                BY <1>3 DEF IsRec
            <3>2. QED
                BY <3>1
        <2>2. ASSUME NEW i \in 1..term PROVE g[i] = V(i, g[i - 1])
            <3>1. g[i - 1] \in Int
                <4>1. i - 1 \in 0..term
                    OBVIOUS
                <4>2. QED
                    BY <1>4, <4>1
            <3>2. QED
                BY <1>2, <2>1, <3>1
        <2>3. \A i \in 0..term : g[i] = IF i = 0 THEN sum ELSE V(i, g[i - 1])
            <3>1. SUFFICES ASSUME NEW i \in 0..term, i # 0 PROVE g[i] = V(i, g[i - 1])
                BY <2>1
            <3>2. i \in 1..term
                BY <3>1
            <3>3. QED
                BY <2>2, <3>2
        <2>4. [i \in 0..term |-> g[i]] = [i \in 0..term |-> IF i = 0 THEN sum ELSE V(i, g[i - 1])]
            BY <2>3
        <2>5. QED
            BY <2>1, <2>4
    <1>6. R(Remaining(sum, rate, term))
        <2>1. R(CHOOSE h : R(h))
            BY <1>5, Zenon
        <2>2. Remaining(sum, rate, term) = CHOOSE h : R(h)
            BY <1>1, Zenon DEF Remaining, V
        <2> HIDE DEF R
        <2>3. QED
            BY <2>1, <2>2
    <1>7. PICK h : h = Remaining(sum, rate, term)
        OBVIOUS
    <1>8. /\ h = [i \in 0..term |-> h[i]] /\ h[0] = sum
          /\ \A i \in 1..term : h[i] = V(i, h[i - 1])
        BY <1>6, <1>7
    <1>9. h \in [0..term -> Int]
        <2> DEFINE T == {k \in Nat : k <= term => h[k] \in Int}
        <2>1. 0 \in T
            BY <1>8
        <2>2. ASSUME NEW k \in Nat, k \in T
              PROVE  k + 1 \in T
            <3>1. SUFFICES ASSUME k + 1 <= term PROVE h[k + 1] \in Int
                OBVIOUS
            <3>2. k + 1 \in 1..term /\ (k + 1) - 1 = k /\ h[k] \in Int
                BY <2>2, <3>1
            <3>3. h[k + 1] = V(k + 1, h[k])
                BY <1>8, <3>2
            <3>4. QED
                BY <1>2, <3>2, <3>3
        <2> HIDE DEF T
        <2>3. \A k \in Nat : k \in T
            BY <2>1, <2>2, Induction
        <2>4. \A k \in 0..term : h[k] \in Int
            BY <2>3 DEF T
        <2>5. QED
            BY <1>8, <2>4
    <1>10. \A i \in 1..term : h[i] = IF i = term THEN 0
             ELSE h[i - 1] - (MonthlyPayment(sum, rate, term) - Interest(h[i - 1], rate))
        BY <1>1, <1>8 DEF V
    <1>11. QED
        BY <1>7, <1>8, <1>9, <1>10 DEF Amortizes

LEMMA ScheduleInt ==
    ASSUME NEW t, t.principal \in Nat \ {0}, t.rate \in Nat, t.term \in Nat \ {0},
           NEW no \in 1..t.term
    PROVE  Schedule(t)[no].payment \in Int /\ Schedule(t)[no].interest \in Int
    <1>1. PICK h \in [0..t.term -> Int] : h = Remaining(t.principal, t.rate, t.term)
        BY RemainingFacts DEF Amortizes
    <1>2. no \in 0..t.term /\ no - 1 \in 0..t.term
        OBVIOUS
    <1>3. h[no] \in Int /\ h[no - 1] \in Int
        BY <1>1, <1>2
    <1>4. PICK i : i = Interest(h[no - 1], t.rate)
        OBVIOUS
    <1>5. i \in Int
        BY <1>3, <1>4, InterestInt
    <1>6. Schedule(t)[no] = [interest |-> i, payment |-> h[no - 1] - h[no] + i]
        BY <1>1, <1>4 DEF Schedule
    <1>7. QED
        BY <1>3, <1>5, <1>6

(* The first installment of a schedule is the monthly payment that the     *)
(* decision is made on, also where it is the only one.                     *)
LEMMA FirstPayment ==
    ASSUME NEW t, t.principal \in Nat \ {0}, t.rate \in Nat, t.term \in Nat \ {0}
    PROVE  Schedule(t)[1].payment = MonthlyPayment(t.principal, t.rate, t.term)
    <1>1. PICK sum \in Nat \ {0} : sum = t.principal
        OBVIOUS
    <1>2. PICK rate \in Nat : rate = t.rate
        OBVIOUS
    <1>3. PICK term \in Nat \ {0} : term = t.term
        OBVIOUS
    <1>4. PICK pay \in Int : pay = MonthlyPayment(sum, rate, term)
        BY PaymentInt
    <1>5. PICK h \in [0..term -> Int] :
            /\ h = Remaining(sum, rate, term) /\ h[0] = sum
            /\ \A i \in 1..term : h[i] = IF i = term THEN 0
                     ELSE h[i - 1] - (MonthlyPayment(sum, rate, term) - Interest(h[i - 1], rate))
        <2>1. PICK h : h = Remaining(sum, rate, term)
            OBVIOUS
        <2>2. Amortizes(h, sum, rate, term)
            BY <2>1, RemainingFacts
        <2>3. QED
            BY <2>1, <2>2 DEF Amortizes
    <1>6. PICK i : i = Interest(sum, rate)
        OBVIOUS
    <1>7. i \in Int
        BY <1>6, InterestInt
    <1>8. h[1] = IF 1 = term THEN 0 ELSE sum - (pay - i)
        <2>1. 1 \in 1..term /\ 1 - 1 = 0
            OBVIOUS
        <2>2. QED
            BY <1>4, <1>5, <1>6, <2>1
    <1>9. Schedule(t)[1].payment = sum - h[1] + i
        <2>1. 1 \in 1..t.term /\ 1 - 1 = 0
            BY <1>3
        <2>2. Schedule(t)[1] = [interest |-> Interest(h[1 - 1], t.rate),
                                payment |-> h[1 - 1] - h[1] + Interest(h[1 - 1], t.rate)]
            BY <1>1, <1>2, <1>3, <1>5, <2>1 DEF Schedule
        <2>3. h[1 - 1] = sum
            BY <1>5, <2>1
        <2>4. QED
            BY <1>2, <1>6, <2>2, <2>3
    <1>10. CASE term # 1
        BY <1>1, <1>2, <1>3, <1>4, <1>7, <1>8, <1>9, <1>10
    <1>11. CASE term = 1
        <2>1. Schedule(t)[1].payment = sum + i
            BY <1>7, <1>8, <1>9, <1>11
        <2>2. CASE rate = 0
            <3>1. pay = (2 * sum + 1) \div 2
                BY <1>4, <1>11, <2>2 DEF MonthlyPayment, roundHalfUp
            <3>2. pay = sum
                BY <3>1
            <3>3. i = RateUnit \div (2 * RateUnit)
                BY <1>6, <2>2, RateUnitAssumption DEF Interest, roundHalfUp
            <3>4. RateUnit \div (2 * RateUnit) = 0
                <4>1. /\ RateUnit \in Int /\ 2 * RateUnit \in Nat \ {0} /\ 0 \in Int
                      /\ RateUnit \in 0..(2 * RateUnit) - 1
                    BY RateUnitAssumption
                <4>2. RateUnit = (2 * RateUnit) * 0 + RateUnit
                    BY RateUnitAssumption
                <4>3. QED
                    BY <4>1, <4>2, DivIs
            <3>5. QED
                BY <1>1, <1>2, <1>3, <1>4, <2>1, <3>2, <3>3, <3>4
        <2>3. CASE rate # 0
            <3>1. /\ ratPow(RateUnit + rate, 1) = RateUnit + rate
                  /\ ratPow(RateUnit, 1) = RateUnit
                <4>1. RateUnit + rate \in Nat /\ RateUnit \in Nat
                    BY RateUnitAssumption
                <4>2. QED
                    BY <4>1, PowOne
            <3>2. pay = roundHalfUp(sum * rate * (RateUnit + rate),
                                    RateUnit * ((RateUnit + rate) - RateUnit))
                BY <1>4, <1>11, <2>3, <3>1 DEF MonthlyPayment
            <3>3. (RateUnit + rate) - RateUnit = rate
                BY RateUnitAssumption
            <3>4. pay = roundHalfUp(sum * rate * (RateUnit + rate), RateUnit * rate)
                BY <3>2, <3>3
            <3>5. pay = sum + roundHalfUp(sum * rate, RateUnit)
                <4>1. sum \in Nat /\ rate \in Nat \ {0} /\ RateUnit \in Nat \ {0}
                    BY <2>3, RateUnitAssumption
                <4>2. roundHalfUp(sum * rate * (RateUnit + rate), RateUnit * rate)
                        = sum + roundHalfUp(sum * rate, RateUnit)
                    BY <4>1, RoundGrown
                <4>3. QED
                    BY <3>4, <4>2
            <3>6. QED
                BY <1>1, <1>2, <1>3, <1>4, <1>6, <2>1, <3>5 DEF Interest
        <2>4. QED
            BY <2>2, <2>3
    <1>12. QED
        BY <1>10, <1>11

(* Of tiers that are reached the best is chosen, of equals the first.      *)
Leads(v, S, i) == \A k \in S : v[i] > v[k] \/ (v[i] = v[k] /\ i <= k)

LEMMA BestExists ==
    ASSUME NEW n \in Nat, NEW v, \A i \in 1..n : v[i] \in Int
    PROVE  \A S \in SUBSET (1..n) : S # {} => \E i \in S : Leads(v, S, i)
    <1> DEFINE P(m) == \A S \in SUBSET (1..m) : S # {} => \E i \in S : Leads(v, S, i)
               T == {m \in Nat : m <= n => P(m)}
    <1>1. 0 \in T
        <2>1. 1..0 = {}
            OBVIOUS
        <2>2. P(0)
            BY <2>1
        <2>3. QED
            BY <2>2
    <1>2. ASSUME NEW m \in Nat, m \in T
          PROVE  m + 1 \in T
        <2>1. SUFFICES ASSUME m + 1 <= n, NEW S \in SUBSET (1..m + 1), S # {}
                       PROVE  \E i \in S : Leads(v, S, i)
            OBVIOUS
        <2>2. P(m) /\ \A i \in 1..m + 1 : v[i] \in Int
            BY <1>2, <2>1
        <2>3. CASE m + 1 \notin S
            <3>1. S \in SUBSET (1..m)
                BY <2>3
            <3>2. QED
                BY <2>1, <2>2, <3>1
        <2>4. CASE S = {m + 1}
            BY <2>2, <2>4 DEF Leads
        <2>5. CASE m + 1 \in S /\ S # {m + 1}
            <3> DEFINE U == S \ {m + 1}
            <3>1. U \in SUBSET (1..m) /\ U # {}
                BY <2>5
            <3>2. PICK i \in U : Leads(v, U, i)
                BY <2>2, <3>1
            <3>3. i \in 1..m /\ i < m + 1 /\ v[i] \in Int /\ v[m + 1] \in Int
                BY <2>2, <3>1, <3>2
            <3>4. \A k \in U : v[k] \in Int /\ k \in 1..m
                BY <2>2, <3>1
            <3>5. CASE v[m + 1] > v[i]
                <4>1. \A k \in U : v[m + 1] > v[k]
                    BY <3>2, <3>3, <3>4, <3>5 DEF Leads
                <4>2. Leads(v, S, m + 1)
                    BY <3>3, <4>1 DEF Leads
                <4>3. QED
                    BY <2>5, <4>2
            <3>6. CASE ~(v[m + 1] > v[i])
                <4>1. Leads(v, S, i)
                    BY <3>2, <3>3, <3>6 DEF Leads
                <4>2. QED
                    BY <3>2, <4>1
            <3>7. QED
                BY <3>5, <3>6
        <2>6. QED
            BY <2>3, <2>4, <2>5
    <1> HIDE DEF T
    <1>3. n \in T
        BY <1>1, <1>2, Induction
    <1>4. QED
        BY <1>3 DEF T

TierType == [tier : STRING, min_risk_score : Nat, rate : Nat, max_principal : Nat]

LEMMA TierSeq ==
    ASSUME NEW tiers \in Seq(TierType)
    PROVE  /\ Len(tiers) \in Nat /\ DOMAIN tiers = 1..Len(tiers)
           /\ \A i \in DOMAIN tiers : /\ tiers[i] \in TierType
                                      /\ tiers[i].min_risk_score \in Nat /\ tiers[i].rate \in Nat
                                      /\ tiers[i] # Failed
    <1>1. Len(tiers) \in Nat /\ DOMAIN tiers = 1..Len(tiers)
        BY LenProperties
    <1>2. \A i \in DOMAIN tiers : tiers[i] \in TierType
        BY <1>1, ElementOfSeq
    <1>3. ASSUME NEW t \in TierType
          PROVE  t.min_risk_score \in Nat /\ t.rate \in Nat /\ t # Failed
        <2>1. DOMAIN t = {"tier", "min_risk_score", "rate", "max_principal"}
            BY DEF TierType
        <2>2. DOMAIN Failed = {"ok"}
            BY DEF Failed
        <2>3. t # Failed
            BY <2>1, <2>2
        <2>4. QED
            BY <2>3 DEF TierType
    <1>4. QED
        BY <1>1, <1>2, <1>3

LEMMA FirstMatching ==
    ASSUME NEW tiers \in Seq(TierType), NEW x \in Int,
           Reached(tiers, "min_risk_score", x) # {}
    PROVE  \E i \in Reached(tiers, "min_risk_score", x) :
             /\ firstMatchingTier(tiers, "min_risk_score", x) = tiers[i]
             /\ \A k \in Reached(tiers, "min_risk_score", x) :
                  tiers[i].min_risk_score >= tiers[k].min_risk_score
    <1> DEFINE S == Reached(tiers, "min_risk_score", x)
               v == [i \in DOMAIN tiers |-> tiers[i].min_risk_score]
               B(i) == \A k \in S : Before(tiers, "min_risk_score", i, k)
    <1>1. /\ Len(tiers) \in Nat /\ DOMAIN tiers = 1..Len(tiers)
          /\ \A i \in DOMAIN tiers : tiers[i].min_risk_score \in Nat
        BY TierSeq
    <1>2. S \in SUBSET (1..Len(tiers)) /\ S # {}
        BY <1>1 DEF Reached
    <1>3. \A i \in 1..Len(tiers) : v[i] \in Int /\ v[i] = tiers[i].min_risk_score
        BY <1>1
    <1> HIDE DEF S, v
    <1>4. PICK i \in S : Leads(v, S, i)
        BY <1>1, <1>2, <1>3, BestExists
    <1>5. B(i)
        BY <1>2, <1>3, <1>4 DEF Leads, Before
    <1>6. PICK c : c = CHOOSE m \in S : B(m)
        OBVIOUS
    <1>7. c \in S /\ B(c)
        BY <1>5, <1>6
    <1>8. firstMatchingTier(tiers, "min_risk_score", x) = tiers[c]
        BY <1>6 DEF firstMatchingTier, S
    <1>9. \A k \in S : tiers[c].min_risk_score >= tiers[k].min_risk_score
        BY <1>1, <1>2, <1>7 DEF Before
    <1>10. QED
        BY <1>7, <1>8, <1>9 DEF S

LEMMA HighestRate ==
    ASSUME NEW tiers \in Seq(TierType), tiers # << >>
    PROVE  \E i \in DOMAIN tiers : /\ highestRateTier(tiers) = tiers[i]
                                   /\ \A k \in DOMAIN tiers : tiers[i].rate >= tiers[k].rate
    <1> DEFINE D == DOMAIN tiers
               S == {i \in D : \A k \in D : tiers[i].rate >= tiers[k].rate}
               r == [i \in D |-> tiers[i].rate]
               v == [i \in D |-> tiers[i].min_risk_score]
               B(i) == \A k \in S : Before(tiers, "min_risk_score", i, k)
    <1>1. /\ Len(tiers) \in Nat /\ D = 1..Len(tiers)
          /\ \A i \in D : tiers[i].min_risk_score \in Nat /\ tiers[i].rate \in Nat
        BY TierSeq
    <1>2. D # {}
        <2>1. Len(tiers) # 0
            BY EmptySeq
        <2>2. 1 \in 1..Len(tiers)
            BY <1>1, <2>1
        <2>3. QED
            BY <1>1, <2>2
    <1>3. S \in SUBSET (1..Len(tiers)) /\ D \in SUBSET (1..Len(tiers))
        BY <1>1
    <1>4. \A i \in 1..Len(tiers) : /\ v[i] \in Int /\ v[i] = tiers[i].min_risk_score
                                   /\ r[i] \in Int /\ r[i] = tiers[i].rate
        BY <1>1
    <1> HIDE DEF v, r
    <1>5. PICK b \in D : Leads(r, D, b)
        BY <1>1, <1>2, <1>3, <1>4, BestExists
    <1>6. b \in S
        BY <1>1, <1>4, <1>5 DEF Leads
    <1>7. PICK i \in S : Leads(v, S, i)
        <2>1. S # {}
            BY <1>6
        <2> HIDE DEF S
        <2>2. QED
            BY <1>1, <1>3, <1>4, <2>1, BestExists
    <1>8. B(i)
        <2> HIDE DEF S
        <2>1. QED
            BY <1>3, <1>4, <1>7 DEF Leads, Before
    <1>9. PICK c : c = CHOOSE m \in S : B(m)
        OBVIOUS
    <1>10. c \in S
        BY <1>8, <1>9
    <1>11. highestRateTier(tiers) = tiers[c]
        BY <1>9 DEF highestRateTier
    <1>12. QED
        BY <1>10, <1>11

(* A score is a number.                                                    *)
LEMMA PointsInt ==
    ASSUME NEW bands, bands \in Seq(Range(bands)), \A b \in Range(bands) : b.points \in Int,
           NEW x, Matching(bands, x) # {}
    PROVE  matchBand(bands, x) \in Int
    <1> DEFINE S == Matching(bands, x)
    <1>1. S \subseteq DOMAIN bands /\ DOMAIN bands = 1..Len(bands) /\ Len(bands) \in Nat
        BY LenProperties DEF Matching
    <1>2. S \subseteq Nat /\ S # {}
        BY <1>1
    <1> HIDE DEF S
    <1>3. \E i \in S : \A k \in S : i <= k
        BY <1>2, LeastNatural
    <1>4. PICK m : m = Min(S)
        OBVIOUS
    <1>5. m \in S
        BY <1>3, <1>4 DEF Min
    <1>6. bands[m] \in Range(bands)
        BY <1>1, <1>5 DEF Range
    <1>7. matchBand(bands, x) = bands[m].points
        BY <1>4 DEF matchBand, S
    <1>8. QED
        BY <1>6, <1>7

LEMMA ScoreInt ==
    ASSUME NEW c, ScoringContent(c), NEW a, EvaluateRiskScore(c, a).ok
    PROVE  EvaluateRiskScore(c, a).score \in Int
    <1> DEFINE F == DOMAIN c.factors
               value(f) == a[c.factors[f].input]
               g == [f \in F |-> matchBand(c.factors[f].bands, value(f))]
               R(h) == h = [s \in SUBSET F |-> IF s = {} THEN 0
                              ELSE matchBand(c.factors[pick(s)].bands,
                                             a[c.factors[pick(s)].input])
                                     + h[s \ {pick(s)}]]
    <1>1. PICK sum : sum = (CHOOSE k : R(k))[F]
        OBVIOUS
    <1>2. PICK total : total = c.base + sum
        OBVIOUS
    <1>3. PICK score : score = clamp(total, c.clamp)
        OBVIOUS
    <1>4. EvaluateRiskScore(c, a) =
            IF \/ \E f \in F : Matching(c.factors[f].bands, value(f)) = {}
               \/ Reached(c.tiers, "min_score", score) = {}
            THEN Failed
            ELSE [ok |-> TRUE, score |-> score,
                  tier |-> firstMatchingTier(c.tiers, "min_score", score).tier]
        BY <1>1, <1>2, <1>3, Zenon DEF EvaluateRiskScore, MapThenSumSet, MapThenFoldSet, pick
    <1>5. /\ \A f \in F : Matching(c.factors[f].bands, value(f)) # {}
          /\ EvaluateRiskScore(c, a).score = score
        BY <1>4 DEF Failed
    <1>6. /\ F = 1..Len(c.factors) /\ Len(c.factors) \in Nat
          /\ \A f \in F : c.factors[f] \in Range(c.factors)
        BY LenProperties DEF ScoringContent, Range
    <1>7. IsFiniteSet(F)
        <2>1. 1 \in Int /\ Len(c.factors) \in Int
            BY <1>6
        <2>2. QED
            BY <1>6, <2>1, FS_Interval
    <1>8. \A f \in F : g[f] \in Int
        <2>1. SUFFICES ASSUME NEW f \in F PROVE matchBand(c.factors[f].bands, value(f)) \in Int
            OBVIOUS
        <2>2. PICK b : b = c.factors[f].bands
            OBVIOUS
        <2>3. b \in Seq(Range(b)) /\ \A y \in Range(b) : y.points \in Int
            BY <1>6, <2>2 DEF ScoringContent
        <2>4. QED
            BY <1>5, <2>2, <2>3, PointsInt
    <1>9. \A f \in F : g[f] = matchBand(c.factors[f].bands, a[c.factors[f].input])
        OBVIOUS
    <1>10. sum = SumOver(g, F)
        <2>1. PICK h : IsSum(g, F, h)
            BY <1>7, SumExists
        <2>2. \A s \in SUBSET F : s # {} =>
                g[pick(s)] = matchBand(c.factors[pick(s)].bands, a[c.factors[pick(s)].input])
            BY <1>9, PickIn
        <2> HIDE DEF g
        <2>3. \A k : R(k) <=> IsSum(g, F, k)
            BY <2>2 DEF IsSum
        <2>4. \E k : R(k)
            BY <2>1, <2>3
        <2>5. R(CHOOSE k : R(k))
            BY <2>4, Zenon
        <2> HIDE DEF R
        <2>6. QED
            BY <1>1, <1>7, <2>3, <2>5, SumOverIs
    <1> HIDE DEF F, g
    <1>11. sum \in Int
        BY <1>7, <1>8, <1>10, SumOverInt
    <1>12. total \in Int /\ c.clamp.min \in Int /\ c.clamp.max \in Int
        BY <1>2, <1>11 DEF ScoringContent
    <1>13. QED
        BY <1>3, <1>5, <1>12 DEF clamp

(* What the money of job j was approved on: LentAsApproved says this of a  *)
(* goroutine that is about to disburse.                                    *)
Approved(j) ==
    LET a == j.ask.applicant
        Tiers == {j.decided.tiers[i] : i \in DOMAIN j.decided.tiers}
        Met == {t \in Tiers : t.min_risk_score <= j.score}
        Top == {t \in Met : \A u \in Met : u.min_risk_score <= t.min_risk_score}
    IN
    /\ j.score >= j.decided.min_risk_score
    /\ Met # {} => \E t \in Top : /\ j.terms.rate = t.rate
                                  /\ j.terms.principal <= t.max_principal
    /\ j.priced = j.decided =>
         /\ Met = {} => \A t \in Tiers : j.terms.rate >= t.rate
         /\ 100 * PctUnit * (a.debt + Schedule(j.terms)[1].payment)
              <= j.decided.max_debt_to_income_pct * a.income

Priced(j) ==
    /\ j.score \in Int
    /\ j.priced \in UnderwritingContent /\ j.priced.tiers # << >>
    /\ j.terms = [principal |-> j.ask.principal, term |-> j.ask.term,
                  rate |-> Pricing(j.priced, j.score).rate]

Judged(at, j) == /\ at = "price" => j.score \in Int
                 /\ at = "decide" => Priced(j)
                 /\ at \in {"open", "disburse"} => Approved(j)

TermsInv == \A p \in Procs : Judged(pc[p], job[p])

LEMMA PricingFacts ==
    ASSUME NEW c \in UnderwritingContent, c.tiers # << >>, NEW score \in Int
    PROVE  /\ Pricing(c, score).rate \in Nat
           /\ Reached(c.tiers, "min_risk_score", score) = {} =>
                \A i \in DOMAIN c.tiers : Pricing(c, score).rate >= c.tiers[i].rate
    <1>1. PICK tiers : tiers = c.tiers
        OBVIOUS
    <1>2. tiers \in Seq(TierType) /\ tiers # << >>
        BY <1>1 DEF UnderwritingContent, TierType
    <1>3. \A i \in DOMAIN tiers : tiers[i].rate \in Nat
        BY <1>2, TierSeq
    <1>4. CASE Reached(tiers, "min_risk_score", score) # {}
        <2>1. PICK i \in Reached(tiers, "min_risk_score", score) :
                firstMatchingTier(tiers, "min_risk_score", score) = tiers[i]
            BY <1>2, <1>4, FirstMatching
        <2>2. Pricing(c, score) = tiers[i] /\ i \in DOMAIN tiers
            BY <1>1, <1>4, <2>1 DEF Pricing, Reached
        <2>3. QED
            BY <1>1, <1>3, <1>4, <2>2
    <1>5. CASE Reached(tiers, "min_risk_score", score) = {}
        <2>1. PICK i \in DOMAIN tiers : /\ highestRateTier(tiers) = tiers[i]
                                        /\ \A k \in DOMAIN tiers : tiers[i].rate >= tiers[k].rate
            BY <1>2, HighestRate
        <2>2. Pricing(c, score) = tiers[i]
            BY <1>1, <1>5, <2>1 DEF Pricing
        <2>3. QED
            BY <1>1, <1>3, <2>1, <2>2
    <1>6. QED
        BY <1>1, <1>4, <1>5

LEMMA DecisionSound ==
    ASSUME NEW c \in UnderwritingContent, NEW j, j.ask \in Asked, Priced(j), NEW up,
           NEW x, x = [applicant |-> j.ask.applicant, score |-> j.score,
                       principal |-> j.terms.principal, term |-> j.terms.term,
                       installment |-> MonthlyPayment(j.terms.principal, j.terms.rate,
                                                      j.terms.term)],
           NEW d, d = EvaluateUnderwriting(c, x, up), d.approved,
           NEW k, k.ask = j.ask, k.score = j.score, k.priced = j.priced, k.decided = c,
           k.terms = Agreed(j.terms, d.tier)
    PROVE  Approved(k)
    <1>1. PICK tiers : tiers = c.tiers
        OBVIOUS
    <1>2. PICK score : score = j.score
        OBVIOUS
    <1>3. PICK a : a = j.ask.applicant
        OBVIOUS
    <1>4. PICK pay : pay = MonthlyPayment(j.terms.principal, j.terms.rate, j.terms.term)
        OBVIOUS
    <1>5. PICK S : S = Reached(tiers, "min_risk_score", score)
        OBVIOUS
    <1>6. PICK tier : tier = firstMatchingTier(tiers, "min_risk_score", score)
        OBVIOUS
    <1>7. /\ tiers \in Seq(TierType) /\ score \in Int /\ c.min_risk_score \in Nat
          /\ c.max_debt_to_income_pct \in Nat /\ PctUnit \in Nat
        BY <1>1, <1>2, UnderwritingAssumption DEF UnderwritingContent, TierType, Priced
    <1>8. /\ \A i \in DOMAIN tiers : /\ tiers[i] \in TierType
                                     /\ tiers[i].min_risk_score \in Nat
                                     /\ tiers[i].rate \in Nat /\ tiers[i] # Failed
        BY <1>7, TierSeq
    <1>9. /\ j.terms.principal \in Nat \ {0} /\ j.terms.term \in Nat \ {0}
          /\ j.terms.rate = Pricing(j.priced, score).rate /\ j.terms.rate \in Nat
        <2>1. j.ask.principal \in Nat \ {0} /\ j.ask.term \in Nat \ {0}
            BY LoanAssumption
        <2>2. Pricing(j.priced, score).rate \in Nat
            BY <1>2, PricingFacts DEF Priced
        <2>3. QED
            BY <1>2, <2>1, <2>2 DEF Priced
    <1>10. a.debt \in Int /\ a.income \in Int
        BY <1>3, LoanAssumption
    <1>11. pay \in Int
        BY <1>4, <1>9, PaymentInt
    <1>12. TermsOK(j.terms)
        BY <1>9 DEF TermsOK, Priced
    <1>13. /\ d.tier = IF S # {} THEN tier ELSE Failed
           /\ ~DebtAbove(c, a, pay, up)
           /\ ~(score < c.min_risk_score)
           /\ ~(S # {} /\ j.terms.principal > tier.max_principal)
        BY <1>1, <1>2, <1>3, <1>4, <1>5, <1>6 DEF EvaluateUnderwriting
    <1>14. 100 * PctUnit * (a.debt + pay) <= c.max_debt_to_income_pct * a.income
        BY <1>7, <1>10, <1>11, <1>13 DEF DebtAbove
    <1>15. score >= c.min_risk_score
        BY <1>7, <1>13
    <1>16. /\ k.terms.principal = j.terms.principal /\ k.terms.term = j.terms.term
           /\ k.terms.rate = IF d.tier = Failed THEN j.terms.rate ELSE d.tier.rate
        BY <1>12, AgreedTerms
    <1> DEFINE Tiers == {tiers[i] : i \in DOMAIN tiers}
               Met == {t \in Tiers : t.min_risk_score <= score}
               Top == {t \in Met : \A u \in Met : u.min_risk_score <= t.min_risk_score}
    <1>17. Met = {tiers[i] : i \in S}
        BY <1>5, <1>7, <1>8 DEF Reached
    <1>18. ASSUME S # {}
           PROVE  /\ tier \in Top /\ tier # Failed /\ tier.rate \in Nat
                  /\ tier.max_principal \in Nat
        <2>1. PICK i \in S : /\ tier = tiers[i]
                             /\ \A m \in S : tiers[i].min_risk_score >= tiers[m].min_risk_score
            BY <1>5, <1>6, <1>7, <1>18, FirstMatching
        <2>2. i \in DOMAIN tiers /\ \A m \in S : m \in DOMAIN tiers
            BY <1>5, <2>1 DEF Reached
        <2>3. tier \in Met
            BY <1>17, <2>1
        <2>4. \A u \in Met : u.min_risk_score <= tier.min_risk_score
            BY <1>8, <1>17, <2>1, <2>2
        <2>5. QED
            BY <1>8, <2>1, <2>2, <2>3, <2>4 DEF TierType
    <1>19. Met # {} => \E t \in Top : /\ k.terms.rate = t.rate
                                      /\ k.terms.principal <= t.max_principal
        <2>1. SUFFICES ASSUME S # {}
                       PROVE  k.terms.rate = tier.rate /\ k.terms.principal <= tier.max_principal
            BY <1>17, <1>18
        <2>2. k.terms.rate = tier.rate
            BY <1>13, <1>16, <1>18, <2>1
        <2>3. QED
            BY <1>9, <1>13, <1>16, <1>18, <2>1, <2>2
    <1>20. ASSUME j.priced = c
           PROVE  /\ Met = {} => \A t \in Tiers : k.terms.rate >= t.rate
                  /\ k.terms.rate = j.terms.rate
        <2>1. CASE S = {}
            <3>1. k.terms.rate = j.terms.rate
                BY <1>13, <1>16, <2>1
            <3>2. \A i \in DOMAIN tiers : Pricing(c, score).rate >= tiers[i].rate
                BY <1>1, <1>5, <1>7, <1>20, <2>1, PricingFacts DEF Priced
            <3>3. QED
                BY <1>9, <1>20, <3>1, <3>2
        <2>2. CASE S # {}
            <3>1. k.terms.rate = tier.rate
                BY <1>13, <1>16, <1>18, <2>2
            <3>2. Pricing(c, score) = tier
                BY <1>1, <1>5, <1>6, <2>2 DEF Pricing
            <3>3. Met # {}
                BY <1>17, <2>2
            <3>4. QED
                BY <1>9, <1>20, <3>1, <3>2, <3>3
        <2>3. QED
            BY <2>1, <2>2
    <1>21. ASSUME j.priced = c
           PROVE  Schedule(k.terms)[1].payment = pay
        <2>1. k.terms.rate = j.terms.rate
            BY <1>20, <1>21
        <2>2. Schedule(k.terms)[1].payment
                = MonthlyPayment(k.terms.principal, k.terms.rate, k.terms.term)
            BY <1>9, <1>16, <2>1, FirstPayment
        <2>3. QED
            BY <1>4, <1>16, <2>1, <2>2
    <1>22. /\ k.score >= k.decided.min_risk_score
           /\ Met # {} => \E t \in Top : /\ k.terms.rate = t.rate
                                         /\ k.terms.principal <= t.max_principal
           /\ k.priced = k.decided =>
                /\ Met = {} => \A t \in Tiers : k.terms.rate >= t.rate
                /\ 100 * PctUnit * (k.ask.applicant.debt + Schedule(k.terms)[1].payment)
                     <= k.decided.max_debt_to_income_pct * k.ask.applicant.income
        <2>1. k.score = score /\ k.ask.applicant = a
            BY <1>2, <1>3
        <2>2. k.score >= k.decided.min_risk_score
            BY <1>15, <2>1
        <2>3. ASSUME k.priced = k.decided
              PROVE  /\ Met = {} => \A t \in Tiers : k.terms.rate >= t.rate
                     /\ 100 * PctUnit * (k.ask.applicant.debt + Schedule(k.terms)[1].payment)
                          <= k.decided.max_debt_to_income_pct * k.ask.applicant.income
            BY <1>14, <1>20, <1>21, <2>1, <2>3
        <2>4. QED
            BY <1>19, <2>2, <2>3
    <1>23. k.score = score /\ k.decided.tiers = tiers
        BY <1>1, <1>2
    <1>24. QED
        BY <1>22, <1>23 DEF Approved

(* Where a goroutine goes next, whatever it carries there; most steps lead *)
(* away from what TermsInv speaks of.                                      *)
Lands(p, s, j) == pc' = [pc EXCEPT ![p] = s] /\ job' = [job EXCEPT ![p] = j]

Aside == {"idle", "score", "get", "set", "txs", "balance", "funds", "pay", "repaid", "reread",
          "insert", "commit", "apply", "evaluate", "fee", "owed", "writeoff", "list", "copy",
          "plan", "served"}

StepsAside(p) == \E s \in Aside : \E j : Lands(p, s, j)

LEMMA GoAside ==
    ASSUME NEW p, NEW s \in Aside, NEW j, Go(p, s, j)
    PROVE  StepsAside(p)
    BY DEF Go, Lands, StepsAside

LEMMA ReturnAside ==
    ASSUME NEW p, NEW ok, Return(p, ok)
    PROVE  StepsAside(p)
    BY DEF Return, Lands, StepsAside, Aside

LEMMA NextMissAside ==
    ASSUME NEW p, NEW j, NextMiss(p, j)
    PROVE  StepsAside(p)
    <1>1. \E s \in {"get", "list", "served"} : \E k : Go(p, s, k)
        BY DEF NextMiss
    <1>2. QED
        BY <1>1, GoAside DEF Aside

LEMMA FinishAside ==
    ASSUME NEW p, Finish(p)
    PROVE  StepsAside(p)
    <1>1. Return(p, TRUE) \/ (\E k : NextMiss(p, k)) \/ (\E k : Go(p, "get", k))
        BY DEF Finish
    <1>2. QED
        BY <1>1, GoAside, ReturnAside, NextMissAside DEF Aside

LEMMA NextInListAside ==
    ASSUME NEW p, NEW j, NextInList(p, j)
    PROVE  StepsAside(p)
    <1>1. \E s \in {"plan", "copy"} : \E k : Go(p, s, k)
        BY DEF NextInList
    <1>2. QED
        BY <1>1, GoAside DEF Aside

LEMMA RequestsAside ==
    ASSUME NEW p, Ask(p)
    PROVE  StepsAside(p)
    <1>1. \E s \in {"score", "get", "set"} : \E j, S : Begin(p, s, j, S)
        BY DEF Ask, Underwrite, Originate, Repay, MissPayment, Default, AdvanceTime
    <1>2. \E s \in {"score", "get", "set"} : \E j : Go(p, s, j)
        BY <1>1 DEF Begin
    <1>3. QED
        BY <1>2, GoAside DEF Aside

LEMMA FailuresAside ==
    ASSUME NEW p, Fail(p)
    PROVE  StepsAside(p)
    <1>1. \E ok : Return(p, ok)
        BY DEF Fail, StoreError, PostLost, CommitLost
    <1>2. QED
        BY <1>1, ReturnAside

LEMMA WorkAside ==
    ASSUME NEW p, Step(p), ~Score(p), ~Price(p), ~Decide(p), ~OpenReceivable(p)
    PROVE  StepsAside(p)
    <1>1. CASE Get(p) \/ Txs(p) \/ RepayBuilt(p) \/ Funds(p) \/ Pay(p) \/ PayBuilt(p)
        <2>1. \/ \E ok : Return(p, ok)
              \/ \E s \in {"txs", "balance", "funds", "pay", "get", "repaid"} : \E j : Go(p, s, j)
            BY <1>1 DEF Get, Txs, RepayBuilt, Funds, Pay, PayBuilt
        <2>2. QED
            BY <2>1, GoAside, ReturnAside DEF Aside
    <1>2. CASE appendRepaidEvent(p) \/ MissBuilt(p) \/ Evaluate(p) \/ PostFee(p) \/ Owed(p)
        <2>1. \/ \E ok : Return(p, ok)
              \/ \E s \in {"reread", "insert", "evaluate", "fee", "writeoff"} : \E j : Go(p, s, j)
            BY <1>2 DEF appendRepaidEvent, MissBuilt, Evaluate, PostFee, Owed
        <2>2. QED
            BY <2>1, GoAside, ReturnAside DEF Aside
    <1>3. CASE WriteOff(p) \/ Disburse(p) \/ Insert(p) \/ Commit(p) \/ ApplyAppended(p)
        <2>1. \E s \in {"insert", "commit", "apply", "reread"} : \E j : Go(p, s, j)
            BY <1>3 DEF WriteOff, Disburse, Insert, Commit, ApplyAppended
        <2>2. QED
            BY <2>1, GoAside DEF Aside
    <1>4. CASE DefaultBuilt(p)
        <2>1. Status(job[p].st, recv[job[p].loan]) \in {"defaulted", "repaid", "active"}
            BY DEF Status
        <2>2. Finish(p) \/ Return(p, FALSE) \/ \E j : Go(p, "owed", j)
            BY <1>4, <2>1 DEF DefaultBuilt
        <2>3. QED
            BY <2>2, FinishAside, ReturnAside, GoAside DEF Aside
    <1>5. CASE Reread(p)
        BY <1>5, FinishAside DEF Reread
    <1>6. CASE SetTo(p) \/ Copy(p) \/ Served(p)
        <2>1. \/ \E ok : Return(p, ok)
              \/ \E s \in {"list", "txs"} : \E j : Go(p, s, j)
            BY <1>6 DEF SetTo, Copy, Served
        <2>2. QED
            BY <2>1, GoAside, ReturnAside DEF Aside
    <1>7. CASE List(p) \/ TickBuilt(p)
        <2>1. \E j : NextInList(p, j)
            BY <1>7 DEF List, TickBuilt
        <2>2. QED
            BY <2>1, NextInListAside
    <1>8. CASE Plan(p)
        <2>1. (\E j : NextMiss(p, j)) \/ \E j : Go(p, "served", j)
            BY <1>8 DEF Plan
        <2>2. QED
            BY <2>1, NextMissAside, GoAside DEF Aside
    <1>9. QED
        BY <1>1, <1>2, <1>3, <1>4, <1>5, <1>6, <1>7, <1>8 DEF Step

(* A goroutine that moves leaves the others where they are.                *)
LEMMA TermsMove ==
    ASSUME LoanInv, TermsInv, NEW p \in Procs, NEW s, NEW j, Lands(p, s, j), Judged(s, j)
    PROVE  TermsInv'
    <1>1. /\ pc'[p] = s /\ job'[p] = j
          /\ \A q \in Procs : q # p => pc'[q] = pc[q] /\ job'[q] = job[q]
        BY DEF LoanInv, JobsOK, Lands
    <1>2. SUFFICES ASSUME NEW q \in Procs
                   PROVE  Judged(pc'[q], job'[q])
        BY DEF TermsInv
    <1>3. CASE q = p
        BY <1>1, <1>3
    <1>4. CASE q # p
        BY <1>1, <1>4 DEF TermsInv
    <1>5. QED
        BY <1>3, <1>4

LEMMA TermsAside ==
    ASSUME LoanInv, TermsInv, NEW p \in Procs, StepsAside(p)
    PROVE  TermsInv'
    <1>1. PICK s \in Aside : \E j : Lands(p, s, j)
        BY DEF StepsAside
    <1>2. PICK j : Lands(p, s, j)
        BY <1>1
    <1>3. Judged(s, j)
        BY DEF Judged, Aside
    <1>4. QED
        BY <1>2, <1>3, TermsMove

LEMMA TermsSame ==
    ASSUME TermsInv, UNCHANGED <<pc, job>>
    PROVE  TermsInv'
    <1>1. \A p \in Procs : Judged(pc'[p], job'[p])
        BY DEF TermsInv
    <1>2. QED
        BY <1>1 DEF TermsInv

LEMMA TermsIdle ==
    ASSUME \A p \in Procs : pc'[p] = "idle"
    PROVE  TermsInv'
    <1>1. \A p \in Procs : Judged(pc'[p], job'[p])
        BY DEF Judged
    <1>2. QED
        BY <1>1 DEF TermsInv

LEMMA ScoreTerms ==
    ASSUME LoanInv, TermsInv, NEW p \in Procs, Score(p)
    PROVE  TermsInv'
    <1>1. PICK d : d = EvaluateRiskScore(rule.scoring, job[p].ask.applicant)
        OBVIOUS
    <1>2. \/ d.ok /\ Go(p, "price", [job[p] EXCEPT !.score = d.score])
          \/ Return(p, FALSE)
        BY <1>1 DEF Score
    <1>3. CASE d.ok /\ Go(p, "price", [job[p] EXCEPT !.score = d.score])
        <2>1. PICK k : k = [job[p] EXCEPT !.score = d.score]
            OBVIOUS
        <2>2. k.score = d.score
            BY <2>1, JobHere DEF IsJob, Fields
        <2>3. ScoringContent(rule.scoring)
            BY LoanAssumption DEF LoanInv, RulesOK
        <2>4. d.score \in Int
            BY <1>1, <1>3, <2>3, ScoreInt
        <2>5. Judged("price", k) /\ Lands(p, "price", k)
            BY <1>3, <2>1, <2>2, <2>4 DEF Judged, Lands, Go
        <2>6. QED
            BY <2>5, TermsMove
    <1>4. CASE Return(p, FALSE)
        BY <1>4, ReturnAside, TermsAside
    <1>5. QED
        BY <1>2, <1>3, <1>4

LEMMA PriceTerms ==
    ASSUME LoanInv, TermsInv, NEW p \in Procs, Price(p)
    PROVE  TermsInv'
    <1>1. PICK c : c = rule.underwriting
        OBVIOUS
    <1>2. PICK t : t = [principal |-> job[p].ask.principal, term |-> job[p].ask.term,
                        rate |-> Pricing(c, job[p].score).rate]
        OBVIOUS
    <1>3. pc[p] = "price" /\ \/ c.tiers # << >> /\ Go(p, "decide", [job[p] EXCEPT !.priced = c, !.terms = t])
                             \/ Return(p, FALSE)
        BY <1>1, <1>2 DEF Price
    <1>4. CASE c.tiers # << >> /\ Go(p, "decide", [job[p] EXCEPT !.priced = c, !.terms = t])
        <2>1. PICK k : k = [job[p] EXCEPT !.priced = c, !.terms = t]
            OBVIOUS
        <2>2. k.priced = c /\ k.terms = t /\ k.score = job[p].score /\ k.ask = job[p].ask
            BY <2>1, JobHere DEF IsJob, Fields
        <2>3. c \in UnderwritingContent
            BY <1>1, LoanAssumption DEF LoanInv, RulesOK
        <2>4. job[p].score \in Int
            BY <1>3 DEF TermsInv, Judged
        <2>5. Priced(k)
            BY <1>2, <1>4, <2>2, <2>3, <2>4 DEF Priced
        <2>6. Judged("decide", k) /\ Lands(p, "decide", k)
            BY <1>4, <2>1, <2>5 DEF Judged, Lands, Go
        <2>7. QED
            BY <2>6, TermsMove
    <1>5. CASE Return(p, FALSE)
        BY <1>5, ReturnAside, TermsAside
    <1>6. QED
        BY <1>3, <1>4, <1>5

LEMMA DecideTerms ==
    ASSUME LoanInv, TermsInv, NEW p \in Procs, Decide(p)
    PROVE  TermsInv'
    <1>1. PICK c : c = rule.underwriting
        OBVIOUS
    <1>2. PICK x : x = [applicant |-> job[p].ask.applicant, score |-> job[p].score,
                        principal |-> job[p].terms.principal, term |-> job[p].terms.term,
                        installment |-> MonthlyPayment(job[p].terms.principal,
                                          job[p].terms.rate, job[p].terms.term)]
        OBVIOUS
    <1>3. pc[p] = "decide"
        BY DEF Decide
    <1>4. PICK up \in BOOLEAN :
            LET d == EvaluateUnderwriting(c, x, up) IN
            IF ~d.approved \/ job[p].op = "underwrite"
            THEN Return(p, job[p].op = "underwrite")
            ELSE \E l \in Loans :
                   Go(p, "open", [job[p] EXCEPT !.loan = l,
                                       !.terms = Agreed(job[p].terms, d.tier), !.decided = c])
        BY <1>1, <1>2 DEF Decide
    <1>5. PICK d : d = EvaluateUnderwriting(c, x, up)
        OBVIOUS
    <1>6. CASE Return(p, job[p].op = "underwrite")
        BY <1>6, ReturnAside, TermsAside
    <1>7. CASE d.approved /\ \E l \in Loans :
                 Go(p, "open", [job[p] EXCEPT !.loan = l,
                                       !.terms = Agreed(job[p].terms, d.tier), !.decided = c])
        <2>1. PICK t : t = Agreed(job[p].terms, d.tier)
            OBVIOUS
        <2>2. PICK l : Go(p, "open", [job[p] EXCEPT !.loan = l, !.terms = t, !.decided = c])
            BY <1>7, <2>1
        <2>3. PICK k : k = [job[p] EXCEPT !.loan = l, !.terms = t, !.decided = c]
            OBVIOUS
        <2>4. /\ k.terms = t /\ k.decided = c /\ k.score = job[p].score /\ k.ask = job[p].ask
              /\ k.priced = job[p].priced
            BY <2>3, JobHere DEF IsJob, Fields
        <2>5. c \in UnderwritingContent
            BY <1>1, LoanAssumption DEF LoanInv, RulesOK
        <2>6. Priced(job[p]) /\ job[p].ask \in Asked
            BY <1>3, JobHere DEF TermsInv, Judged
        <2>7. Approved(k)
            BY <1>2, <1>5, <1>7, <2>1, <2>4, <2>5, <2>6, DecisionSound
        <2>8. Judged("open", k) /\ Lands(p, "open", k)
            BY <2>2, <2>3, <2>7 DEF Judged, Lands, Go
        <2>9. QED
            BY <2>8, TermsMove
    <1>8. QED
        BY <1>4, <1>5, <1>6, <1>7

LEMMA OpenTerms ==
    ASSUME LoanInv, TermsInv, NEW p \in Procs, OpenReceivable(p)
    PROVE  TermsInv'
    <1>1. pc[p] = "open" /\ Lands(p, "disburse", job[p])
        BY DEF OpenReceivable, Go, Lands
    <1>2. Approved(job[p])
        BY <1>1 DEF TermsInv, Judged
    <1>3. Judged("disburse", job[p])
        BY <1>2 DEF Judged
    <1>4. QED
        BY <1>1, <1>3, TermsMove

LEMMA NextTerms ==
    ASSUME LoanInv, TermsInv, [Next]_vars
    PROVE  TermsInv'
    <1>1. ASSUME NEW p \in Procs, Step(p)
          PROVE  TermsInv'
        BY <1>1, ScoreTerms, PriceTerms, DecideTerms, OpenTerms, WorkAside, TermsAside
    <1>2. ASSUME NEW p \in Procs, Seed(p)
          PROVE  TermsInv'
        <2>1. UNCHANGED <<pc, job>> \/ \E j : Lands(p, "score", j)
            BY <1>2 DEF Seed, Lands
        <2>2. QED
            BY <2>1, TermsSame, TermsAside DEF StepsAside, Aside
    <1>3. ASSUME NEW p \in Procs, Ask(p) \/ Fail(p)
          PROVE  TermsInv'
        BY <1>3, RequestsAside, FailuresAside, TermsAside
    <1>4. CASE Read \/ EditRule \/ UNCHANGED vars
        BY <1>4, TermsSame DEF Read, EditRule, control, vars
    <1>5. CASE Crash \/ StartAgain
        BY <1>5, TermsIdle DEF Crash, StartAgain, Restart
    <1>6. QED
        BY <1>1, <1>2, <1>3, <1>4, <1>5 DEF Next

(* Money is lent on the terms that the loan_underwriting rule in force at  *)
(* the decision sets for the applicant's risk score, and within the debt   *)
(* it allows as long as the rule was not edited since the price was set    *)
(* (Underwrite, Originate), for every content of the rules, whatever the   *)
(* other goroutines do.                                                    *)
THEOREM LentOnTerms == Spec => []LentAsApproved
    <1>1. Init => TermsInv
        BY DEF Init, TermsInv, Judged
    <1>2. TermsInv => LentAsApproved
        BY DEF TermsInv, Judged, Approved, LentAsApproved
    <1>3. QED
        BY <1>1, <1>2, LoanInvariant, NextTerms, PTL DEF Spec

-----------------------------------------------------------------------------
(* The types behind TypeOK, and what the projection may be relied on for.  *)
(* Terms are those of an application at a rate of the rule; a view is what *)
(* List shows of a loan, a call what Tick still has to do for it.          *)
Installments == UNION {1..x.term : x \in Asked}

GoodTerms == [principal : Nat \ {0}, rate : Nat, term : {x.term : x \in Asked}]

StType == [known : BOOLEAN, terms : GoodTerms \cup {NoTerms}, at : Nat, missed : SUBSET Nat,
           defaulted : BOOLEAN, repaid : BOOLEAN]

Numbered == UNION {SUBSET (1..n) : n \in Nat}

ViewType == [loan : Loans, st : StType, scheduled : Numbered]

CallType == [loan : Loans, left : Int]

EventType(e) ==
    /\ e.type \in {"originated", "missed", "defaulted", "repaid"}
    /\ e.loan \in Loans
    /\ e.type = "originated" => e.terms \in GoodTerms /\ e.at \in Nat
    /\ e.type = "missed" => e.no \in Nat

(* In a Tick, the calls that are left lead to the next one.                *)
Serving(at, j) ==
    /\ at \notin {"score", "price", "decide", "open", "disburse", "funds", "pay", "repaid"}
    /\ at \in {"txs", "balance"} => j.then \in {"tick", "miss", "default"}
    /\ at \in {"get", "evaluate", "fee", "owed", "writeoff", "insert", "commit", "apply",
               "reread"} => j.then \in {"miss", "default"}
    /\ j.then = "miss" => j.todo # << >>

OnLoan == {"get", "copy", "txs", "balance", "funds", "pay", "repaid", "evaluate", "fee",
           "owed", "writeoff", "insert", "commit", "apply", "reread"}

(* A goroutine in step `at` with job j, where lst counts the listings of a *)
(* loan: it works on loans that were listed by then.                       *)
Fit(at, j, lst) ==
    /\ j.todo \in Seq(CallType)
    /\ j.op = "advance" => Serving(at, j)
    /\ at \in {"list", "copy"} => j.then = "tick"
    /\ at = "get" => j.then # "tick"
    /\ at \in OnLoan => j.loan \in Loans
    /\ at \in {"copy", "txs", "balance", "funds", "pay", "repaid", "evaluate", "fee", "owed",
               "writeoff"} => lst[j.loan] > 0
    /\ at \in {"insert", "commit"} /\ j.event.type # "originated" => lst[j.loan] > 0
    /\ at \in {"open", "disburse"} => j.terms \in GoodTerms
    /\ at \in {"fee", "writeoff", "insert", "commit"} => EventType(j.event)
    /\ at \in {"txs", "balance", "funds", "pay"} => j.st \in StType /\ j.st.terms \in GoodTerms
    /\ at = "evaluate" => j.no \in Nat
    /\ at \in {"funds", "pay"} => j.no \in 1..j.st.terms.term /\ j.amount \in Int
    /\ at \in {"get", "txs", "balance"} /\ j.then = "repay" => j.amount \in Int
    /\ at = "writeoff" => j.amount \in Int
    /\ at = "set" => j.target \in 0..MaxTime
    /\ at \in {"copy", "txs", "balance"} /\ j.then = "tick" =>
         /\ j.views \in Seq(ViewType) /\ j.list \in [Loans -> Int]
         /\ \A l \in Loans : j.list[l] > 0 => lst[l] > 0
    /\ at = "plan" => j.views \in Seq(ViewType)

FitOK == \A p \in Procs : Fit(pc[p], job[p], listed)

BankOK == /\ recv \in [Loans -> Int] /\ deposit \in Int
          /\ paid \in [Loans -> SUBSET Installments]

BoundsOK == /\ clock \in 0..MaxTime
            /\ requests \in 0..MaxRequests /\ upsets \in 0..MaxUpsets

(* What was committed is of known types, and about loans that were         *)
(* originated.                                                             *)
EventsOK ==
    /\ \A n \in DOMAIN log : EventType(log[n])
    /\ \A n \in DOMAIN log : log[n].type # "originated" =>
         \E m \in DOMAIN log : Originates(log[m], log[n].loan)

(* A loan is known once it is listed, nothing is before the first refresh, *)
(* and from then on every loan that something happened to, and every event *)
(* except those on their way and those whose Append failed.                *)
ProjOK ==
    /\ st \in [Loans -> StType] /\ listed \in [Loans -> Nat] /\ lastSeq \in 0..nextSeq
    /\ \A l \in Loans : st[l].known <=> listed[l] > 0
    /\ phase = "start" => lastSeq = 0 /\ \A l \in Loans : listed[l] = 0
    /\ phase \in {"seeding", "up"} =>
         /\ \A n \in DOMAIN log : log[n].type # "originated" => listed[log[n].loan] > 0
         /\ \A n \in DOMAIN log \ lost : n > lastSeq =>
              \E p \in Procs : pc[p] = "apply" /\ job[p].seq = n

StateInv == FitOK /\ BankOK /\ BoundsOK /\ EventsOK /\ ProjOK /\ ProjectionFaithful

LEMMA MaxNatural ==
    ASSUME NEW n \in Nat, NEW T \in SUBSET (0..n), T # {}
    PROVE  Max(T) \in T /\ \A x \in T : x <= Max(T)
    <1> DEFINE D == {n - x : x \in T}
    <1>0. \A x \in T : x \in Int /\ 0 <= x /\ x <= n /\ n - x \in Nat
        OBVIOUS
    <1>1. D \in SUBSET Nat /\ D # {}
        BY <1>0
    <1>2. PICK d \in D : \A i \in D : d <= i
        BY <1>1, LeastNatural
    <1>3. PICK y \in T : d = n - y
        BY <1>2
    <1>4. \A x \in T : y >= x
        <2>1. SUFFICES ASSUME NEW x \in T PROVE y >= x
            OBVIOUS
        <2>2. n - x \in D
            OBVIOUS
        <2>3. n - y <= n - x
            BY <1>2, <1>3, <2>2
        <2>4. QED
            BY <1>0, <2>3
    <1>5. \E m \in T : \A x \in T : m >= x
        BY <1>4
    <1>6. Max(T) \in T /\ \A x \in T : Max(T) >= x
        BY <1>5 DEF Max
    <1>7. QED
        BY <1>6

LEMMA MinNatural ==
    ASSUME NEW T \in SUBSET Nat, T # {}
    PROVE  Min(T) \in T /\ \A x \in T : Min(T) <= x
    <1>1. \E i \in T : \A x \in T : i <= x
        BY LeastNatural
    <1>2. Min(T) \in T /\ \A x \in T : Min(T) <= x
        BY <1>1 DEF Min
    <1>3. QED
        BY <1>2

-----------------------------------------------------------------------------
(* What Fold does, loan by loan.                                           *)
Noted(S, l, type) == {n \in S : log[n].loan = l /\ log[n].type = type}

LEMMA FiniteLog ==
    ASSUME LogOK, NEW S \in SUBSET DOMAIN log
    PROVE  /\ IsFiniteSet(S) /\ Cardinality(S) \in Nat
           /\ Cardinality(S) = 0 <=> S = {}
           /\ S \in SUBSET (0..nextSeq)
    <1>0. nextSeq \in Int /\ 1 \in Int /\ S \subseteq 1..nextSeq
        BY DEF LogOK
    <1>1. IsFiniteSet(1..nextSeq) /\ S \subseteq 1..nextSeq
        BY <1>0, FS_Interval
    <1>2. IsFiniteSet(S)
        BY <1>1, FS_Subset
    <1>3. QED
        BY <1>1, <1>2, FS_CardinalityType, FS_EmptySet DEF LogOK

LEMMA FoldLists ==
    ASSUME LogOK, ProjOK, NEW S \in SUBSET DOMAIN log, Fold(S), NEW l \in Loans
    PROVE  /\ listed'[l] \in Nat /\ listed'[l] >= listed[l]
           /\ Noted(S, l, "originated") = {} => listed'[l] = listed[l]
           /\ Noted(S, l, "originated") # {} => listed'[l] > listed[l]
    <1>1. PICK c : c = Cardinality(Noted(S, l, "originated"))
        OBVIOUS
    <1>2. listed'[l] = listed[l] + c
        BY <1>1 DEF Fold, Noted
    <1>3. Noted(S, l, "originated") \in SUBSET DOMAIN log
        BY DEF Noted
    <1>4. c \in Nat /\ (c = 0 <=> Noted(S, l, "originated") = {})
        BY <1>1, <1>3, FiniteLog
    <1>5. listed[l] \in Nat
        BY DEF ProjOK
    <1>6. QED
        BY <1>2, <1>4, <1>5

LEMMA FoldSeq ==
    ASSUME LogOK, ProjOK, NEW S \in SUBSET DOMAIN log, Fold(S)
    PROVE  /\ lastSeq' \in 0..nextSeq /\ lastSeq' >= lastSeq
           /\ \A n \in S : n <= lastSeq'
           /\ lastSeq' \in S \cup {lastSeq}
    <1> DEFINE T == S \cup {lastSeq}
    <1>1. T \in SUBSET (0..nextSeq) /\ T # {} /\ nextSeq \in Nat
        BY FiniteLog DEF ProjOK, LogOK
    <1>2. lastSeq' = Max(T)
        BY DEF Fold, NoteSeq
    <1> HIDE DEF T
    <1>3. Max(T) \in T /\ \A x \in T : x <= Max(T)
        BY <1>1, MaxNatural
    <1>4. QED
        BY <1>1, <1>2, <1>3 DEF T

LEMMA FoldStates ==
    ASSUME LogOK, ProjOK, NEW S \in SUBSET DOMAIN log, Fold(S), NEW l \in Loans
    PROVE  /\ Noted(S, l, "originated") = {} /\ ~st[l].known => st'[l] = st[l]
           /\ Noted(S, l, "originated") = {} /\ st[l].known =>
                st'[l] = [known |-> TRUE, terms |-> st[l].terms, at |-> st[l].at,
                          missed |-> st[l].missed \cup {log[n].no : n \in Noted(S, l, "missed")},
                          defaulted |-> st[l].defaulted \/ Noted(S, l, "defaulted") # {},
                          repaid |-> st[l].repaid \/ Noted(S, l, "repaid") # {}]
           /\ Noted(S, l, "originated") # {} =>
                \E o \in Noted(S, l, "originated") :
                  st'[l] = [known |-> TRUE, terms |-> log[o].terms, at |-> log[o].at,
                            missed |-> {log[n].no : n \in Noted(S, l, "missed")},
                            defaulted |-> Noted(S, l, "defaulted") # {},
                            repaid |-> Noted(S, l, "repaid") # {}]
    <1> DEFINE O == Noted(S, l, "originated")
               e == log[Max(O)]
               base == IF O = {} THEN st[l]
                       ELSE [Unknown EXCEPT !.known = TRUE, !.terms = e.terms, !.at = e.at]
    <1>1. st'[l] = IF ~base.known THEN base
                   ELSE [base EXCEPT
                           !.missed = @ \cup {log[n].no : n \in Noted(S, l, "missed")},
                           !.defaulted = @ \/ Noted(S, l, "defaulted") # {},
                           !.repaid = @ \/ Noted(S, l, "repaid") # {}]
        BY DEF Fold, Noted
    <1>2. st[l] = [known |-> st[l].known, terms |-> st[l].terms, at |-> st[l].at,
                   missed |-> st[l].missed, defaulted |-> st[l].defaulted,
                   repaid |-> st[l].repaid] /\ st[l].known \in BOOLEAN
        BY DEF ProjOK, StType
    <1>3. CASE O = {}
        <2>1. base = st[l]
            BY <1>3
        <2> HIDE DEF base
        <2>2. QED
            BY <1>1, <1>2, <1>3, <2>1
    <1>4. CASE O # {}
        <2>1. O \in SUBSET (0..nextSeq) /\ nextSeq \in Nat
            BY FiniteLog DEF Noted, LogOK
        <2>2. Max(O) \in O
            BY <1>4, <2>1, MaxNatural
        <2>3. base = [known |-> TRUE, terms |-> e.terms, at |-> e.at, missed |-> {},
                      defaulted |-> FALSE, repaid |-> FALSE]
            BY <1>4 DEF Unknown
        <2> HIDE DEF base
        <2>4. st'[l] = [known |-> TRUE, terms |-> e.terms, at |-> e.at,
                        missed |-> {log[n].no : n \in Noted(S, l, "missed")},
                        defaulted |-> Noted(S, l, "defaulted") # {},
                        repaid |-> Noted(S, l, "repaid") # {}]
            <3> DEFINE M == {log[n].no : n \in Noted(S, l, "missed")}
                       dd == Noted(S, l, "defaulted") # {}
                       rr == Noted(S, l, "repaid") # {}
            <3>1. st'[l] = [known |-> TRUE, terms |-> e.terms, at |-> e.at,
                            missed |-> {} \cup M, defaulted |-> FALSE \/ dd,
                            repaid |-> FALSE \/ rr]
                BY <1>1, <2>3
            <3>2. ({} \cup M) = M /\ (FALSE \/ dd) = dd /\ (FALSE \/ rr) = rr
                OBVIOUS
            <3> HIDE DEF M, dd, rr
            <3>3. st'[l] = [known |-> TRUE, terms |-> e.terms, at |-> e.at,
                            missed |-> M, defaulted |-> dd, repaid |-> rr]
                BY <3>1, <3>2
            <3>4. QED
                BY <3>3 DEF M, dd, rr
        <2> HIDE DEF O
        <2>5. QED
            BY <1>4, <2>2, <2>4 DEF O
    <1>5. QED
        BY <1>3, <1>4

-----------------------------------------------------------------------------
(* ProjectionFaithful in two parts: what the projection says is in the     *)
(* log, and what it must have seen by now it says.                         *)
Applies(at, jobs, n) == \E p \in Procs : at[p] = "apply" /\ jobs[p].seq = n

Seen(n) == n \in DOMAIN log \ lost /\ n <= lastSeq /\ ~Applies(pc, job, n)

Backed(l) ==
    /\ st[l].known => \E n \in DOMAIN log : /\ Originates(log[n], l)
                                            /\ st[l].terms = log[n].terms /\ st[l].at = log[n].at
    /\ \A no \in st[l].missed : \E n \in DOMAIN log :
         log[n].loan = l /\ log[n].type = "missed" /\ log[n].no = no
    /\ st[l].defaulted => \E n \in DOMAIN log : log[n].loan = l /\ log[n].type = "defaulted"
    /\ st[l].repaid => \E n \in DOMAIN log : log[n].loan = l /\ log[n].type = "repaid"

Current(l) ==
    /\ \A n \in DOMAIN log : Seen(n) /\ Originates(log[n], l) => listed[l] > 0
    /\ listed[l] = 1 => \A n \in DOMAIN log : Seen(n) /\ log[n].loan = l =>
         /\ log[n].type = "missed" => log[n].no \in st[l].missed
         /\ log[n].type = "defaulted" => st[l].defaulted
         /\ log[n].type = "repaid" => st[l].repaid

LEMMA FaithfulParts ==
    ProjectionFaithful <=> \A l \in Loans : Backed(l) /\ Current(l)
    BY DEF ProjectionFaithful, Backed, Current, Seen, Applies, Numbers, Originates

LEMMA FaithfulPartsNext ==
    ProjectionFaithful' <=> \A l \in Loans : Backed(l)' /\ Current(l)'
    BY DEF ProjectionFaithful, Backed, Current, Seen, Applies, Numbers, Originates

(* How a step may change the phase: not from a process that ended to one   *)
(* that serves.                                                            *)
PhaseGoes == /\ phase' \in {"seeding", "up"} => phase \in {"seeding", "up"}
             /\ phase' = "start" => phase = "start"

(* The goroutines that are to fold an event in are the same.               *)
SameAppliers == \A n : Applies(pc', job', n) <=> Applies(pc, job, n)

LEMMA ProjSame ==
    ASSUME LogOK, ProjOK, ProjectionFaithful, UNCHANGED <<log, lost, st, listed, lastSeq>>,
           nextSeq' \in Nat, nextSeq' >= nextSeq, PhaseGoes, SameAppliers
    PROVE  ProjOK' /\ ProjectionFaithful'
    <1>1. ProjOK'
        <2>1. ASSUME phase' \in {"seeding", "up"}, NEW n \in DOMAIN log \ lost, n > lastSeq
              PROVE  \E p \in Procs : pc'[p] = "apply" /\ job'[p].seq = n
            <3>1. Applies(pc, job, n)
                BY <2>1 DEF ProjOK, PhaseGoes, Applies
            <3>2. Applies(pc', job', n)
                BY <3>1 DEF SameAppliers
            <3>3. QED
                BY <3>2 DEF Applies
        <2>2. lastSeq' \in 0..nextSeq'
            BY DEF ProjOK, LogOK
        <2>3. QED
            BY <2>1, <2>2 DEF ProjOK, PhaseGoes
    <1>2. ASSUME NEW n PROVE Seen(n)' <=> Seen(n)
        BY DEF Seen, SameAppliers
    <1>3. ASSUME NEW l \in Loans PROVE Backed(l)' /\ Current(l)'
        <2>1. Backed(l) /\ Current(l)
            BY FaithfulParts
        <2>2. Backed(l)'
            BY <2>1 DEF Backed
        <2>3. Current(l)'
            BY <1>2, <2>1 DEF Current
        <2>4. QED
            BY <2>2, <2>3
    <1>4. QED
        BY <1>1, <1>3, FaithfulPartsNext

(* Folding in events of the log adds nothing else.                         *)
LEMMA FoldBacked ==
    ASSUME LogOK, EventsOK, ProjOK, ProjectionFaithful, NEW S \in SUBSET DOMAIN log, Fold(S),
           log' = log, NEW l \in Loans
    PROVE  /\ Backed(l)' /\ st'[l] \in StType
           /\ st'[l].known <=> listed'[l] > 0
    <1>1. Backed(l)
        BY FaithfulParts
    <1>2. st[l] \in StType /\ (st[l].known <=> listed[l] > 0) /\ listed[l] \in Nat
        BY DEF ProjOK
    <1>3. /\ listed'[l] \in Nat /\ listed'[l] >= listed[l]
          /\ Noted(S, l, "originated") = {} => listed'[l] = listed[l]
          /\ Noted(S, l, "originated") # {} => listed'[l] > listed[l]
        BY FoldLists
    <1>4. \A n \in S : EventType(log[n]) /\ n \in DOMAIN log
        BY DEF EventsOK
    <1> DEFINE M == {log[n].no : n \in Noted(S, l, "missed")}
               dd == Noted(S, l, "defaulted") # {}
               rr == Noted(S, l, "repaid") # {}
    <1>5. /\ M \in SUBSET Nat
          /\ \A no \in M : \E n \in DOMAIN log :
               log[n].loan = l /\ log[n].type = "missed" /\ log[n].no = no
          /\ dd => \E n \in DOMAIN log : log[n].loan = l /\ log[n].type = "defaulted"
          /\ rr => \E n \in DOMAIN log : log[n].loan = l /\ log[n].type = "repaid"
        BY <1>4 DEF EventType, Noted
    <1>6. CASE Noted(S, l, "originated") = {} /\ ~st[l].known
        <2>1. st'[l] = st[l]
            BY <1>6, FoldStates
        <2>2. QED
            BY <1>1, <1>2, <1>3, <1>6, <2>1 DEF Backed
    <1>7. CASE Noted(S, l, "originated") = {} /\ st[l].known
        <2>1. st'[l] = [known |-> TRUE, terms |-> st[l].terms, at |-> st[l].at,
                        missed |-> st[l].missed \cup M,
                        defaulted |-> st[l].defaulted \/ dd, repaid |-> st[l].repaid \/ rr]
            BY <1>7, FoldStates
        <2>2. /\ (st[l].defaulted \/ dd) \in BOOLEAN /\ (st[l].repaid \/ rr) \in BOOLEAN
              /\ st[l].missed \cup M \in SUBSET Nat
            BY <1>2, <1>5 DEF StType
        <2>3. st'[l].defaulted = (st[l].defaulted \/ dd) /\ st'[l].repaid = (st[l].repaid \/ rr)
            BY <2>1
        <2>4. /\ st'[l].terms = st[l].terms /\ st'[l].at = st[l].at
              /\ st'[l].missed = st[l].missed \cup M
            BY <2>1
        <2> HIDE DEF M, dd, rr
        <2>5. st'[l] \in StType
            BY <1>2, <2>1, <2>2 DEF StType
        <2>6. \A no \in st[l].missed \cup M : \E n \in DOMAIN log :
               log[n].loan = l /\ log[n].type = "missed" /\ log[n].no = no
            BY <1>1, <1>5 DEF Backed
        <2>7. /\ st'[l].defaulted =>
                   \E n \in DOMAIN log : log[n].loan = l /\ log[n].type = "defaulted"
              /\ st'[l].repaid => \E n \in DOMAIN log : log[n].loan = l /\ log[n].type = "repaid"
            BY <1>1, <1>5, <2>3 DEF Backed
        <2>8. \E n \in DOMAIN log : /\ Originates(log[n], l)
                                     /\ st[l].terms = log[n].terms /\ st[l].at = log[n].at
            BY <1>1, <1>7 DEF Backed
        <2>9. Backed(l)'
            BY <2>4, <2>6, <2>7, <2>8 DEF Backed
        <2>10. QED
            BY <1>2, <1>3, <1>7, <2>1, <2>5, <2>9
    <1>8. CASE Noted(S, l, "originated") # {}
        <2>1. PICK o \in Noted(S, l, "originated") :
                st'[l] = [known |-> TRUE, terms |-> log[o].terms, at |-> log[o].at,
                          missed |-> M, defaulted |-> dd, repaid |-> rr]
            BY <1>8, FoldStates
        <2>2. /\ o \in DOMAIN log /\ Originates(log[o], l)
              /\ log[o].terms \in GoodTerms /\ log[o].at \in Nat
            BY <1>4, <2>1 DEF Noted, EventType, Originates
        <2>3. dd \in BOOLEAN /\ rr \in BOOLEAN
            OBVIOUS
        <2> HIDE DEF M, dd, rr
        <2>4. st'[l] \in StType
            BY <1>5, <2>1, <2>2, <2>3 DEF StType
        <2>5. /\ st'[l].known /\ st'[l].terms = log[o].terms /\ st'[l].at = log[o].at
              /\ st'[l].missed = M
            BY <2>1
        <2>6. st'[l].defaulted = dd /\ st'[l].repaid = rr
            BY <2>1
        <2>7. \A no \in st'[l].missed : \E n \in DOMAIN log' :
                   log'[n].loan = l /\ log'[n].type = "missed" /\ log'[n].no = no
            <3>1. ASSUME NEW no \in M
                  PROVE  \E n \in DOMAIN log' :
                           log'[n].loan = l /\ log'[n].type = "missed" /\ log'[n].no = no
                BY <1>5
            <3>2. QED
                BY <2>5, <3>1
        <2>8. /\ st'[l].defaulted =>
                   \E n \in DOMAIN log' : log'[n].loan = l /\ log'[n].type = "defaulted"
              /\ st'[l].repaid =>
                   \E n \in DOMAIN log' : log'[n].loan = l /\ log'[n].type = "repaid"
            BY <1>5, <2>6
        <2>9. \E n \in DOMAIN log' : /\ Originates(log'[n], l)
                                     /\ st'[l].terms = log'[n].terms /\ st'[l].at = log'[n].at
            BY <2>2, <2>5
        <2>10. Backed(l)'
            BY <2>7, <2>8, <2>9 DEF Backed
        <2>11. QED
            BY <1>2, <1>3, <1>8, <2>1, <2>4, <2>10
    <1>9. QED
        BY <1>6, <1>7, <1>8

(* What is folded into a loan that is listed stays.                        *)
LEMMA FoldKeeps ==
    ASSUME LogOK, ProjOK, NEW S \in SUBSET DOMAIN log, Fold(S), NEW l \in Loans
    PROVE  /\ Noted(S, l, "originated") = {} =>
                /\ st[l].missed \subseteq st'[l].missed
                /\ st[l].defaulted => st'[l].defaulted
                /\ st[l].repaid => st'[l].repaid
           /\ st[l].known \/ Noted(S, l, "originated") # {} =>
                \A n \in S : log[n].loan = l =>
                  /\ log[n].type = "missed" => log[n].no \in st'[l].missed
                  /\ log[n].type = "defaulted" => st'[l].defaulted
                  /\ log[n].type = "repaid" => st'[l].repaid
    <1> DEFINE M == {log[n].no : n \in Noted(S, l, "missed")}
               dd == Noted(S, l, "defaulted") # {}
               rr == Noted(S, l, "repaid") # {}
    <1>1. \A n \in S : log[n].loan = l =>
                  /\ log[n].type = "missed" => log[n].no \in M
                  /\ log[n].type = "defaulted" => dd
                  /\ log[n].type = "repaid" => rr
        BY DEF Noted
    <1>2. CASE Noted(S, l, "originated") = {} /\ ~st[l].known
        <2>1. st'[l] = st[l]
            BY <1>2, FoldStates
        <2>2. QED
            BY <1>2, <2>1
    <1>3. CASE Noted(S, l, "originated") = {} /\ st[l].known
        <2>1. st'[l] = [known |-> TRUE, terms |-> st[l].terms, at |-> st[l].at,
                        missed |-> st[l].missed \cup M,
                        defaulted |-> st[l].defaulted \/ dd, repaid |-> st[l].repaid \/ rr]
            BY <1>3, FoldStates
        <2> HIDE DEF M, dd, rr
        <2>2. /\ st'[l].defaulted = (st[l].defaulted \/ dd) /\ st'[l].repaid = (st[l].repaid \/ rr)
              /\ st'[l].missed = st[l].missed \cup M
            BY <2>1
        <2>3. QED
            BY <1>1, <2>2
    <1>4. CASE Noted(S, l, "originated") # {}
        <2>1. PICK o \in Noted(S, l, "originated") :
                st'[l] = [known |-> TRUE, terms |-> log[o].terms, at |-> log[o].at,
                          missed |-> M, defaulted |-> dd, repaid |-> rr]
            BY <1>4, FoldStates
        <2> HIDE DEF M, dd, rr
        <2>2. QED
            BY <1>1, <1>4, <2>1
    <1>5. QED
        BY <1>2, <1>3, <1>4

LEMMA FoldCurrent ==
    ASSUME LogOK, ProjOK, ProjectionFaithful, NEW S \in SUBSET DOMAIN log, Fold(S),
           log' = log, NEW l \in Loans,
           \A n \in DOMAIN log : Seen(n)' => Seen(n) \/ n \in S,
           \A n \in DOMAIN log : (log[n].loan = l /\ log[n].type # "originated")
                                    => n \in S \/ listed[l] > 0
    PROVE  Current(l)'
    <1>1. Current(l)
        BY FaithfulParts
    <1>2. listed[l] \in Nat /\ (st[l].known <=> listed[l] > 0)
        BY DEF ProjOK
    <1>3. /\ listed'[l] \in Nat /\ listed'[l] >= listed[l]
          /\ Noted(S, l, "originated") = {} => listed'[l] = listed[l]
          /\ Noted(S, l, "originated") # {} => listed'[l] > listed[l]
        BY FoldLists
    <1>4. ASSUME NEW n \in DOMAIN log, Seen(n)', Originates(log[n], l)
          PROVE  listed'[l] > 0
        <2>1. CASE n \in S
            <3>1. n \in Noted(S, l, "originated")
                BY <1>4, <2>1 DEF Noted, Originates
            <3>2. QED
                BY <1>2, <1>3, <3>1
        <2>2. CASE Seen(n)
            BY <1>1, <1>2, <1>3, <1>4, <2>2 DEF Current
        <2>3. QED
            BY <1>4, <2>1, <2>2
    <1>5. ASSUME listed'[l] = 1, NEW n \in DOMAIN log, Seen(n)', log[n].loan = l
          PROVE  /\ log[n].type = "missed" => log[n].no \in st'[l].missed
                 /\ log[n].type = "defaulted" => st'[l].defaulted
                 /\ log[n].type = "repaid" => st'[l].repaid
        <2>1. CASE Noted(S, l, "originated") = {}
            <3>1. listed[l] = 1 /\ st[l].known
                BY <1>2, <1>3, <1>5, <2>1
            <3>2. CASE n \in S
                BY <1>5, <3>1, <3>2, FoldKeeps
            <3>3. CASE Seen(n)
                <4>1. /\ log[n].type = "missed" => log[n].no \in st[l].missed
                      /\ log[n].type = "defaulted" => st[l].defaulted
                      /\ log[n].type = "repaid" => st[l].repaid
                    BY <1>1, <1>5, <3>1, <3>3 DEF Current
                <4>2. QED
                    BY <2>1, <4>1, FoldKeeps
            <3>4. QED
                BY <1>5, <3>2, <3>3
        <2>2. CASE Noted(S, l, "originated") # {}
            <3>1. listed[l] = 0
                BY <1>2, <1>3, <1>5, <2>2
            <3>2. CASE log[n].type = "originated"
                BY <3>2
            <3>3. CASE n \in S
                BY <1>5, <2>2, <3>3, FoldKeeps
            <3>4. QED
                BY <1>5, <3>1, <3>2, <3>3
        <2>3. QED
            BY <2>1, <2>2
    <1>6. QED
        BY <1>4, <1>5 DEF Current

LEMMA ProjRefresh ==
    ASSUME LogOK, EventsOK, ProjOK, ProjectionFaithful, refresh,
           UNCHANGED <<log, nextSeq, lost>>, SameAppliers,
           phase \in {"start", "seeding", "up"}, phase' # "start"
    PROVE  ProjOK' /\ ProjectionFaithful'
    <1> DEFINE S == {n \in DOMAIN log : n > lastSeq}
    <1>1. S \in SUBSET DOMAIN log /\ Fold(S)
        BY DEF refresh
    <1>2. \A n \in DOMAIN log : n \in Int /\ n >= 1 /\ (n <= lastSeq \/ n \in S)
        BY DEF LogOK, ProjOK
    <1> HIDE DEF S
    <1>3. /\ lastSeq' \in 0..nextSeq /\ lastSeq' >= lastSeq
          /\ \A n \in S : n <= lastSeq'
        BY <1>1, FoldSeq
    <1>4. ASSUME NEW l \in Loans
          PROVE  listed'[l] \in Nat /\ listed'[l] >= listed[l]
        BY <1>1, FoldLists
    <1>5. ASSUME NEW n \in DOMAIN log, log[n].type # "originated"
          PROVE  /\ log[n].loan \in Loans /\ listed'[log[n].loan] > 0
                 /\ n \in S \/ listed[log[n].loan] > 0
        <2>1. log[n].loan \in Loans
            BY DEF EventsOK, EventType
        <2>2. PICK l \in Loans : l = log[n].loan
            BY <2>1
        <2>3. listed[l] \in Nat
            BY DEF ProjOK
        <2>4. CASE phase = "start"
            <3>1. PICK m \in DOMAIN log : Originates(log[m], l)
                BY <1>5, <2>2 DEF EventsOK
            <3>2. lastSeq = 0
                BY <2>4 DEF ProjOK
            <3>3. m \in S /\ n \in S
                BY <1>2, <3>2
            <3>4. m \in Noted(S, l, "originated")
                BY <3>1, <3>3 DEF Noted, Originates
            <3>5. listed'[l] > listed[l] /\ listed'[l] \in Nat
                BY <1>1, <3>4, FoldLists
            <3>6. QED
                BY <2>2, <2>3, <3>3, <3>5
        <2>5. CASE phase # "start"
            <3>1. listed[l] > 0
                BY <1>5, <2>2, <2>5 DEF ProjOK
            <3>2. listed'[l] > 0
                BY <1>4, <2>3, <3>1
            <3>3. QED
                BY <2>2, <3>1, <3>2
        <2>6. QED
            BY <2>4, <2>5
    <1>6. ASSUME NEW l \in Loans
          PROVE  /\ Backed(l)' /\ st'[l] \in StType /\ (st'[l].known <=> listed'[l] > 0)
                 /\ Current(l)'
        <2>1. Backed(l)' /\ st'[l] \in StType /\ (st'[l].known <=> listed'[l] > 0)
            BY <1>1, FoldBacked
        <2>2. \A n \in DOMAIN log : Seen(n)' => Seen(n) \/ n \in S
            BY <1>2 DEF Seen, SameAppliers
        <2>3. Current(l)'
            BY <1>1, <1>5, <2>2, FoldCurrent
        <2>4. QED
            BY <2>1, <2>3
    <1>7. ProjectionFaithful'
        BY <1>6, FaithfulPartsNext
    <1>8. st' \in [Loans -> StType] /\ listed' \in [Loans -> Nat]
        <2>1. /\ st' = [l \in Loans |-> st'[l]]
              /\ listed' = [l \in Loans |-> listed'[l]]
            BY <1>1 DEF Fold
        <2>2. QED
            BY <1>4, <1>6, <2>1
    <1>9. \A n \in DOMAIN log : ~(n > lastSeq')
        BY <1>2, <1>3 DEF LogOK, ProjOK
    <1>10. ProjOK'
        BY <1>3, <1>5, <1>6, <1>8, <1>9 DEF ProjOK
    <1>11. QED
        BY <1>7, <1>10

LEMMA ProjApply ==
    ASSUME LogOK, EventsOK, ProjOK, ProjectionFaithful, NEW s \in DOMAIN log, Fold({s}),
           UNCHANGED <<log, nextSeq, lost>>, phase \in {"seeding", "up"}, phase' # "start",
           \A n : Applies(pc', job', n) <=> (Applies(pc, job, n) /\ n # s)
    PROVE  ProjOK' /\ ProjectionFaithful'
    <1>1. PICK S : S = {s}
        OBVIOUS
    <1>2. S \in SUBSET DOMAIN log /\ Fold(S)
        BY <1>1
    <1>3. /\ lastSeq' \in 0..nextSeq /\ lastSeq' >= lastSeq
          /\ \A n \in S : n <= lastSeq'
        BY <1>2, FoldSeq
    <1>4. ASSUME NEW l \in Loans
          PROVE  listed'[l] \in Nat /\ listed'[l] >= listed[l]
        BY <1>2, FoldLists
    <1>5. ASSUME NEW n \in DOMAIN log, log[n].type # "originated"
          PROVE  listed'[log[n].loan] > 0 /\ listed[log[n].loan] > 0 /\ log[n].loan \in Loans
        <2>1. log[n].loan \in Loans
            BY DEF EventsOK, EventType
        <2>2. listed[log[n].loan] > 0 /\ listed[log[n].loan] \in Nat
            BY <1>5, <2>1 DEF ProjOK
        <2>3. QED
            BY <1>4, <2>1, <2>2
    <1>6. \A n \in DOMAIN log \ lost : n > lastSeq => Applies(pc, job, n)
        BY DEF ProjOK, Applies
    <1>7. ASSUME NEW l \in Loans
          PROVE  /\ Backed(l)' /\ st'[l] \in StType /\ (st'[l].known <=> listed'[l] > 0)
                 /\ Current(l)'
        <2>1. Backed(l)' /\ st'[l] \in StType /\ (st'[l].known <=> listed'[l] > 0)
            BY <1>2, FoldBacked
        <2>2. \A n \in DOMAIN log : n \in Int /\ lastSeq \in Int
            BY DEF LogOK, ProjOK
        <2>3. \A n \in DOMAIN log : Seen(n)' => Seen(n) \/ n \in S
            <3>1. SUFFICES ASSUME NEW n \in DOMAIN log, Seen(n)', n # s
                           PROVE  Seen(n)
                BY <1>1
            <3>2. n \in DOMAIN log \ lost /\ ~Applies(pc, job, n)
                BY <3>1 DEF Seen
            <3>3. ~(n > lastSeq)
                BY <1>6, <3>2
            <3>4. QED
                BY <2>2, <3>2, <3>3 DEF Seen
        <2>4. Current(l)'
            BY <1>2, <1>5, <2>3, FoldCurrent
        <2>5. QED
            BY <2>1, <2>4
    <1>8. ProjectionFaithful'
        BY <1>7, FaithfulPartsNext
    <1>9. st' \in [Loans -> StType] /\ listed' \in [Loans -> Nat]
        <2>1. /\ st' = [l \in Loans |-> st'[l]]
              /\ listed' = [l \in Loans |-> listed'[l]]
            BY <1>2 DEF Fold
        <2>2. QED
            BY <1>4, <1>7, <2>1
    <1>10. ASSUME NEW n \in DOMAIN log \ lost, n > lastSeq'
           PROVE  \E p \in Procs : pc'[p] = "apply" /\ job'[p].seq = n
        <2>1. n \in Int /\ lastSeq \in Int /\ lastSeq' \in Int
            BY <1>3 DEF LogOK, ProjOK
        <2>2. n > lastSeq /\ n # s
            BY <1>1, <1>3, <1>10, <2>1
        <2>3. Applies(pc', job', n)
            BY <1>6, <2>2
        <2>4. QED
            BY <2>3 DEF Applies
    <1>11. ProjOK'
        BY <1>3, <1>5, <1>7, <1>9, <1>10 DEF ProjOK
    <1>12. QED
        BY <1>8, <1>11

(* An event is committed under a number that was not in use.               *)
LEMMA ProjCommit ==
    ASSUME LogOK, EventsOK, ProjOK, ProjectionFaithful, NEW s \in (1..nextSeq) \ DOMAIN log,
           NEW e, log' = [n \in DOMAIN log \cup {s} |-> IF n = s THEN e ELSE log[n]],
           EventType(e), e.type # "originated" => listed[e.loan] > 0,
           UNCHANGED <<nextSeq, st, listed, lastSeq>>, PhaseGoes,
           \A n \in DOMAIN log : n # s => (Applies(pc', job', n) <=> Applies(pc, job, n)),
           \/ lost' = lost /\ Applies(pc', job', s)
           \/ lost' = lost \cup {s}
    PROVE  EventsOK' /\ ProjOK' /\ ProjectionFaithful'
    <1>1. /\ DOMAIN log' = DOMAIN log \cup {s} /\ log'[s] = e /\ s \notin DOMAIN log
          /\ \A n \in DOMAIN log : log'[n] = log[n] /\ n \in DOMAIN log'
        OBVIOUS
    <1>2. ASSUME NEW n \in DOMAIN log', n \notin DOMAIN log
          PROVE  n = s
        BY <1>1, <1>2
    <1>3. EventsOK'
        <2>1. \A n \in DOMAIN log' : EventType(log'[n])
            BY <1>1, <1>2 DEF EventsOK
        <2>2. ASSUME NEW n \in DOMAIN log', log'[n].type # "originated"
              PROVE  \E m \in DOMAIN log' : Originates(log'[m], log'[n].loan)
            <3>1. CASE n \in DOMAIN log
                BY <1>1, <2>2, <3>1 DEF EventsOK
            <3>2. CASE n = s
                <4>1. e.loan \in Loans /\ listed[e.loan] > 0
                    BY <1>1, <2>2, <3>2 DEF EventType
                <4>2. st[e.loan].known
                    BY <4>1 DEF ProjOK
                <4>3. Backed(e.loan)
                    BY <4>1, FaithfulParts
                <4>4. PICK m \in DOMAIN log : Originates(log[m], e.loan)
                    BY <4>2, <4>3 DEF Backed
                <4>5. QED
                    BY <1>1, <3>2, <4>4
            <3>3. QED
                BY <1>2, <3>1, <3>2
        <2>3. QED
            BY <2>1, <2>2 DEF EventsOK
    <1>4. ~Seen(s)'
        BY DEF Seen
    <1>5. ASSUME NEW n \in DOMAIN log, Seen(n)' PROVE Seen(n)
        BY <1>1, <1>5 DEF Seen
    <1>6. ASSUME NEW l \in Loans PROVE Backed(l)' /\ Current(l)'
        <2>1. Backed(l) /\ Current(l)
            BY FaithfulParts
        <2>2. Backed(l)'
            BY <1>1, <2>1 DEF Backed
        <2>3. \A n \in DOMAIN log' : Seen(n)' => n \in DOMAIN log /\ Seen(n) /\ log'[n] = log[n]
            BY <1>1, <1>2, <1>4, <1>5
        <2>4. Current(l)'
            BY <2>1, <2>3 DEF Current
        <2>5. QED
            BY <2>2, <2>4
    <1>7. ProjectionFaithful'
        BY <1>6, FaithfulPartsNext
    <1>8. ASSUME phase' \in {"seeding", "up"}, NEW n \in DOMAIN log' \ lost', n > lastSeq
          PROVE  \E p \in Procs : pc'[p] = "apply" /\ job'[p].seq = n
        <2>1. CASE n = s
            BY <1>8, <2>1 DEF Applies
        <2>2. CASE n # s
            <3>1. n \in DOMAIN log \ lost
                BY <1>2, <1>8, <2>2
            <3>2. Applies(pc, job, n)
                BY <1>8, <3>1 DEF ProjOK, PhaseGoes, Applies
            <3>3. Applies(pc', job', n)
                BY <2>2, <3>1, <3>2
            <3>4. QED
                BY <3>3 DEF Applies
        <2>3. QED
            BY <2>1, <2>2
    <1>9. ASSUME phase' \in {"seeding", "up"}, NEW n \in DOMAIN log', log'[n].type # "originated"
          PROVE  listed[log'[n].loan] > 0
        <2>1. phase \in {"seeding", "up"}
            BY <1>9 DEF PhaseGoes
        <2>2. QED
            BY <1>1, <1>2, <1>9, <2>1 DEF ProjOK
    <1>10. ProjOK'
        BY <1>8, <1>9 DEF ProjOK, PhaseGoes
    <1>11. QED
        BY <1>3, <1>7, <1>10

LEMMA ProjRestart ==
    ASSUME LogOK, EventsOK, Restart
    PROVE  EventsOK' /\ ProjOK' /\ ProjectionFaithful'
    <1>1. /\ log' = log /\ nextSeq' = nextSeq /\ lost' = lost /\ lastSeq' = 0 /\ phase' = "start"
          /\ st' = [l \in Loans |-> Unknown] /\ listed' = [l \in Loans |-> 0]
        BY DEF Restart, events, history
    <1>2. EventsOK'
        BY <1>1 DEF EventsOK
    <1>3. Unknown \in StType /\ ~Unknown.known
        BY DEF Unknown, StType
    <1>4. ProjOK'
        BY <1>1, <1>3 DEF ProjOK, LogOK
    <1>5. \A n \in DOMAIN log : n >= 1 /\ n \in Int
        BY DEF LogOK
    <1>6. ASSUME NEW l \in Loans PROVE Backed(l)' /\ Current(l)'
        <2>1. \A n \in DOMAIN log : ~Seen(n)'
            BY <1>1, <1>5 DEF Seen
        <2>2. Current(l)'
            BY <1>1, <2>1 DEF Current
        <2>3. Backed(l)'
            BY <1>1 DEF Backed, Unknown
        <2>4. QED
            BY <2>2, <2>3
    <1>7. QED
        BY <1>2, <1>4, <1>6, FaithfulPartsNext

-----------------------------------------------------------------------------
(* What a goroutine carries stays fit as more loans are listed.            *)
Grows == \A l \in Loans : listed[l] > 0 => listed'[l] > 0

FitStep(p) == \E s, j : Lands(p, s, j) /\ Fit(s, j, listed')

LEMMA FitMono ==
    ASSUME NEW at, NEW j, Fit(at, j, listed), Grows
    PROVE  Fit(at, j, listed')
    BY DEF Fit, Grows, OnLoan

LEMMA FitHere ==
    ASSUME FitOK, Grows, NEW p \in Procs
    PROVE  Fit(pc[p], job[p], listed')
    <1>1. Fit(pc[p], job[p], listed)
        BY DEF FitOK
    <1>2. QED
        BY <1>1, FitMono

LEMMA FitMove ==
    ASSUME LoanInv, FitOK, Grows, NEW p \in Procs, FitStep(p)
    PROVE  FitOK'
    <1>1. PICK s, j : Lands(p, s, j) /\ Fit(s, j, listed')
        BY DEF FitStep
    <1>2. /\ pc'[p] = s /\ job'[p] = j
          /\ \A q \in Procs : q # p => pc'[q] = pc[q] /\ job'[q] = job[q]
        BY <1>1 DEF LoanInv, JobsOK, Lands
    <1>3. SUFFICES ASSUME NEW q \in Procs
                   PROVE  Fit(pc'[q], job'[q], listed')
        BY DEF FitOK
    <1>4. CASE q = p
        BY <1>1, <1>2, <1>4
    <1>5. CASE q # p
        BY <1>2, <1>5, FitHere
    <1>6. QED
        BY <1>4, <1>5

LEMMA FitSame ==
    ASSUME FitOK, Grows, UNCHANGED <<pc, job>>
    PROVE  FitOK'
    <1>1. \A p \in Procs : Fit(pc'[p], job'[p], listed')
        BY FitHere
    <1>2. QED
        BY <1>1 DEF FitOK

LEMMA NoJobFit ==
    ASSUME NEW lst
    PROVE  Fit("idle", NoJob, lst)
    BY DEF Fit, NoJob, OnLoan

LEMMA FitGo ==
    ASSUME NEW p, NEW s, NEW j, Go(p, s, j), Fit(s, j, listed')
    PROVE  FitStep(p)
    BY DEF Go, Lands, FitStep

LEMMA FitReturn ==
    ASSUME NEW p, NEW ok, Return(p, ok)
    PROVE  FitStep(p)
    <1>1. Lands(p, "idle", NoJob)
        BY DEF Return, Lands
    <1>2. QED
        BY <1>1, NoJobFit DEF FitStep

LEMMA FitNextMiss ==
    ASSUME NEW p, NEW j, j.todo \in Seq(CallType), NextMiss(p, j)
    PROVE  FitStep(p)
    <1> DEFINE i == [NoJob EXCEPT !.op = j.op, !.ticks = j.ticks, !.grace = j.grace,
                                  !.todo = j.todo]
               m == [i EXCEPT !.then = "miss", !.loan = Head(j.todo).loan]
               t == [i EXCEPT !.then = "tick", !.ticks = @ + 1]
    <1>1. \/ j.todo # << >> /\ Go(p, "get", m)
          \/ Go(p, "list", t) \/ Go(p, "served", i)
        BY DEF NextMiss
    <1>2. IsJob(i) /\ i.todo = j.todo /\ i.then = "none"
        BY DEF IsJob, NoJob, Fields
    <1> HIDE DEF i
    <1>3. m.then = "miss" /\ m.loan = Head(j.todo).loan /\ m.todo = j.todo
        BY <1>2 DEF IsJob, Fields
    <1>4. t.then = "tick" /\ t.todo = j.todo
        BY <1>2 DEF IsJob, Fields
    <1> HIDE DEF m, t
    <1>5. j.todo # << >> => Head(j.todo).loan \in Loans
        <2>1. j.todo # << >> => Head(j.todo) \in CallType
            OBVIOUS
        <2>2. QED
            BY <2>1 DEF CallType
    <1>6. j.todo # << >> => Fit("get", m, listed')
        BY <1>3, <1>5 DEF Fit, Serving, OnLoan
    <1>7. Fit("list", t, listed')
        BY <1>4 DEF Fit, Serving, OnLoan
    <1>8. Fit("served", i, listed')
        BY <1>2 DEF Fit, Serving, OnLoan
    <1>9. QED
        BY <1>1, <1>6, <1>7, <1>8, FitGo

LEMMA FitFinish ==
    ASSUME LoanInv, NEW p \in Procs, job[p].todo \in Seq(CallType), job[p].loan \in Loans,
           job[p].op = "advance" => /\ job[p].then \in {"miss", "default"}
                                    /\ job[p].then = "miss" => job[p].todo # << >>,
           Finish(p)
    PROVE  FitStep(p)
    <1>1. PICK j : j = job[p]
        OBVIOUS
    <1>2. IsJob(j)
        BY <1>1, JobHere
    <1> DEFINE rest == IF Head(j.todo).left = 1 THEN Tail(j.todo)
                       ELSE [j.todo EXCEPT ![1].left = @ - 1]
               d == [j EXCEPT !.then = "default", !.default = FALSE, !.todo = Tail(@)]
               r == [j EXCEPT !.todo = rest]
    <1>3. \/ Return(p, TRUE)
          \/ j.op = "advance" /\ j.then = "default" /\ NextMiss(p, j)
          \/ j.op = "advance" /\ j.then # "default" /\ Go(p, "get", d)
          \/ j.op = "advance" /\ j.then # "default" /\ NextMiss(p, r)
        BY <1>1 DEF Finish
    <1>4. ASSUME j.todo # << >>
          PROVE  Tail(j.todo) \in Seq(CallType) /\ rest \in Seq(CallType)
        <2>1. j.todo \in Seq(CallType) /\ Tail(j.todo) \in Seq(CallType)
            BY <1>1, <1>4
        <2>2. Len(j.todo) \in Nat /\ Len(j.todo) >= 1 /\ DOMAIN j.todo = 1..Len(j.todo)
            BY <1>4, <2>1
        <2>3. PICK c \in CallType : c = j.todo[1]
            BY <2>1, <2>2
        <2>4. [c EXCEPT !.left = @ - 1] \in CallType
            BY <2>3 DEF CallType
        <2>5. PICK c2 \in CallType : c2 = [c EXCEPT !.left = @ - 1]
            BY <2>4
        <2>6. [j.todo EXCEPT ![1].left = @ - 1] = [j.todo EXCEPT ![1] = c2]
            BY <2>3, <2>5
        <2>7. [j.todo EXCEPT ![1] = c2] \in Seq(CallType)
            BY <2>1, <2>2, ExceptSeq
        <2>8. QED
            BY <2>1, <2>6, <2>7
    <1>5. d.then = "default" /\ d.todo = Tail(j.todo) /\ d.loan = j.loan /\ r.todo = rest
        BY <1>2 DEF IsJob, Fields
    <1> HIDE DEF d, r, rest
    <1>6. CASE j.op = "advance" /\ j.then # "default"
        <2>1. j.todo # << >>
            BY <1>1, <1>6
        <2>2. Fit("get", d, listed')
            BY <1>1, <1>4, <1>5, <2>1 DEF Fit, Serving, OnLoan
        <2>3. r.todo \in Seq(CallType)
            BY <1>4, <1>5, <2>1
        <2>4. QED
            BY <1>3, <1>6, <2>2, <2>3, FitGo, FitReturn, FitNextMiss
    <1>7. CASE ~(j.op = "advance" /\ j.then # "default")
        BY <1>1, <1>3, <1>7, FitReturn, FitNextMiss
    <1>8. QED
        BY <1>6, <1>7

(* A goroutine that goes through a list.                                   *)
LEMMA FitNextInList ==
    ASSUME NEW p, NEW j, IsJob(j), j.todo \in Seq(CallType), j.then = "tick",
           j.views \in Seq(ViewType), j.list \in [Loans -> Int],
           \A l \in Loans : j.list[l] > 0 => listed'[l] > 0,
           NextInList(p, j)
    PROVE  FitStep(p)
    <1>1. CASE Go(p, "plan", j)
        <2>1. Fit("plan", j, listed')
            BY DEF Fit, Serving, OnLoan
        <2>2. QED
            BY <1>1, <2>1, FitGo
    <1>2. CASE \E l \in Loans : j.list[l] > 0 /\ Go(p, "copy", [j EXCEPT !.loan = l, !.list[l] = @ - 1])
        <2>1. PICK l \in Loans :
                j.list[l] > 0 /\ Go(p, "copy", [j EXCEPT !.loan = l, !.list[l] = @ - 1])
            BY <1>2
        <2>2. PICK f : f = [j.list EXCEPT ![l] = @ - 1]
            OBVIOUS
        <2> DEFINE k == [j EXCEPT !.loan = l, !.list[l] = @ - 1]
        <2>3. /\ k.loan = l /\ k.list = f /\ k.views = j.views /\ k.todo = j.todo
              /\ k.then = "tick" /\ k.op = j.op
            BY <2>2 DEF IsJob, Fields
        <2> HIDE DEF k
        <2>4. f \in [Loans -> Int] /\ \A m \in Loans : f[m] > 0 => j.list[m] > 0
            BY <2>1, <2>2
        <2>5. Fit("copy", k, listed')
            BY <2>1, <2>3, <2>4 DEF Fit, Serving, OnLoan
        <2>6. QED
            BY <2>1, <2>5, FitGo DEF k
    <1>3. QED
        BY <1>1, <1>2 DEF NextInList

-----------------------------------------------------------------------------
(* The calls that a Tick plans.                                            *)
LEMMA MissesNat ==
    ASSUME NEW v \in ViewType, NEW grace
    PROVE  Misses(v, grace) \in Nat
    <1> DEFINE S == {no \in v.scheduled : Overdue(v.st, no, grace)}
    <1>1. v.scheduled \in Numbered
        BY DEF ViewType
    <1>2. PICK n \in Nat : v.scheduled \subseteq 1..n
        BY <1>1 DEF Numbered
    <1>3. S \subseteq 1..n /\ IsFiniteSet(1..n)
        BY <1>2, FS_Interval
    <1> HIDE DEF S
    <1>4. Cardinality(S) \in Nat
        BY <1>3, FS_Subset, FS_CardinalityType
    <1>5. QED
        BY <1>4 DEF Misses, S

(* The calls of a Tick, view by view.                                      *)
LEMMA CallsRec ==
    ASSUME NEW views \in Seq(ViewType), NEW grace
    PROVE  \E h : /\ Calls(views, grace) = h[Len(views)] /\ h[0] = << >>
                  /\ \A i \in 0..Len(views) : h[i] \in Seq(CallType)
                  /\ \A i \in 1..Len(views) :
                       h[i] = IF Misses(views[i], grace) = 0 THEN h[i - 1]
                              ELSE Append(h[i - 1], [loan |-> views[i].loan,
                                                     left |-> Misses(views[i], grace)])
    <1>1. PICK n : n = Len(views)
        OBVIOUS
    <1>2. PICK C : C = Seq(CallType)
        OBVIOUS
    <1>3. n \in Nat /\ \A i \in 1..n : views[i] \in ViewType
        BY <1>1
    <1> DEFINE V(i, x) == IF Misses(views[i], grace) = 0 THEN x
                          ELSE Append(x, [loan |-> views[i].loan,
                                          left |-> Misses(views[i], grace)])
               step == [x \in (1..n) \X C |-> V(x[1], x[2])]
               R(h) == h = [i \in 0..n |-> IF i = 0 THEN << >> ELSE V(i, h[i - 1])]
    <1>4. ASSUME NEW i \in 1..n, NEW x \in C
          PROVE  step[<<i, x>>] = V(i, x) /\ V(i, x) \in C
        <2>1. PICK m \in Nat : m = Misses(views[i], grace)
            BY <1>3, MissesNat
        <2>2. [loan |-> views[i].loan, left |-> m] \in CallType
            BY <1>3 DEF ViewType, CallType
        <2>3. V(i, x) \in C
            BY <1>2, <2>1, <2>2
        <2>4. PICK y : y = <<i, x>>
            OBVIOUS
        <2>5. y \in (1..n) \X C /\ y[1] = i /\ y[2] = x
            BY <2>4
        <2>6. step[y] = V(y[1], y[2])
            BY <2>5
        <2>7. QED
            BY <2>3, <2>4, <2>5, <2>6
    <1> HIDE DEF V, step
    <1>5. << >> \in C
        BY <1>2
    <1>6. PICK g : IsRec(g, n, << >>, step)
        BY <1>3, RecExists
    <1>7. g \in [0..n -> C]
        <2>1. Closed(step, n, C)
            BY <1>4 DEF Closed
        <2>2. QED
            BY <1>3, <1>5, <1>6, <2>1, RecValues
    <1>8. R(g)
        <2>1. /\ g = [i \in 0..n |-> g[i]] /\ g[0] = << >>
              /\ \A i \in 1..n : g[i] = step[<<i, g[i - 1]>>]
            <3>1. g = [i \in 0..n |-> IF i = 0 THEN << >> ELSE step[<<i, g[i - 1]>>]]
                BY <1>6 DEF IsRec
            <3>2. QED
                BY <1>3, <3>1
        <2>2. ASSUME NEW i \in 1..n PROVE g[i] = V(i, g[i - 1])
            <3>1. i - 1 \in 0..n
                BY <1>3
            <3>2. g[i - 1] \in C
                BY <1>7, <3>1
            <3>3. QED
                BY <1>4, <2>1, <3>2
        <2>3. \A i \in 0..n : g[i] = IF i = 0 THEN << >> ELSE V(i, g[i - 1])
            <3>1. SUFFICES ASSUME NEW i \in 0..n, i # 0 PROVE g[i] = V(i, g[i - 1])
                BY <2>1
            <3>2. i \in 1..n
                BY <1>3, <3>1
            <3>3. QED
                BY <2>2, <3>2
        <2>4. [i \in 0..n |-> g[i]] = [i \in 0..n |-> IF i = 0 THEN << >> ELSE V(i, g[i - 1])]
            BY <2>3
        <2>5. QED
            BY <2>1, <2>4
    <1>9. PICK h : h = CHOOSE k : R(k)
        OBVIOUS
    <1>10. R(h)
        <2>1. R(CHOOSE k : R(k))
            BY <1>8, Zenon
        <2> HIDE DEF R
        <2>2. QED
            BY <1>9, <2>1
    <1>11. Calls(views, grace) = h[n]
        BY <1>1, <1>9, Zenon DEF Calls, V
    <1>12. h[0] = << >> /\ \A i \in 1..n : h[i] = V(i, h[i - 1])
        BY <1>3, <1>10
    <1> DEFINE T == {k \in Nat : k <= n => h[k] \in C}
    <1>13. 0 \in T
        BY <1>5, <1>12
    <1>14. ASSUME NEW k \in Nat, k \in T
           PROVE  k + 1 \in T
        <2>1. SUFFICES ASSUME k + 1 <= n PROVE h[k + 1] \in C
            OBVIOUS
        <2>2. k + 1 \in 1..n /\ (k + 1) - 1 = k /\ h[k] \in C
            BY <1>3, <1>14, <2>1
        <2>3. h[k + 1] = V(k + 1, h[k])
            BY <1>12, <2>2
        <2>4. QED
            BY <1>4, <2>2, <2>3
    <1> HIDE DEF T
    <1>15. \A k \in Nat : k \in T
        BY <1>13, <1>14, Induction
    <1>16. \A i \in 0..n : h[i] \in C
        BY <1>3, <1>15 DEF T
    <1>17. \A i \in 1..n :
              h[i] = IF Misses(views[i], grace) = 0 THEN h[i - 1]
                     ELSE Append(h[i - 1], [loan |-> views[i].loan,
                                            left |-> Misses(views[i], grace)])
        BY <1>12 DEF V
    <1>18. QED
        BY <1>1, <1>2, <1>11, <1>12, <1>16, <1>17

LEMMA CallsType ==
    ASSUME NEW views \in Seq(ViewType), NEW grace
    PROVE  Calls(views, grace) \in Seq(CallType)
    <1>1. PICK h : /\ Calls(views, grace) = h[Len(views)]
                   /\ \A i \in 0..Len(views) : h[i] \in Seq(CallType)
        BY CallsRec
    <1>2. Len(views) \in 0..Len(views)
        OBVIOUS
    <1>3. QED
        BY <1>1, <1>2

-----------------------------------------------------------------------------
(* A loan that is known has the terms of its origination.                  *)
Lends == \A l \in Loans : /\ st[l] \in StType /\ (st[l].known <=> listed[l] > 0)
                          /\ st[l].known => st[l].terms \in GoodTerms

LEMMA LendsHere ==
    ASSUME EventsOK, ProjOK, ProjectionFaithful
    PROVE  Lends
    <1>1. ASSUME NEW l \in Loans, st[l].known
          PROVE  st[l].terms \in GoodTerms
        <2>1. Backed(l)
            BY FaithfulParts
        <2>2. PICK n \in DOMAIN log : Originates(log[n], l) /\ st[l].terms = log[n].terms
            BY <1>1, <2>1 DEF Backed
        <2>3. QED
            BY <2>2 DEF EventsOK, EventType, Originates
    <1>2. QED
        BY <1>1 DEF Lends, ProjOK

LEMMA LendsNext ==
    ASSUME EventsOK', ProjOK', ProjectionFaithful'
    PROVE  Lends'
    <1>1. ASSUME NEW l \in Loans, st'[l].known
          PROVE  st'[l].terms \in GoodTerms
        <2>1. Backed(l)'
            BY FaithfulPartsNext
        <2>2. PICK n \in DOMAIN log' : Originates(log'[n], l) /\ st'[l].terms = log'[n].terms
            BY <1>1, <2>1 DEF Backed
        <2>3. QED
            BY <2>2 DEF EventsOK, EventType, Originates
    <1>2. QED
        BY <1>1 DEF Lends, ProjOK

LEMMA GoodTermsFacts ==
    ASSUME NEW t \in GoodTerms
    PROVE  /\ t.principal \in Nat \ {0} /\ t.rate \in Nat /\ t.term \in Nat \ {0}
           /\ 1..t.term \subseteq Installments
    <1>1. /\ t.principal \in Nat \ {0} /\ t.rate \in Nat
          /\ \E x \in Asked : t.term = x.term
        BY DEF GoodTerms
    <1>2. PICK x \in Asked : t.term = x.term
        BY <1>1
    <1>3. x.term \in Nat \ {0}
        BY LoanAssumption
    <1>4. QED
        BY <1>1, <1>2, <1>3 DEF Installments

LEMMA ScheduledNat ==
    ASSUME NEW s, s.terms \in GoodTerms, NEW done, Scheduled(s, done) # {}
    PROVE  /\ Min(Scheduled(s, done)) \in 1..s.terms.term
           /\ Min(Scheduled(s, done)) \in Nat
    <1>1. s.terms.term \in Nat
        BY GoodTermsFacts
    <1>2. PICK T : T = Scheduled(s, done)
        OBVIOUS
    <1>3. T \in SUBSET Nat /\ T \subseteq 1..s.terms.term /\ T # {}
        BY <1>1, <1>2 DEF Scheduled
    <1>4. Min(T) \in T
        BY <1>3, MinNatural
    <1>5. QED
        BY <1>2, <1>3, <1>4

-----------------------------------------------------------------------------
(* Every step leaves its goroutine with what the next one needs.  First    *)
(* the reading of a loan and what follows for a repayment.                 *)
LEMMA GetFit ==
    ASSUME LoanInv, FitOK, Grows, Lends', NEW p \in Procs, Get(p)
    PROVE  FitStep(p)
    <1>1. PICK j : j = job[p]
        OBVIOUS
    <1>2. PICK s : s = st'[j.loan]
        OBVIOUS
    <1>3. /\ pc[p] = "get"
          /\ \/ s.known /\ Go(p, "txs", [j EXCEPT !.st = s])
             \/ Return(p, FALSE)
        BY <1>1, <1>2 DEF Get
    <1>4. Fit("get", j, listed') /\ IsJob(j)
        BY <1>1, <1>3, FitHere, JobHere
    <1>5. CASE s.known /\ Go(p, "txs", [j EXCEPT !.st = s])
        <2>1. PICK k : k = [j EXCEPT !.st = s]
            OBVIOUS
        <2>2. /\ k.st = s /\ k.op = j.op /\ k.then = j.then /\ k.todo = j.todo
              /\ k.loan = j.loan /\ k.amount = j.amount
            BY <1>4, <2>1 DEF IsJob, Fields
        <2>3. j.loan \in Loans
            BY <1>4 DEF Fit, OnLoan
        <2>4. s \in StType /\ s.terms \in GoodTerms /\ listed'[j.loan] > 0
            BY <1>2, <1>5, <2>3 DEF Lends
        <2>5. Fit("txs", k, listed')
            BY <1>4, <2>2, <2>3, <2>4 DEF Fit, Serving, OnLoan
        <2>6. QED
            BY <1>5, <2>1, <2>5, FitGo
    <1>6. QED
        BY <1>3, <1>5, FitReturn

LEMMA TxsFit ==
    ASSUME LoanInv, FitOK, Grows, NEW p \in Procs, Txs(p)
    PROVE  FitStep(p)
    <1>1. PICK j : j = job[p]
        OBVIOUS
    <1>2. PICK k : k = [j EXCEPT !.paid = paid[j.loan]]
        OBVIOUS
    <1>3. pc[p] = "txs" /\ Go(p, "balance", k)
        BY <1>1, <1>2 DEF Txs
    <1>4. Fit("txs", j, listed') /\ IsJob(j)
        BY <1>1, <1>3, FitHere, JobHere
    <1>5. /\ k.op = j.op /\ k.then = j.then /\ k.todo = j.todo /\ k.loan = j.loan
          /\ k.st = j.st /\ k.amount = j.amount /\ k.views = j.views /\ k.list = j.list
        BY <1>2, <1>4 DEF IsJob, Fields
    <1>6. Fit("balance", k, listed')
        BY <1>4, <1>5 DEF Fit, Serving, OnLoan
    <1>7. QED
        BY <1>3, <1>6, FitGo

LEMMA RepayBuiltFit ==
    ASSUME LoanInv, FitOK, Grows, NEW p \in Procs, RepayBuilt(p)
    PROVE  FitStep(p)
    <1>1. PICK j : j = job[p]
        OBVIOUS
    <1>2. PICK no : no = Min(Scheduled(j.st, j.paid))
        OBVIOUS
    <1>3. PICK a : a = IF j.amount > 0 THEN j.amount ELSE Schedule(j.st.terms)[no].payment
        OBVIOUS
    <1>4. /\ pc[p] = "balance" /\ j.then = "repay"
          /\ \/ /\ Scheduled(j.st, j.paid) # {}
                /\ Go(p, "funds", [j EXCEPT !.no = no, !.amount = IF @ > 0 THEN @
                                                ELSE Schedule(j.st.terms)[no].payment])
             \/ Return(p, FALSE)
        BY <1>1, <1>2 DEF RepayBuilt, Built, Open, firstScheduled
    <1>5. Fit("balance", j, listed') /\ IsJob(j)
        BY <1>1, <1>4, FitHere, JobHere
    <1>6. CASE /\ Scheduled(j.st, j.paid) # {}
               /\ Go(p, "funds", [j EXCEPT !.no = no, !.amount = IF @ > 0 THEN @
                                                ELSE Schedule(j.st.terms)[no].payment])
        <2>1. PICK k : k = [j EXCEPT !.no = no, !.amount = IF @ > 0 THEN @
                                                ELSE Schedule(j.st.terms)[no].payment]
            OBVIOUS
        <2>2. /\ k.op = j.op /\ k.then = j.then /\ k.todo = j.todo /\ k.loan = j.loan
              /\ k.st = j.st /\ k.no = no /\ k.amount = a
            BY <1>3, <1>5, <2>1 DEF IsJob, Fields
        <2>3. j.st.terms \in GoodTerms /\ j.amount \in Int
            BY <1>4, <1>5 DEF Fit
        <2>4. no \in 1..j.st.terms.term
            BY <1>2, <1>6, <2>3, ScheduledNat
        <2>5. Schedule(j.st.terms)[no].payment \in Int
            BY <2>3, <2>4, ScheduleInt, GoodTermsFacts
        <2>6. a \in Int
            BY <1>3, <2>3, <2>5
        <2>7. Fit("funds", k, listed')
            BY <1>4, <1>5, <2>2, <2>4, <2>6 DEF Fit, Serving, OnLoan
        <2>8. QED
            BY <1>6, <2>1, <2>7, FitGo
    <1>7. QED
        BY <1>4, <1>6, FitReturn

LEMMA RepayFit ==
    ASSUME LoanInv, FitOK, Grows, NEW p \in Procs,
           Funds(p) \/ Pay(p) \/ PayBuilt(p) \/ appendRepaidEvent(p)
    PROVE  FitStep(p)
    <1>1. PICK j : j = job[p]
        OBVIOUS
    <1>2. Fit(pc[p], j, listed') /\ IsJob(j)
        BY <1>1, FitHere, JobHere
    <1>3. CASE Funds(p)
        <2>1. pc[p] = "funds" /\ (Go(p, "pay", j) \/ Return(p, FALSE))
            BY <1>1, <1>3 DEF Funds
        <2>2. Fit("pay", j, listed')
            BY <1>2, <2>1 DEF Fit, Serving, OnLoan
        <2>3. QED
            BY <2>1, <2>2, FitGo, FitReturn
    <1>4. CASE Pay(p)
        <2>1. PICK k : k = [j EXCEPT !.then = "settled"]
            OBVIOUS
        <2>2. pc[p] = "pay" /\ Go(p, "get", k)
            BY <1>1, <1>4, <2>1 DEF Pay
        <2>3. k.op = j.op /\ k.then = "settled" /\ k.todo = j.todo /\ k.loan = j.loan
            BY <1>2, <2>1 DEF IsJob, Fields
        <2>4. Fit("get", k, listed')
            BY <1>2, <2>2, <2>3 DEF Fit, Serving, OnLoan
        <2>5. QED
            BY <2>2, <2>4, FitGo
    <1>5. CASE PayBuilt(p)
        <2>1. /\ pc[p] = "balance" /\ j.then = "settled"
              /\ (Go(p, "repaid", j) \/ Return(p, TRUE))
            BY <1>1, <1>5 DEF PayBuilt, Built
        <2>2. Fit("repaid", j, listed')
            BY <1>2, <2>1 DEF Fit, Serving, OnLoan
        <2>3. QED
            BY <2>1, <2>2, FitGo, FitReturn
    <1>6. CASE appendRepaidEvent(p)
        <2>1. PICK e : e = [type |-> "repaid", loan |-> j.loan]
            OBVIOUS
        <2>2. PICK k : k = [j EXCEPT !.event = e]
            OBVIOUS
        <2>3. pc[p] = "repaid" /\ (Go(p, "reread", j) \/ Go(p, "insert", k))
            BY <1>1, <1>6, <2>1, <2>2 DEF appendRepaidEvent
        <2>4. k.op = j.op /\ k.todo = j.todo /\ k.loan = j.loan /\ k.event = e
            BY <1>2, <2>2 DEF IsJob, Fields
        <2>5. j.op # "advance" /\ j.loan \in Loans /\ listed'[j.loan] > 0 /\ j.todo \in Seq(CallType)
            BY <1>2, <2>3 DEF Fit, Serving, OnLoan
        <2>6. EventType(e)
            BY <2>1, <2>5 DEF EventType
        <2>7. Fit("insert", k, listed') /\ Fit("reread", j, listed')
            BY <2>4, <2>5, <2>6 DEF Fit, OnLoan
        <2>8. QED
            BY <2>3, <2>7, FitGo
    <1>7. QED
        BY <1>3, <1>4, <1>5, <1>6

(* A missed installment, and a default.                                    *)
LEMMA MissFit ==
    ASSUME LoanInv, FitOK, Grows, NEW p \in Procs,
           MissBuilt(p) \/ Evaluate(p) \/ PostFee(p) \/ WriteOff(p)
    PROVE  FitStep(p)
    <1>1. PICK j : j = job[p]
        OBVIOUS
    <1>2. Fit(pc[p], j, listed') /\ IsJob(j)
        BY <1>1, FitHere, JobHere
    <1>3. CASE MissBuilt(p)
        <2>1. PICK no : no = Min(Scheduled(j.st, j.paid))
            OBVIOUS
        <2>2. PICK k : k = [j EXCEPT !.no = no]
            OBVIOUS
        <2>3. /\ pc[p] = "balance" /\ j.then = "miss"
              /\ \/ Scheduled(j.st, j.paid) # {} /\ Go(p, "evaluate", k)
                 \/ Return(p, FALSE)
            BY <1>1, <1>3, <2>1, <2>2 DEF MissBuilt, Built, Open, firstScheduled
        <2>4. k.op = j.op /\ k.then = "miss" /\ k.todo = j.todo /\ k.loan = j.loan /\ k.no = no
            BY <1>2, <2>2, <2>3 DEF IsJob, Fields
        <2>5. Scheduled(j.st, j.paid) # {} => no \in Nat
            BY <1>2, <2>1, <2>3, ScheduledNat DEF Fit
        <2>6. Scheduled(j.st, j.paid) # {} => Fit("evaluate", k, listed')
            BY <1>2, <2>3, <2>4, <2>5 DEF Fit, Serving, OnLoan
        <2>7. QED
            BY <2>3, <2>6, FitGo, FitReturn
    <1>4. CASE Evaluate(p)
        <2>1. PICK d : d = EvaluateServicing(rule.servicing,
                                IF clock < Due(j.st, j.no) THEN 0
                                ELSE (clock - Due(j.st, j.no)) \div Day,
                                Cardinality(j.st.missed))
            OBVIOUS
        <2>2. PICK e : e = [type |-> "missed", loan |-> j.loan, no |-> j.no, fee |-> d.fee]
            OBVIOUS
        <2>3. PICK k : k = [j EXCEPT !.default = d.should_default, !.event = e]
            OBVIOUS
        <2>4. pc[p] = "evaluate" /\ \E s \in {"fee", "insert"} : Go(p, s, k)
            BY <1>1, <1>4, <2>1, <2>2, <2>3 DEF Evaluate
        <2>5. k.op = j.op /\ k.then = j.then /\ k.todo = j.todo /\ k.loan = j.loan /\ k.event = e
            BY <1>2, <2>3 DEF IsJob, Fields
        <2>6. EventType(e)
            BY <1>2, <2>2, <2>4 DEF Fit, OnLoan, EventType
        <2>7. Fit("fee", k, listed') /\ Fit("insert", k, listed')
            BY <1>2, <2>4, <2>5, <2>6 DEF Fit, Serving, OnLoan
        <2>8. QED
            BY <2>4, <2>7, FitGo
    <1>5. CASE PostFee(p)
        <2>1. pc[p] = "fee" /\ Go(p, "insert", j)
            BY <1>1, <1>5 DEF PostFee
        <2>2. Fit("insert", j, listed')
            BY <1>2, <2>1 DEF Fit, Serving, OnLoan
        <2>3. QED
            BY <2>1, <2>2, FitGo
    <1>6. CASE WriteOff(p)
        <2>1. pc[p] = "writeoff" /\ Go(p, "insert", j)
            BY <1>1, <1>6 DEF WriteOff
        <2>2. Fit("insert", j, listed')
            BY <1>2, <2>1 DEF Fit, Serving, OnLoan
        <2>3. QED
            BY <2>1, <2>2, FitGo
    <1>7. QED
        BY <1>3, <1>4, <1>5, <1>6

LEMMA DefaultFit ==
    ASSUME LoanInv, FitOK, BankOK, Grows, NEW p \in Procs, DefaultBuilt(p) \/ Owed(p)
    PROVE  FitStep(p)
    <1>1. PICK j : j = job[p]
        OBVIOUS
    <1>2. Fit(pc[p], j, listed') /\ IsJob(j)
        BY <1>1, FitHere, JobHere
    <1>3. CASE DefaultBuilt(p)
        <2>1. Status(j.st, recv[j.loan]) \in {"defaulted", "repaid", "active"}
            BY DEF Status
        <2>2. /\ pc[p] = "balance" /\ j.then = "default"
              /\ Finish(p) \/ Return(p, FALSE) \/ Go(p, "owed", j)
            BY <1>1, <1>3, <2>1 DEF DefaultBuilt, Built
        <2>3. j.todo \in Seq(CallType) /\ j.loan \in Loans
            BY <1>2, <2>2 DEF Fit, OnLoan
        <2>4. Fit("owed", j, listed')
            BY <1>2, <2>2 DEF Fit, Serving, OnLoan
        <2>5. QED
            BY <1>1, <2>2, <2>3, <2>4, FitGo, FitReturn, FitFinish
    <1>4. CASE Owed(p)
        <2>1. PICK e : e = [type |-> "defaulted", loan |-> j.loan]
            OBVIOUS
        <2>2. PICK k : k = [j EXCEPT !.amount = recv[j.loan], !.event = e]
            OBVIOUS
        <2>3. pc[p] = "owed" /\ \E s \in {"writeoff", "insert"} : Go(p, s, k)
            BY <1>1, <1>4, <2>1, <2>2 DEF Owed
        <2>4. /\ k.op = j.op /\ k.then = j.then /\ k.todo = j.todo /\ k.loan = j.loan
              /\ k.event = e /\ k.amount = recv[j.loan]
            BY <1>2, <2>2 DEF IsJob, Fields
        <2>5. EventType(e) /\ recv[j.loan] \in Int
            BY <1>2, <2>1, <2>3 DEF Fit, OnLoan, EventType, BankOK
        <2>6. Fit("writeoff", k, listed') /\ Fit("insert", k, listed')
            BY <1>2, <2>3, <2>4, <2>5 DEF Fit, Serving, OnLoan
        <2>7. QED
            BY <2>3, <2>6, FitGo
    <1>5. QED
        BY <1>3, <1>4

(* The decision on an application, and the money.                          *)
LEMMA TierRate ==
    ASSUME NEW c \in UnderwritingContent, NEW x, x.score \in Int, NEW up,
           NEW tier, tier = EvaluateUnderwriting(c, x, up).tier, tier # Failed
    PROVE  tier.rate \in Nat
    <1>1. PICK S : S = Reached(c.tiers, "min_risk_score", x.score)
        OBVIOUS
    <1>2. c.tiers \in Seq(TierType)
        BY DEF UnderwritingContent, TierType
    <1>3. S # {} /\ tier = firstMatchingTier(c.tiers, "min_risk_score", x.score)
        BY <1>1 DEF EvaluateUnderwriting
    <1>4. PICK i \in S : tier = c.tiers[i]
        BY <1>1, <1>2, <1>3, FirstMatching
    <1>5. i \in DOMAIN c.tiers
        BY <1>1, <1>4 DEF Reached
    <1>6. QED
        BY <1>2, <1>4, <1>5, TierSeq

LEMMA DecideFit ==
    ASSUME LoanInv, TermsInv, FitOK, Grows, NEW p \in Procs, Decide(p)
    PROVE  FitStep(p)
    <1>1. PICK j : j = job[p]
        OBVIOUS
    <1>2. PICK c : c = rule.underwriting
        OBVIOUS
    <1>3. PICK x : x = [applicant |-> j.ask.applicant, score |-> j.score,
                        principal |-> j.terms.principal, term |-> j.terms.term,
                        installment |-> MonthlyPayment(j.terms.principal,
                                          j.terms.rate, j.terms.term)]
        OBVIOUS
    <1>4. pc[p] = "decide"
        BY DEF Decide
    <1>5. PICK up \in BOOLEAN :
            LET d == EvaluateUnderwriting(c, x, up) IN
            IF ~d.approved \/ j.op = "underwrite"
            THEN Return(p, j.op = "underwrite")
            ELSE \E l \in Loans :
                   Go(p, "open", [j EXCEPT !.loan = l,
                                       !.terms = Agreed(j.terms, d.tier), !.decided = c])
        BY <1>1, <1>2, <1>3 DEF Decide
    <1>6. PICK tier : tier = EvaluateUnderwriting(c, x, up).tier
        OBVIOUS
    <1>7. CASE Return(p, j.op = "underwrite")
        BY <1>7, FitReturn
    <1>8. CASE \E l \in Loans :
                 Go(p, "open", [j EXCEPT !.loan = l, !.terms = Agreed(j.terms, tier),
                                         !.decided = c])
        <2>1. PICK t : t = Agreed(j.terms, tier)
            OBVIOUS
        <2>2. PICK l \in Loans : Go(p, "open", [j EXCEPT !.loan = l, !.terms = t, !.decided = c])
            BY <1>8, <2>1
        <2>3. PICK k : k = [j EXCEPT !.loan = l, !.terms = t, !.decided = c]
            OBVIOUS
        <2>4. Fit("decide", j, listed') /\ IsJob(j) /\ j.ask \in Asked /\ Priced(j)
            BY <1>1, <1>4, FitHere, JobHere DEF TermsInv, Judged
        <2>5. k.op = j.op /\ k.then = j.then /\ k.todo = j.todo /\ k.terms = t
            BY <2>3, <2>4 DEF IsJob, Fields
        <2>6. c \in UnderwritingContent
            BY <1>2, LoanAssumption DEF LoanInv, RulesOK
        <2>7. /\ j.ask.principal \in Nat \ {0} /\ j.terms.principal = j.ask.principal
              /\ j.terms.term = j.ask.term /\ j.terms.rate \in Nat
              /\ j.score \in Int
            <3>1. Pricing(j.priced, j.score).rate \in Nat
                BY <2>4, PricingFacts DEF Priced
            <3>2. QED
                BY <2>4, <3>1, LoanAssumption DEF Priced
        <2>8. TermsOK(j.terms)
            BY <1>1, <1>4, JobHere DEF JobOK
        <2>9. /\ t.principal = j.terms.principal /\ t.term = j.terms.term
              /\ t.rate = IF tier = Failed THEN j.terms.rate ELSE tier.rate
              /\ t = [principal |-> t.principal, rate |-> t.rate, term |-> t.term]
            BY <2>1, <2>8, AgreedTerms DEF TermsOK
        <2>10. tier # Failed => tier.rate \in Nat
            BY <1>3, <1>6, <2>6, <2>7, TierRate
        <2>11. t \in GoodTerms
            <3>1. t.principal \in Nat \ {0} /\ t.rate \in Nat /\ t.term \in {y.term : y \in Asked}
                BY <2>4, <2>7, <2>9, <2>10
            <3>2. QED
                BY <2>9, <3>1 DEF GoodTerms
        <2>12. Fit("open", k, listed')
            BY <2>4, <2>5, <2>11 DEF Fit, Serving, OnLoan
        <2>13. QED
            BY <2>2, <2>3, <2>12, FitGo
    <1>9. QED
        BY <1>5, <1>6, <1>7, <1>8

LEMMA LendFit ==
    ASSUME LoanInv, FitOK, BoundsOK, Grows, NEW p \in Procs,
           Score(p) \/ Price(p) \/ OpenReceivable(p) \/ Disburse(p)
    PROVE  FitStep(p)
    <1>1. PICK j : j = job[p]
        OBVIOUS
    <1>2. Fit(pc[p], j, listed') /\ IsJob(j)
        BY <1>1, FitHere, JobHere
    <1>3. ASSUME pc[p] \in {"score", "price"}, NEW s \in {"price", "decide"},
                 NEW k, k.op = j.op, k.then = j.then, k.todo = j.todo, Go(p, s, k)
          PROVE  FitStep(p)
        <2>1. Fit(s, k, listed')
            BY <1>2, <1>3 DEF Fit, Serving, OnLoan
        <2>2. QED
            BY <1>3, <2>1, FitGo
    <1>4. CASE Score(p)
        <2>1. PICK d : d = EvaluateRiskScore(rule.scoring, j.ask.applicant)
            OBVIOUS
        <2>2. PICK k : k = [j EXCEPT !.score = d.score]
            OBVIOUS
        <2>3. pc[p] = "score" /\ (Go(p, "price", k) \/ Return(p, FALSE))
            BY <1>1, <1>4, <2>1, <2>2 DEF Score
        <2>4. k.op = j.op /\ k.then = j.then /\ k.todo = j.todo
            BY <1>2, <2>2 DEF IsJob, Fields
        <2>5. QED
            BY <1>3, <2>3, <2>4, FitReturn
    <1>5. CASE Price(p)
        <2>1. PICK t : t = [principal |-> j.ask.principal, term |-> j.ask.term,
                            rate |-> Pricing(rule.underwriting, j.score).rate]
            OBVIOUS
        <2>2. PICK k : k = [j EXCEPT !.priced = rule.underwriting, !.terms = t]
            OBVIOUS
        <2>3. pc[p] = "price" /\ (Go(p, "decide", k) \/ Return(p, FALSE))
            BY <1>1, <1>5, <2>1, <2>2 DEF Price
        <2>4. k.op = j.op /\ k.then = j.then /\ k.todo = j.todo
            BY <1>2, <2>2 DEF IsJob, Fields
        <2>5. QED
            BY <1>3, <2>3, <2>4, FitReturn
    <1>6. CASE OpenReceivable(p)
        <2>1. pc[p] = "open" /\ Go(p, "disburse", j)
            BY <1>1, <1>6 DEF OpenReceivable
        <2>2. Fit("disburse", j, listed')
            BY <1>2, <2>1 DEF Fit, Serving, OnLoan
        <2>3. QED
            BY <2>1, <2>2, FitGo
    <1>7. CASE Disburse(p)
        <2>1. PICK e : e = [type |-> "originated", loan |-> j.loan, terms |-> j.terms, at |-> clock]
            OBVIOUS
        <2>2. PICK k : k = [j EXCEPT !.event = e]
            OBVIOUS
        <2>3. pc[p] = "disburse" /\ Go(p, "insert", k)
            BY <1>1, <1>7, <2>1, <2>2 DEF Disburse
        <2>4. k.op = j.op /\ k.then = j.then /\ k.todo = j.todo /\ k.loan = j.loan /\ k.event = e
            BY <1>2, <2>2 DEF IsJob, Fields
        <2>5. j.loan \in Loans
            BY <1>1, <2>3 DEF LoanInv, BirthsOK, BirthOK, BooksOK
        <2>6. clock \in Nat
            BY LoanAssumption DEF BoundsOK
        <2>7. EventType(e)
            BY <1>2, <2>1, <2>3, <2>5, <2>6 DEF EventType, Fit
        <2>8. Fit("insert", k, listed')
            BY <1>2, <2>1, <2>3, <2>4, <2>5, <2>7 DEF Fit, Serving, OnLoan
        <2>9. QED
            BY <2>3, <2>8, FitGo
    <1>8. QED
        BY <1>4, <1>5, <1>6, <1>7

LEMMA AppendFit ==
    ASSUME LoanInv, FitOK, Grows, NEW p \in Procs,
           Insert(p) \/ Commit(p) \/ ApplyAppended(p) \/ Reread(p)
    PROVE  FitStep(p)
    <1>1. PICK j : j = job[p]
        OBVIOUS
    <1>2. Fit(pc[p], j, listed') /\ IsJob(j)
        BY <1>1, FitHere, JobHere
    <1>3. CASE Insert(p)
        <2>1. PICK k : k = [j EXCEPT !.seq = nextSeq + 1]
            OBVIOUS
        <2>2. pc[p] = "insert" /\ Go(p, "commit", k)
            BY <1>1, <1>3, <2>1 DEF Insert
        <2>3. k.op = j.op /\ k.then = j.then /\ k.todo = j.todo /\ k.loan = j.loan /\ k.event = j.event
            BY <1>2, <2>1 DEF IsJob, Fields
        <2>4. Fit("commit", k, listed')
            BY <1>2, <2>2, <2>3 DEF Fit, Serving, OnLoan
        <2>5. QED
            BY <2>2, <2>4, FitGo
    <1>4. CASE Commit(p)
        <2>1. pc[p] = "commit" /\ Go(p, "apply", j)
            BY <1>1, <1>4 DEF Commit
        <2>2. Fit("apply", j, listed')
            BY <1>2, <2>1 DEF Fit, Serving, OnLoan
        <2>3. QED
            BY <2>1, <2>2, FitGo
    <1>5. CASE ApplyAppended(p)
        <2>1. pc[p] = "apply" /\ Go(p, "reread", j)
            BY <1>1, <1>5 DEF ApplyAppended
        <2>2. Fit("reread", j, listed')
            BY <1>2, <2>1 DEF Fit, Serving, OnLoan
        <2>3. QED
            BY <2>1, <2>2, FitGo
    <1>6. CASE Reread(p)
        <2>1. pc[p] = "reread" /\ Finish(p)
            BY <1>6 DEF Reread
        <2>2. /\ j.todo \in Seq(CallType) /\ j.loan \in Loans
              /\ j.op = "advance" => /\ j.then \in {"miss", "default"}
                                     /\ j.then = "miss" => j.todo # << >>
            BY <1>2, <2>1 DEF Fit, Serving, OnLoan
        <2>3. QED
            BY <1>1, <2>1, <2>2, FitFinish
    <1>7. QED
        BY <1>3, <1>4, <1>5, <1>6

(* AdvanceTime.                                                            *)
LEMMA AdvanceFit ==
    ASSUME LoanInv, FitOK, Grows, NEW p \in Procs, SetTo(p) \/ Plan(p) \/ Served(p)
    PROVE  FitStep(p)
    <1>1. PICK j : j = job[p]
        OBVIOUS
    <1>2. Fit(pc[p], j, listed') /\ IsJob(j)
        BY <1>1, FitHere, JobHere
    <1>3. CASE SetTo(p)
        <2>1. PICK k : k = [j EXCEPT !.then = "tick", !.ticks = 1]
            OBVIOUS
        <2>2. pc[p] = "set" /\ (Go(p, "list", k) \/ Return(p, FALSE))
            BY <1>1, <1>3, <2>1 DEF SetTo
        <2>3. k.op = j.op /\ k.then = "tick" /\ k.todo = j.todo
            BY <1>2, <2>1 DEF IsJob, Fields
        <2>4. Fit("list", k, listed')
            BY <1>2, <2>2, <2>3 DEF Fit, Serving, OnLoan
        <2>5. QED
            BY <2>2, <2>4, FitGo, FitReturn
    <1>4. CASE Plan(p)
        <2>1. PICK todo : todo = Calls(j.views, rule.servicing.grace)
            OBVIOUS
        <2>2. PICK next : next = [j EXCEPT !.todo = todo, !.grace = rule.servicing.grace]
            OBVIOUS
        <2>3. PICK k : k = [NoJob EXCEPT !.op = j.op, !.grace = rule.servicing.grace]
            OBVIOUS
        <2>4. pc[p] = "plan" /\ (Go(p, "served", k) \/ NextMiss(p, next))
            BY <1>1, <1>4, <2>1, <2>2, <2>3 DEF Plan
        <2>5. next.todo = todo
            BY <1>2, <2>2 DEF IsJob, Fields
        <2>6. k.then = "none" /\ k.todo = << >>
            BY <2>3 DEF NoJob
        <2>7. todo \in Seq(CallType)
            BY <1>2, <2>1, <2>4, CallsType DEF Fit
        <2>8. Fit("served", k, listed')
            BY <2>6 DEF Fit, Serving, OnLoan
        <2>9. QED
            BY <2>4, <2>5, <2>7, <2>8, FitGo, FitNextMiss
    <1>5. CASE Served(p)
        BY <1>5, FitReturn DEF Served
    <1>6. QED
        BY <1>3, <1>4, <1>5

LEMMA ListFit ==
    ASSUME LoanInv, FitOK, Grows, listed' \in [Loans -> Nat], NEW p \in Procs, List(p)
    PROVE  FitStep(p)
    <1>1. PICK j : j = job[p]
        OBVIOUS
    <1>2. PICK k : k = [j EXCEPT !.list = listed', !.views = << >>]
        OBVIOUS
    <1>3. pc[p] = "list" /\ NextInList(p, k)
        BY <1>1, <1>2 DEF List
    <1>4. Fit("list", j, listed') /\ IsJob(j)
        BY <1>1, <1>3, FitHere, JobHere
    <1>5. IsJob(k) /\ k.then = j.then /\ k.todo = j.todo /\ k.list = listed' /\ k.views = << >>
        BY <1>2, <1>4 DEF IsJob, Fields
    <1>6. k.then = "tick" /\ k.todo \in Seq(CallType)
        BY <1>4, <1>5 DEF Fit
    <1>7. k.views \in Seq(ViewType) /\ k.list \in [Loans -> Int]
        BY <1>5
    <1>8. QED
        BY <1>3, <1>5, <1>6, <1>7, FitNextInList

LEMMA CopyFit ==
    ASSUME LoanInv, FitOK, Grows, Lends, listed' = listed, NEW p \in Procs, Copy(p)
    PROVE  FitStep(p)
    <1>1. PICK j : j = job[p]
        OBVIOUS
    <1>2. PICK s : s = st[j.loan]
        OBVIOUS
    <1>3. PICK k : k = [j EXCEPT !.st = s]
        OBVIOUS
    <1>4. pc[p] = "copy" /\ Go(p, "txs", k)
        BY <1>1, <1>2, <1>3 DEF Copy
    <1>5. Fit("copy", j, listed') /\ IsJob(j)
        BY <1>1, <1>4, FitHere, JobHere
    <1>6. /\ k.op = j.op /\ k.then = j.then /\ k.todo = j.todo /\ k.loan = j.loan
          /\ k.st = s /\ k.views = j.views /\ k.list = j.list
        BY <1>3, <1>5 DEF IsJob, Fields
    <1>7. j.loan \in Loans /\ listed[j.loan] > 0 /\ j.then = "tick"
        BY <1>5 DEF Fit, OnLoan
    <1>8. s \in StType /\ s.terms \in GoodTerms
        BY <1>2, <1>7 DEF Lends
    <1>9. Fit("txs", k, listed')
        BY <1>5, <1>6, <1>7, <1>8 DEF Fit, Serving, OnLoan
    <1>10. QED
        BY <1>4, <1>9, FitGo

LEMMA TickBuiltFit ==
    ASSUME LoanInv, FitOK, Grows, NEW p \in Procs, TickBuilt(p)
    PROVE  FitStep(p)
    <1>1. PICK j : j = job[p]
        OBVIOUS
    <1>2. PICK S : S = IF Status(j.st, recv[j.loan]) = "active" THEN Scheduled(j.st, j.paid) ELSE {}
        OBVIOUS
    <1>3. PICK v : v = [loan |-> j.loan, st |-> j.st, scheduled |-> S]
        OBVIOUS
    <1>4. PICK k : k = [j EXCEPT !.views = Append(@, v)]
        OBVIOUS
    <1>5. pc[p] = "balance" /\ j.then = "tick" /\ NextInList(p, k)
        BY <1>1, <1>2, <1>3, <1>4 DEF TickBuilt, Built
    <1>6. Fit("balance", j, listed') /\ IsJob(j)
        BY <1>1, <1>5, FitHere, JobHere
    <1>7. /\ IsJob(k) /\ k.then = "tick" /\ k.todo = j.todo /\ k.list = j.list
          /\ k.views = Append(j.views, v)
        BY <1>4, <1>5, <1>6 DEF IsJob, Fields
    <1>8. /\ j.st \in StType /\ j.st.terms \in GoodTerms /\ j.loan \in Loans
          /\ j.views \in Seq(ViewType) /\ j.list \in [Loans -> Int] /\ j.todo \in Seq(CallType)
          /\ \A l \in Loans : j.list[l] > 0 => listed'[l] > 0
        BY <1>5, <1>6 DEF Fit, OnLoan
    <1>9. S \in Numbered
        <2>1. PICK n \in Nat : n = j.st.terms.term
            BY <1>8, GoodTermsFacts
        <2>2. S \in SUBSET (1..n)
            BY <1>2, <2>1 DEF Scheduled
        <2>3. QED
            BY <2>1, <2>2 DEF Numbered
    <1>10. v \in ViewType
        BY <1>3, <1>8, <1>9 DEF ViewType
    <1>11. k.views \in Seq(ViewType)
        BY <1>7, <1>8, <1>10
    <1>12. QED
        BY <1>5, <1>7, <1>8, <1>11, FitNextInList

(* Requests, the start and failures.                                       *)
LEMMA SeedFit ==
    ASSUME NEW p, Lands(p, "score", [NoJob EXCEPT !.op = "seed"])
    PROVE  FitStep(p)
    <1>1. PICK k : k = [NoJob EXCEPT !.op = "seed"]
        OBVIOUS
    <1>2. k.op = "seed" /\ k.todo = << >>
        BY <1>1 DEF NoJob
    <1>3. Fit("score", k, listed')
        BY <1>2 DEF Fit, OnLoan
    <1>4. QED
        BY <1>1, <1>3 DEF FitStep

LEMMA AskFit ==
    ASSUME LoanInv, BoundsOK, NEW p \in Procs, Ask(p)
    PROVE  FitStep(p)
    <1>1. CASE Underwrite(p) \/ Originate(p)
        <2>0. \E op \in {"underwrite", "originate"} : \E x \in Applications :
                Begin(p, "score", [NoJob EXCEPT !.op = op, !.ask = x], {})
            BY <1>1 DEF Underwrite, Originate
        <2>1. PICK op \in {"underwrite", "originate"}, x \in Applications :
                Begin(p, "score", [NoJob EXCEPT !.op = op, !.ask = x], {})
            BY <2>0
        <2>2. PICK k : k = [NoJob EXCEPT !.op = op, !.ask = x]
            OBVIOUS
        <2>3. k.op = op /\ k.todo = << >>
            BY <2>2 DEF NoJob
        <2>4. Fit("score", k, listed')
            BY <2>3 DEF Fit, OnLoan
        <2>5. Go(p, "score", k)
            BY <2>1, <2>2 DEF Begin
        <2>6. QED
            BY <2>4, <2>5, FitGo
    <1>2. CASE Repay(p)
        <2>1. PICK l \in opened, a \in Amounts :
                Begin(p, "get", [NoJob EXCEPT !.op = "repay", !.then = "repay",
                                              !.loan = l, !.amount = a], {l})
            BY <1>2 DEF Repay
        <2>2. PICK k : k = [NoJob EXCEPT !.op = "repay", !.then = "repay", !.loan = l, !.amount = a]
            OBVIOUS
        <2>3. k.op = "repay" /\ k.then = "repay" /\ k.todo = << >> /\ k.loan = l /\ k.amount = a
            BY <2>2 DEF NoJob
        <2>4. l \in Loans /\ a \in Int
            BY LoanAssumption DEF LoanInv, BooksOK
        <2>5. Fit("get", k, listed')
            BY <2>3, <2>4 DEF Fit, OnLoan
        <2>6. Go(p, "get", k)
            BY <2>1, <2>2 DEF Begin
        <2>7. QED
            BY <2>5, <2>6, FitGo
    <1>3. CASE MissPayment(p) \/ Default(p)
        <2>1. PICK l \in opened, op \in {"miss", "default"} :
                Begin(p, "get", [NoJob EXCEPT !.op = op, !.then = op, !.loan = l], {l})
            BY <1>3 DEF MissPayment, Default
        <2>2. PICK k : k = [NoJob EXCEPT !.op = op, !.then = op, !.loan = l]
            OBVIOUS
        <2>3. k.op = op /\ k.then = op /\ k.todo = << >> /\ k.loan = l
            BY <2>2 DEF NoJob
        <2>4. l \in Loans
            BY DEF LoanInv, BooksOK
        <2>5. Fit("get", k, listed')
            BY <2>3, <2>4 DEF Fit, OnLoan
        <2>6. Go(p, "get", k)
            BY <2>1, <2>2 DEF Begin
        <2>7. QED
            BY <2>5, <2>6, FitGo
    <1>4. CASE AdvanceTime(p)
        <2>1. PICK d \in Jumps :
                /\ clock + d <= MaxTime
                /\ Begin(p, "set", [NoJob EXCEPT !.op = "advance", !.target = clock + d], Loans)
            BY <1>4 DEF AdvanceTime
        <2>2. PICK k : k = [NoJob EXCEPT !.op = "advance", !.target = clock + d]
            OBVIOUS
        <2>3. k.op = "advance" /\ k.then = "none" /\ k.todo = << >> /\ k.target = clock + d
            BY <2>2 DEF NoJob
        <2>4. clock + d \in 0..MaxTime
            BY <2>1, LoanAssumption DEF BoundsOK
        <2>5. Fit("set", k, listed')
            BY <2>3, <2>4 DEF Fit, Serving, OnLoan
        <2>6. Go(p, "set", k)
            BY <2>1, <2>2 DEF Begin
        <2>7. QED
            BY <2>5, <2>6, FitGo
    <1>5. QED
        BY <1>1, <1>2, <1>3, <1>4 DEF Ask

LEMMA FailFit ==
    ASSUME NEW p, Fail(p)
    PROVE  FitStep(p)
    <1>1. \E ok : Return(p, ok)
        BY DEF Fail, StoreError, PostLost, CommitLost
    <1>2. QED
        BY <1>1, FitReturn

-----------------------------------------------------------------------------
(* Steps that fold nothing in: the goroutine neither had an event to fold  *)
(* in nor has one now.                                                     *)
Leaves(p) == (\E s, j : s # "apply" /\ Lands(p, s, j)) /\ PhaseGoes

LEMMA GoLeaves ==
    ASSUME NEW p, NEW s, s # "apply", NEW j, Go(p, s, j)
    PROVE  Leaves(p)
    BY DEF Go, Lands, Leaves, PhaseGoes

LEMMA ReturnLeaves ==
    ASSUME LoanInv, NEW p \in Procs, pc[p] # "idle", NEW ok, Return(p, ok)
    PROVE  Leaves(p)
    <1>1. Lands(p, "idle", NoJob)
        BY DEF Return, Lands
    <1>2. phase' = phase \/ (job[p].op = "seed" /\ phase' \in {"up", "down"})
        BY DEF Return
    <1>3. job[p].op = "seed" => phase = "seeding"
        BY DEF LoanInv, PhaseOK
    <1>4. PhaseGoes
        BY <1>2, <1>3 DEF PhaseGoes
    <1>5. QED
        BY <1>1, <1>4 DEF Leaves

LEMMA NextMissLeaves ==
    ASSUME NEW p, NEW j, NextMiss(p, j)
    PROVE  Leaves(p)
    <1>1. \E s \in {"get", "list", "served"} : \E k : Go(p, s, k)
        BY DEF NextMiss
    <1>2. QED
        BY <1>1, GoLeaves

LEMMA FinishLeaves ==
    ASSUME LoanInv, NEW p \in Procs, pc[p] # "idle", Finish(p)
    PROVE  Leaves(p)
    <1>1. Return(p, TRUE) \/ (\E k : NextMiss(p, k)) \/ (\E k : Go(p, "get", k))
        BY DEF Finish
    <1>2. QED
        BY <1>1, GoLeaves, ReturnLeaves, NextMissLeaves

LEMMA NextInListLeaves ==
    ASSUME NEW p, NEW j, NextInList(p, j)
    PROVE  Leaves(p)
    <1>1. \E s \in {"plan", "copy"} : \E k : Go(p, s, k)
        BY DEF NextInList
    <1>2. QED
        BY <1>1, GoLeaves

LEMMA WorkLeaves ==
    ASSUME LoanInv, NEW p \in Procs,
           Step(p), ~Commit(p), ~ApplyAppended(p)
    PROVE  pc[p] \notin {"apply", "idle"} /\ Leaves(p)
    <1>1. CASE Get(p) \/ Txs(p) \/ RepayBuilt(p) \/ Funds(p) \/ Pay(p) \/ PayBuilt(p)
        <2>1. /\ pc[p] \in {"get", "txs", "balance", "funds", "pay"}
              /\ \/ \E ok : Return(p, ok)
                 \/ \E s \in {"txs", "balance", "funds", "pay", "get", "repaid"} : \E j : Go(p, s, j)
            BY <1>1 DEF Get, Txs, RepayBuilt, Funds, Pay, PayBuilt, Built
        <2>2. QED
            BY <2>1, GoLeaves, ReturnLeaves
    <1>2. CASE appendRepaidEvent(p) \/ MissBuilt(p) \/ Evaluate(p) \/ PostFee(p) \/ Owed(p)
        <2>1. /\ pc[p] \in {"repaid", "balance", "evaluate", "fee", "owed"}
              /\ \/ \E ok : Return(p, ok)
                 \/ \E s \in {"reread", "insert", "evaluate", "fee", "writeoff"} : \E j : Go(p, s, j)
            BY <1>2 DEF appendRepaidEvent, MissBuilt, Evaluate, PostFee, Owed, Built
        <2>2. QED
            BY <2>1, GoLeaves, ReturnLeaves
    <1>3. CASE WriteOff(p) \/ OpenReceivable(p) \/ Disburse(p) \/ Insert(p)
        <2>1. /\ pc[p] \in {"writeoff", "open", "disburse", "insert"}
              /\ \E s \in {"insert", "commit", "disburse"} : \E j : Go(p, s, j)
            BY <1>3 DEF WriteOff, OpenReceivable, Disburse, Insert
        <2>2. QED
            BY <2>1, GoLeaves
    <1>4. CASE Score(p) \/ Price(p) \/ Decide(p)
        <2>1. /\ pc[p] \in {"score", "price", "decide"}
              /\ \/ \E ok : Return(p, ok)
                 \/ \E s \in {"price", "decide", "open"} : \E j : Go(p, s, j)
            BY <1>4 DEF Score, Price, Decide
        <2>2. QED
            BY <2>1, GoLeaves, ReturnLeaves
    <1>5. CASE DefaultBuilt(p)
        <2>1. Status(job[p].st, recv[job[p].loan]) \in {"defaulted", "repaid", "active"}
            BY DEF Status
        <2>2. /\ pc[p] = "balance"
              /\ Finish(p) \/ Return(p, FALSE) \/ \E j : Go(p, "owed", j)
            BY <1>5, <2>1 DEF DefaultBuilt, Built
        <2>3. QED
            BY <2>2, FinishLeaves, ReturnLeaves, GoLeaves
    <1>6. CASE Reread(p)
        BY <1>6, FinishLeaves DEF Reread
    <1>7. CASE SetTo(p) \/ Copy(p) \/ Served(p)
        <2>1. /\ pc[p] \in {"set", "copy", "served"}
              /\ \/ \E ok : Return(p, ok)
                 \/ \E s \in {"list", "txs"} : \E j : Go(p, s, j)
            BY <1>7 DEF SetTo, Copy, Served
        <2>2. QED
            BY <2>1, GoLeaves, ReturnLeaves
    <1>8. CASE List(p) \/ TickBuilt(p)
        <2>1. pc[p] \in {"list", "balance"} /\ \E j : NextInList(p, j)
            BY <1>8 DEF List, TickBuilt, Built
        <2>2. QED
            BY <2>1, NextInListLeaves
    <1>9. CASE Plan(p)
        <2>1. pc[p] = "plan" /\ ((\E j : NextMiss(p, j)) \/ \E j : Go(p, "served", j))
            BY <1>9 DEF Plan
        <2>2. QED
            BY <2>1, NextMissLeaves, GoLeaves
    <1>10. QED
        BY <1>1, <1>2, <1>3, <1>4, <1>5, <1>6, <1>7, <1>8, <1>9 DEF Step

LEMMA LeavesSame ==
    ASSUME LoanInv, NEW p \in Procs, pc[p] # "apply", Leaves(p)
    PROVE  SameAppliers
    <1>1. PICK s, j : s # "apply" /\ Lands(p, s, j)
        BY DEF Leaves
    <1>2. /\ pc'[p] # "apply"
          /\ \A q \in Procs : q # p => pc'[q] = pc[q] /\ job'[q] = job[q]
        BY <1>1 DEF Lands, LoanInv, JobsOK
    <1>3. QED
        BY <1>2 DEF SameAppliers, Applies

(* The books and the counters.                                             *)
LEMMA QuietFrame ==
    ASSUME LoanInv, StateInv, UNCHANGED <<log, lost, st, listed, lastSeq>>,
           nextSeq' \in Nat, nextSeq' >= nextSeq,
           NEW p \in Procs, pc[p] # "apply", FitStep(p), Leaves(p), BankOK', BoundsOK'
    PROVE  StateInv'
    <1>1. SameAppliers /\ PhaseGoes
        BY LeavesSame DEF Leaves
    <1>2. ProjOK' /\ ProjectionFaithful'
        BY <1>1, ProjSame DEF LoanInv, StateInv
    <1>3. Grows
        BY DEF Grows
    <1>4. FitOK'
        BY <1>3, FitMove DEF StateInv
    <1>5. EventsOK'
        BY DEF StateInv, EventsOK
    <1>6. QED
        BY <1>2, <1>4, <1>5 DEF StateInv

LEMMA BankSame ==
    ASSUME BankOK, UNCHANGED <<recv, deposit, paid>>
    PROVE  BankOK'
    BY DEF BankOK

LEMMA BoundsSame ==
    ASSUME BoundsOK, UNCHANGED <<clock, requests, upsets>>
    PROVE  BoundsOK'
    BY DEF BoundsOK

LEMMA MinOfTwo ==
    ASSUME NEW a \in Int, NEW b \in Int
    PROVE  Min({a, b}) \in Int
    <1>1. PICK T : T = {a, b}
        OBVIOUS
    <1>2. \E i \in T : \A x \in T : i <= x
        BY <1>1
    <1>3. Min(T) \in T /\ \A x \in T : Min(T) <= x
        BY <1>2 DEF Min
    <1>4. QED
        BY <1>1, <1>3

LEMMA PayBank ==
    ASSUME LoanInv, StateInv, NEW p \in Procs, pc[p] = "pay", PayEffect(job[p])
    PROVE  BankOK'
    <1>1. PICK j : j = job[p]
        OBVIOUS
    <1>2. Fit("pay", j, listed)
        BY <1>1 DEF StateInv, FitOK
    <1>3. /\ j.loan \in Loans /\ j.st.terms \in GoodTerms /\ j.no \in 1..j.st.terms.term
          /\ j.amount \in Int
        BY <1>2 DEF Fit, OnLoan
    <1>4. PICK x : x = Schedule(j.st.terms)[j.no].interest
        OBVIOUS
    <1>5. x \in Int
        BY <1>3, <1>4, ScheduleInt, GoodTermsFacts
    <1>6. PICK i \in Int : i = Min({x, j.amount})
        BY <1>3, <1>5, MinOfTwo
    <1>7. PICK c \in Int : c = j.amount - i
        BY <1>3
    <1>8. /\ deposit' = deposit - j.amount
          /\ recv' = [recv EXCEPT ![j.loan] = @ - c]
          /\ paid' = [paid EXCEPT ![j.loan] = IF c > 0 THEN @ \cup {j.no} ELSE @]
        BY <1>1, <1>4, <1>6, <1>7 DEF PayEffect
    <1>9. recv \in [Loans -> Int] /\ deposit \in Int /\ paid \in [Loans -> SUBSET Installments]
        BY DEF StateInv, BankOK
    <1>10. j.no \in Installments
        BY <1>3, GoodTermsFacts
    <1>11. recv' \in [Loans -> Int] /\ deposit' \in Int
        BY <1>3, <1>8, <1>9
    <1>12. paid' \in [Loans -> SUBSET Installments]
        BY <1>3, <1>8, <1>9, <1>10
    <1>13. QED
        BY <1>11, <1>12 DEF BankOK

LEMMA FeeBank ==
    ASSUME LoanInv, StateInv, NEW p \in Procs, pc[p] = "fee", FeeEffect(job[p])
    PROVE  BankOK'
    <1>1. Fit("fee", job[p], listed) /\ JobOK("fee", job[p])
        BY JobHere DEF StateInv, FitOK
    <1>2. job[p].loan \in Loans /\ job[p].event.fee \in Int
        BY <1>1 DEF Fit, OnLoan, JobOK, EventOK
    <1>3. QED
        BY <1>2 DEF FeeEffect, StateInv, BankOK

LEMMA WriteOffBank ==
    ASSUME LoanInv, StateInv, NEW p \in Procs, pc[p] = "writeoff", WriteOffEffect(job[p])
    PROVE  BankOK'
    <1>1. Fit("writeoff", job[p], listed)
        BY DEF StateInv, FitOK
    <1>2. job[p].loan \in Loans /\ job[p].amount \in Int
        BY <1>1 DEF Fit, OnLoan
    <1>3. QED
        BY <1>2 DEF WriteOffEffect, StateInv, BankOK

LEMMA DisburseBank ==
    ASSUME LoanInv, StateInv, NEW p \in Procs, pc[p] = "disburse", DisburseEffect(job[p])
    PROVE  BankOK'
    <1>1. JobOK("disburse", job[p]) /\ BirthOK("disburse", job[p])
        BY JobHere DEF LoanInv, BirthsOK
    <1>2. job[p].terms.principal \in Nat
        BY <1>1 DEF JobOK, TermsOK
    <1>3. job[p].loan \in Loans
        BY <1>1 DEF BirthOK, LoanInv, BooksOK
    <1>4. QED
        BY <1>2, <1>3 DEF DisburseEffect, StateInv, BankOK

-----------------------------------------------------------------------------
(* The actions, first those that fold nothing in and commit nothing.       *)
Silent == UNCHANGED <<log, nextSeq, lost, st, listed, lastSeq>>

LEMMA SilentStep ==
    ASSUME LoanInv, StateInv, Silent, NEW p \in Procs, pc[p] # "apply", FitStep(p), Leaves(p),
           BankOK', BoundsOK'
    PROVE  StateInv'
    <1>1. nextSeq' \in Nat /\ nextSeq' >= nextSeq
        BY DEF Silent, LoanInv, LogOK
    <1>2. QED
        BY <1>1, QuietFrame DEF Silent

LEMMA SilentParts ==
    ASSUME StateInv, Silent
    PROVE  Grows /\ FitOK /\ BankOK /\ BoundsOK /\ Lends /\ listed' = listed
    <1>1. Grows /\ listed' = listed
        BY DEF Silent, Grows
    <1>2. QED
        BY <1>1, LendsHere DEF StateInv

LEMMA PlainSilent ==
    ASSUME LoanInv, TermsInv, StateInv, NEW p \in Procs,
           \/ Txs(p) \/ RepayBuilt(p) \/ Funds(p) \/ PayBuilt(p) \/ appendRepaidEvent(p)
           \/ MissBuilt(p) \/ Evaluate(p) \/ DefaultBuilt(p) \/ Owed(p) \/ Score(p) \/ Price(p)
           \/ Decide(p) \/ OpenReceivable(p) \/ Copy(p) \/ TickBuilt(p) \/ Plan(p) \/ Served(p)
    PROVE  StateInv'
    <1>1. CASE \/ Txs(p) \/ RepayBuilt(p) \/ Funds(p) \/ PayBuilt(p) \/ appendRepaidEvent(p)
               \/ MissBuilt(p) \/ Evaluate(p) \/ DefaultBuilt(p) \/ Owed(p)
        <2>1. Silent /\ UNCHANGED <<recv, deposit, paid, clock, requests, upsets>>
            BY <1>1 DEF Silent, Txs, RepayBuilt, Funds, PayBuilt, appendRepaidEvent, MissBuilt,
                        Evaluate, DefaultBuilt, Owed, Built, events, books, proj, world, history
        <2>2. FitStep(p)
            BY <1>1, <2>1, SilentParts, TxsFit, RepayBuiltFit, RepayFit, MissFit, DefaultFit
        <2>3. Step(p) /\ ~Commit(p) /\ ~ApplyAppended(p)
            BY <1>1 DEF Step, Commit, ApplyAppended, Txs, RepayBuilt, Funds, PayBuilt,
                        appendRepaidEvent, MissBuilt, Evaluate, DefaultBuilt, Owed, Built
        <2>4. QED
            BY <2>1, <2>2, <2>3, SilentParts, SilentStep, WorkLeaves, BankSame, BoundsSame
    <1>2. CASE \/ Score(p) \/ Price(p) \/ Decide(p) \/ OpenReceivable(p)
        <2>1. Silent /\ UNCHANGED <<recv, deposit, paid, clock, requests, upsets>>
            BY <1>2 DEF Silent, Score, Price, Decide, OpenReceivable, events, books, proj, world,
                        history
        <2>2. FitStep(p)
            BY <1>2, <2>1, SilentParts, LendFit, DecideFit
        <2>3. Step(p) /\ ~Commit(p) /\ ~ApplyAppended(p)
            BY <1>2 DEF Step, Commit, ApplyAppended, Score, Price, Decide, OpenReceivable
        <2>4. QED
            BY <2>1, <2>2, <2>3, SilentParts, SilentStep, WorkLeaves, BankSame, BoundsSame
    <1>3. CASE Copy(p) \/ TickBuilt(p) \/ Plan(p) \/ Served(p)
        <2>1. Silent /\ UNCHANGED <<recv, deposit, paid, clock, requests, upsets>>
            BY <1>3 DEF Silent, Copy, TickBuilt, Plan, Served, Built, events, books, proj, world,
                        history
        <2>2. FitStep(p)
            BY <1>3, <2>1, SilentParts, CopyFit, TickBuiltFit, AdvanceFit
        <2>3. Step(p) /\ ~Commit(p) /\ ~ApplyAppended(p)
            BY <1>3 DEF Step, Commit, ApplyAppended, Copy, TickBuilt, Plan, Served, Built
        <2>4. QED
            BY <2>1, <2>2, <2>3, SilentParts, SilentStep, WorkLeaves, BankSame, BoundsSame
    <1>4. QED
        BY <1>1, <1>2, <1>3

LEMMA PostSilent ==
    ASSUME LoanInv, StateInv, NEW p \in Procs,
           Pay(p) \/ PostFee(p) \/ WriteOff(p) \/ Disburse(p)
    PROVE  StateInv'
    <1>1. Silent /\ UNCHANGED <<clock, requests, upsets>>
        BY DEF Silent, Pay, PostFee, WriteOff, Disburse, events, proj, world, history
    <1>2. FitStep(p)
        BY <1>1, SilentParts, RepayFit, MissFit, LendFit
    <1>3. BankOK'
        BY PayBank, FeeBank, WriteOffBank, DisburseBank DEF Pay, PostFee, WriteOff, Disburse
    <1>4. Step(p) /\ ~Commit(p) /\ ~ApplyAppended(p)
        BY DEF Step, Commit, ApplyAppended, Pay, PostFee, WriteOff, Disburse
    <1>5. QED
        BY <1>1, <1>2, <1>3, <1>4, SilentParts, SilentStep, WorkLeaves, BoundsSame

LEMMA InsertState ==
    ASSUME LoanInv, StateInv, NEW p \in Procs, Insert(p)
    PROVE  StateInv'
    <1>1. /\ UNCHANGED <<log, lost, st, listed, lastSeq, recv, deposit, paid, clock, requests,
                         upsets>>
          /\ nextSeq' = nextSeq + 1 /\ pc[p] # "apply"
        BY DEF Insert, books, proj, world, history
    <1>2. nextSeq' \in Nat /\ nextSeq' >= nextSeq
        BY <1>1 DEF LoanInv, LogOK
    <1>3. Grows
        BY <1>1 DEF Grows
    <1>4. FitStep(p)
        BY <1>3, AppendFit DEF StateInv
    <1>5. Step(p) /\ ~Commit(p) /\ ~ApplyAppended(p)
        BY DEF Step, Commit, ApplyAppended, Insert
    <1>6. BankOK' /\ BoundsOK'
        BY <1>1, BankSame, BoundsSame DEF StateInv
    <1>7. Leaves(p)
        BY <1>5, WorkLeaves
    <1>8. QED
        BY <1>1, <1>2, <1>4, <1>6, <1>7, QuietFrame

LEMMA SetState ==
    ASSUME LoanInv, StateInv, NEW p \in Procs, SetTo(p)
    PROVE  StateInv'
    <1>1. /\ Silent /\ UNCHANGED <<recv, deposit, paid, requests, upsets>>
          /\ pc[p] = "set" /\ (clock' = job[p].target \/ clock' = clock)
        BY DEF SetTo, Silent, events, books, proj, history
    <1>2. FitStep(p)
        BY <1>1, SilentParts, AdvanceFit
    <1>3. job[p].target \in 0..MaxTime
        BY <1>1 DEF StateInv, FitOK, Fit
    <1>4. BankOK' /\ BoundsOK'
        BY <1>1, <1>3, BankSame DEF StateInv, BoundsOK
    <1>5. Step(p) /\ ~Commit(p) /\ ~ApplyAppended(p)
        BY DEF Step, Commit, ApplyAppended, SetTo
    <1>6. QED
        BY <1>1, <1>2, <1>4, <1>5, SilentStep, WorkLeaves

LEMMA AskState ==
    ASSUME LoanInv, StateInv, NEW p \in Procs, Ask(p)
    PROVE  StateInv'
    <1>1. \E s \in {"score", "get", "set"} : \E j, S : Begin(p, s, j, S)
        BY DEF Ask, Underwrite, Originate, Repay, MissPayment, Default, AdvanceTime
    <1>2. PICK s, j, S : s \in {"score", "get", "set"} /\ Begin(p, s, j, S)
        BY <1>1
    <1>3. /\ Silent /\ UNCHANGED <<recv, deposit, paid, clock, upsets>>
          /\ requests < MaxRequests /\ requests' = requests + 1
          /\ pc[p] = "idle" /\ Go(p, s, j)
        BY <1>2 DEF Begin, Silent, events, books, proj, world
    <1>4. BankOK' /\ BoundsOK'
        <2>1. requests \in 0..MaxRequests /\ MaxRequests \in Nat
            BY LoanAssumption DEF StateInv, BoundsOK
        <2>2. requests' \in 0..MaxRequests
            BY <1>3, <2>1
        <2>3. QED
            BY <1>3, <2>2, BankSame DEF StateInv, BoundsOK
    <1>5. FitStep(p)
        BY AskFit DEF StateInv
    <1>6. s # "apply"
        BY <1>2
    <1>7. Leaves(p)
        BY <1>3, <1>6, GoLeaves
    <1>8. QED
        BY <1>3, <1>4, <1>5, <1>7, SilentStep

LEMMA UpsetBounds ==
    ASSUME BoundsOK, Upset, UNCHANGED <<clock, requests>>
    PROVE  BoundsOK'
    <1>1. upsets \in 0..MaxUpsets /\ MaxUpsets \in Nat
        BY LoanAssumption DEF BoundsOK
    <1>2. upsets' \in 0..MaxUpsets
        BY <1>1 DEF Upset
    <1>3. QED
        BY <1>2 DEF BoundsOK

LEMMA ErrorState ==
    ASSUME LoanInv, StateInv, NEW p \in Procs, StoreError(p) \/ PostLost(p)
    PROVE  StateInv'
    <1>1. /\ Silent /\ UNCHANGED <<clock, requests>> /\ Upset /\ Return(p, FALSE)
          /\ pc[p] \notin {"idle", "apply"}
        BY DEF StoreError, PostLost, Silent, events, proj, world, history
    <1>2. FitStep(p) /\ Leaves(p)
        BY <1>1, FitReturn, ReturnLeaves
    <1>3. BankOK'
        <2>1. CASE StoreError(p)
            BY <2>1, BankSame DEF StoreError, books, StateInv
        <2>2. CASE PostLost(p)
            BY <2>2, PayBank, FeeBank, WriteOffBank, DisburseBank DEF PostLost
        <2>3. QED
            BY <2>1, <2>2
    <1>4. BoundsOK'
        BY <1>1, UpsetBounds DEF StateInv
    <1>5. QED
        BY <1>1, <1>2, <1>3, <1>4, SilentStep

LEMMA EditState ==
    ASSUME LoanInv, StateInv, EditRule
    PROVE  StateInv'
    <1>1. /\ Silent /\ UNCHANGED <<recv, deposit, paid, clock, requests, pc, job, phase>> /\ Upset
        BY DEF EditRule, Silent, events, books, proj, control, history
    <1>2. BankOK' /\ BoundsOK'
        BY <1>1, BankSame, UpsetBounds DEF StateInv
    <1>3. FitOK'
        BY <1>1, SilentParts, FitSame
    <1>4. /\ UNCHANGED <<log, lost, st, listed, lastSeq>> /\ nextSeq' \in Nat
          /\ nextSeq' >= nextSeq /\ PhaseGoes /\ SameAppliers
        BY <1>1 DEF Silent, LoanInv, LogOK, PhaseGoes, SameAppliers
    <1>5. ProjOK' /\ ProjectionFaithful'
        BY <1>4, ProjSame DEF LoanInv, StateInv
    <1>6. EventsOK'
        BY <1>4 DEF StateInv, EventsOK
    <1>7. QED
        BY <1>2, <1>3, <1>5, <1>6 DEF StateInv

-----------------------------------------------------------------------------
(* Actions that refresh the projection.                                    *)
LEMMA RefreshGrows ==
    ASSUME LoanInv, StateInv, refresh
    PROVE  Grows
    <1>1. PICK S : S = {n \in DOMAIN log : n > lastSeq}
        OBVIOUS
    <1>2. S \in SUBSET DOMAIN log /\ Fold(S)
        BY <1>1 DEF refresh
    <1>3. ASSUME NEW l \in Loans PROVE listed'[l] \in Nat /\ listed'[l] >= listed[l]
        BY <1>2, FoldLists DEF LoanInv, StateInv
    <1>4. ASSUME NEW l \in Loans PROVE listed[l] \in Nat
        BY DEF StateInv, ProjOK
    <1>5. QED
        BY <1>3, <1>4 DEF Grows

LEMMA EventsSame ==
    ASSUME StateInv, log' = log
    PROVE  EventsOK'
    BY DEF StateInv, EventsOK

LEMMA ReadState ==
    ASSUME LoanInv, StateInv, Read
    PROVE  StateInv'
    <1>1. /\ phase = "up" /\ refresh
          /\ UNCHANGED <<log, nextSeq, lost, recv, deposit, paid, clock, requests, upsets, phase,
                         pc, job>>
        BY DEF Read, events, books, world, control, history
    <1>2. SameAppliers
        BY <1>1 DEF SameAppliers
    <1>3. ProjOK' /\ ProjectionFaithful'
        BY <1>1, <1>2, ProjRefresh DEF LoanInv, StateInv
    <1>4. FitOK'
        BY <1>1, RefreshGrows, FitSame DEF StateInv
    <1>5. BankOK' /\ BoundsOK' /\ EventsOK'
        BY <1>1, BankSame, BoundsSame, EventsSame DEF StateInv
    <1>6. QED
        BY <1>3, <1>4, <1>5 DEF StateInv

LEMMA SeedState ==
    ASSUME LoanInv, StateInv, NEW p \in Procs, Seed(p)
    PROVE  StateInv'
    <1>1. /\ phase = "start" /\ refresh /\ phase' # "start"
          /\ UNCHANGED <<log, nextSeq, lost, recv, deposit, paid, clock, requests, upsets>>
          /\ \/ UNCHANGED <<pc, job>>
             \/ Lands(p, "score", [NoJob EXCEPT !.op = "seed"])
        BY DEF Seed, Lands, events, books, world, history
    <1>2. \A q \in Procs : pc[q] = "idle"
        BY <1>1 DEF LoanInv, PhaseOK
    <1>3. SameAppliers /\ FitOK'
        <2>1. CASE UNCHANGED <<pc, job>>
            BY <1>1, <2>1, RefreshGrows, FitSame DEF SameAppliers, StateInv
        <2>2. CASE Lands(p, "score", [NoJob EXCEPT !.op = "seed"])
            <3>1. \A q \in Procs : pc'[q] # "apply"
                BY <1>2, <2>2 DEF Lands, LoanInv, JobsOK
            <3>2. SameAppliers
                BY <1>2, <3>1 DEF SameAppliers, Applies
            <3>3. FitOK'
                BY <1>1, <2>2, RefreshGrows, SeedFit, FitMove DEF StateInv
            <3>4. QED
                BY <3>2, <3>3
        <2>3. QED
            BY <1>1, <2>1, <2>2
    <1>4. ProjOK' /\ ProjectionFaithful'
        BY <1>1, <1>3, ProjRefresh DEF LoanInv, StateInv
    <1>5. BankOK' /\ BoundsOK' /\ EventsOK'
        BY <1>1, BankSame, BoundsSame, EventsSame DEF StateInv
    <1>6. QED
        BY <1>3, <1>4, <1>5 DEF StateInv

LEMMA RefreshState ==
    ASSUME LoanInv, StateInv, NEW p \in Procs, Get(p) \/ Reread(p) \/ List(p)
    PROVE  StateInv'
    <1>1. /\ pc[p] \in {"get", "reread", "list"} /\ refresh
          /\ UNCHANGED <<log, nextSeq, lost, recv, deposit, paid, clock, requests, upsets>>
        BY DEF Get, Reread, List, events, books, world, history
    <1>2. Step(p) /\ ~Commit(p) /\ ~ApplyAppended(p)
        BY <1>1 DEF Step, Commit, ApplyAppended
    <1>3. Leaves(p)
        BY <1>2, WorkLeaves
    <1>4. SameAppliers /\ PhaseGoes
        BY <1>1, <1>3, LeavesSame DEF Leaves
    <1>5. phase \in {"seeding", "up"}
        BY <1>1 DEF LoanInv, PhaseOK
    <1>6. phase' # "start"
        BY <1>4, <1>5 DEF PhaseGoes
    <1>7. ProjOK' /\ ProjectionFaithful'
        BY <1>1, <1>4, <1>5, <1>6, ProjRefresh DEF LoanInv, StateInv
    <1>8. BankOK' /\ BoundsOK' /\ EventsOK'
        BY <1>1, BankSame, BoundsSame, EventsSame DEF StateInv
    <1>9. Grows /\ Lends' /\ listed' \in [Loans -> Nat]
        BY <1>1, <1>7, <1>8, RefreshGrows, LendsNext DEF ProjOK
    <1>10. FitStep(p)
        BY <1>9, GetFit, AppendFit, ListFit DEF StateInv
    <1>11. FitOK'
        BY <1>9, <1>10, FitMove DEF StateInv
    <1>12. QED
        BY <1>7, <1>8, <1>11 DEF StateInv

-----------------------------------------------------------------------------
(* The actions that write the log and fold the event in, and a restart.    *)
LEMMA AppliesAt ==
    ASSUME LoanInv, NEW p \in Procs, NEW s, NEW j, Lands(p, s, j), NEW n
    PROVE  Applies(pc', job', n) <=> \/ s = "apply" /\ j.seq = n
                                     \/ \E q \in Procs \ {p} : pc[q] = "apply" /\ job[q].seq = n
    <1>1. /\ pc'[p] = s /\ job'[p] = j
          /\ \A q \in Procs \ {p} : pc'[q] = pc[q] /\ job'[q] = job[q]
        BY DEF Lands, LoanInv, JobsOK
    <1>2. QED
        BY <1>1 DEF Applies

LEMMA CommitState ==
    ASSUME LoanInv, StateInv, NEW p \in Procs, Commit(p) \/ CommitLost(p)
    PROVE  StateInv'
    <1>1. /\ pc[p] = "commit" /\ CommitEffect(job[p])
          /\ UNCHANGED <<nextSeq, st, listed, lastSeq, recv, deposit, paid, clock, requests>>
          /\ \/ /\ lost' = lost /\ Go(p, "apply", job[p]) /\ upsets' = upsets
             \/ /\ lost' = lost \cup {job[p].seq} /\ Return(p, FALSE) /\ Upset
        BY DEF Commit, CommitLost, books, proj, world, history
    <1>2. PICK k : k = job[p]
        OBVIOUS
    <1>3. Fit("commit", k, listed) /\ JobOK("commit", k) /\ SeqOK("commit", k)
        BY <1>1, <1>2, JobHere DEF StateInv, FitOK, LoanInv, SeqsOK
    <1>4. /\ k.seq \in (1..nextSeq) \ DOMAIN log /\ EventType(k.event)
          /\ k.event.type # "originated" => listed[k.event.loan] > 0
        BY <1>3 DEF Fit, JobOK, SeqOK
    <1>5. log' = [n \in DOMAIN log \cup {k.seq} |-> IF n = k.seq THEN k.event ELSE log[n]]
        BY <1>1, <1>2 DEF CommitEffect
    <1>6. PhaseGoes /\ FitStep(p)
        <2>1. Grows
            BY <1>1 DEF Grows
        <2>2. CASE Go(p, "apply", job[p])
            <3>1. PhaseGoes
                BY <2>2 DEF Go, PhaseGoes
            <3>2. Fit("apply", k, listed')
                BY <1>1, <1>3 DEF Fit, Serving, OnLoan
            <3>3. QED
                BY <1>2, <2>2, <3>1, <3>2, FitGo
        <2>3. CASE Return(p, FALSE)
            BY <1>1, <2>3, FitReturn, ReturnLeaves DEF Leaves
        <2>4. QED
            BY <1>1, <2>2, <2>3
    <1>7. \/ Lands(p, "apply", k) /\ lost' = lost
          \/ Lands(p, "idle", NoJob) /\ lost' = lost \cup {k.seq}
        BY <1>1, <1>2 DEF Go, Return, Lands
    <1>8. /\ \A n \in DOMAIN log : n # k.seq => (Applies(pc', job', n) <=> Applies(pc, job, n))
          /\ \/ lost' = lost /\ Applies(pc', job', k.seq)
             \/ lost' = lost \cup {k.seq}
        <2>1. \A n : Applies(pc, job, n) <=>
                       \E q \in Procs \ {p} : pc[q] = "apply" /\ job[q].seq = n
            BY <1>1 DEF Applies
        <2>2. QED
            BY <1>7, <2>1, AppliesAt
    <1>9. EventsOK' /\ ProjOK' /\ ProjectionFaithful'
        BY <1>1, <1>4, <1>5, <1>6, <1>8, ProjCommit DEF LoanInv, StateInv
    <1>10. BankOK' /\ BoundsOK'
        BY <1>1, BankSame, BoundsSame, UpsetBounds DEF StateInv
    <1>11. Grows
        BY <1>1 DEF Grows
    <1>12. FitOK'
        BY <1>6, <1>11, FitMove DEF StateInv
    <1>13. QED
        BY <1>9, <1>10, <1>12 DEF StateInv

LEMMA ApplyState ==
    ASSUME LoanInv, StateInv, NEW p \in Procs, ApplyAppended(p)
    PROVE  StateInv'
    <1>1. PICK k : k = job[p]
        OBVIOUS
    <1>2. /\ pc[p] = "apply" /\ Fold({k.seq}) /\ Go(p, "reread", k)
          /\ UNCHANGED <<log, nextSeq, lost, recv, deposit, paid, clock, requests, upsets>>
        BY <1>1 DEF ApplyAppended, events, books, world, history
    <1>3. k.seq \in DOMAIN log
        BY <1>1, <1>2 DEF LoanInv, SeqsOK, SeqOK
    <1>4. \A n : Applies(pc', job', n) <=> (Applies(pc, job, n) /\ n # k.seq)
        <2>1. \A q \in Procs \ {p} : pc[q] = "apply" => job[q].seq # k.seq
            BY <1>1, <1>2 DEF LoanInv, SeqsOK
        <2>2. Lands(p, "reread", k)
            BY <1>2 DEF Go, Lands
        <2>3. \A n : Applies(pc', job', n) <=>
                       \E q \in Procs \ {p} : pc[q] = "apply" /\ job[q].seq = n
            BY <2>2, AppliesAt
        <2>4. QED
            BY <1>1, <1>2, <2>1, <2>3 DEF Applies
    <1>5. phase \in {"seeding", "up"} /\ phase' # "start"
        BY <1>2 DEF LoanInv, PhaseOK, Go
    <1>6. ProjOK' /\ ProjectionFaithful'
        BY <1>2, <1>3, <1>4, <1>5, ProjApply DEF LoanInv, StateInv
    <1>7. Grows
        <2>1. PICK S : S = {k.seq}
            OBVIOUS
        <2>2. S \in SUBSET DOMAIN log /\ Fold(S)
            BY <1>2, <1>3, <2>1
        <2>3. ASSUME NEW l \in Loans
              PROVE  listed'[l] \in Nat /\ listed'[l] >= listed[l] /\ listed[l] \in Nat
            BY <2>2, FoldLists DEF LoanInv, StateInv, ProjOK
        <2>4. QED
            BY <2>3 DEF Grows
    <1>8. FitOK'
        BY <1>7, AppendFit, FitMove DEF StateInv
    <1>9. BankOK' /\ BoundsOK' /\ EventsOK'
        BY <1>2, BankSame, BoundsSame, EventsSame DEF StateInv
    <1>10. QED
        BY <1>6, <1>8, <1>9 DEF StateInv

LEMMA RestartState ==
    ASSUME LoanInv, StateInv, Crash \/ StartAgain
    PROVE  StateInv'
    <1>1. Restart /\ (Upset \/ upsets' = upsets)
        BY DEF Crash, StartAgain
    <1>2. /\ UNCHANGED <<recv, deposit, paid, requests>> /\ clock' = 0
          /\ pc' = [p \in Procs |-> "idle"] /\ job' = [p \in Procs |-> NoJob]
        BY <1>1 DEF Restart, books
    <1>3. EventsOK' /\ ProjOK' /\ ProjectionFaithful'
        BY <1>1, ProjRestart DEF LoanInv, StateInv
    <1>4. FitOK'
        BY <1>2, NoJobFit DEF FitOK
    <1>5. BankOK'
        BY <1>2, BankSame DEF StateInv
    <1>6. upsets \in 0..MaxUpsets /\ {MaxUpsets, MaxTime} \subseteq Nat /\ requests \in 0..MaxRequests
        BY LoanAssumption DEF StateInv, BoundsOK
    <1>7. BoundsOK'
        BY <1>1, <1>2, <1>6 DEF BoundsOK, Upset
    <1>8. QED
        BY <1>3, <1>4, <1>5, <1>7 DEF StateInv

-----------------------------------------------------------------------------
LEMMA InitState == Init => StateInv
    <1> SUFFICES ASSUME Init PROVE StateInv
        OBVIOUS
    <1>1. /\ log = << >> /\ DOMAIN log = {} /\ nextSeq = 0 /\ lastSeq = 0 /\ phase = "start"
          /\ st = [l \in Loans |-> Unknown] /\ listed = [l \in Loans |-> 0]
        BY DEF Init
    <1>2. FitOK
        BY NoJobFit DEF FitOK, Init
    <1>3. BankOK
        BY LoanAssumption DEF BankOK, Init
    <1>4. BoundsOK
        BY LoanAssumption DEF BoundsOK, Init
    <1>5. EventsOK
        BY <1>1 DEF EventsOK
    <1>6. Unknown \in StType /\ ~Unknown.known
        BY DEF Unknown, StType
    <1>7. ProjOK
        BY <1>1, <1>6 DEF ProjOK
    <1>8. ASSUME NEW l \in Loans PROVE Backed(l) /\ Current(l)
        BY <1>1 DEF Backed, Current, Unknown
    <1>9. QED
        BY <1>2, <1>3, <1>4, <1>5, <1>7, <1>8, FaithfulParts DEF StateInv

LEMMA StepState ==
    ASSUME LoanInv, TermsInv, StateInv, NEW p \in Procs, Step(p)
    PROVE  StateInv'
    BY PlainSilent, PostSilent, InsertState, SetState, RefreshState, CommitState, ApplyState
    DEF Step

LEMMA NextState ==
    ASSUME LoanInv, TermsInv, StateInv, [Next]_vars
    PROVE  StateInv'
    <1>1. ASSUME NEW p \in Procs, Seed(p) \/ Ask(p) \/ Step(p) \/ Fail(p)
          PROVE  StateInv'
        BY <1>1, SeedState, AskState, StepState, ErrorState, CommitState DEF Fail
    <1>2. CASE Read \/ EditRule \/ Crash \/ StartAgain
        BY <1>2, ReadState, EditState, RestartState
    <1>3. CASE UNCHANGED vars
        <2>1. /\ Silent
              /\ UNCHANGED <<recv, deposit, paid, clock, requests, upsets, phase, pc, job>>
            BY <1>3 DEF vars, events, books, proj, world, control, history, Silent
        <2>2. BankOK' /\ BoundsOK' /\ FitOK'
            BY <2>1, SilentParts, BankSame, BoundsSame, FitSame DEF StateInv
        <2>3. /\ UNCHANGED <<log, lost, st, listed, lastSeq>> /\ nextSeq' \in Nat
              /\ nextSeq' >= nextSeq /\ PhaseGoes /\ SameAppliers
            BY <2>1 DEF Silent, LoanInv, LogOK, PhaseGoes, SameAppliers
        <2>4. ProjOK' /\ ProjectionFaithful' /\ EventsOK'
            BY <2>3, ProjSame, EventsSame DEF LoanInv, StateInv
        <2>5. QED
            BY <2>2, <2>4 DEF StateInv
    <1>4. QED
        BY <1>1, <1>2, <1>3 DEF Next

(* StateInv holds in every state: it types the state and what goroutines   *)
(* carry, and says that a goroutine works on a loan the projection lists   *)
(* and that the log holds no event of a loan never originated (Get,        *)
(* refresh, applyAppended, Append).                                        *)
THEOREM StateInvariant == Spec => []StateInv
    <1>1. Init => TermsInv
        BY DEF Init, TermsInv, Judged
    <1>2. QED
        BY <1>1, InitInv, NextInv, NextTerms, InitState, NextState, PTL DEF Spec

(* Every variable of the loans keeps its type; the projection never claims *)
(* to have seen a number that has not been drawn, and no two goroutines    *)
(* append under one number (apply, Append).                                *)
THEOREM TypeCorrect == Spec => []TypeOK
    <1>1. LoanInv /\ StateInv => TypeOK
        BY DEF LoanInv, StateInv, TypeOK, LogOK, BooksOK, BankOK, BoundsOK, ProjOK, RulesOK,
               PhaseOK, SeqsOK, Installments
    <1>2. QED
        BY <1>1, LoanInvariant, StateInvariant, PTL

(* The projection says nothing that is not in the log, and of a loan that  *)
(* was folded in once everything up to lastSeq that is not on its way and  *)
(* whose Append did not fail, whatever refreshes come between an Append    *)
(* and its fold (refresh, applyAppended).                                  *)
THEOREM ProjectionIsFaithful == Spec => []ProjectionFaithful
    <1>1. StateInv => ProjectionFaithful
        BY DEF StateInv
    <1>2. QED
        BY <1>1, StateInvariant, PTL
=============================================================================
