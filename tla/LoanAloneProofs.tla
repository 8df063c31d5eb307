-------------------------- MODULE LoanAloneProofs ---------------------------
(***************************************************************************)
(* Proofs about loans that no two requests work on at a time: their books  *)
(* agree with their events, and an advance of the time services them all.  *)
(***************************************************************************)
EXTENDS LoanProofs

-----------------------------------------------------------------------------
(* A loan that no two requests worked on at a time.  A goroutine keeps to  *)
(* its request and its loan, an advance of the time aside, which works on  *)
(* all; what it appends is what it set out for.                            *)
Kind(at, j) ==
    /\ at = "idle" <=> j.op = "none"
    /\ at \in {"set", "list", "copy", "plan", "served"} => j.op = "advance"
    /\ j.then = "tick" => j.op = "advance"
    /\ at \in {"score", "price", "decide", "open", "disburse"} => j.then = "none"
    /\ at \in {"evaluate", "fee"} => j.then = "miss"
    /\ at \in {"owed", "writeoff"} => j.then = "default"
    /\ at = "repaid" => j.then = "settled"
    /\ at = "fee" => j.event.no = j.no
    /\ at \in {"insert", "commit", "apply"} =>
         /\ \/ j.then = "none" /\ j.event.type = "originated"
            \/ j.then = "miss" /\ j.event.type = "missed" /\ j.event.no = j.no
            \/ j.then = "default" /\ j.event.type = "defaulted"
            \/ j.then = "settled" /\ j.event.type = "repaid"
         /\ j.event.loan = j.loan

KindOK == \A p \in Procs : Kind(pc[p], job[p])

(* From job k to step s with job j.                                        *)
Goes(k, s, j) == \/ s = "idle" /\ j = NoJob
                 \/ /\ s # "idle" /\ j.op = k.op
                    /\ j.op = "advance" \/ j.loan = k.loan

Own(p) == /\ Goes(job[p], pc'[p], job'[p]) /\ Kind(pc'[p], job'[p])
          /\ \A q \in Procs : q # p => pc'[q] = pc[q] /\ job'[q] = job[q]

LEMMA LandsAt ==
    ASSUME LoanInv, NEW p \in Procs, NEW s, NEW j, Lands(p, s, j)
    PROVE  /\ pc'[p] = s /\ job'[p] = j
           /\ \A q \in Procs : q # p => pc'[q] = pc[q] /\ job'[q] = job[q]
    BY DEF LoanInv, JobsOK, Lands

LEMMA GoAt ==
    ASSUME LoanInv, NEW p \in Procs, NEW s, NEW j, Go(p, s, j)
    PROVE  /\ pc'[p] = s /\ job'[p] = j
           /\ \A q \in Procs : q # p => pc'[q] = pc[q] /\ job'[q] = job[q]
    BY LandsAt DEF Go, Lands

LEMMA ReturnAt ==
    ASSUME LoanInv, NEW p \in Procs, NEW ok, Return(p, ok)
    PROVE  /\ pc'[p] = "idle" /\ job'[p] = NoJob
           /\ \A q \in Procs : q # p => pc'[q] = pc[q] /\ job'[q] = job[q]
    BY LandsAt DEF Return, Lands

LEMMA NoJobKind == Kind("idle", NoJob) /\ NoJob.op = "none" /\ NoJob.loan = "none"
    BY DEF Kind, NoJob

LEMMA OwnGo ==
    ASSUME LoanInv, NEW p \in Procs, NEW s, NEW j, Go(p, s, j), Kind(s, j), s # "idle",
           j.op = job[p].op, j.op = "advance" \/ j.loan = job[p].loan
    PROVE  Own(p)
    BY GoAt DEF Own, Goes

LEMMA OwnReturn ==
    ASSUME LoanInv, NEW p \in Procs, NEW ok, Return(p, ok)
    PROVE  Own(p)
    BY ReturnAt, NoJobKind DEF Own, Goes

LEMMA OwnNextMiss ==
    ASSUME LoanInv, NEW p \in Procs, NEW j, j.op = "advance", job[p].op = "advance",
           NextMiss(p, j)
    PROVE  Own(p)
    <1> DEFINE i == [NoJob EXCEPT !.op = j.op, !.ticks = j.ticks, !.grace = j.grace,
                                  !.todo = j.todo]
               m == [i EXCEPT !.then = "miss", !.loan = Head(j.todo).loan]
               t == [i EXCEPT !.then = "tick", !.ticks = @ + 1]
    <1>1. Go(p, "get", m) \/ Go(p, "list", t) \/ Go(p, "served", i)
        BY DEF NextMiss
    <1>2. IsJob(i) /\ i.op = "advance" /\ i.then = "none"
        BY DEF IsJob, NoJob, Fields
    <1> HIDE DEF i
    <1>3. m.then = "miss" /\ m.op = "advance" /\ t.then = "tick" /\ t.op = "advance"
        BY <1>2 DEF IsJob, Fields
    <1> HIDE DEF m, t
    <1>4. Kind("get", m) /\ Kind("list", t) /\ Kind("served", i)
        BY <1>2, <1>3 DEF Kind
    <1>5. QED
        BY <1>1, <1>2, <1>3, <1>4, OwnGo

LEMMA OwnFinish ==
    ASSUME LoanInv, NEW p \in Procs, Finish(p)
    PROVE  Own(p)
    <1>1. PICK j : j = job[p]
        OBVIOUS
    <1>2. IsJob(j)
        BY <1>1, JobHere
    <1> DEFINE rest == IF Head(j.todo).left = 1 THEN Tail(j.todo)
                       ELSE [j.todo EXCEPT ![1].left = @ - 1]
               d == [j EXCEPT !.then = "default", !.default = FALSE, !.todo = Tail(@)]
               r == [j EXCEPT !.todo = rest]
    <1>3. \/ Return(p, TRUE)
          \/ j.op = "advance" /\ (NextMiss(p, j) \/ Go(p, "get", d) \/ NextMiss(p, r))
        BY <1>1 DEF Finish
    <1>4. d.op = j.op /\ d.then = "default" /\ r.op = j.op
        BY <1>2 DEF IsJob, Fields
    <1> HIDE DEF d, r
    <1>5. j.op = "advance" => Kind("get", d)
        BY <1>4 DEF Kind
    <1>6. QED
        BY <1>1, <1>3, <1>4, <1>5, OwnGo, OwnReturn, OwnNextMiss

LEMMA OwnNextInList ==
    ASSUME LoanInv, NEW p \in Procs, job[p].op = "advance", NEW j, IsJob(j), j.op = "advance",
           NextInList(p, j)
    PROVE  Own(p)
    <1>1. CASE Go(p, "plan", j)
        BY <1>1, OwnGo DEF Kind
    <1>2. CASE \E l \in Loans : Go(p, "copy", [j EXCEPT !.loan = l, !.list[l] = @ - 1])
        <2>1. PICK l \in Loans : Go(p, "copy", [j EXCEPT !.loan = l, !.list[l] = @ - 1])
            BY <1>2
        <2>2. PICK k : k = [j EXCEPT !.loan = l, !.list[l] = @ - 1]
            OBVIOUS
        <2>3. k.op = "advance"
            BY <2>2 DEF IsJob, Fields
        <2>4. Kind("copy", k)
            BY <2>3 DEF Kind
        <2>5. QED
            BY <2>1, <2>2, <2>3, <2>4, OwnGo
    <1>3. QED
        BY <1>1, <1>2 DEF NextInList

LEMMA OwnRepay ==
    ASSUME LoanInv, KindOK, NEW p \in Procs,
           \/ Get(p) \/ Txs(p) \/ RepayBuilt(p) \/ Funds(p) \/ Pay(p) \/ PayBuilt(p)
           \/ appendRepaidEvent(p)
    PROVE  Own(p)
    <1>1. PICK j : j = job[p]
        OBVIOUS
    <1>2. IsJob(j) /\ Kind(pc[p], j)
        BY <1>1, JobHere DEF KindOK
    <1>3. CASE Get(p)
        <2>1. PICK k : k = [j EXCEPT !.st = st'[j.loan]]
            OBVIOUS
        <2>2. pc[p] = "get" /\ (Go(p, "txs", k) \/ Return(p, FALSE))
            BY <1>1, <1>3, <2>1 DEF Get
        <2>3. k.op = j.op /\ k.then = j.then /\ k.loan = j.loan
            BY <1>2, <2>1 DEF IsJob, Fields
        <2>4. Kind("txs", k)
            BY <1>2, <2>2, <2>3 DEF Kind
        <2>5. QED
            BY <1>1, <2>2, <2>3, <2>4, OwnGo, OwnReturn
    <1>4. CASE Txs(p)
        <2>1. PICK k : k = [j EXCEPT !.paid = paid[j.loan]]
            OBVIOUS
        <2>2. pc[p] = "txs" /\ Go(p, "balance", k)
            BY <1>1, <1>4, <2>1 DEF Txs
        <2>3. k.op = j.op /\ k.then = j.then /\ k.loan = j.loan
            BY <1>2, <2>1 DEF IsJob, Fields
        <2>4. Kind("balance", k)
            BY <1>2, <2>2, <2>3 DEF Kind
        <2>5. QED
            BY <1>1, <2>2, <2>3, <2>4, OwnGo
    <1>5. CASE RepayBuilt(p)
        <2>1. PICK k : k = [j EXCEPT !.no = firstScheduled(j),
                              !.amount = IF @ > 0 THEN @
                                         ELSE Schedule(j.st.terms)[firstScheduled(j)].payment]
            OBVIOUS
        <2>2. pc[p] = "balance" /\ (Go(p, "funds", k) \/ Return(p, FALSE))
            BY <1>1, <1>5, <2>1 DEF RepayBuilt, Built
        <2>3. k.op = j.op /\ k.then = j.then /\ k.loan = j.loan
            BY <1>2, <2>1 DEF IsJob, Fields
        <2>4. Kind("funds", k)
            BY <1>2, <2>2, <2>3 DEF Kind
        <2>5. QED
            BY <1>1, <2>2, <2>3, <2>4, OwnGo, OwnReturn
    <1>6. CASE Funds(p)
        <2>1. pc[p] = "funds" /\ (Go(p, "pay", j) \/ Return(p, FALSE))
            BY <1>1, <1>6 DEF Funds
        <2>2. Kind("pay", j)
            BY <1>2, <2>1 DEF Kind
        <2>3. QED
            BY <1>1, <2>1, <2>2, OwnGo, OwnReturn
    <1>7. CASE Pay(p)
        <2>1. PICK k : k = [j EXCEPT !.then = "settled"]
            OBVIOUS
        <2>2. pc[p] = "pay" /\ Go(p, "get", k)
            BY <1>1, <1>7, <2>1 DEF Pay
        <2>3. k.op = j.op /\ k.then = "settled" /\ k.loan = j.loan
            BY <1>2, <2>1 DEF IsJob, Fields
        <2>4. Kind("get", k)
            BY <1>2, <2>2, <2>3 DEF Kind
        <2>5. QED
            BY <1>1, <2>2, <2>3, <2>4, OwnGo
    <1>8. CASE PayBuilt(p)
        <2>1. /\ pc[p] = "balance" /\ j.then = "settled"
              /\ (Go(p, "repaid", j) \/ Return(p, TRUE))
            BY <1>1, <1>8 DEF PayBuilt, Built
        <2>2. Kind("repaid", j)
            BY <1>2, <2>1 DEF Kind
        <2>3. QED
            BY <1>1, <2>1, <2>2, OwnGo, OwnReturn
    <1>9. CASE appendRepaidEvent(p)
        <2>1. PICK e : e = [type |-> "repaid", loan |-> j.loan]
            OBVIOUS
        <2>2. PICK k : k = [j EXCEPT !.event = e]
            OBVIOUS
        <2>3. pc[p] = "repaid" /\ (Go(p, "reread", j) \/ Go(p, "insert", k))
            BY <1>1, <1>9, <2>1, <2>2 DEF appendRepaidEvent
        <2>4. k.op = j.op /\ k.then = j.then /\ k.loan = j.loan /\ k.event = e
            BY <1>2, <2>2 DEF IsJob, Fields
        <2>5. e.type = "repaid" /\ e.loan = j.loan
            BY <2>1
        <2>6. Kind("reread", j) /\ Kind("insert", k)
            BY <1>2, <2>3, <2>4, <2>5 DEF Kind
        <2>7. QED
            BY <1>1, <2>3, <2>4, <2>6, OwnGo
    <1>10. QED
        BY <1>3, <1>4, <1>5, <1>6, <1>7, <1>8, <1>9

LEMMA OwnMiss ==
    ASSUME LoanInv, KindOK, NEW p \in Procs,
           MissBuilt(p) \/ Evaluate(p) \/ PostFee(p) \/ DefaultBuilt(p) \/ Owed(p) \/ WriteOff(p)
    PROVE  Own(p)
    <1>1. PICK j : j = job[p]
        OBVIOUS
    <1>2. IsJob(j) /\ Kind(pc[p], j) /\ JobOK(pc[p], j)
        BY <1>1, JobHere DEF KindOK
    <1>3. CASE MissBuilt(p)
        <2>1. PICK k : k = [j EXCEPT !.no = firstScheduled(j)]
            OBVIOUS
        <2>2. pc[p] = "balance" /\ j.then = "miss" /\ (Go(p, "evaluate", k) \/ Return(p, FALSE))
            BY <1>1, <1>3, <2>1 DEF MissBuilt, Built
        <2>3. k.op = j.op /\ k.then = j.then /\ k.loan = j.loan
            BY <1>2, <2>1 DEF IsJob, Fields
        <2>4. Kind("evaluate", k)
            BY <1>2, <2>2, <2>3 DEF Kind
        <2>5. QED
            BY <1>1, <2>2, <2>3, <2>4, OwnGo, OwnReturn
    <1>4. CASE Evaluate(p)
        <2>1. PICK d : d = EvaluateServicing(rule.servicing,
                                IF clock < Due(j.st, j.no) THEN 0
                                ELSE (clock - Due(j.st, j.no)) \div Day,
                                Cardinality(j.st.missed))
            OBVIOUS
        <2>2. PICK e : e = [type |-> "missed", loan |-> j.loan, no |-> j.no, fee |-> d.fee]
            OBVIOUS
        <2>3. PICK k : k = [j EXCEPT !.default = d.should_default, !.event = e]
            OBVIOUS
        <2>4. pc[p] = "evaluate" /\ \E s \in {"fee", "insert"} : Go(p, s, k)
            BY <1>1, <1>4, <2>1, <2>2, <2>3 DEF Evaluate
        <2>5. k.op = j.op /\ k.then = j.then /\ k.loan = j.loan /\ k.no = j.no /\ k.event = e
            BY <1>2, <2>3 DEF IsJob, Fields
        <2>6. e.type = "missed" /\ e.loan = j.loan /\ e.no = j.no
            BY <2>2
        <2>7. Kind("fee", k) /\ Kind("insert", k)
            BY <1>2, <2>4, <2>5, <2>6 DEF Kind
        <2>8. QED
            BY <1>1, <2>4, <2>5, <2>7, OwnGo
    <1>5. CASE PostFee(p)
        <2>1. pc[p] = "fee" /\ Go(p, "insert", j)
            BY <1>1, <1>5 DEF PostFee
        <2>2. Kind("insert", j)
            BY <1>2, <2>1 DEF Kind, JobOK
        <2>3. QED
            BY <1>1, <2>1, <2>2, OwnGo
    <1>6. CASE DefaultBuilt(p)
        <2>1. Status(j.st, recv[j.loan]) \in {"defaulted", "repaid", "active"}
            BY DEF Status
        <2>2. /\ pc[p] = "balance" /\ j.then = "default"
              /\ Finish(p) \/ Return(p, FALSE) \/ Go(p, "owed", j)
            BY <1>1, <1>6, <2>1 DEF DefaultBuilt, Built
        <2>3. Kind("owed", j)
            BY <1>2, <2>2 DEF Kind
        <2>4. QED
            BY <1>1, <2>2, <2>3, OwnGo, OwnReturn, OwnFinish
    <1>7. CASE Owed(p)
        <2>1. PICK e : e = [type |-> "defaulted", loan |-> j.loan]
            OBVIOUS
        <2>2. PICK k : k = [j EXCEPT !.amount = recv[j.loan], !.event = e]
            OBVIOUS
        <2>3. pc[p] = "owed" /\ \E s \in {"writeoff", "insert"} : Go(p, s, k)
            BY <1>1, <1>7, <2>1, <2>2 DEF Owed
        <2>4. k.op = j.op /\ k.then = j.then /\ k.loan = j.loan /\ k.event = e
            BY <1>2, <2>2 DEF IsJob, Fields
        <2>5. e.type = "defaulted" /\ e.loan = j.loan
            BY <2>1
        <2>6. Kind("writeoff", k) /\ Kind("insert", k)
            BY <1>2, <2>3, <2>4, <2>5 DEF Kind
        <2>7. QED
            BY <1>1, <2>3, <2>4, <2>6, OwnGo
    <1>8. CASE WriteOff(p)
        <2>1. pc[p] = "writeoff" /\ Go(p, "insert", j)
            BY <1>1, <1>8 DEF WriteOff
        <2>2. Kind("insert", j)
            BY <1>2, <2>1 DEF Kind, JobOK
        <2>3. QED
            BY <1>1, <2>1, <2>2, OwnGo
    <1>9. QED
        BY <1>3, <1>4, <1>5, <1>6, <1>7, <1>8

LEMMA OwnLend ==
    ASSUME LoanInv, KindOK, NEW p \in Procs,
           Score(p) \/ Price(p) \/ OpenReceivable(p) \/ Disburse(p)
    PROVE  Own(p)
    <1>1. PICK j : j = job[p]
        OBVIOUS
    <1>2. IsJob(j) /\ Kind(pc[p], j)
        BY <1>1, JobHere DEF KindOK
    <1>3. CASE Score(p)
        <2>1. PICK k : k = [j EXCEPT !.score = EvaluateRiskScore(rule.scoring, j.ask.applicant).score]
            OBVIOUS
        <2>2. pc[p] = "score" /\ (Go(p, "price", k) \/ Return(p, FALSE))
            BY <1>1, <1>3, <2>1 DEF Score
        <2>3. k.op = j.op /\ k.then = j.then /\ k.loan = j.loan
            BY <1>2, <2>1 DEF IsJob, Fields
        <2>4. Kind("price", k)
            BY <1>2, <2>2, <2>3 DEF Kind
        <2>5. QED
            BY <1>1, <2>2, <2>3, <2>4, OwnGo, OwnReturn
    <1>4. CASE Price(p)
        <2>1. PICK c : c = rule.underwriting
            OBVIOUS
        <2>2. PICK t : t = [principal |-> j.ask.principal, term |-> j.ask.term,
                            rate |-> Pricing(c, j.score).rate]
            OBVIOUS
        <2>3. PICK k : k = [j EXCEPT !.priced = c, !.terms = t]
            OBVIOUS
        <2>4. pc[p] = "price" /\ (Go(p, "decide", k) \/ Return(p, FALSE))
            BY <1>1, <1>4, <2>1, <2>2, <2>3 DEF Price
        <2>5. k.op = j.op /\ k.then = j.then /\ k.loan = j.loan
            BY <1>2, <2>3 DEF IsJob, Fields
        <2>6. Kind("decide", k)
            BY <1>2, <2>4, <2>5 DEF Kind
        <2>7. QED
            BY <1>1, <2>4, <2>5, <2>6, OwnGo, OwnReturn
    <1>5. CASE OpenReceivable(p)
        <2>1. pc[p] = "open" /\ Go(p, "disburse", j)
            BY <1>1, <1>5 DEF OpenReceivable
        <2>2. Kind("disburse", j)
            BY <1>2, <2>1 DEF Kind
        <2>3. QED
            BY <1>1, <2>1, <2>2, OwnGo
    <1>6. CASE Disburse(p)
        <2>1. PICK e : e = [type |-> "originated", loan |-> j.loan, terms |-> j.terms,
                            at |-> clock]
            OBVIOUS
        <2>2. PICK k : k = [j EXCEPT !.event = e]
            OBVIOUS
        <2>3. pc[p] = "disburse" /\ Go(p, "insert", k)
            BY <1>1, <1>6, <2>1, <2>2 DEF Disburse
        <2>4. k.op = j.op /\ k.then = j.then /\ k.loan = j.loan /\ k.event = e
            BY <1>2, <2>2 DEF IsJob, Fields
        <2>5. e.type = "originated" /\ e.loan = j.loan
            BY <2>1
        <2>6. Kind("insert", k)
            BY <1>2, <2>3, <2>4, <2>5 DEF Kind
        <2>7. QED
            BY <1>1, <2>3, <2>4, <2>6, OwnGo
    <1>7. QED
        BY <1>3, <1>4, <1>5, <1>6

LEMMA OwnAppend ==
    ASSUME LoanInv, KindOK, NEW p \in Procs,
           Insert(p) \/ Commit(p) \/ ApplyAppended(p) \/ Reread(p)
    PROVE  Own(p)
    <1>1. PICK j : j = job[p]
        OBVIOUS
    <1>2. IsJob(j) /\ Kind(pc[p], j)
        BY <1>1, JobHere DEF KindOK
    <1>3. CASE Insert(p)
        <2>1. PICK k : k = [j EXCEPT !.seq = nextSeq + 1]
            OBVIOUS
        <2>2. pc[p] = "insert" /\ Go(p, "commit", k)
            BY <1>1, <1>3, <2>1 DEF Insert
        <2>3. /\ k.op = j.op /\ k.then = j.then /\ k.loan = j.loan /\ k.no = j.no
              /\ k.event = j.event
            BY <1>2, <2>1 DEF IsJob, Fields
        <2>4. Kind("commit", k)
            BY <1>2, <2>2, <2>3 DEF Kind
        <2>5. QED
            BY <1>1, <2>2, <2>3, <2>4, OwnGo
    <1>4. CASE Commit(p)
        <2>1. pc[p] = "commit" /\ Go(p, "apply", j)
            BY <1>1, <1>4 DEF Commit
        <2>2. Kind("apply", j)
            BY <1>2, <2>1 DEF Kind
        <2>3. QED
            BY <1>1, <2>1, <2>2, OwnGo
    <1>5. CASE ApplyAppended(p)
        <2>1. pc[p] = "apply" /\ Go(p, "reread", j)
            BY <1>1, <1>5 DEF ApplyAppended
        <2>2. Kind("reread", j)
            BY <1>2, <2>1 DEF Kind
        <2>3. QED
            BY <1>1, <2>1, <2>2, OwnGo
    <1>6. CASE Reread(p)
        BY <1>6, OwnFinish DEF Reread
    <1>7. QED
        BY <1>3, <1>4, <1>5, <1>6

LEMMA OwnAdvance ==
    ASSUME LoanInv, KindOK, NEW p \in Procs,
           SetTo(p) \/ List(p) \/ Copy(p) \/ TickBuilt(p) \/ Plan(p) \/ Served(p)
    PROVE  Own(p)
    <1>1. PICK j : j = job[p]
        OBVIOUS
    <1>2. IsJob(j) /\ Kind(pc[p], j)
        BY <1>1, JobHere DEF KindOK
    <1>3. j.op = "advance"
        BY <1>1, <1>2 DEF Kind, SetTo, List, Copy, TickBuilt, Plan, Served, Built
    <1>4. CASE SetTo(p)
        <2>1. PICK k : k = [j EXCEPT !.then = "tick", !.ticks = 1]
            OBVIOUS
        <2>2. Go(p, "list", k) \/ Return(p, FALSE)
            BY <1>1, <1>4, <2>1 DEF SetTo
        <2>3. k.op = j.op /\ k.then = "tick"
            BY <1>2, <2>1 DEF IsJob, Fields
        <2>4. Kind("list", k)
            BY <1>3, <2>3 DEF Kind
        <2>5. QED
            BY <1>1, <1>3, <2>2, <2>3, <2>4, OwnGo, OwnReturn
    <1>5. CASE List(p)
        <2>1. PICK k : k = [j EXCEPT !.list = listed', !.views = << >>]
            OBVIOUS
        <2>2. NextInList(p, k)
            BY <1>1, <1>5, <2>1 DEF List
        <2>3. k.op = j.op /\ IsJob(k)
            BY <1>2, <2>1 DEF IsJob, Fields
        <2>4. QED
            BY <1>1, <1>3, <2>2, <2>3, OwnNextInList
    <1>6. CASE Copy(p)
        <2>1. PICK k : k = [j EXCEPT !.st = st[j.loan]]
            OBVIOUS
        <2>2. pc[p] = "copy" /\ Go(p, "txs", k)
            BY <1>1, <1>6, <2>1 DEF Copy
        <2>3. k.op = j.op /\ k.then = j.then
            BY <1>2, <2>1 DEF IsJob, Fields
        <2>4. Kind("txs", k)
            BY <1>2, <1>3, <2>3 DEF Kind
        <2>5. QED
            BY <1>1, <1>3, <2>2, <2>3, <2>4, OwnGo
    <1>7. CASE TickBuilt(p)
        <2>1. PICK v : v = [loan |-> j.loan, st |-> j.st,
                 scheduled |-> IF Status(j.st, recv[j.loan]) = "active"
                               THEN Scheduled(j.st, j.paid) ELSE {}]
            OBVIOUS
        <2>2. PICK k : k = [j EXCEPT !.views = Append(@, v)]
            OBVIOUS
        <2>3. NextInList(p, k)
            BY <1>1, <1>7, <2>1, <2>2 DEF TickBuilt
        <2>4. k.op = j.op /\ IsJob(k)
            BY <1>2, <2>2 DEF IsJob, Fields
        <2>5. QED
            BY <1>1, <1>3, <2>3, <2>4, OwnNextInList
    <1>8. CASE Plan(p)
        <2>1. PICK g : g = rule.servicing.grace
            OBVIOUS
        <2>2. PICK k : k = [j EXCEPT !.todo = Calls(j.views, g), !.grace = g]
            OBVIOUS
        <2>3. PICK i : i = [NoJob EXCEPT !.op = j.op, !.grace = g]
            OBVIOUS
        <2>4. NextMiss(p, k) \/ Go(p, "served", i)
            BY <1>1, <1>8, <2>1, <2>2, <2>3 DEF Plan
        <2>5. k.op = j.op
            BY <1>2, <2>2 DEF IsJob, Fields
        <2>6. i.op = j.op /\ i.then = "none"
            BY <2>3 DEF NoJob
        <2>7. Kind("served", i)
            BY <1>3, <2>6 DEF Kind
        <2>8. QED
            BY <1>1, <1>3, <2>4, <2>5, <2>6, <2>7, OwnGo, OwnNextMiss
    <1>9. CASE Served(p)
        BY <1>9, OwnReturn DEF Served
    <1>10. QED
        BY <1>4, <1>5, <1>6, <1>7, <1>8, <1>9

LEMMA OwnStep ==
    ASSUME LoanInv, KindOK, NEW p \in Procs, Step(p), ~Decide(p)
    PROVE  Own(p)
    BY OwnRepay, OwnMiss, OwnLend, OwnAppend, OwnAdvance DEF Step

-----------------------------------------------------------------------------
(* Goroutines with job j work on the loan l.                               *)
Holds(j, l) == j.op # "none" /\ (j.op = "advance" \/ j.loan = l)

AloneOK == \A l \in Loans \ raced : \A p, q \in Procs :
             Holds(job[p], l) /\ Holds(job[q], l) => p = q

LEMMA WorksHolds ==
    ASSUME NEW q, NEW l \in Loans
    PROVE  l \in Works(q) <=> Holds(job[q], l)
    BY DEF Works, Holds

LEMMA AloneMove ==
    ASSUME KindOK, AloneOK, NEW p \in Procs, raced \subseteq raced', Kind(pc'[p], job'[p]),
           \A q \in Procs : q # p => pc'[q] = pc[q] /\ job'[q] = job[q],
           \A l \in Loans \ raced' : Holds(job'[p], l) =>
             Holds(job[p], l) \/ \A q \in Procs : q # p => ~Holds(job[q], l)
    PROVE  KindOK' /\ AloneOK'
    <1>1. KindOK'
        BY DEF KindOK
    <1>2. SUFFICES ASSUME NEW l \in Loans \ raced', NEW q \in Procs, NEW r \in Procs,
                          Holds(job'[q], l), Holds(job'[r], l)
                   PROVE  q = r
        BY <1>1 DEF AloneOK
    <1>3. l \in Loans \ raced
        BY <1>2
    <1>4. CASE q # p /\ r # p
        BY <1>2, <1>3, <1>4 DEF AloneOK
    <1>5. CASE q = p /\ r # p
        <2>1. Holds(job'[p], l) /\ Holds(job[r], l)
            BY <1>2, <1>5
        <2>2. Holds(job[p], l)
            BY <1>2, <1>5, <2>1
        <2>3. QED
            BY <1>3, <1>5, <2>1, <2>2 DEF AloneOK
    <1>6. CASE q # p /\ r = p
        <2>1. Holds(job'[p], l) /\ Holds(job[q], l)
            BY <1>2, <1>6
        <2>2. Holds(job[p], l)
            BY <1>2, <1>6, <2>1
        <2>3. QED
            BY <1>3, <1>6, <2>1, <2>2 DEF AloneOK
    <1>7. QED
        BY <1>4, <1>5, <1>6

LEMMA AloneStep ==
    ASSUME KindOK, AloneOK, NEW p \in Procs, Own(p), raced' = raced
    PROVE  KindOK' /\ AloneOK'
    <1>1. NoJob.op = "none"
        BY NoJobKind
    <1>2. \A l \in Loans : Holds(job'[p], l) => Holds(job[p], l)
        BY <1>1 DEF Own, Goes, Holds
    <1>3. QED
        BY <1>2, AloneMove DEF Own

LEMMA AloneBegin ==
    ASSUME LoanInv, KindOK, AloneOK, NEW p \in Procs, NEW s, NEW j, NEW S, Begin(p, s, j, S),
           Kind(s, j), \A l \in Loans : Holds(j, l) => l \in S
    PROVE  KindOK' /\ AloneOK'
    <1>1. /\ Go(p, s, j)
          /\ raced' = raced \cup (S \cap UNION {Works(q) : q \in Procs \ {p}})
        BY DEF Begin
    <1>2. /\ pc'[p] = s /\ job'[p] = j
          /\ \A q \in Procs : q # p => pc'[q] = pc[q] /\ job'[q] = job[q]
        BY <1>1, GoAt
    <1>3. ASSUME NEW l \in Loans \ raced', Holds(j, l), NEW q \in Procs, q # p
          PROVE  ~Holds(job[q], l)
        <2>1. l \in S /\ l \notin UNION {Works(r) : r \in Procs \ {p}}
            BY <1>1, <1>3
        <2>2. l \notin Works(q)
            BY <1>3, <2>1
        <2>3. QED
            BY <1>3, <2>2, WorksHolds
    <1>4. raced \subseteq raced'
        BY <1>1
    <1> QED
        BY <1>2, <1>3, <1>4, AloneMove

LEMMA AloneAsk ==
    ASSUME LoanInv, KindOK, AloneOK, NEW p \in Procs, Ask(p)
    PROVE  KindOK' /\ AloneOK'
    <1>1. "none" \notin Loans
        BY LoanAssumption
    <1>2. CASE Underwrite(p) \/ Originate(p)
        <2>1. PICK o \in {"underwrite", "originate"}, x \in Applications :
                Begin(p, "score", [NoJob EXCEPT !.op = o, !.ask = x], {})
            BY <1>2 DEF Underwrite, Originate
        <2>2. PICK j : j = [NoJob EXCEPT !.op = o, !.ask = x]
            OBVIOUS
        <2>3. j.op = o /\ j.then = "none" /\ j.loan = "none"
            BY <2>2 DEF NoJob
        <2>4. Kind("score", j) /\ \A l \in Loans : ~Holds(j, l)
            BY <1>1, <2>3 DEF Kind, Holds
        <2>5. Begin(p, "score", j, {})
            BY <2>1, <2>2
        <2>6. QED
            BY <2>4, <2>5, AloneBegin
    <1>3. CASE Repay(p)
        <2>1. PICK l \in opened, a \in Amounts :
                Begin(p, "get", [NoJob EXCEPT !.op = "repay", !.then = "repay",
                                              !.loan = l, !.amount = a], {l})
            BY <1>3 DEF Repay
        <2>2. PICK j : j = [NoJob EXCEPT !.op = "repay", !.then = "repay",
                                         !.loan = l, !.amount = a]
            OBVIOUS
        <2>3. j.op = "repay" /\ j.then = "repay" /\ j.loan = l
            BY <2>2 DEF NoJob
        <2>4. Kind("get", j) /\ \A m \in Loans : Holds(j, m) => m \in {l}
            BY <2>3 DEF Kind, Holds
        <2>5. Begin(p, "get", j, {l})
            BY <2>1, <2>2
        <2>6. QED
            BY <2>4, <2>5, AloneBegin
    <1>4. CASE MissPayment(p) \/ Default(p)
        <2>1. PICK o \in {"miss", "default"}, l \in opened :
                Begin(p, "get", [NoJob EXCEPT !.op = o, !.then = o, !.loan = l], {l})
            BY <1>4 DEF MissPayment, Default
        <2>2. PICK j : j = [NoJob EXCEPT !.op = o, !.then = o, !.loan = l]
            OBVIOUS
        <2>3. j.op = o /\ j.then = o /\ j.loan = l
            BY <2>2 DEF NoJob
        <2>4. Kind("get", j) /\ \A m \in Loans : Holds(j, m) => m \in {l}
            BY <2>3 DEF Kind, Holds
        <2>5. Begin(p, "get", j, {l})
            BY <2>1, <2>2
        <2>6. QED
            BY <2>4, <2>5, AloneBegin
    <1>5. CASE AdvanceTime(p)
        <2>1. PICK d \in Jumps :
                Begin(p, "set", [NoJob EXCEPT !.op = "advance", !.target = clock + d], Loans)
            BY <1>5 DEF AdvanceTime
        <2>2. PICK j : j = [NoJob EXCEPT !.op = "advance", !.target = clock + d]
            OBVIOUS
        <2>3. j.op = "advance" /\ j.then = "none"
            BY <2>2 DEF NoJob
        <2>4. Kind("set", j)
            BY <2>3 DEF Kind
        <2>5. Begin(p, "set", j, Loans)
            BY <2>1, <2>2
        <2>6. QED
            BY <2>4, <2>5, AloneBegin
    <1>6. QED
        BY <1>2, <1>3, <1>4, <1>5 DEF Ask

LEMMA DecideAt ==
    ASSUME LoanInv, KindOK, NEW p \in Procs, Decide(p)
    PROVE  /\ pc[p] = "decide"
           /\ UNCHANGED <<log, nextSeq, opened, lent, recv, paid, fees, deposit, st, listed,
                          lastSeq, clock, rule, lost>>
           /\ \/ Own(p) /\ pc'[p] = "idle" /\ raced' = raced
              \/ \E l \in Loans :
                   /\ Fresh(l) /\ pc'[p] = "open" /\ job'[p].loan = l
                   /\ job'[p].op = job[p].op /\ job'[p].then = "none"
                   /\ raced' = raced \cup ({l} \cap UNION {Works(q) : q \in Procs \ {p}})
                   /\ \A q \in Procs : q # p => pc'[q] = pc[q] /\ job'[q] = job[q]
    <1>1. PICK j : j = job[p]
        OBVIOUS
    <1>2. PICK x : x = [applicant |-> j.ask.applicant, score |-> j.score,
              principal |-> j.terms.principal, term |-> j.terms.term,
              installment |-> MonthlyPayment(j.terms.principal, j.terms.rate, j.terms.term)]
        OBVIOUS
    <1>3. PICK up, d :
            /\ up \in BOOLEAN /\ d = EvaluateUnderwriting(rule.underwriting, x, up)
            /\ \/ (\E ok : Return(p, ok)) /\ raced' = raced
               \/ \E l \in Loans :
                    /\ Fresh(l)
                    /\ Go(p, "open", [j EXCEPT !.loan = l, !.terms = Agreed(j.terms, d.tier),
                                               !.decided = rule.underwriting])
                    /\ raced' = raced \cup ({l} \cap UNION {Works(q) : q \in Procs \ {p}})
        BY <1>1, <1>2 DEF Decide
    <1>4. /\ pc[p] = "decide"
          /\ UNCHANGED <<log, nextSeq, opened, lent, recv, paid, fees, deposit, st, listed,
                         lastSeq, clock, rule, lost>>
        BY DEF Decide, events, books, proj, world
    <1>5. IsJob(j) /\ Kind("decide", j)
        BY <1>1, <1>4, JobHere DEF KindOK
    <1>6. CASE (\E ok : Return(p, ok)) /\ raced' = raced
        BY <1>4, <1>6, OwnReturn, ReturnAt
    <1>7. CASE \E l \in Loans :
                    /\ Fresh(l)
                    /\ Go(p, "open", [j EXCEPT !.loan = l, !.terms = Agreed(j.terms, d.tier),
                                               !.decided = rule.underwriting])
                    /\ raced' = raced \cup ({l} \cap UNION {Works(q) : q \in Procs \ {p}})
        <2>1. PICK l \in Loans :
                    /\ Fresh(l)
                    /\ Go(p, "open", [j EXCEPT !.loan = l, !.terms = Agreed(j.terms, d.tier),
                                               !.decided = rule.underwriting])
                    /\ raced' = raced \cup ({l} \cap UNION {Works(q) : q \in Procs \ {p}})
            BY <1>7
        <2>2. PICK k : k = [j EXCEPT !.loan = l, !.terms = Agreed(j.terms, d.tier),
                                     !.decided = rule.underwriting]
            OBVIOUS
        <2>3. k.loan = l /\ k.op = j.op /\ k.then = j.then
            BY <1>5, <2>2 DEF IsJob, Fields
        <2>4. Go(p, "open", k)
            BY <2>1, <2>2
        <2>5. /\ pc'[p] = "open" /\ job'[p] = k
              /\ \A q \in Procs : q # p => pc'[q] = pc[q] /\ job'[q] = job[q]
            BY <2>4, GoAt
        <2>6. k.then = "none"
            BY <1>5, <2>3 DEF Kind
        <2>7. QED
            BY <1>1, <1>4, <2>1, <2>3, <2>5, <2>6
    <1>8. QED
        BY <1>3, <1>6, <1>7

LEMMA AloneDecide ==
    ASSUME LoanInv, StateInv, KindOK, AloneOK, NEW p \in Procs, Decide(p)
    PROVE  KindOK' /\ AloneOK'
    <1>1. CASE Own(p) /\ raced' = raced
        BY <1>1, AloneStep
    <1>2. CASE \E l \in Loans :
                   /\ Fresh(l) /\ pc'[p] = "open" /\ job'[p].loan = l
                   /\ job'[p].op = job[p].op /\ job'[p].then = "none"
                   /\ raced' = raced \cup ({l} \cap UNION {Works(q) : q \in Procs \ {p}})
                   /\ \A q \in Procs : q # p => pc'[q] = pc[q] /\ job'[q] = job[q]
        <2>1. PICK l \in Loans :
                   /\ pc'[p] = "open" /\ job'[p].loan = l
                   /\ job'[p].op = job[p].op /\ job'[p].then = "none"
                   /\ raced' = raced \cup ({l} \cap UNION {Works(q) : q \in Procs \ {p}})
                   /\ \A q \in Procs : q # p => pc'[q] = pc[q] /\ job'[q] = job[q]
            BY <1>2
        <2>2. pc[p] = "decide"
            BY DecideAt
        <2>3. job[p].op # "advance" /\ job[p].op # "none"
            BY <2>2 DEF StateInv, FitOK, Fit, Serving, KindOK, Kind
        <2>4. Kind(pc'[p], job'[p])
            BY <2>1, <2>3 DEF Kind
        <2>5. ASSUME NEW m \in Loans \ raced', Holds(job'[p], m), NEW q \in Procs, q # p
              PROVE  ~Holds(job[q], m)
            <3>1. m = l
                BY <2>1, <2>3, <2>5 DEF Holds
            <3>2. l \notin UNION {Works(r) : r \in Procs \ {p}}
                BY <2>1, <2>5, <3>1
            <3>3. l \notin Works(q)
                BY <2>5, <3>2
            <3>4. QED
                BY <3>1, <3>3, WorksHolds
        <2>6. raced \subseteq raced'
            BY <2>1
        <2>7. QED
            BY <2>1, <2>4, <2>5, <2>6, AloneMove
    <1>3. QED
        BY <1>1, <1>2, DecideAt

LEMMA AloneSeed ==
    ASSUME LoanInv, KindOK, AloneOK, NEW p \in Procs, Seed(p)
    PROVE  KindOK' /\ AloneOK'
    <1>1. /\ raced' = raced
          /\ UNCHANGED <<pc, job>> \/ Lands(p, "score", [NoJob EXCEPT !.op = "seed"])
        BY DEF Seed, Lands, history
    <1>2. CASE UNCHANGED <<pc, job>>
        BY <1>1, <1>2 DEF KindOK, AloneOK
    <1>3. CASE Lands(p, "score", [NoJob EXCEPT !.op = "seed"])
        <2>1. PICK j : j = [NoJob EXCEPT !.op = "seed"]
            OBVIOUS
        <2>2. j.op = "seed" /\ j.then = "none" /\ j.loan = "none"
            BY <2>1 DEF NoJob
        <2>3. Kind("score", j) /\ \A l \in Loans : ~Holds(j, l)
            BY <2>2, LoanAssumption DEF Kind, Holds
        <2>4. Lands(p, "score", j)
            BY <1>3, <2>1
        <2>5. /\ pc'[p] = "score" /\ job'[p] = j
              /\ \A q \in Procs : q # p => pc'[q] = pc[q] /\ job'[q] = job[q]
            BY <2>4, LandsAt
        <2>6. QED
            BY <1>1, <2>3, <2>5, AloneMove
    <1>4. QED
        BY <1>1, <1>2, <1>3

LEMMA AloneNext ==
    ASSUME LoanInv, StateInv, KindOK, AloneOK, [Next]_vars
    PROVE  KindOK' /\ AloneOK'
    <1>1. ASSUME NEW p \in Procs, Step(p), ~Decide(p)
          PROVE  raced' = raced
        BY <1>1 DEF Step, Get, Txs, RepayBuilt, Funds, Pay, PayBuilt, appendRepaidEvent, MissBuilt,
                    Evaluate, PostFee, DefaultBuilt, Owed, WriteOff, Score, Price, OpenReceivable,
                    Disburse, Insert, Commit, ApplyAppended, Reread, SetTo, List, Copy, TickBuilt,
                    Plan, Served, Built, history
    <1>2. ASSUME NEW p \in Procs, Fail(p)
          PROVE  raced' = raced /\ \E ok : Return(p, ok)
        BY <1>2 DEF Fail, StoreError, PostLost, CommitLost, history
    <1>3. ASSUME NEW p \in Procs, Seed(p) \/ Ask(p) \/ Step(p) \/ Fail(p)
          PROVE  KindOK' /\ AloneOK'
        BY <1>1, <1>2, <1>3, AloneSeed, AloneAsk, AloneDecide, AloneStep, OwnStep, OwnReturn
    <1>4. CASE Crash \/ StartAgain
        <2>1. /\ pc' = [p \in Procs |-> "idle"] /\ job' = [p \in Procs |-> NoJob]
              /\ raced' = raced
            BY <1>4 DEF Crash, StartAgain, Restart, history
        <2>2. KindOK'
            BY <2>1, NoJobKind DEF KindOK
        <2>3. AloneOK'
            BY <2>1, NoJobKind DEF AloneOK, Holds
        <2>4. QED
            BY <2>2, <2>3
    <1>5. CASE Read \/ EditRule \/ UNCHANGED vars
        <2>1. UNCHANGED <<pc, job, raced>>
            BY <1>5 DEF Read, EditRule, vars, control, history
        <2>2. QED
            BY <2>1 DEF KindOK, AloneOK
    <1>6. QED
        BY <1>3, <1>4, <1>5 DEF Next

-----------------------------------------------------------------------------
(* A loan is originated once and listed no sooner than its origination has *)
(* been passed; an origination still to be folded in by its goroutine is   *)
(* all there is of a loan nobody else worked on, and the projection has    *)
(* every installment that such a loan missed, however often it is listed.  *)
BornOK == \A l \in Loans : \A n \in DOMAIN log : Originates(log[n], l) =>
            /\ \A m \in DOMAIN log : Originates(log[m], l) => m = n
            /\ listed[l] > 0 => n <= lastSeq

Waits(j) == /\ j.seq \in DOMAIN log /\ log[j.seq] = j.event
            /\ j.loan \in Loans \ raced /\ j.event.type = "originated" =>
                 \A n \in DOMAIN log : log[n].loan = j.loan => n = j.seq

WaitOK == \A p \in Procs : pc[p] = "apply" => Waits(job[p])

SeenOK == \A l \in Loans \ raced : \A n \in DOMAIN log :
            (Seen(n) /\ log[n].loan = l /\ log[n].type = "missed") => log[n].no \in st[l].missed

(* The same goroutines are about to fold the same events in.               *)
StillWait == \A p \in Procs : pc'[p] = "apply" => pc[p] = "apply" /\ job'[p] = job[p]

LEMMA SeenSame ==
    ASSUME BornOK, WaitOK, SeenOK, raced \subseteq raced', SameAppliers, StillWait,
           UNCHANGED <<log, lost, st, listed, lastSeq>>
    PROVE  BornOK' /\ WaitOK' /\ SeenOK'
    <1>1. BornOK'
        BY DEF BornOK
    <1>2. WaitOK'
        BY DEF WaitOK, Waits, StillWait
    <1>3. ASSUME NEW n PROVE Seen(n)' <=> Seen(n)
        BY DEF Seen, SameAppliers
    <1>4. SeenOK'
        BY <1>3 DEF SeenOK
    <1>5. QED
        BY <1>1, <1>2, <1>4

LEMMA RefreshSees ==
    ASSUME LogOK, ProjOK, refresh
    PROVE  \A n \in DOMAIN log : n <= lastSeq'
    <1>1. PICK S : S = {n \in DOMAIN log : n > lastSeq}
        OBVIOUS
    <1>2. S \in SUBSET DOMAIN log /\ Fold(S)
        BY <1>1 DEF refresh
    <1>3. /\ lastSeq' \in 0..nextSeq /\ lastSeq' >= lastSeq
          /\ \A n \in S : n <= lastSeq'
        BY <1>2, FoldSeq
    <1>4. \A n \in DOMAIN log : n \in Int /\ (n <= lastSeq \/ n \in S)
        BY <1>1 DEF LogOK, ProjOK
    <1>5. lastSeq \in Int /\ lastSeq' \in Int
        BY <1>3 DEF ProjOK, LogOK
    <1>6. QED
        BY <1>3, <1>4, <1>5

(* A refresh begins no loan afresh that is listed.                         *)
LEMMA RefreshBegins ==
    ASSUME LogOK, ProjOK, BornOK, NEW l \in Loans, listed[l] > 0
    PROVE  Noted({n \in DOMAIN log : n > lastSeq}, l, "originated") = {}
    <1>1. \A n \in DOMAIN log : n \in Int /\ lastSeq \in Int
        BY DEF LogOK, ProjOK
    <1>2. ASSUME NEW n \in DOMAIN log, n > lastSeq, log[n].loan = l, log[n].type = "originated"
          PROVE  FALSE
        BY <1>1, <1>2 DEF BornOK, Originates
    <1>3. QED
        BY <1>2 DEF Noted

LEMMA SeenRefresh ==
    ASSUME LogOK, EventsOK, ProjOK, BornOK, WaitOK, SeenOK, refresh, UNCHANGED <<log, lost>>,
           raced \subseteq raced', SameAppliers, StillWait, phase \in {"start", "seeding", "up"}
    PROVE  BornOK' /\ WaitOK' /\ SeenOK'
    <1>1. BornOK'
        BY RefreshSees DEF BornOK
    <1>2. WaitOK'
        BY DEF WaitOK, Waits, StillWait
    <1>3. PICK S : S = {n \in DOMAIN log : n > lastSeq}
        OBVIOUS
    <1>4. S \in SUBSET DOMAIN log /\ Fold(S)
        BY <1>3 DEF refresh
    <1>5. \A n \in DOMAIN log : n \in Int /\ n >= 1 /\ (n <= lastSeq \/ n \in S)
        BY <1>3 DEF LogOK, ProjOK
    <1>6. ASSUME NEW l \in Loans \ raced', NEW n \in DOMAIN log, Seen(n)', log[n].loan = l,
                 log[n].type = "missed"
          PROVE  log[n].no \in st'[l].missed
        <2>1. l \in Loans \ raced /\ listed[l] \in Nat /\ (st[l].known <=> listed[l] > 0)
            BY <1>6 DEF ProjOK
        <2>2. Seen(n) \/ n \in S
            BY <1>5, <1>6 DEF Seen, SameAppliers
        <2>3. Seen(n) => log[n].no \in st[l].missed
            BY <1>6, <2>1 DEF SeenOK
        <2>4. CASE listed[l] > 0
            <3>1. Noted(S, l, "originated") = {}
                BY <1>3, <2>4, RefreshBegins
            <3>2. /\ st[l].missed \subseteq st'[l].missed
                  /\ n \in S => log[n].no \in st'[l].missed
                BY <1>4, <1>6, <2>1, <2>4, <3>1, FoldKeeps
            <3>3. QED
                BY <2>2, <2>3, <3>2
        <2>5. CASE ~(listed[l] > 0)
            <3>1. phase = "start" /\ lastSeq = 0
                BY <1>6, <2>5 DEF ProjOK
            <3>2. PICK m \in DOMAIN log : Originates(log[m], l)
                BY <1>6 DEF EventsOK
            <3>3. m \in S /\ n \in S
                BY <1>5, <3>1
            <3>4. Noted(S, l, "originated") # {}
                BY <3>2, <3>3 DEF Noted, Originates
            <3>5. QED
                BY <1>4, <1>6, <2>1, <3>3, <3>4, FoldKeeps
        <2>6. QED
            BY <2>4, <2>5
    <1>7. SeenOK'
        BY <1>6 DEF SeenOK
    <1>8. QED
        BY <1>1, <1>2, <1>7

LEMMA SeenApply ==
    ASSUME LoanInv, StateInv, KindOK, AloneOK, BornOK, WaitOK, SeenOK, NEW p \in Procs,
           ApplyAppended(p)
    PROVE  BornOK' /\ WaitOK' /\ SeenOK'
    <1>1. PICK k : k = job[p]
        OBVIOUS
    <1>2. /\ pc[p] = "apply" /\ Fold({k.seq}) /\ Go(p, "reread", k)
          /\ UNCHANGED <<log, nextSeq, lost, raced>>
        BY <1>1 DEF ApplyAppended, events, history
    <1>3. k.seq \in DOMAIN log /\ Waits(k) /\ Kind("apply", k)
        BY <1>1, <1>2 DEF WaitOK, Waits, KindOK
    <1>4. /\ pc'[p] = "reread"
          /\ \A q \in Procs : q # p => pc'[q] = pc[q] /\ job'[q] = job[q]
        BY <1>2, GoAt
    <1>5. WaitOK'
        BY <1>2, <1>4 DEF WaitOK, Waits
    <1>6. PICK S : S = {k.seq}
        OBVIOUS
    <1>7. S \in SUBSET DOMAIN log /\ Fold(S)
        BY <1>2, <1>3, <1>6
    <1>8. /\ lastSeq' \in 0..nextSeq /\ lastSeq' >= lastSeq
          /\ \A n \in S : n <= lastSeq'
        BY <1>7, FoldSeq DEF LoanInv, StateInv
    <1>9. \A n \in DOMAIN log : n \in Int /\ lastSeq \in Int /\ lastSeq' \in Int
        BY <1>8 DEF LoanInv, LogOK, StateInv, ProjOK
    <1>10. ASSUME NEW l \in Loans, NEW n \in DOMAIN log, Originates(log[n], l), listed'[l] > 0
           PROVE  n <= lastSeq'
        <2>1. CASE listed[l] > 0
            BY <1>8, <1>9, <1>10, <2>1 DEF BornOK
        <2>2. CASE ~(listed[l] > 0)
            <3>1. Noted(S, l, "originated") # {}
                BY <1>7, <1>10, <2>2, FoldLists DEF LoanInv, StateInv
            <3>2. Originates(log[k.seq], l)
                BY <1>6, <3>1 DEF Noted, Originates
            <3>3. n = k.seq
                BY <1>3, <1>10, <3>2 DEF BornOK
            <3>4. QED
                BY <1>6, <1>8, <3>3
        <2>3. QED
            BY <2>1, <2>2
    <1>11. BornOK'
        BY <1>2, <1>10 DEF BornOK
    <1>12. ASSUME NEW l \in Loans \ raced, NEW n \in DOMAIN log, Seen(n)', log[n].loan = l,
                  log[n].type = "missed"
           PROVE  log[n].no \in st'[l].missed
        <2>1. listed[l] > 0 /\ st[l].known
            <3>1. phase \in {"seeding", "up"}
                BY <1>2 DEF LoanInv, PhaseOK
            <3>2. QED
                BY <1>12, <3>1 DEF StateInv, ProjOK
        <2>2. Noted(S, l, "originated") = {}
            <3>1. SUFFICES ASSUME log[k.seq].loan = l, log[k.seq].type = "originated"
                           PROVE  FALSE
                BY <1>6 DEF Noted
            <3>2. k.event.type = "originated" /\ k.loan = l
                BY <1>3, <3>1 DEF Waits, Kind
            <3>3. n = k.seq
                BY <1>3, <1>12, <3>2 DEF Waits
            <3>4. QED
                BY <1>12, <3>1, <3>3
        <2>3. /\ st[l].missed \subseteq st'[l].missed
              /\ n \in S => log[n].no \in st'[l].missed
            BY <1>7, <1>12, <2>1, <2>2, FoldKeeps DEF LoanInv, StateInv
        <2>4. CASE n \in S
            BY <2>3, <2>4
        <2>5. CASE n \notin S
            <3>1. n \in DOMAIN log \ lost /\ ~Applies(pc', job', n)
                BY <1>2, <1>12 DEF Seen
            <3>2. ~Applies(pc, job, n)
                <4>1. SUFFICES ASSUME NEW q \in Procs, pc[q] = "apply", job[q].seq = n
                               PROVE  FALSE
                    BY DEF Applies
                <4>2. q # p
                    BY <1>1, <1>6, <2>5, <4>1
                <4>3. QED
                    BY <1>4, <3>1, <4>1, <4>2 DEF Applies
            <3>3. n <= lastSeq
                <4>1. phase \in {"seeding", "up"}
                    BY <1>2 DEF LoanInv, PhaseOK
                <4>2. ~(n > lastSeq)
                    BY <3>1, <3>2, <4>1 DEF StateInv, ProjOK, Applies
                <4>3. QED
                    BY <1>9, <4>2
            <3>4. Seen(n)
                BY <3>1, <3>2, <3>3 DEF Seen
            <3>5. QED
                BY <1>12, <2>3, <3>4 DEF SeenOK
        <2>6. QED
            BY <2>4, <2>5
    <1>13. SeenOK'
        BY <1>2, <1>12 DEF SeenOK
    <1>14. QED
        BY <1>5, <1>11, <1>13

LEMMA CommitAt ==
    ASSUME LoanInv, StateInv, KindOK, NEW p \in Procs, Commit(p) \/ CommitLost(p), NEW k,
           k = job[p]
    PROVE  /\ pc[p] = "commit" /\ Kind("commit", k) /\ BirthOK("commit", k)
           /\ EventType(k.event) /\ k.loan \in Loans
           /\ k.event.type # "originated" => listed[k.loan] > 0
           /\ k.seq \in (1..nextSeq) \ DOMAIN log
           /\ DOMAIN log' = DOMAIN log \cup {k.seq} /\ log'[k.seq] = k.event
           /\ \A n \in DOMAIN log : log'[n] = log[n]
           /\ UNCHANGED <<nextSeq, opened, lent, recv, paid, fees, deposit, st, listed, lastSeq,
                          clock, rule, raced>>
           /\ \/ lost' = lost /\ pc'[p] = "apply" /\ job'[p] = k
              \/ lost' = lost \cup {k.seq} /\ pc'[p] = "idle" /\ job'[p] = NoJob
           /\ \A q \in Procs : q # p => pc'[q] = pc[q] /\ job'[q] = job[q]
    <1>1. /\ pc[p] = "commit" /\ CommitEffect(k)
          /\ UNCHANGED <<nextSeq, opened, lent, recv, paid, fees, deposit, st, listed, lastSeq,
                         clock, rule, raced>>
          /\ \/ lost' = lost /\ Go(p, "apply", k)
             \/ lost' = lost \cup {k.seq} /\ Return(p, FALSE)
        BY DEF Commit, CommitLost, books, proj, world, history
    <1>2. /\ Fit("commit", k, listed) /\ JobOK("commit", k) /\ SeqOK("commit", k)
          /\ Kind("commit", k) /\ BirthOK("commit", k)
        BY <1>1, JobHere DEF StateInv, FitOK, LoanInv, SeqsOK, KindOK, BirthsOK
    <1>3. /\ k.seq \in (1..nextSeq) \ DOMAIN log /\ EventType(k.event) /\ k.loan \in Loans
          /\ k.event.type # "originated" => listed[k.loan] > 0
        BY <1>2 DEF Fit, SeqOK, OnLoan
    <1>4. log' = [n \in DOMAIN log \cup {k.seq} |-> IF n = k.seq THEN k.event ELSE log[n]]
        BY <1>1 DEF CommitEffect
    <1>5. /\ DOMAIN log' = DOMAIN log \cup {k.seq} /\ log'[k.seq] = k.event
          /\ \A n \in DOMAIN log : log'[n] = log[n]
        BY <1>3, <1>4
    <1>6. /\ \/ lost' = lost /\ pc'[p] = "apply" /\ job'[p] = k
             \/ lost' = lost \cup {k.seq} /\ pc'[p] = "idle" /\ job'[p] = NoJob
          /\ \A q \in Procs : q # p => pc'[q] = pc[q] /\ job'[q] = job[q]
        BY <1>1, GoAt, ReturnAt
    <1>7. QED
        BY <1>1, <1>2, <1>3, <1>5, <1>6

(* Nothing of a loan is in the log before its origination.                 *)
LEMMA UnloggedNothing ==
    ASSUME EventsOK, NEW l, Unlogged(l), NEW n \in DOMAIN log
    PROVE  log[n].loan # l
    BY DEF EventsOK, Unlogged, Originates

LEMMA SeenCommit ==
    ASSUME LoanInv, StateInv, KindOK, AloneOK, BornOK, WaitOK, SeenOK, NEW p \in Procs,
           Commit(p) \/ CommitLost(p)
    PROVE  BornOK' /\ WaitOK' /\ SeenOK'
    <1>1. PICK k : k = job[p]
        OBVIOUS
    <1>2. /\ pc[p] = "commit" /\ Kind("commit", k) /\ BirthOK("commit", k)
          /\ EventType(k.event) /\ k.loan \in Loans
          /\ k.seq \in (1..nextSeq) \ DOMAIN log
          /\ DOMAIN log' = DOMAIN log \cup {k.seq} /\ log'[k.seq] = k.event
          /\ \A n \in DOMAIN log : log'[n] = log[n]
          /\ UNCHANGED <<st, listed, lastSeq, raced>>
          /\ \/ lost' = lost /\ pc'[p] = "apply" /\ job'[p] = k
             \/ lost' = lost \cup {k.seq} /\ pc'[p] = "idle" /\ job'[p] = NoJob
          /\ \A q \in Procs : q # p => pc'[q] = pc[q] /\ job'[q] = job[q]
        BY <1>1, CommitAt
    <1>3. k.event.loan = k.loan /\ k.op # "none"
        BY <1>2 DEF Kind
    <1>4. ASSUME k.event.type = "originated"
          PROVE  /\ \A n \in DOMAIN log : log[n].loan # k.loan
                 /\ ~(listed[k.loan] > 0)
        <2>1. Unlogged(k.loan)
            BY <1>2, <1>4 DEF BirthOK
        <2>2. \A n \in DOMAIN log : log[n].loan # k.loan
            BY <2>1, UnloggedNothing DEF StateInv
        <2>3. Backed(k.loan) /\ (st[k.loan].known <=> listed[k.loan] > 0)
            BY <1>2, FaithfulParts DEF StateInv, ProjOK
        <2>4. ~st[k.loan].known
            BY <2>1, <2>3 DEF Backed, Unlogged
        <2>5. QED
            BY <2>2, <2>3, <2>4
    <1>5. BornOK'
        <2>1. SUFFICES ASSUME NEW l \in Loans, NEW n \in DOMAIN log', Originates(log'[n], l)
                       PROVE  /\ \A m \in DOMAIN log' : Originates(log'[m], l) => m = n
                              /\ listed'[l] > 0 => n <= lastSeq'
            BY DEF BornOK
        <2>2. CASE k.event.type = "originated" /\ k.loan = l
            BY <1>2, <1>3, <1>4, <2>1, <2>2 DEF Originates
        <2>3. CASE ~(k.event.type = "originated" /\ k.loan = l)
            <3>1. \A m \in DOMAIN log' : Originates(log'[m], l) =>
                    m \in DOMAIN log /\ Originates(log[m], l)
                BY <1>2, <1>3, <2>3 DEF Originates
            <3>2. QED
                BY <1>2, <2>1, <3>1 DEF BornOK
        <2>4. QED
            BY <2>2, <2>3
    <1>6. WaitOK'
        <2>1. SUFFICES ASSUME NEW q \in Procs, pc'[q] = "apply"
                       PROVE  Waits(job[q])' /\ job'[q] = job[q]
            BY DEF WaitOK, Waits
        <2>2. CASE q = p
            <3>1. job'[p] = k
                BY <1>2, <2>1, <2>2
            <3>2. /\ k.seq \in DOMAIN log' /\ log'[k.seq] = k.event
                  /\ k.event.type = "originated" =>
                       \A n \in DOMAIN log' : log'[n].loan = k.loan => n = k.seq
                BY <1>2, <1>4
            <3>3. QED
                BY <1>1, <2>2, <3>1, <3>2 DEF Waits
        <2>3. CASE q # p
            <3>1. PICK j : j = job[q]
                OBVIOUS
            <3>2. pc[q] = "apply" /\ job'[q] = j
                BY <1>2, <2>1, <2>3, <3>1
            <3>3. Waits(j) /\ Kind("apply", j)
                BY <3>1, <3>2 DEF WaitOK, KindOK
            <3>4. j.seq \in DOMAIN log' /\ log'[j.seq] = j.event
                BY <1>2, <3>3 DEF Waits
            <3>5. ASSUME j.loan \in Loans \ raced, j.event.type = "originated",
                         NEW n \in DOMAIN log', log'[n].loan = j.loan
                  PROVE  n = j.seq
                <4>1. CASE n \in DOMAIN log
                    BY <1>2, <3>3, <3>5, <4>1 DEF Waits
                <4>2. CASE n = k.seq
                    <5>1. k.loan = j.loan
                        BY <1>2, <1>3, <3>5, <4>2
                    <5>2. Holds(k, j.loan) /\ Holds(j, j.loan)
                        BY <1>3, <3>3, <5>1 DEF Holds, Kind
                    <5>3. p = q
                        BY <1>1, <3>1, <3>5, <5>2 DEF AloneOK
                    <5>4. QED
                        BY <2>3, <5>3
                <4>3. QED
                    BY <1>2, <4>1, <4>2
            <3>6. QED
                BY <1>2, <3>1, <3>2, <3>4, <3>5 DEF Waits
        <2>4. QED
            BY <2>2, <2>3
    <1>7. ASSUME NEW n \in DOMAIN log', Seen(n)'
          PROVE  n \in DOMAIN log /\ Seen(n)
        <2>1. n # k.seq
            <3>1. k.seq \in lost' \/ Applies(pc', job', k.seq)
                BY <1>2 DEF Applies
            <3>2. QED
                BY <1>2, <1>7, <3>1 DEF Seen
        <2>2. n \in DOMAIN log
            BY <1>2, <2>1
        <2>3. Applies(pc, job, n) => Applies(pc', job', n)
            <3>1. SUFFICES ASSUME NEW q \in Procs, pc[q] = "apply", job[q].seq = n
                           PROVE  Applies(pc', job', n)
                BY DEF Applies
            <3>2. q # p
                BY <1>2, <3>1
            <3>3. QED
                BY <1>2, <3>1, <3>2 DEF Applies
        <2>4. QED
            BY <1>2, <1>7, <2>2, <2>3 DEF Seen
    <1>8. SeenOK'
        BY <1>2, <1>7 DEF SeenOK
    <1>9. QED
        BY <1>5, <1>6, <1>8

LEMMA LeavesWait ==
    ASSUME LoanInv, NEW p \in Procs, pc[p] # "apply", Leaves(p)
    PROVE  SameAppliers /\ StillWait
    <1>1. PICK s, j : s # "apply" /\ Lands(p, s, j)
        BY DEF Leaves
    <1>2. /\ pc'[p] # "apply"
          /\ \A q \in Procs : q # p => pc'[q] = pc[q] /\ job'[q] = job[q]
        BY <1>1, LandsAt
    <1>3. QED
        BY <1>2, LeavesSame DEF StillWait

LEMMA PhaseHere ==
    ASSUME LoanInv, NEW p \in Procs, pc[p] # "idle"
    PROVE  phase \in {"seeding", "up"}
    BY DEF LoanInv, PhaseOK

LEMMA SeenStep ==
    ASSUME LoanInv, StateInv, KindOK, AloneOK, BornOK, WaitOK, SeenOK, NEW p \in Procs, Step(p)
    PROVE  BornOK' /\ WaitOK' /\ SeenOK'
    <1>1. CASE Commit(p) \/ ApplyAppended(p)
        BY <1>1, SeenCommit, SeenApply
    <1>2. CASE ~Commit(p) /\ ~ApplyAppended(p) /\ (Get(p) \/ Reread(p) \/ List(p))
        <2>1. refresh /\ UNCHANGED <<log, lost, raced>>
            BY <1>2 DEF Get, Reread, List, events, history
        <2>2. pc[p] \notin {"apply", "idle"} /\ Leaves(p)
            BY <1>2, WorkLeaves
        <2>3. SameAppliers /\ StillWait /\ phase \in {"start", "seeding", "up"}
            BY <2>2, LeavesWait, PhaseHere
        <2>4. LogOK /\ EventsOK /\ ProjOK /\ raced \subseteq raced'
            BY <2>1 DEF LoanInv, StateInv
        <2>5. QED
            BY <2>1, <2>3, <2>4, SeenRefresh
    <1>3. CASE /\ ~Commit(p) /\ ~ApplyAppended(p)
               /\ \/ Txs(p) \/ RepayBuilt(p) \/ Funds(p) \/ PayBuilt(p) \/ appendRepaidEvent(p)
                  \/ MissBuilt(p) \/ Evaluate(p) \/ DefaultBuilt(p) \/ Owed(p) \/ Score(p)
                  \/ Price(p) \/ Decide(p) \/ OpenReceivable(p) \/ Copy(p) \/ TickBuilt(p)
                  \/ Plan(p) \/ Served(p)
        <2>1. UNCHANGED <<log, lost, st, listed, lastSeq>> /\ raced \subseteq raced'
            BY <1>3, DecideAt DEF Txs, RepayBuilt, Funds, PayBuilt, appendRepaidEvent, MissBuilt,
                 Evaluate, DefaultBuilt, Owed, Score, Price, OpenReceivable, Copy, TickBuilt, Plan,
                 Served, Built, events, proj, history
        <2>2. pc[p] \notin {"apply", "idle"} /\ Leaves(p)
            BY <1>3, WorkLeaves
        <2>3. QED
            BY <2>1, <2>2, LeavesWait, SeenSame
    <1>4. CASE /\ ~Commit(p) /\ ~ApplyAppended(p)
               /\ \/ Pay(p) \/ PostFee(p) \/ WriteOff(p) \/ Disburse(p) \/ Insert(p) \/ SetTo(p)
        <2>1. UNCHANGED <<log, lost, st, listed, lastSeq>> /\ raced \subseteq raced'
            BY <1>4 DEF Pay, PostFee, WriteOff, Disburse, Insert, SetTo, events, proj, history
        <2>2. pc[p] \notin {"apply", "idle"} /\ Leaves(p)
            BY <1>4, WorkLeaves
        <2>3. QED
            BY <2>1, <2>2, LeavesWait, SeenSame
    <1>5. QED
        BY <1>1, <1>2, <1>3, <1>4 DEF Step

LEMMA SeenNext ==
    ASSUME LoanInv, StateInv, KindOK, AloneOK, BornOK, WaitOK, SeenOK, [Next]_vars
    PROVE  BornOK' /\ WaitOK' /\ SeenOK'
    <1>1. ASSUME NEW p \in Procs, Step(p)
          PROVE  BornOK' /\ WaitOK' /\ SeenOK'
        BY <1>1, SeenStep
    <1>2. ASSUME NEW p \in Procs, Fail(p)
          PROVE  BornOK' /\ WaitOK' /\ SeenOK'
        <2>1. CASE CommitLost(p)
            BY <2>1, SeenCommit
        <2>2. CASE StoreError(p) \/ PostLost(p)
            <3>1. /\ pc[p] \notin {"apply", "idle"} /\ Return(p, FALSE)
                  /\ UNCHANGED <<log, lost, st, listed, lastSeq>> /\ raced \subseteq raced'
                BY <2>2 DEF StoreError, PostLost, events, proj, history
            <3>2. QED
                BY <3>1, ReturnLeaves, LeavesWait, SeenSame
        <2>3. QED
            BY <1>2, <2>1, <2>2 DEF Fail
    <1>3. ASSUME NEW p \in Procs, Ask(p)
          PROVE  BornOK' /\ WaitOK' /\ SeenOK'
        <2>1. \E s \in {"score", "get", "set"} : \E j, S : Begin(p, s, j, S)
            BY <1>3 DEF Ask, Underwrite, Originate, Repay, MissPayment, Default, AdvanceTime
        <2>2. PICK s, j, S : s \in {"score", "get", "set"} /\ Begin(p, s, j, S)
            BY <2>1
        <2>3. /\ pc[p] = "idle" /\ Go(p, s, j)
              /\ UNCHANGED <<log, lost, st, listed, lastSeq>> /\ raced \subseteq raced'
            BY <2>2 DEF Begin, events, proj
        <2>4. QED
            BY <2>2, <2>3, GoLeaves, LeavesWait, SeenSame
    <1>4. ASSUME NEW p \in Procs, Seed(p)
          PROVE  BornOK' /\ WaitOK' /\ SeenOK'
        <2>1. /\ refresh /\ UNCHANGED <<log, lost, raced>> /\ phase = "start"
              /\ UNCHANGED <<pc, job>> \/ Lands(p, "score", [NoJob EXCEPT !.op = "seed"])
            BY <1>4 DEF Seed, Lands, events, history
        <2>2. \A q \in Procs : pc[q] # "apply" /\ pc'[q] # "apply"
            BY <2>1, LandsAt DEF LoanInv, PhaseOK
        <2>3. SameAppliers /\ StillWait
            BY <2>2 DEF SameAppliers, StillWait, Applies
        <2>4. LogOK /\ EventsOK /\ ProjOK /\ raced \subseteq raced'
            BY <2>1 DEF LoanInv, StateInv
        <2>5. QED
            BY <2>1, <2>3, <2>4, SeenRefresh
    <1>5. CASE Read
        <2>1. refresh /\ UNCHANGED <<log, lost, raced, pc, job>> /\ phase = "up"
            BY <1>5 DEF Read, events, control, history
        <2>2. SameAppliers /\ StillWait
            BY <2>1 DEF SameAppliers, StillWait
        <2>3. LogOK /\ EventsOK /\ ProjOK /\ raced \subseteq raced'
            BY <2>1 DEF LoanInv, StateInv
        <2>4. QED
            BY <2>1, <2>2, <2>3, SeenRefresh
    <1>6. CASE EditRule \/ UNCHANGED vars
        <2>1. UNCHANGED <<log, lost, raced, pc, job, st, listed, lastSeq>>
            BY <1>6 DEF EditRule, vars, events, proj, control, history
        <2>2. SameAppliers /\ StillWait /\ raced \subseteq raced'
            BY <2>1 DEF SameAppliers, StillWait
        <2>3. QED
            BY <2>1, <2>2, SeenSame
    <1>7. CASE Crash \/ StartAgain
        <2>1. /\ pc' = [p \in Procs |-> "idle"] /\ lastSeq' = 0
              /\ listed' = [l \in Loans |-> 0] /\ UNCHANGED <<log, raced>>
            BY <1>7 DEF Crash, StartAgain, Restart, events, history
        <2>2. \A n \in DOMAIN log : n \in Int /\ n >= 1
            BY DEF LoanInv, LogOK
        <2>3. BornOK'
            BY <2>1 DEF BornOK
        <2>4. WaitOK'
            BY <2>1 DEF WaitOK
        <2>5. SeenOK'
            BY <2>1, <2>2 DEF SeenOK, Seen
        <2>6. QED
            BY <2>3, <2>4, <2>5
    <1>8. QED
        BY <1>1, <1>2, <1>3, <1>4, <1>5, <1>6, <1>7 DEF Next

-----------------------------------------------------------------------------
(* The installments that a log lg has as missed on the loan l, those of    *)
(* the failed Appends lo aside, and whether it has the loan closed.        *)
MissedAt(lg, l, n) == lg[n].loan = l /\ lg[n].type = "missed"

EndedAt(lg, l, n) == lg[n].loan = l /\ lg[n].type \in {"defaulted", "repaid"}

Missing(lg, lo, l) == {lg[n].no : n \in {m \in DOMAIN lg \ lo : MissedAt(lg, l, m)}}

Ended(lg, l) == \E n \in DOMAIN lg : EndedAt(lg, l, n)

(* What a goroutine in step `at` with job j may rely on about its loan: no *)
(* other goroutine changes what is missing, ended, paid (pd) or            *)
(* outstanding (rc).                                                       *)
Told(at, j, miss, ended, pd, rc) ==
    /\ at \in {"txs", "balance"} /\ j.then \in {"repay", "miss"} => miss \subseteq j.st.missed
    /\ at = "balance" /\ j.then \in {"repay", "miss"} => pd = j.paid
    /\ (at \in {"funds", "pay", "evaluate", "fee"} \/ (at \in {"insert", "commit"} /\ j.then = "miss"))
       => j.no \notin pd /\ j.no \notin miss
    /\ (\/ at \in {"funds", "pay", "evaluate", "fee", "owed", "writeoff", "repaid"}
        \/ at \in {"get", "txs", "balance"} /\ j.then = "settled"
        \/ at \in {"insert", "commit"} /\ j.then \in {"settled", "default"})
       => ~ended
    /\ at = "writeoff" => j.amount = rc
    /\ (\/ at = "repaid"
        \/ at \in {"insert", "commit"} /\ j.then \in {"default", "settled"}
        \/ at \in {"apply", "reread"} /\ j.then = "default")
       => rc <= 0

ToldOf(at, j, lg, lo, pd, rc) ==
    Told(at, j, Missing(lg, lo, j.loan), Ended(lg, j.loan), pd[j.loan], rc[j.loan])

ToldOK == \A p \in Procs : job[p].op # "none" /\ job[p].loan \in Loans \ raced =>
            ToldOf(pc[p], job[p], log, lost, paid, recv)

(* The books of a loan and its events.                                     *)
Book(lg, lo, pd, rc, l) ==
    /\ Ended(lg, l) => rc <= 0
    /\ Missing(lg, lo, l) \cap pd = {}
    /\ \A m, n \in DOMAIN lg \ lo :
         MissedAt(lg, l, m) /\ MissedAt(lg, l, n) /\ lg[m].no = lg[n].no => m = n
    /\ \A m, n \in DOMAIN lg : EndedAt(lg, l, m) /\ EndedAt(lg, l, n) => m = n

BookOK == \A l \in Loans \ raced : Book(log, lost, paid[l], recv[l], l)

(* Steps at which nothing is relied on.                                    *)
Untold(at, j) ==
    \/ at \in {"idle", "score", "price", "decide", "open", "disburse", "set", "list", "copy",
               "plan", "served"}
    \/ at = "get" /\ j.then # "settled"
    \/ at \in {"get", "txs", "balance", "insert", "commit", "apply", "reread"} /\ j.then \in {"none", "tick"}

LEMMA UntoldTold ==
    ASSUME NEW at, NEW j, Untold(at, j), NEW miss, NEW ended, NEW pd, NEW rc
    PROVE  Told(at, j, miss, ended, pd, rc)
    BY DEF Untold, Told

(* A step of p that leaves the books and the log alone.                    *)
LEMMA ToldCalm ==
    ASSUME ToldOK, BookOK, NEW p \in Procs, raced \subseteq raced',
           UNCHANGED <<log, lost, paid, recv>>,
           \A q \in Procs : q # p => pc'[q] = pc[q] /\ job'[q] = job[q],
           job'[p].op # "none" /\ job'[p].loan \in Loans \ raced =>
             ToldOf(pc'[p], job'[p], log, lost, paid, recv)
    PROVE  ToldOK' /\ BookOK'
    <1>1. BookOK'
        BY DEF BookOK
    <1>2. SUFFICES ASSUME NEW q \in Procs, job'[q].op # "none", job'[q].loan \in Loans \ raced'
                   PROVE  ToldOf(pc'[q], job'[q], log', lost', paid', recv')
        BY <1>1 DEF ToldOK
    <1>3. job'[q].loan \in Loans \ raced
        BY <1>2
    <1>4. CASE q = p
        BY <1>2, <1>3, <1>4
    <1>5. CASE q # p
        <2>1. pc'[q] = pc[q] /\ job'[q] = job[q]
            BY <1>5
        <2>2. ToldOf(pc[q], job[q], log, lost, paid, recv)
            BY <1>2, <1>3, <2>1 DEF ToldOK
        <2>3. QED
            BY <2>1, <2>2
    <1>6. QED
        BY <1>4, <1>5

LEMMA ToldUntold ==
    ASSUME ToldOK, BookOK, NEW p \in Procs, raced \subseteq raced',
           UNCHANGED <<log, lost, paid, recv>>,
           \A q \in Procs : q # p => pc'[q] = pc[q] /\ job'[q] = job[q],
           Untold(pc'[p], job'[p])
    PROVE  ToldOK' /\ BookOK'
    BY UntoldTold, ToldCalm DEF ToldOf

(* The events of a loan are the same.                                      *)
SameEvents(l) ==
    \A n : (n \in DOMAIN log \/ n \in DOMAIN log') =>
        \/ /\ n \in DOMAIN log /\ n \in DOMAIN log'
           /\ log'[n] = log[n] /\ (n \in lost' <=> n \in lost)
        \/ /\ n \notin DOMAIN log /\ n \in DOMAIN log' /\ log'[n].loan # l

LEMMA SameEventsBook ==
    ASSUME NEW l, SameEvents(l)
    PROVE  /\ Missing(log', lost', l) = Missing(log, lost, l)
           /\ Ended(log', l) <=> Ended(log, l)
           /\ \A pd, rc : Book(log, lost, pd, rc, l) => Book(log', lost', pd, rc, l)
    <1>1. \A n : n \in DOMAIN log' \ lost' /\ MissedAt(log', l, n) <=>
                 n \in DOMAIN log \ lost /\ MissedAt(log, l, n)
        BY DEF SameEvents, MissedAt
    <1>2. \A n : n \in DOMAIN log' /\ EndedAt(log', l, n) <=>
                 n \in DOMAIN log /\ EndedAt(log, l, n)
        BY DEF SameEvents, EndedAt
    <1>3. \A n \in DOMAIN log : log'[n] = log[n]
        BY DEF SameEvents
    <1>4. Missing(log', lost', l) = Missing(log, lost, l)
        BY <1>1, <1>3 DEF Missing
    <1>5. Ended(log', l) <=> Ended(log, l)
        BY <1>2 DEF Ended
    <1>6. ASSUME NEW pd, NEW rc, Book(log, lost, pd, rc, l)
          PROVE  Book(log', lost', pd, rc, l)
        <2>1. \A m, n \in DOMAIN log' \ lost' :
                MissedAt(log', l, m) /\ MissedAt(log', l, n) /\ log'[m].no = log'[n].no => m = n
            BY <1>1, <1>3, <1>6 DEF Book
        <2>2. \A m, n \in DOMAIN log' : EndedAt(log', l, m) /\ EndedAt(log', l, n) => m = n
            BY <1>2, <1>6 DEF Book
        <2>3. QED
            BY <1>4, <1>5, <1>6, <2>1, <2>2 DEF Book
    <1>7. QED
        BY <1>4, <1>5, <1>6

(* A step of p on the loan of its job.                                     *)
LEMMA ToldMove ==
    ASSUME AloneOK, ToldOK, BookOK, NEW p \in Procs, job[p].op # "none", raced' = raced,
           \A q \in Procs : q # p => pc'[q] = pc[q] /\ job'[q] = job[q],
           \A l \in Loans : l # job[p].loan =>
             SameEvents(l) /\ paid'[l] = paid[l] /\ recv'[l] = recv[l],
           job[p].loan \in Loans \ raced =>
             Book(log', lost', paid'[job[p].loan], recv'[job[p].loan], job[p].loan),
           job'[p].op = "none" \/ job'[p].loan = job[p].loan,
           job[p].loan \in Loans \ raced /\ job'[p].loan = job[p].loan =>
             ToldOf(pc'[p], job'[p], log', lost', paid', recv')
    PROVE  ToldOK' /\ BookOK'
    <1>1. ASSUME NEW l \in Loans \ raced'
          PROVE  Book(log', lost', paid'[l], recv'[l], l)
        <2>1. CASE l = job[p].loan
            BY <1>1, <2>1
        <2>2. CASE l # job[p].loan
            <3>1. SameEvents(l) /\ paid'[l] = paid[l] /\ recv'[l] = recv[l]
                BY <2>2
            <3>2. Book(log, lost, paid[l], recv[l], l)
                BY <1>1 DEF BookOK
            <3>3. QED
                BY <3>1, <3>2, SameEventsBook
        <2>3. QED
            BY <2>1, <2>2
    <1>2. BookOK'
        BY <1>1 DEF BookOK
    <1>3. ASSUME NEW q \in Procs, job'[q].op # "none", job'[q].loan \in Loans \ raced'
          PROVE  ToldOf(pc'[q], job'[q], log', lost', paid', recv')
        <2>1. CASE q = p
            BY <1>3, <2>1
        <2>2. CASE q # p
            <3>1. PICK l : l = job[q].loan
                OBVIOUS
            <3>2. pc'[q] = pc[q] /\ job'[q] = job[q] /\ l \in Loans \ raced
                BY <1>3, <2>2, <3>1
            <3>3. l # job[p].loan
                BY <1>3, <2>2, <3>1, <3>2 DEF AloneOK, Holds
            <3>4. SameEvents(l) /\ paid'[l] = paid[l] /\ recv'[l] = recv[l]
                BY <3>2, <3>3
            <3>5. ToldOf(pc[q], job[q], log, lost, paid, recv)
                BY <1>3, <3>1, <3>2 DEF ToldOK
            <3>6. /\ Missing(log', lost', l) = Missing(log, lost, l)
                  /\ Ended(log', l) <=> Ended(log, l)
                BY <3>4, SameEventsBook
            <3>7. QED
                BY <3>1, <3>2, <3>4, <3>5, <3>6 DEF ToldOf, Told
        <2>3. QED
            BY <2>1, <2>2
    <1>4. QED
        BY <1>2, <1>3 DEF ToldOK

LEMMA UnchangedEvents ==
    ASSUME UNCHANGED <<log, lost>>
    PROVE  \A l : SameEvents(l)
    BY DEF SameEvents

-----------------------------------------------------------------------------
(* The first installment that is scheduled is one of those.                *)
LEMMA ScheduledFirst ==
    ASSUME NEW s, s.terms \in GoodTerms, NEW done, Scheduled(s, done) # {}
    PROVE  /\ Min(Scheduled(s, done)) \in Scheduled(s, done)
           /\ \A no \in Scheduled(s, done) : Min(Scheduled(s, done)) <= no
    <1>1. s.terms.term \in Nat
        BY GoodTermsFacts
    <1>2. PICK T : T = Scheduled(s, done)
        OBVIOUS
    <1>3. T \in SUBSET Nat /\ T # {}
        BY <1>1, <1>2 DEF Scheduled
    <1>4. QED
        BY <1>2, <1>3, MinNatural

(* Goroutine p goes on with its loan, and knows of it in step s what it    *)
(* needs there.                                                            *)
LEMMA ToldGo ==
    ASSUME LoanInv, KindOK, ToldOK, BookOK, NEW p \in Procs, pc[p] # "idle", NEW s, NEW k,
           Go(p, s, k), k.loan = job[p].loan, raced' = raced, UNCHANGED <<log, lost, paid, recv>>,
           NEW l, l = job[p].loan,
           ASSUME l \in Loans \ raced, Book(log, lost, paid[l], recv[l], l),
                  Told(pc[p], job[p], Missing(log, lost, l), Ended(log, l), paid[l], recv[l])
           PROVE  Told(s, k, Missing(log, lost, l), Ended(log, l), paid[l], recv[l])
    PROVE  ToldOK' /\ BookOK'
    <1>1. job[p].op # "none"
        BY DEF KindOK, Kind
    <1>2. /\ pc'[p] = s /\ job'[p] = k
          /\ \A q \in Procs : q # p => pc'[q] = pc[q] /\ job'[q] = job[q]
        BY GoAt
    <1>3. ASSUME l \in Loans \ raced
          PROVE  ToldOf(s, k, log, lost, paid, recv)
        <2>1. Told(pc[p], job[p], Missing(log, lost, l), Ended(log, l), paid[l], recv[l])
            BY <1>1, <1>3 DEF ToldOK, ToldOf
        <2>2. Book(log, lost, paid[l], recv[l], l)
            BY <1>3 DEF BookOK
        <2>3. Told(s, k, Missing(log, lost, l), Ended(log, l), paid[l], recv[l])
            BY <1>3, <2>1, <2>2
        <2>4. QED
            BY <2>3 DEF ToldOf
    <1>4. raced \subseteq raced'
        OBVIOUS
    <1>5. job'[p].op # "none" /\ job'[p].loan \in Loans \ raced =>
            ToldOf(pc'[p], job'[p], log, lost, paid, recv)
        BY <1>2, <1>3
    <1>6. QED
        BY <1>2, <1>4, <1>5, ToldCalm

LEMMA ToldReturn ==
    ASSUME LoanInv, ToldOK, BookOK, NEW p \in Procs, NEW ok, Return(p, ok), raced' = raced,
           UNCHANGED <<log, lost, paid, recv>>
    PROVE  ToldOK' /\ BookOK'
    <1>1. /\ pc'[p] = "idle" /\ raced \subseteq raced'
          /\ \A q \in Procs : q # p => pc'[q] = pc[q] /\ job'[q] = job[q]
        BY ReturnAt
    <1>2. Untold(pc'[p], job'[p])
        BY <1>1 DEF Untold
    <1>3. QED
        BY <1>1, <1>2, ToldUntold

LEMMA NextMissUntold ==
    ASSUME LoanInv, NEW p \in Procs, NEW j, NextMiss(p, j)
    PROVE  /\ Untold(pc'[p], job'[p])
           /\ \A q \in Procs : q # p => pc'[q] = pc[q] /\ job'[q] = job[q]
    <1> DEFINE i == [NoJob EXCEPT !.op = j.op, !.ticks = j.ticks, !.grace = j.grace,
                                  !.todo = j.todo]
               m == [i EXCEPT !.then = "miss", !.loan = Head(j.todo).loan]
               t == [i EXCEPT !.then = "tick", !.ticks = @ + 1]
    <1>1. Go(p, "get", m) \/ Go(p, "list", t) \/ Go(p, "served", i)
        BY DEF NextMiss
    <1>2. IsJob(i)
        BY DEF IsJob, NoJob, Fields
    <1> HIDE DEF i
    <1>3. m.then = "miss"
        BY <1>2 DEF IsJob, Fields
    <1> HIDE DEF m, t
    <1>4. Untold("get", m) /\ Untold("list", t) /\ Untold("served", i)
        BY <1>3 DEF Untold
    <1>5. QED
        BY <1>1, <1>4, GoAt

LEMMA FinishUntold ==
    ASSUME LoanInv, NEW p \in Procs, Finish(p)
    PROVE  /\ Untold(pc'[p], job'[p])
           /\ \A q \in Procs : q # p => pc'[q] = pc[q] /\ job'[q] = job[q]
    <1>1. PICK j : j = job[p]
        OBVIOUS
    <1>2. IsJob(j)
        BY <1>1, JobHere
    <1> DEFINE d == [j EXCEPT !.then = "default", !.default = FALSE, !.todo = Tail(@)]
    <1>3. Return(p, TRUE) \/ (\E k : NextMiss(p, k)) \/ Go(p, "get", d)
        BY <1>1 DEF Finish
    <1>4. d.then = "default"
        BY <1>2 DEF IsJob, Fields
    <1> HIDE DEF d
    <1>5. Untold("get", d) /\ Untold("idle", NoJob)
        BY <1>4 DEF Untold
    <1>6. CASE Return(p, TRUE)
        BY <1>5, <1>6, ReturnAt
    <1>7. CASE \E k : NextMiss(p, k)
        BY <1>7, NextMissUntold
    <1>8. CASE Go(p, "get", d)
        BY <1>5, <1>8, GoAt
    <1>9. QED
        BY <1>3, <1>6, <1>7, <1>8

LEMMA NextInListUntold ==
    ASSUME LoanInv, NEW p \in Procs, NEW j, NextInList(p, j)
    PROVE  /\ Untold(pc'[p], job'[p])
           /\ \A q \in Procs : q # p => pc'[q] = pc[q] /\ job'[q] = job[q]
    <1>1. \E s \in {"plan", "copy"} : \E k : Go(p, s, k)
        BY DEF NextInList
    <1>2. QED
        BY <1>1, GoAt DEF Untold

(* A goroutine that has read the loan of its request has seen every        *)
(* installment missed on it.                                               *)
LEMMA ToldGet ==
    ASSUME LoanInv, StateInv, KindOK, AloneOK, WaitOK, SeenOK', ToldOK, BookOK,
           NEW p \in Procs, Get(p)
    PROVE  ToldOK' /\ BookOK'
    <1>1. PICK j : j = job[p]
        OBVIOUS
    <1>2. PICK l : l = j.loan
        OBVIOUS
    <1>3. PICK k : k = [j EXCEPT !.st = st'[l]]
        OBVIOUS
    <1>4. /\ pc[p] = "get" /\ refresh /\ UNCHANGED <<log, lost, raced, paid, recv>>
          /\ Go(p, "txs", k) \/ Return(p, FALSE)
        BY <1>1, <1>2, <1>3 DEF Get, events, history, books
    <1>5. IsJob(j) /\ Kind("get", j)
        BY <1>1, <1>4, JobHere DEF KindOK
    <1>6. k.st = st'[l] /\ k.then = j.then /\ k.loan = l
        BY <1>2, <1>3, <1>5 DEF IsJob, Fields
    <1>7. CASE Go(p, "txs", k)
        <2>1. /\ pc'[p] = "txs"
              /\ \A q \in Procs : q # p => pc'[q] = pc[q] /\ job'[q] = job[q]
            BY <1>7, GoAt
        <2>2. ASSUME l \in Loans \ raced, NEW n \in DOMAIN log \ lost, MissedAt(log, l, n)
              PROVE  log[n].no \in st'[l].missed
            <3>1. ~Applies(pc', job', n)
                <4>1. SUFFICES ASSUME NEW q \in Procs, pc'[q] = "apply", job'[q].seq = n
                               PROVE  FALSE
                    BY DEF Applies
                <4>2. q # p /\ pc[q] = "apply" /\ job[q].seq = n
                    BY <2>1, <4>1
                <4>3. log[n] = job[q].event /\ Kind("apply", job[q])
                    BY <4>2 DEF WaitOK, Waits, KindOK
                <4>4. job[q].loan = l /\ job[q].op # "none"
                    BY <2>2, <4>3 DEF MissedAt, Kind
                <4>5. j.op # "none"
                    BY <1>5 DEF Kind
                <4>6. QED
                    BY <1>1, <1>2, <2>2, <4>2, <4>4, <4>5 DEF AloneOK, Holds
            <3>2. n <= lastSeq'
                BY <1>4, RefreshSees DEF LoanInv, StateInv
            <3>3. Seen(n)'
                BY <1>4, <3>1, <3>2 DEF Seen
            <3>4. QED
                BY <1>4, <2>2, <3>3 DEF SeenOK, MissedAt
        <2>3. ASSUME l \in Loans \ raced
              PROVE  Missing(log, lost, l) \subseteq st'[l].missed
            BY <2>2, <2>3 DEF Missing
        <2>4. ASSUME l \in Loans \ raced, Book(log, lost, paid[l], recv[l], l),
                     Told(pc[p], job[p], Missing(log, lost, l), Ended(log, l), paid[l], recv[l])
              PROVE  Told("txs", k, Missing(log, lost, l), Ended(log, l), paid[l], recv[l])
            BY <1>1, <1>4, <1>6, <2>3, <2>4 DEF Told
        <2>5. QED
            BY <1>1, <1>2, <1>4, <1>6, <1>7, <2>4, ToldGo
    <1>8. CASE Return(p, FALSE)
        BY <1>4, <1>8, ToldReturn
    <1>9. QED
        BY <1>4, <1>7, <1>8

LEMMA ToldTxs ==
    ASSUME LoanInv, KindOK, ToldOK, BookOK, NEW p \in Procs, Txs(p)
    PROVE  ToldOK' /\ BookOK'
    <1>1. PICK j, l : j = job[p] /\ l = j.loan
        OBVIOUS
    <1>2. PICK k : k = [j EXCEPT !.paid = paid[l]]
        OBVIOUS
    <1>3. /\ pc[p] = "txs" /\ UNCHANGED <<log, lost, raced, paid, recv>> /\ Go(p, "balance", k)
        BY <1>1, <1>2 DEF Txs, events, history, books
    <1>4. IsJob(j)
        BY <1>1, JobHere
    <1>5. k.st = j.st /\ k.then = j.then /\ k.loan = l /\ k.paid = paid[l]
        BY <1>1, <1>2, <1>4 DEF IsJob, Fields
    <1>6. ASSUME Told(pc[p], job[p], Missing(log, lost, l), Ended(log, l), paid[l], recv[l])
          PROVE  Told("balance", k, Missing(log, lost, l), Ended(log, l), paid[l], recv[l])
        BY <1>1, <1>3, <1>5, <1>6 DEF Told
    <1>7. QED
        BY <1>1, <1>3, <1>5, <1>6, ToldGo

(* An installment is chosen that is neither missed nor paid, on a loan     *)
(* that is not closed.                                                     *)
LEMMA OpenFacts ==
    ASSUME LoanInv, StateInv, NEW p \in Procs, pc[p] = "balance", NEW j, j = job[p],
           NEW l, l = j.loan, j.then \in {"repay", "miss"}, Open(j),
           Book(log, lost, paid[l], recv[l], l),
           Told("balance", j, Missing(log, lost, l), Ended(log, l), paid[l], recv[l])
    PROVE  /\ ~Ended(log, l)
           /\ firstScheduled(j) \notin paid[l] /\ firstScheduled(j) \notin Missing(log, lost, l)
    <1>1. Status(j.st, recv[l]) = "active" /\ Scheduled(j.st, j.paid) # {}
        BY DEF Open
    <1>2. ~(recv[l] <= 0)
        BY <1>1 DEF Status
    <1>3. ~Ended(log, l)
        BY <1>2 DEF Book
    <1>4. j.st.terms \in GoodTerms
        BY DEF StateInv, FitOK, Fit
    <1>5. firstScheduled(j) \in Scheduled(j.st, j.paid)
        BY <1>1, <1>4, ScheduledFirst DEF firstScheduled
    <1>6. Missing(log, lost, l) \subseteq j.st.missed /\ paid[l] = j.paid
        BY DEF Told
    <1>7. QED
        BY <1>3, <1>5, <1>6 DEF Scheduled

LEMMA ToldRepayBuilt ==
    ASSUME LoanInv, StateInv, KindOK, ToldOK, BookOK, NEW p \in Procs,
           RepayBuilt(p) \/ MissBuilt(p)
    PROVE  ToldOK' /\ BookOK'
    <1>1. PICK j, l : j = job[p] /\ l = j.loan
        OBVIOUS
    <1>2. IsJob(j)
        BY <1>1, JobHere
    <1>3. PICK a : a = [j EXCEPT !.no = firstScheduled(j),
                         !.amount = IF @ > 0 THEN @
                                    ELSE Schedule(j.st.terms)[firstScheduled(j)].payment]
        OBVIOUS
    <1>4. PICK b : b = [j EXCEPT !.no = firstScheduled(j)]
        OBVIOUS
    <1>5. /\ a.no = firstScheduled(j) /\ a.loan = l /\ a.then = j.then
          /\ b.no = firstScheduled(j) /\ b.loan = l /\ b.then = j.then
        BY <1>1, <1>2, <1>3, <1>4 DEF IsJob, Fields
    <1>6. /\ pc[p] = "balance" /\ UNCHANGED <<log, lost, raced, paid, recv>>
          /\ j.then \in {"repay", "miss"}
          /\ \/ Return(p, FALSE)
             \/ Open(j) /\ (Go(p, "funds", a) \/ Go(p, "evaluate", b))
        BY <1>1, <1>3, <1>4 DEF RepayBuilt, MissBuilt, Built, events, books, history
    <1>7. CASE Return(p, FALSE)
        BY <1>6, <1>7, ToldReturn
    <1>8. ASSUME NEW s \in {"funds", "evaluate"}, NEW k \in {a, b}, Open(j), Go(p, s, k)
          PROVE  ToldOK' /\ BookOK'
        <2>1. k.no = firstScheduled(j) /\ k.loan = l /\ k.then = j.then
            BY <1>5, <1>8
        <2>2. ASSUME Book(log, lost, paid[l], recv[l], l),
                     Told(pc[p], job[p], Missing(log, lost, l), Ended(log, l), paid[l], recv[l])
              PROVE  Told(s, k, Missing(log, lost, l), Ended(log, l), paid[l], recv[l])
            <3>1. Told("balance", j, Missing(log, lost, l), Ended(log, l), paid[l], recv[l])
                BY <1>1, <1>6, <2>2
            <3>2. ~Ended(log, l) /\ k.no \notin paid[l] /\ k.no \notin Missing(log, lost, l)
                BY <1>1, <1>6, <1>8, <2>1, <2>2, <3>1, OpenFacts
            <3>3. QED
                BY <1>8, <3>2 DEF Told
        <2>3. QED
            BY <1>1, <1>6, <1>8, <2>1, <2>2, ToldGo
    <1>9. QED
        BY <1>6, <1>7, <1>8

LEMMA ToldPlain ==
    ASSUME LoanInv, KindOK, ToldOK, BookOK, NEW p \in Procs,
           Funds(p) \/ PayBuilt(p) \/ appendRepaidEvent(p)
    PROVE  ToldOK' /\ BookOK'
    <1>1. PICK j, l : j = job[p] /\ l = j.loan
        OBVIOUS
    <1>2. IsJob(j) /\ Kind(pc[p], j) /\ UNCHANGED <<log, lost, raced, paid, recv>>
        BY <1>1, JobHere DEF KindOK, Funds, PayBuilt, appendRepaidEvent, Built, events, books, history
    <1>3. CASE Funds(p)
        <2>1. pc[p] = "funds" /\ (Go(p, "pay", j) \/ Return(p, FALSE))
            BY <1>1, <1>3 DEF Funds
        <2>2. ASSUME Told(pc[p], job[p], Missing(log, lost, l), Ended(log, l), paid[l], recv[l])
              PROVE  Told("pay", j, Missing(log, lost, l), Ended(log, l), paid[l], recv[l])
            BY <1>1, <2>1, <2>2 DEF Told
        <2>3. QED
            BY <1>1, <1>2, <2>1, <2>2, ToldGo, ToldReturn
    <1>4. CASE PayBuilt(p)
        <2>1. /\ pc[p] = "balance" /\ j.then = "settled"
              /\ (recv[l] <= 0 /\ Go(p, "repaid", j)) \/ Return(p, TRUE)
            BY <1>1, <1>4 DEF PayBuilt, Built
        <2>2. ASSUME recv[l] <= 0,
                     Told(pc[p], job[p], Missing(log, lost, l), Ended(log, l), paid[l], recv[l])
              PROVE  Told("repaid", j, Missing(log, lost, l), Ended(log, l), paid[l], recv[l])
            BY <1>1, <2>1, <2>2 DEF Told
        <2>3. QED
            BY <1>1, <1>2, <2>1, <2>2, ToldGo, ToldReturn
    <1>5. CASE appendRepaidEvent(p)
        <2>1. PICK k : k = [j EXCEPT !.event = [type |-> "repaid", loan |-> l]]
            OBVIOUS
        <2>2. pc[p] = "repaid" /\ (Go(p, "reread", j) \/ Go(p, "insert", k))
            BY <1>1, <1>5, <2>1 DEF appendRepaidEvent
        <2>3. k.loan = l /\ k.then = j.then /\ j.then = "settled"
            BY <1>1, <1>2, <2>1, <2>2 DEF IsJob, Fields, Kind
        <2>4. ASSUME Told(pc[p], job[p], Missing(log, lost, l), Ended(log, l), paid[l], recv[l])
              PROVE  /\ Told("reread", j, Missing(log, lost, l), Ended(log, l), paid[l], recv[l])
                     /\ Told("insert", k, Missing(log, lost, l), Ended(log, l), paid[l], recv[l])
            <3>1. Told("repaid", j, Missing(log, lost, l), Ended(log, l), paid[l], recv[l])
                BY <1>1, <2>2, <2>4
            <3>2. ~Ended(log, l) /\ recv[l] <= 0
                BY <3>1 DEF Told, Ended
            <3>3. k.then = "settled"
                BY <2>3
            <3>4. QED
                BY <2>3, <3>2, <3>3 DEF Told
        <2>5. CASE Go(p, "reread", j)
            BY <1>1, <1>2, <2>2, <2>4, <2>5, ToldGo
        <2>6. CASE Go(p, "insert", k)
            BY <1>1, <1>2, <2>2, <2>3, <2>4, <2>6, ToldGo
        <2>7. QED
            BY <2>2, <2>5, <2>6
    <1>6. QED
        BY <1>3, <1>4, <1>5

LEMMA ToldMiss ==
    ASSUME LoanInv, StateInv, KindOK, ToldOK, BookOK, NEW p \in Procs,
           Evaluate(p) \/ DefaultBuilt(p) \/ Owed(p)
    PROVE  ToldOK' /\ BookOK'
    <1>1. PICK j, l : j = job[p] /\ l = j.loan
        OBVIOUS
    <1>2. IsJob(j) /\ Kind(pc[p], j) /\ UNCHANGED <<log, lost, raced, paid, recv>>
        BY <1>1, JobHere DEF KindOK, Evaluate, DefaultBuilt, Owed, Built, events, books, history
    <1>3. CASE Evaluate(p)
        <2>1. PICK d : d = EvaluateServicing(rule.servicing,
                                IF clock < Due(j.st, j.no) THEN 0
                                ELSE (clock - Due(j.st, j.no)) \div Day,
                                Cardinality(j.st.missed))
            OBVIOUS
        <2>2. PICK e : e = [type |-> "missed", loan |-> j.loan, no |-> j.no, fee |-> d.fee]
            OBVIOUS
        <2>3. PICK k : k = [j EXCEPT !.default = d.should_default, !.event = e]
            OBVIOUS
        <2>4. pc[p] = "evaluate" /\ \E s \in {"fee", "insert"} : Go(p, s, k)
            BY <1>1, <1>3, <2>1, <2>2, <2>3 DEF Evaluate
        <2>5. k.then = j.then /\ k.loan = l /\ k.no = j.no /\ j.then = "miss"
            BY <1>1, <1>2, <2>3, <2>4 DEF IsJob, Fields, Kind
        <2>6. PICK s \in {"fee", "insert"} : Go(p, s, k)
            BY <2>4
        <2>7. ASSUME Told(pc[p], job[p], Missing(log, lost, l), Ended(log, l), paid[l], recv[l])
              PROVE  Told(s, k, Missing(log, lost, l), Ended(log, l), paid[l], recv[l])
            BY <1>1, <2>4, <2>5, <2>7 DEF Told
        <2>8. QED
            BY <1>1, <1>2, <2>4, <2>5, <2>6, <2>7, ToldGo
    <1>4. CASE DefaultBuilt(p)
        <2>1. Status(j.st, recv[l]) \in {"defaulted", "repaid", "active"}
            BY DEF Status
        <2>2. /\ pc[p] = "balance" /\ j.then = "default"
              /\ \/ Finish(p) \/ Return(p, FALSE)
                 \/ Status(j.st, recv[l]) = "active" /\ Go(p, "owed", j)
            BY <1>1, <1>4, <2>1 DEF DefaultBuilt, Built
        <2>3. CASE Finish(p)
            BY <1>2, <2>3, FinishUntold, ToldUntold
        <2>4. CASE Return(p, FALSE)
            BY <1>2, <2>4, ToldReturn
        <2>5. CASE Status(j.st, recv[l]) = "active" /\ Go(p, "owed", j)
            <3>1. ~(recv[l] <= 0)
                BY <2>5 DEF Status
            <3>2. ASSUME Book(log, lost, paid[l], recv[l], l)
                  PROVE  Told("owed", j, Missing(log, lost, l), Ended(log, l), paid[l], recv[l])
                BY <3>1, <3>2 DEF Told, Book
            <3>3. QED
                BY <1>1, <1>2, <2>2, <2>5, <3>2, ToldGo
        <2>6. QED
            BY <2>2, <2>3, <2>4, <2>5
    <1>5. CASE Owed(p)
        <2>1. PICK k : k = [j EXCEPT !.amount = recv[l], !.event = [type |-> "defaulted", loan |-> l]]
            OBVIOUS
        <2>2. /\ pc[p] = "owed"
              /\ Go(p, "writeoff", k) \/ (~(recv[l] > 0) /\ Go(p, "insert", k))
            BY <1>1, <1>5, <2>1 DEF Owed
        <2>3. k.loan = l /\ k.then = j.then /\ j.then = "default" /\ k.amount = recv[l]
            BY <1>1, <1>2, <2>1, <2>2 DEF IsJob, Fields, Kind
        <2>4. ASSUME Told(pc[p], job[p], Missing(log, lost, l), Ended(log, l), paid[l], recv[l])
              PROVE  Told("writeoff", k, Missing(log, lost, l), Ended(log, l), paid[l], recv[l])
            BY <1>1, <2>2, <2>3, <2>4 DEF Told
        <2>5. ASSUME ~(recv[l] > 0), l \in Loans \ raced,
                     Told(pc[p], job[p], Missing(log, lost, l), Ended(log, l), paid[l], recv[l])
              PROVE  Told("insert", k, Missing(log, lost, l), Ended(log, l), paid[l], recv[l])
            <3>1. Told("owed", j, Missing(log, lost, l), Ended(log, l), paid[l], recv[l])
                BY <1>1, <2>2, <2>5
            <3>2. ~Ended(log, l)
                BY <3>1 DEF Told, Ended
            <3>3. recv[l] <= 0
                BY <2>5 DEF StateInv, BankOK
            <3>4. k.then = "default"
                BY <2>3
            <3>5. QED
                BY <3>2, <3>3, <3>4 DEF Told
        <2>6. CASE Go(p, "writeoff", k)
            BY <1>1, <1>2, <2>2, <2>3, <2>4, <2>6, ToldGo
        <2>7. CASE ~(recv[l] > 0) /\ Go(p, "insert", k)
            BY <1>1, <1>2, <2>2, <2>3, <2>5, <2>7, ToldGo
        <2>8. QED
            BY <2>2, <2>6, <2>7
    <1>6. QED
        BY <1>3, <1>4, <1>5

-----------------------------------------------------------------------------
(* A posting on the loan of goroutine p, which goes on or fails.           *)
LEMMA ToldPost ==
    ASSUME LoanInv, KindOK, AloneOK, ToldOK, BookOK, NEW p \in Procs, pc[p] # "idle",
           UNCHANGED <<log, lost, raced>>, NEW l, l = job[p].loan,
           \A m \in Loans : m # l => paid'[m] = paid[m] /\ recv'[m] = recv[m],
           NEW s, NEW k, Go(p, s, k) \/ Return(p, FALSE), k.loan = l,
           ASSUME l \in Loans \ raced, Book(log, lost, paid[l], recv[l], l),
                  Told(pc[p], job[p], Missing(log, lost, l), Ended(log, l), paid[l], recv[l])
           PROVE  /\ Ended(log, l) => recv'[l] <= 0
                  /\ Missing(log, lost, l) \cap paid'[l] = {}
                  /\ Told(s, k, Missing(log, lost, l), Ended(log, l), paid'[l], recv'[l])
    PROVE  ToldOK' /\ BookOK'
    <1>1. job[p].op # "none"
        BY DEF KindOK, Kind
    <1>2. /\ \/ pc'[p] = s /\ job'[p] = k
             \/ pc'[p] = "idle" /\ job'[p] = NoJob
          /\ \A q \in Procs : q # p => pc'[q] = pc[q] /\ job'[q] = job[q]
        <2>1. CASE Go(p, s, k)
            BY <2>1, GoAt
        <2>2. CASE Return(p, FALSE)
            BY <2>2, ReturnAt
        <2>3. QED
            BY <2>1, <2>2
    <1>3. job'[p].op = "none" \/ job'[p].loan = l
        BY <1>2, NoJobKind
    <1>4. \A m \in Loans : m # l => SameEvents(m) /\ paid'[m] = paid[m] /\ recv'[m] = recv[m]
        BY UnchangedEvents
    <1>5. ASSUME l \in Loans \ raced
          PROVE  /\ Book(log', lost', paid'[l], recv'[l], l)
                 /\ Told(s, k, Missing(log, lost, l), Ended(log, l), paid'[l], recv'[l])
        <2>1. Told(pc[p], job[p], Missing(log, lost, l), Ended(log, l), paid[l], recv[l])
            BY <1>1, <1>5 DEF ToldOK, ToldOf
        <2>2. Book(log, lost, paid[l], recv[l], l)
            BY <1>5 DEF BookOK
        <2>3. /\ Ended(log, l) => recv'[l] <= 0
              /\ Missing(log, lost, l) \cap paid'[l] = {}
              /\ Told(s, k, Missing(log, lost, l), Ended(log, l), paid'[l], recv'[l])
            BY <1>5, <2>1, <2>2
        <2>4. QED
            BY <2>2, <2>3 DEF Book
    <1>6. ASSUME l \in Loans \ raced, job'[p].loan = l
          PROVE  ToldOf(pc'[p], job'[p], log', lost', paid', recv')
        <2>1. l # "none"
            BY <1>6, LoanAssumption
        <2>2. pc'[p] = s /\ job'[p] = k
            BY <1>2, <1>6, <2>1, NoJobKind
        <2>3. QED
            BY <1>5, <1>6, <2>2 DEF ToldOf
    <1>7. QED
        BY <1>1, <1>2, <1>3, <1>4, <1>5, <1>6, ToldMove

LEMMA ToldPay ==
    ASSUME LoanInv, StateInv, KindOK, AloneOK, ToldOK, BookOK, NEW p \in Procs, pc[p] = "pay",
           PayEffect(job[p]), UNCHANGED <<log, lost, raced>>,
           Go(p, "get", [job[p] EXCEPT !.then = "settled"]) \/ Return(p, FALSE)
    PROVE  ToldOK' /\ BookOK'
    <1>1. PICK j, l : j = job[p] /\ l = j.loan
        OBVIOUS
    <1>2. Fit("pay", j, listed) /\ IsJob(j)
        BY <1>1, JobHere DEF StateInv, FitOK
    <1>3. l \in Loans
        BY <1>1, <1>2 DEF Fit, OnLoan
    <1>4. PICK c : c = j.amount - Min({Schedule(j.st.terms)[j.no].interest, j.amount})
        OBVIOUS
    <1>5. /\ recv' = [recv EXCEPT ![l] = @ - c]
          /\ paid' = [paid EXCEPT ![l] = IF c > 0 THEN @ \cup {j.no} ELSE @]
        BY <1>1, <1>4 DEF PayEffect
    <1>6. recv \in [Loans -> Int] /\ paid \in [Loans -> SUBSET Installments]
        BY DEF StateInv, BankOK
    <1>7. /\ \A m \in Loans : m # l => paid'[m] = paid[m] /\ recv'[m] = recv[m]
          /\ paid'[l] \subseteq paid[l] \cup {j.no}
        BY <1>3, <1>5, <1>6
    <1>8. PICK k : k = [j EXCEPT !.then = "settled"]
        OBVIOUS
    <1>9. k.loan = l /\ k.then = "settled"
        BY <1>1, <1>2, <1>8 DEF IsJob, Fields
    <1>10. ASSUME l \in Loans \ raced, Book(log, lost, paid[l], recv[l], l),
                  Told(pc[p], job[p], Missing(log, lost, l), Ended(log, l), paid[l], recv[l])
           PROVE  /\ Ended(log, l) => recv'[l] <= 0
                  /\ Missing(log, lost, l) \cap paid'[l] = {}
                  /\ Told("get", k, Missing(log, lost, l), Ended(log, l), paid'[l], recv'[l])
        <2>1. Told("pay", j, Missing(log, lost, l), Ended(log, l), paid[l], recv[l])
            BY <1>1, <1>10
        <2>2. ~Ended(log, l) /\ j.no \notin Missing(log, lost, l)
            BY <2>1 DEF Told
        <2>3. Missing(log, lost, l) \cap paid[l] = {}
            BY <1>10 DEF Book
        <2>4. Missing(log, lost, l) \cap paid'[l] = {}
            BY <1>7, <2>2, <2>3
        <2>5. Told("get", k, Missing(log, lost, l), Ended(log, l), paid'[l], recv'[l])
            BY <1>9, <2>2 DEF Told
        <2>6. QED
            BY <2>2, <2>4, <2>5
    <1>11. pc[p] # "idle" /\ (Go(p, "get", k) \/ Return(p, FALSE))
        BY <1>1, <1>8
    <1>12. QED
        BY <1>1, <1>7, <1>9, <1>10, <1>11, ToldPost

LEMMA ToldFee ==
    ASSUME LoanInv, StateInv, KindOK, AloneOK, ToldOK, BookOK, NEW p \in Procs, pc[p] = "fee",
           FeeEffect(job[p]), UNCHANGED <<log, lost, raced>>,
           Go(p, "insert", job[p]) \/ Return(p, FALSE)
    PROVE  ToldOK' /\ BookOK'
    <1>1. PICK j, l : j = job[p] /\ l = j.loan
        OBVIOUS
    <1>2. Fit("fee", j, listed) /\ Kind("fee", j)
        BY <1>1 DEF StateInv, FitOK, KindOK
    <1>3. l \in Loans /\ j.then = "miss"
        BY <1>1, <1>2 DEF Fit, OnLoan, Kind
    <1>4. recv' = [recv EXCEPT ![l] = @ + j.event.fee] /\ paid' = paid
        BY <1>1 DEF FeeEffect
    <1>5. \A m \in Loans : m # l => paid'[m] = paid[m] /\ recv'[m] = recv[m]
        BY <1>3, <1>4 DEF StateInv, BankOK
    <1>6. ASSUME l \in Loans \ raced, Book(log, lost, paid[l], recv[l], l),
                 Told(pc[p], job[p], Missing(log, lost, l), Ended(log, l), paid[l], recv[l])
          PROVE  /\ Ended(log, l) => recv'[l] <= 0
                 /\ Missing(log, lost, l) \cap paid'[l] = {}
                 /\ Told("insert", j, Missing(log, lost, l), Ended(log, l), paid'[l], recv'[l])
        <2>1. Told("fee", j, Missing(log, lost, l), Ended(log, l), paid[l], recv[l])
            BY <1>1, <1>6
        <2>2. /\ ~Ended(log, l) /\ j.no \notin Missing(log, lost, l) /\ j.no \notin paid[l]
            BY <2>1 DEF Told
        <2>3. Missing(log, lost, l) \cap paid'[l] = {}
            BY <1>4, <1>6 DEF Book
        <2>4. Told("insert", j, Missing(log, lost, l), Ended(log, l), paid'[l], recv'[l])
            BY <1>3, <1>4, <2>2 DEF Told
        <2>5. QED
            BY <2>2, <2>3, <2>4
    <1>7. pc[p] # "idle" /\ (Go(p, "insert", j) \/ Return(p, FALSE))
        BY <1>1
    <1>8. QED
        BY <1>1, <1>5, <1>6, <1>7, ToldPost

LEMMA ToldWriteOff ==
    ASSUME LoanInv, StateInv, KindOK, AloneOK, ToldOK, BookOK, NEW p \in Procs,
           pc[p] = "writeoff", WriteOffEffect(job[p]), UNCHANGED <<log, lost, raced>>,
           Go(p, "insert", job[p]) \/ Return(p, FALSE)
    PROVE  ToldOK' /\ BookOK'
    <1>1. PICK j, l : j = job[p] /\ l = j.loan
        OBVIOUS
    <1>2. Fit("writeoff", j, listed) /\ Kind("writeoff", j)
        BY <1>1 DEF StateInv, FitOK, KindOK
    <1>3. l \in Loans /\ j.then = "default"
        BY <1>1, <1>2 DEF Fit, OnLoan, Kind
    <1>4. recv' = [recv EXCEPT ![l] = @ - j.amount] /\ paid' = paid
        BY <1>1 DEF WriteOffEffect
    <1>5. /\ \A m \in Loans : m # l => paid'[m] = paid[m] /\ recv'[m] = recv[m]
          /\ recv'[l] = recv[l] - j.amount /\ recv[l] \in Int
        BY <1>3, <1>4 DEF StateInv, BankOK
    <1>6. ASSUME l \in Loans \ raced, Book(log, lost, paid[l], recv[l], l),
                 Told(pc[p], job[p], Missing(log, lost, l), Ended(log, l), paid[l], recv[l])
          PROVE  /\ Ended(log, l) => recv'[l] <= 0
                 /\ Missing(log, lost, l) \cap paid'[l] = {}
                 /\ Told("insert", j, Missing(log, lost, l), Ended(log, l), paid'[l], recv'[l])
        <2>1. Told("writeoff", j, Missing(log, lost, l), Ended(log, l), paid[l], recv[l])
            BY <1>1, <1>6
        <2>2. ~Ended(log, l) /\ j.amount = recv[l]
            BY <2>1 DEF Told
        <2>3. Missing(log, lost, l) \cap paid'[l] = {}
            BY <1>4, <1>6 DEF Book
        <2>4. recv'[l] <= 0
            BY <1>5, <2>2
        <2>5. Told("insert", j, Missing(log, lost, l), Ended(log, l), paid'[l], recv'[l])
            BY <1>3, <2>2, <2>4 DEF Told
        <2>6. QED
            BY <2>2, <2>3, <2>5
    <1>7. pc[p] # "idle" /\ (Go(p, "insert", j) \/ Return(p, FALSE))
        BY <1>1
    <1>8. QED
        BY <1>1, <1>5, <1>6, <1>7, ToldPost

LEMMA ToldDisburse ==
    ASSUME LoanInv, StateInv, KindOK, AloneOK, ToldOK, BookOK, NEW p \in Procs,
           pc[p] = "disburse", DisburseEffect(job[p]), UNCHANGED <<log, lost, raced>>,
           \/ Go(p, "insert", [job[p] EXCEPT !.event =
                  [type |-> "originated", loan |-> job[p].loan, terms |-> job[p].terms,
                   at |-> clock]])
           \/ Return(p, FALSE)
    PROVE  ToldOK' /\ BookOK'
    <1>1. PICK j, l : j = job[p] /\ l = j.loan
        OBVIOUS
    <1>2. Kind("disburse", j) /\ BirthOK("disburse", j) /\ IsJob(j)
        BY <1>1, JobHere DEF KindOK, LoanInv, BirthsOK
    <1>3. l \in Loans /\ j.then = "none" /\ Unlogged(l)
        BY <1>1, <1>2 DEF BirthOK, Kind, LoanInv, BooksOK
    <1>4. recv' = [recv EXCEPT ![l] = @ + j.terms.principal] /\ paid' = paid
        BY <1>1 DEF DisburseEffect
    <1>5. \A m \in Loans : m # l => paid'[m] = paid[m] /\ recv'[m] = recv[m]
        BY <1>3, <1>4 DEF StateInv, BankOK
    <1>6. ~Ended(log, l)
        BY <1>3, UnloggedNothing DEF Ended, EndedAt, StateInv
    <1>7. PICK e : e = [type |-> "originated", loan |-> l, terms |-> j.terms, at |-> clock]
        OBVIOUS
    <1>8. PICK k : k = [j EXCEPT !.event = e]
        OBVIOUS
    <1>9. k.loan = l /\ k.then = "none"
        BY <1>1, <1>2, <1>3, <1>8 DEF IsJob, Fields
    <1>10. ASSUME Book(log, lost, paid[l], recv[l], l)
           PROVE  /\ Ended(log, l) => recv'[l] <= 0
                  /\ Missing(log, lost, l) \cap paid'[l] = {}
                  /\ Told("insert", k, Missing(log, lost, l), Ended(log, l), paid'[l], recv'[l])
        <2>1. Untold("insert", k)
            BY <1>9 DEF Untold
        <2>2. Told("insert", k, Missing(log, lost, l), Ended(log, l), paid'[l], recv'[l])
            BY <2>1, UntoldTold
        <2>3. Missing(log, lost, l) \cap paid'[l] = {}
            BY <1>4, <1>10 DEF Book
        <2>4. QED
            BY <1>6, <2>2, <2>3
    <1>11. pc[p] # "idle" /\ (Go(p, "insert", k) \/ Return(p, FALSE))
        BY <1>1, <1>7, <1>8
    <1>12. QED
        BY <1>1, <1>5, <1>9, <1>10, <1>11, ToldPost

LEMMA ToldCommit ==
    ASSUME LoanInv, StateInv, KindOK, AloneOK, ToldOK, BookOK, NEW p \in Procs,
           Commit(p) \/ CommitLost(p)
    PROVE  ToldOK' /\ BookOK'
    <1>1. PICK k : k = job[p]
        OBVIOUS
    <1>2. PICK l : l = k.loan
        OBVIOUS
    <1>3. /\ pc[p] = "commit" /\ Kind("commit", k) /\ EventType(k.event) /\ l \in Loans
          /\ k.seq \in (1..nextSeq) \ DOMAIN log
          /\ DOMAIN log' = DOMAIN log \cup {k.seq} /\ log'[k.seq] = k.event
          /\ \A n \in DOMAIN log : log'[n] = log[n]
          /\ UNCHANGED <<recv, paid, raced>>
          /\ \/ lost' = lost /\ pc'[p] = "apply" /\ job'[p] = k
             \/ lost' = lost \cup {k.seq} /\ pc'[p] = "idle" /\ job'[p] = NoJob
          /\ \A q \in Procs : q # p => pc'[q] = pc[q] /\ job'[q] = job[q]
        BY <1>1, <1>2, CommitAt
    <1>4. k.event.loan = l /\ k.op # "none"
        BY <1>2, <1>3 DEF Kind
    <1>5. \A n \in DOMAIN log : n # k.seq /\ (n \in lost' <=> n \in lost)
        BY <1>3
    <1>6. ASSUME NEW m \in Loans, m # l
          PROVE  SameEvents(m) /\ paid'[m] = paid[m] /\ recv'[m] = recv[m]
        BY <1>3, <1>4, <1>5, <1>6 DEF SameEvents
    <1>7. ASSUME l \in Loans \ raced
          PROVE  /\ Book(log', lost', paid[l], recv[l], l)
                 /\ k.then = "default" => recv[l] <= 0
        <2>1. Told("commit", k, Missing(log, lost, l), Ended(log, l), paid[l], recv[l])
            BY <1>1, <1>2, <1>3, <1>4, <1>7 DEF ToldOK, ToldOf
        <2>2. Book(log, lost, paid[l], recv[l], l)
            BY <1>7 DEF BookOK
        <2>3. /\ k.then = "miss" => k.no \notin Missing(log, lost, l) /\ k.no \notin paid[l]
              /\ k.then \in {"settled", "default"} => ~Ended(log, l) /\ recv[l] <= 0
            BY <2>1 DEF Told
        <2>4. /\ EndedAt(log', l, k.seq) => ~Ended(log, l) /\ recv[l] <= 0
              /\ MissedAt(log', l, k.seq) =>
                   k.event.no \notin Missing(log, lost, l) /\ k.event.no \notin paid[l]
            BY <1>3, <2>3 DEF Kind, EndedAt, MissedAt
        <2>5. \A n \in DOMAIN log : /\ EndedAt(log', l, n) <=> EndedAt(log, l, n)
                                    /\ MissedAt(log', l, n) <=> MissedAt(log, l, n)
            BY <1>3 DEF EndedAt, MissedAt
        <2>6. Ended(log', l) => recv[l] <= 0
            <3>1. SUFFICES ASSUME NEW n \in DOMAIN log', EndedAt(log', l, n)
                           PROVE  recv[l] <= 0
                BY DEF Ended
            <3>2. CASE n = k.seq
                BY <2>4, <3>1, <3>2
            <3>3. CASE n \in DOMAIN log
                BY <2>2, <2>5, <3>1, <3>3 DEF Book, Ended
            <3>4. QED
                BY <1>3, <3>2, <3>3
        <2>7. \A n \in DOMAIN log' \ lost' : MissedAt(log', l, n) =>
                \/ n = k.seq
                \/ n \in DOMAIN log \ lost /\ MissedAt(log, l, n) /\ log'[n].no \in Missing(log, lost, l)
            BY <1>3, <1>5, <2>5 DEF Missing
        <2>8. Missing(log', lost', l) \cap paid[l] = {}
            <3>1. SUFFICES ASSUME NEW n \in DOMAIN log' \ lost', MissedAt(log', l, n)
                           PROVE  log'[n].no \notin paid[l]
                BY DEF Missing
            <3>2. CASE n = k.seq
                BY <1>3, <2>4, <3>1, <3>2
            <3>3. CASE log'[n].no \in Missing(log, lost, l)
                BY <2>2, <3>3 DEF Book
            <3>4. QED
                BY <2>7, <3>1, <3>2, <3>3
        <2>9. ASSUME NEW m \in DOMAIN log' \ lost', NEW n \in DOMAIN log' \ lost',
                     MissedAt(log', l, m), MissedAt(log', l, n), log'[m].no = log'[n].no
              PROVE  m = n
            <3>1. CASE m = k.seq \/ n = k.seq
                BY <1>3, <2>4, <2>7, <2>9, <3>1
            <3>2. CASE m # k.seq /\ n # k.seq
                <4>1. /\ m \in DOMAIN log \ lost /\ MissedAt(log, l, m)
                      /\ n \in DOMAIN log \ lost /\ MissedAt(log, l, n)
                    BY <2>7, <2>9, <3>2
                <4>2. QED
                    BY <1>3, <2>2, <2>9, <4>1 DEF Book
            <3>3. QED
                BY <3>1, <3>2
        <2>10. ASSUME NEW m \in DOMAIN log', NEW n \in DOMAIN log',
                      EndedAt(log', l, m), EndedAt(log', l, n)
               PROVE  m = n
            <3>1. CASE m = k.seq \/ n = k.seq
                BY <1>3, <2>4, <2>5, <2>10, <3>1 DEF Ended
            <3>2. CASE m # k.seq /\ n # k.seq
                <4>1. /\ m \in DOMAIN log /\ EndedAt(log, l, m)
                      /\ n \in DOMAIN log /\ EndedAt(log, l, n)
                    BY <1>3, <2>5, <2>10, <3>2
                <4>2. QED
                    BY <2>2, <4>1 DEF Book
            <3>3. QED
                BY <3>1, <3>2
        <2>11. QED
            BY <2>3, <2>6, <2>8, <2>9, <2>10 DEF Book
    <1>8. job'[p].op = "none" \/ job'[p].loan = l
        BY <1>2, <1>3, NoJobKind
    <1>9. ASSUME l \in Loans \ raced, job'[p].loan = l
          PROVE  ToldOf(pc'[p], job'[p], log', lost', paid', recv')
        <2>1. l # "none"
            BY <1>9, LoanAssumption
        <2>2. pc'[p] = "apply" /\ job'[p] = k
            BY <1>3, <1>9, <2>1, NoJobKind
        <2>3. k.then = "default" => recv'[l] <= 0
            BY <1>3, <1>7, <1>9
        <2>4. Told("apply", k, Missing(log', lost', l), Ended(log', l), paid'[l], recv'[l])
            BY <2>3 DEF Told
        <2>5. QED
            BY <1>2, <2>2, <2>4 DEF ToldOf
    <1>10. job[p].op # "none" /\ job[p].loan = l
        BY <1>1, <1>2, <1>4
    <1>11. l \in Loans \ raced => Book(log', lost', paid'[l], recv'[l], l)
        BY <1>3, <1>7
    <1>12. QED
        BY <1>3, <1>6, <1>8, <1>9, <1>10, <1>11, ToldMove

LEMMA ToldAppend ==
    ASSUME LoanInv, KindOK, ToldOK, BookOK, NEW p \in Procs, Insert(p) \/ ApplyAppended(p)
    PROVE  ToldOK' /\ BookOK'
    <1>1. PICK j, l : j = job[p] /\ l = j.loan
        OBVIOUS
    <1>2. IsJob(j) /\ UNCHANGED <<log, lost, raced, paid, recv>>
        BY <1>1, JobHere DEF Insert, ApplyAppended, events, books, history
    <1>3. CASE Insert(p)
        <2>1. PICK k : k = [j EXCEPT !.seq = nextSeq + 1]
            OBVIOUS
        <2>2. pc[p] = "insert" /\ Go(p, "commit", k)
            BY <1>1, <1>3, <2>1 DEF Insert
        <2>3. k.loan = l /\ k.then = j.then /\ k.no = j.no
            BY <1>1, <1>2, <2>1 DEF IsJob, Fields
        <2>4. ASSUME Told(pc[p], job[p], Missing(log, lost, l), Ended(log, l), paid[l], recv[l])
              PROVE  Told("commit", k, Missing(log, lost, l), Ended(log, l), paid[l], recv[l])
            BY <1>1, <2>2, <2>3, <2>4 DEF Told
        <2>5. QED
            BY <1>1, <1>2, <2>2, <2>3, <2>4, ToldGo
    <1>4. CASE ApplyAppended(p)
        <2>1. pc[p] = "apply" /\ Go(p, "reread", j)
            BY <1>1, <1>4 DEF ApplyAppended
        <2>2. ASSUME Told(pc[p], job[p], Missing(log, lost, l), Ended(log, l), paid[l], recv[l])
              PROVE  Told("reread", j, Missing(log, lost, l), Ended(log, l), paid[l], recv[l])
            BY <1>1, <2>1, <2>2 DEF Told
        <2>3. QED
            BY <1>1, <1>2, <2>1, <2>2, ToldGo
    <1>5. QED
        BY <1>3, <1>4

(* The steps after which nothing is relied on.                             *)
LEMMA ToldAside ==
    ASSUME LoanInv, StateInv, KindOK, ToldOK, BookOK, NEW p \in Procs,
           \/ Score(p) \/ Price(p) \/ Decide(p) \/ OpenReceivable(p) \/ Reread(p)
           \/ SetTo(p) \/ List(p) \/ Copy(p) \/ TickBuilt(p) \/ Plan(p) \/ Served(p)
    PROVE  ToldOK' /\ BookOK'
    <1>1. CASE Score(p) \/ Price(p) \/ OpenReceivable(p) \/ SetTo(p) \/ Served(p)
        <2>1. /\ UNCHANGED <<log, lost, raced, paid, recv>>
              /\ \/ \E ok : Return(p, ok)
                 \/ \E s \in {"price", "decide", "disburse", "list"} : \E k : Go(p, s, k)
            BY <1>1 DEF Score, Price, OpenReceivable, SetTo, Served, events, books, history
        <2>2. CASE \E ok : Return(p, ok)
            BY <2>1, <2>2, ToldReturn
        <2>3. CASE \E s \in {"price", "decide", "disburse", "list"} : \E k : Go(p, s, k)
            <3>1. PICK s, k : s \in {"price", "decide", "disburse", "list"} /\ Go(p, s, k)
                BY <2>3
            <3>2. Untold(s, k)
                BY <3>1 DEF Untold
            <3>3. QED
                BY <2>1, <3>1, <3>2, GoAt, ToldUntold
        <2>4. QED
            BY <2>1, <2>2, <2>3
    <1>2. CASE Decide(p)
        <2>1. /\ UNCHANGED <<log, lost, paid, recv>> /\ raced \subseteq raced'
              /\ pc'[p] \in {"idle", "open"}
              /\ \A q \in Procs : q # p => pc'[q] = pc[q] /\ job'[q] = job[q]
            BY <1>2, DecideAt DEF Own
        <2>2. Untold(pc'[p], job'[p])
            BY <2>1 DEF Untold
        <2>3. QED
            BY <2>1, <2>2, ToldUntold
    <1>3. CASE Reread(p)
        <2>1. UNCHANGED <<log, lost, raced, paid, recv>> /\ Finish(p)
            BY <1>3 DEF Reread, events, books, history
        <2>2. QED
            BY <2>1, FinishUntold, ToldUntold
    <1>4. CASE List(p) \/ TickBuilt(p)
        <2>1. UNCHANGED <<log, lost, raced, paid, recv>> /\ \E k : NextInList(p, k)
            BY <1>4 DEF List, TickBuilt, Built, events, books, history
        <2>2. QED
            BY <2>1, NextInListUntold, ToldUntold
    <1>5. CASE Copy(p)
        <2>1. PICK j : j = job[p]
            OBVIOUS
        <2>2. PICK k : k = [j EXCEPT !.st = st[j.loan]]
            OBVIOUS
        <2>3. pc[p] = "copy" /\ Go(p, "txs", k) /\ UNCHANGED <<log, lost, raced, paid, recv>>
            BY <1>5, <2>1, <2>2 DEF Copy, events, books, history
        <2>4. IsJob(j) /\ j.then = "tick"
            BY <2>1, <2>3, JobHere DEF StateInv, FitOK, Fit
        <2>5. k.then = "tick"
            BY <2>2, <2>4 DEF IsJob, Fields
        <2>6. Untold("txs", k)
            BY <2>5 DEF Untold
        <2>7. QED
            BY <2>3, <2>6, GoAt, ToldUntold
    <1>6. CASE Plan(p)
        <2>1. /\ UNCHANGED <<log, lost, raced, paid, recv>>
              /\ (\E k : NextMiss(p, k)) \/ (\E k : Go(p, "served", k))
            BY <1>6 DEF Plan, events, books, history
        <2>2. CASE \E k : NextMiss(p, k)
            BY <2>1, <2>2, NextMissUntold, ToldUntold
        <2>3. CASE \E k : Go(p, "served", k)
            <3>1. PICK k : Go(p, "served", k)
                BY <2>3
            <3>2. Untold("served", k)
                BY DEF Untold
            <3>3. QED
                BY <2>1, <3>1, <3>2, GoAt, ToldUntold
        <2>4. QED
            BY <2>1, <2>2, <2>3
    <1>7. QED
        BY <1>1, <1>2, <1>3, <1>4, <1>5, <1>6

LEMMA ToldPosting ==
    ASSUME LoanInv, StateInv, KindOK, AloneOK, ToldOK, BookOK, NEW p \in Procs,
           Pay(p) \/ PostFee(p) \/ WriteOff(p) \/ Disburse(p) \/ PostLost(p)
    PROVE  ToldOK' /\ BookOK'
    <1>1. UNCHANGED <<log, lost, raced>>
        BY DEF Pay, PostFee, WriteOff, Disburse, PostLost, events, history
    <1>2. CASE Pay(p) \/ (PostLost(p) /\ pc[p] = "pay")
        <2>1. /\ pc[p] = "pay" /\ PayEffect(job[p])
              /\ Go(p, "get", [job[p] EXCEPT !.then = "settled"]) \/ Return(p, FALSE)
            BY <1>2 DEF Pay, PostLost
        <2>2. QED
            BY <1>1, <2>1, ToldPay
    <1>3. CASE PostFee(p) \/ (PostLost(p) /\ pc[p] = "fee")
        <2>1. /\ pc[p] = "fee" /\ FeeEffect(job[p])
              /\ Go(p, "insert", job[p]) \/ Return(p, FALSE)
            BY <1>3 DEF PostFee, PostLost
        <2>2. QED
            BY <1>1, <2>1, ToldFee
    <1>4. CASE WriteOff(p) \/ (PostLost(p) /\ pc[p] = "writeoff")
        <2>1. /\ pc[p] = "writeoff" /\ WriteOffEffect(job[p])
              /\ Go(p, "insert", job[p]) \/ Return(p, FALSE)
            BY <1>4 DEF WriteOff, PostLost
        <2>2. QED
            BY <1>1, <2>1, ToldWriteOff
    <1>5. CASE Disburse(p) \/ (PostLost(p) /\ pc[p] = "disburse")
        <2>1. /\ pc[p] = "disburse" /\ DisburseEffect(job[p])
              /\ \/ Go(p, "insert", [job[p] EXCEPT !.event =
                       [type |-> "originated", loan |-> job[p].loan, terms |-> job[p].terms,
                        at |-> clock]])
                 \/ Return(p, FALSE)
            BY <1>5 DEF Disburse, PostLost
        <2>2. QED
            BY <1>1, <2>1, ToldDisburse
    <1>6. PostLost(p) => pc[p] \in {"pay", "fee", "writeoff", "disburse"}
        BY DEF PostLost
    <1>7. QED
        BY <1>2, <1>3, <1>4, <1>5, <1>6

LEMMA ToldStep ==
    ASSUME LoanInv, StateInv, KindOK, AloneOK, WaitOK, SeenOK', ToldOK, BookOK,
           NEW p \in Procs, Step(p)
    PROVE  ToldOK' /\ BookOK'
    <1>1. CASE Get(p) \/ Txs(p) \/ RepayBuilt(p) \/ MissBuilt(p)
        BY <1>1, ToldGet, ToldTxs, ToldRepayBuilt
    <1>2. CASE \/ Funds(p) \/ PayBuilt(p) \/ appendRepaidEvent(p)
               \/ Evaluate(p) \/ DefaultBuilt(p) \/ Owed(p)
        BY <1>2, ToldPlain, ToldMiss
    <1>3. CASE Pay(p) \/ PostFee(p) \/ WriteOff(p) \/ Disburse(p)
        BY <1>3, ToldPosting
    <1>4. CASE Insert(p) \/ Commit(p) \/ ApplyAppended(p)
        BY <1>4, ToldAppend, ToldCommit
    <1>5. CASE \/ Score(p) \/ Price(p) \/ Decide(p) \/ OpenReceivable(p) \/ Reread(p)
               \/ SetTo(p) \/ List(p) \/ Copy(p) \/ TickBuilt(p) \/ Plan(p) \/ Served(p)
        BY <1>5, ToldAside
    <1>6. QED
        BY <1>1, <1>2, <1>3, <1>4, <1>5 DEF Step

LEMMA ToldAsk ==
    ASSUME LoanInv, ToldOK, BookOK, NEW p \in Procs, Ask(p)
    PROVE  ToldOK' /\ BookOK'
    <1>1. PICK s, j, S : Begin(p, s, j, S) /\ Untold(s, j)
        <2>1. CASE Underwrite(p) \/ Originate(p)
            <3>1. \E j, S : Begin(p, "score", j, S)
                BY <2>1 DEF Underwrite, Originate
            <3>2. \A j : Untold("score", j)
                BY DEF Untold
            <3>3. QED
                BY <3>1, <3>2
        <2>2. CASE AdvanceTime(p)
            <3>1. \E j, S : Begin(p, "set", j, S)
                BY <2>2 DEF AdvanceTime
            <3>2. \A j : Untold("set", j)
                BY DEF Untold
            <3>3. QED
                BY <3>1, <3>2
        <2>3. CASE Repay(p)
            <3>1. PICK l \in opened, a \in Amounts :
                    Begin(p, "get", [NoJob EXCEPT !.op = "repay", !.then = "repay",
                                                  !.loan = l, !.amount = a], {l})
                BY <2>3 DEF Repay
            <3>2. PICK j : j = [NoJob EXCEPT !.op = "repay", !.then = "repay",
                                             !.loan = l, !.amount = a]
                OBVIOUS
            <3>3. j.then = "repay"
                BY <3>2 DEF NoJob
            <3>4. Untold("get", j) /\ Begin(p, "get", j, {l})
                BY <3>1, <3>2, <3>3 DEF Untold
            <3>5. QED
                BY <3>4
        <2>4. CASE MissPayment(p) \/ Default(p)
            <3>1. PICK o \in {"miss", "default"}, l \in opened :
                    Begin(p, "get", [NoJob EXCEPT !.op = o, !.then = o, !.loan = l], {l})
                BY <2>4 DEF MissPayment, Default
            <3>2. PICK j : j = [NoJob EXCEPT !.op = o, !.then = o, !.loan = l]
                OBVIOUS
            <3>3. j.then = o
                BY <3>2 DEF NoJob
            <3>4. Untold("get", j) /\ Begin(p, "get", j, {l})
                BY <3>1, <3>2, <3>3 DEF Untold
            <3>5. QED
                BY <3>4
        <2>5. QED
            BY <2>1, <2>2, <2>3, <2>4 DEF Ask
    <1>2. /\ Go(p, s, j) /\ UNCHANGED <<log, lost, paid, recv>> /\ raced \subseteq raced'
        BY <1>1 DEF Begin, events, books
    <1>3. QED
        BY <1>1, <1>2, GoAt, ToldUntold

LEMMA ToldNext ==
    ASSUME LoanInv, StateInv, KindOK, AloneOK, WaitOK, SeenOK', ToldOK, BookOK, [Next]_vars
    PROVE  ToldOK' /\ BookOK'
    <1>1. ASSUME NEW p \in Procs, Step(p)
          PROVE  ToldOK' /\ BookOK'
        BY <1>1, ToldStep
    <1>2. ASSUME NEW p \in Procs, Ask(p)
          PROVE  ToldOK' /\ BookOK'
        BY <1>2, ToldAsk
    <1>3. ASSUME NEW p \in Procs, Fail(p)
          PROVE  ToldOK' /\ BookOK'
        <2>1. CASE StoreError(p)
            <3>1. Return(p, FALSE) /\ UNCHANGED <<log, lost, raced, paid, recv>>
                BY <2>1 DEF StoreError, events, books, history
            <3>2. QED
                BY <3>1, ToldReturn
        <2>2. QED
            BY <1>3, <2>1, ToldPosting, ToldCommit DEF Fail
    <1>4. ASSUME NEW p \in Procs, Seed(p)
          PROVE  ToldOK' /\ BookOK'
        <2>1. /\ UNCHANGED <<log, lost, raced, paid, recv>>
              /\ UNCHANGED <<pc, job>> \/ Lands(p, "score", [NoJob EXCEPT !.op = "seed"])
            BY <1>4 DEF Seed, Lands, events, books, history
        <2>2. CASE UNCHANGED <<pc, job>>
            BY <2>1, <2>2 DEF ToldOK, BookOK
        <2>3. CASE Lands(p, "score", [NoJob EXCEPT !.op = "seed"])
            <3>1. /\ pc'[p] = "score"
                  /\ \A q \in Procs : q # p => pc'[q] = pc[q] /\ job'[q] = job[q]
                BY <2>3, LandsAt
            <3>2. Untold(pc'[p], job'[p])
                BY <3>1 DEF Untold
            <3>3. QED
                BY <2>1, <3>1, <3>2, ToldUntold
        <2>4. QED
            BY <2>1, <2>2, <2>3
    <1>5. CASE Crash \/ StartAgain
        <2>1. job' = [p \in Procs |-> NoJob] /\ UNCHANGED <<log, lost, raced, paid, recv>>
            BY <1>5 DEF Crash, StartAgain, Restart, events, books, history
        <2>2. ToldOK'
            BY <2>1, NoJobKind DEF ToldOK
        <2>3. BookOK'
            BY <2>1 DEF BookOK
        <2>4. QED
            BY <2>2, <2>3
    <1>6. CASE Read \/ EditRule \/ UNCHANGED vars
        <2>1. UNCHANGED <<pc, job, log, lost, raced, paid, recv>>
            BY <1>6 DEF Read, EditRule, vars, events, books, control, history
        <2>2. QED
            BY <2>1 DEF ToldOK, BookOK
    <1>7. QED
        BY <1>1, <1>2, <1>3, <1>4, <1>5, <1>6 DEF Next

-----------------------------------------------------------------------------
(* What holds of loans that no two requests worked on at a time.           *)
AloneInv == KindOK /\ AloneOK /\ BornOK /\ WaitOK /\ SeenOK /\ ToldOK /\ BookOK

LEMMA InitAlone == Init => AloneInv
    <1> SUFFICES ASSUME Init PROVE AloneInv
        OBVIOUS
    <1>1. /\ DOMAIN log = {} /\ pc = [p \in Procs |-> "idle"] /\ job = [p \in Procs |-> NoJob]
          /\ paid = [l \in Loans |-> {}]
        BY DEF Init
    <1>2. KindOK /\ AloneOK
        BY <1>1, NoJobKind DEF KindOK, AloneOK, Holds
    <1>3. BornOK /\ WaitOK /\ SeenOK
        BY <1>1 DEF BornOK, WaitOK, SeenOK
    <1>4. ToldOK
        BY <1>1, NoJobKind DEF ToldOK
    <1>5. BookOK
        BY <1>1 DEF BookOK, Book, Ended, Missing
    <1>6. QED
        BY <1>2, <1>3, <1>4, <1>5 DEF AloneInv

LEMMA NextAlone ==
    ASSUME LoanInv, StateInv, AloneInv, [Next]_vars
    PROVE  AloneInv'
    <1>1. KindOK /\ AloneOK /\ BornOK /\ WaitOK /\ SeenOK /\ ToldOK /\ BookOK
        BY DEF AloneInv
    <1>2. KindOK' /\ AloneOK'
        BY <1>1, AloneNext
    <1>3. BornOK' /\ WaitOK' /\ SeenOK'
        BY <1>1, SeenNext
    <1>4. ToldOK' /\ BookOK'
        BY <1>1, <1>3, ToldNext
    <1>5. QED
        BY <1>2, <1>3, <1>4 DEF AloneInv

(* AloneInv holds in every state: on a loan that no two requests worked on *)
(* at a time a goroutine acts on what is still so when it posts and        *)
(* appends, whatever fails and whatever others refresh (Repay,             *)
(* MissPayment, Default, Tick).                                            *)
THEOREM AloneInvariant == Spec => []AloneInv
    BY LoanInvariant, StateInvariant, InitAlone, NextAlone, PTL DEF Spec

(* A loan that no two requests worked on at a time is closed once, in      *)
(* default or repaid, with nothing outstanding; no installment of it is    *)
(* missed twice, or missed and paid, unless the Append of one of its       *)
(* events failed (Repay, MissPayment, Default, Tick).                      *)
THEOREM BooksAlwaysAgree == Spec => []BooksAgree
    <1>1. ASSUME AloneInv PROVE BooksAgree
        <2>1. SUFFICES ASSUME NEW l \in Loans \ raced
                       PROVE  LET Missed == Numbers(l, "missed")
                                  E      == Numbers(l, "defaulted") \cup Numbers(l, "repaid")
                              IN  /\ Cardinality(E) <= 1
                                  /\ E # {} => recv[l] <= 0
                                  /\ lost \cap Missed = {} =>
                                       /\ \A m, n \in Missed : log[m].no = log[n].no => m = n
                                       /\ \A n \in Missed : log[n].no \notin paid[l]
            BY DEF BooksAgree
        <2> DEFINE Missed == Numbers(l, "missed")
                   E      == Numbers(l, "defaulted") \cup Numbers(l, "repaid")
        <2>2. Book(log, lost, paid[l], recv[l], l)
            BY <1>1 DEF AloneInv, BookOK
        <2>3. \A n : n \in E <=> n \in DOMAIN log /\ EndedAt(log, l, n)
            BY DEF Numbers, EndedAt
        <2>4. \A n : n \in Missed <=> n \in DOMAIN log /\ MissedAt(log, l, n)
            BY DEF Numbers, MissedAt
        <2>5. E # {} => recv[l] <= 0
            BY <2>2, <2>3 DEF Book, Ended
        <2>6. \A m, n \in E : m = n
            BY <2>2, <2>3 DEF Book
        <2>7. Cardinality(E) <= 1
            <3> HIDE DEF E
            <3>1. CASE E = {}
                BY <3>1, FS_EmptySet
            <3>2. CASE E # {}
                <4>1. PICK e : E = {e}
                    BY <2>6, <3>2
                <4>2. QED
                    BY <4>1, FS_Singleton
            <3>3. QED
                BY <3>1, <3>2
        <2>8. ASSUME lost \cap Missed = {}
              PROVE  /\ \A m, n \in Missed : log[m].no = log[n].no => m = n
                     /\ \A n \in Missed : log[n].no \notin paid[l]
            <3>1. \A n \in Missed : n \in DOMAIN log \ lost /\ MissedAt(log, l, n)
                BY <2>4, <2>8
            <3>2. \A n \in Missed : log[n].no \in Missing(log, lost, l)
                BY <3>1 DEF Missing
            <3>3. QED
                BY <2>2, <3>1, <3>2 DEF Book
        <2>9. QED
            BY <2>5, <2>7, <2>8
    <1>2. QED
        BY <1>1, AloneInvariant, PTL

-----------------------------------------------------------------------------
(* Every view with overdue installments has its call, for all of them.     *)
LEMMA CallsCover ==
    ASSUME NEW views \in Seq(ViewType), NEW grace, NEW c, c = Calls(views, grace)
    PROVE  /\ c \in Seq(CallType)
           /\ \A x \in DOMAIN c : c[x].left > 0
           /\ \A i \in DOMAIN views : Misses(views[i], grace) # 0 =>
                \E x \in DOMAIN c : /\ c[x].loan = views[i].loan
                                    /\ c[x].left = Misses(views[i], grace)
    <1>1. PICK n : n = Len(views)
        OBVIOUS
    <1>2. n \in Nat /\ DOMAIN views = 1..n /\ \A i \in 1..n : views[i] \in ViewType
        BY <1>1
    <1>3. PICK h : /\ c = h[n] /\ h[0] = << >>
                   /\ \A i \in 0..n : h[i] \in Seq(CallType)
                   /\ \A i \in 1..n :
                        h[i] = IF Misses(views[i], grace) = 0 THEN h[i - 1]
                               ELSE Append(h[i - 1], [loan |-> views[i].loan,
                                                      left |-> Misses(views[i], grace)])
        BY <1>1, CallsRec
    <1> DEFINE Good(k) == \A x \in DOMAIN h[k] : h[k][x].left > 0
               Has(k, i) == \E x \in DOMAIN h[k] : /\ h[k][x].loan = views[i].loan
                                                   /\ h[k][x].left = Misses(views[i], grace)
               All(k) == \A i \in 1..k : Misses(views[i], grace) # 0 => Has(k, i)
               T == {k \in Nat : k <= n => Good(k) /\ All(k)}
    <1>4. 0 \in T
        BY <1>3
    <1>5. ASSUME NEW k \in Nat, k \in T
          PROVE  k + 1 \in T
        <2>1. SUFFICES ASSUME k + 1 <= n PROVE Good(k + 1) /\ All(k + 1)
            OBVIOUS
        <2>2. k + 1 \in 1..n /\ (k + 1) - 1 = k /\ k \in 0..n /\ Good(k) /\ All(k)
            BY <1>2, <1>5, <2>1
        <2>3. PICK m \in Nat : m = Misses(views[k + 1], grace)
            BY <1>2, <2>2, MissesNat
        <2>4. PICK e : e = [loan |-> views[k + 1].loan, left |-> m]
            OBVIOUS
        <2>5. e.loan = views[k + 1].loan /\ e.left = m
            BY <2>4
        <2>6. h[k + 1] = IF m = 0 THEN h[k] ELSE Append(h[k], e)
            BY <1>3, <2>2, <2>3, <2>4
        <2>7. h[k] \in Seq(CallType)
            BY <1>3, <2>2
        <2>8. CASE m = 0
            <3>1. h[k + 1] = h[k]
                BY <2>6, <2>8
            <3>2. Good(k + 1)
                BY <2>2, <3>1
            <3>3. ASSUME NEW i \in 1..(k + 1), Misses(views[i], grace) # 0
                  PROVE  Has(k + 1, i)
                <4>1. i \in 1..k
                    <5>1. i = k + 1 => FALSE
                        <6>1. SUFFICES ASSUME i = k + 1 PROVE FALSE
                            OBVIOUS
                        <6>2. Misses(views[i], grace) = Misses(views[k + 1], grace)
                            BY <6>1
                        <6>3. QED
                            BY <2>3, <2>8, <3>3, <6>2
                    <5>2. QED
                        BY <5>1
                <4>2. Has(k, i)
                    BY <2>2, <3>3, <4>1
                <4>3. QED
                    BY <3>1, <4>2
            <3>4. QED
                BY <3>2, <3>3
        <2>9. CASE m # 0
            <3>1. /\ DOMAIN h[k + 1] = 1..(Len(h[k]) + 1) /\ DOMAIN h[k] = 1..Len(h[k])
                  /\ Len(h[k]) \in Nat
                  /\ h[k + 1][Len(h[k]) + 1] = e
                  /\ \A x \in 1..Len(h[k]) : h[k + 1][x] = h[k][x]
                BY <2>6, <2>7, <2>9
            <3>2. \A x \in DOMAIN h[k] : x \in DOMAIN h[k + 1] /\ h[k + 1][x] = h[k][x]
                BY <3>1
            <3>3. ASSUME NEW x \in DOMAIN h[k + 1] PROVE h[k + 1][x].left > 0
                <4>1. CASE x = Len(h[k]) + 1
                    BY <2>3, <2>5, <2>9, <3>1, <4>1
                <4>2. CASE x \in 1..Len(h[k])
                    BY <2>2, <3>1, <4>2
                <4>3. QED
                    BY <3>1, <4>1, <4>2
            <3>4. ASSUME NEW i \in 1..(k + 1), Misses(views[i], grace) # 0
                  PROVE  Has(k + 1, i)
                <4>1. CASE i = k + 1
                    <5>1. /\ Misses(views[i], grace) = Misses(views[k + 1], grace)
                          /\ views[i].loan = views[k + 1].loan
                        BY <4>1
                    <5>2. PICK x : x = Len(h[k]) + 1
                        OBVIOUS
                    <5>3. x \in DOMAIN h[k + 1] /\ h[k + 1][x] = e
                        BY <3>1, <5>2
                    <5>4. QED
                        BY <2>3, <2>5, <5>1, <5>3
                <4>2. CASE i \in 1..k
                    <5>1. Has(k, i)
                        BY <2>2, <3>4, <4>2
                    <5>2. QED
                        BY <3>2, <5>1
                <4>3. QED
                    BY <4>1, <4>2
            <3>5. QED
                BY <3>3, <3>4
        <2>10. QED
            BY <2>8, <2>9
    <1> HIDE DEF T
    <1>6. n \in T
        BY <1>2, <1>4, <1>5, Induction
    <1>7. Good(n) /\ All(n)
        BY <1>6 DEF T
    <1>8. n \in 0..n
        BY <1>2
    <1>9. QED
        BY <1>2, <1>3, <1>7, <1>8

-----------------------------------------------------------------------------
(* The installments of a loan in state s, paid up to pd, that are past     *)
(* their grace period at t; whether it is active; whether the calls todo   *)
(* suffice to mark the installments N of the loan l missed; the calls left *)
(* after one more.                                                         *)
Late(s, pd, t, g) == {no \in Scheduled(s, pd) : Due(s, no) + g * Day < t}

Live(s, rc) == s.known /\ Status(s, rc) = "active"

Enough(N, todo, l) ==
    N = {} \/ \E i \in DOMAIN todo : todo[i].loan = l /\ Cardinality(N) <= todo[i].left

RestOf(todo) == IF Head(todo).left = 1 THEN Tail(todo) ELSE [todo EXCEPT ![1].left = @ - 1]

AllLeft(todo) == \A i \in DOMAIN todo : todo[i].left > 0

ViewOf(l, s, rc, pd) == [loan |-> l, st |-> s,
                         scheduled |-> IF Status(s, rc) = "active" THEN Scheduled(s, pd) ELSE {}]

LEMMA LateFinite ==
    ASSUME NEW s, s.terms.term \in Nat, NEW pd, NEW t, NEW g
    PROVE  /\ IsFiniteSet(Late(s, pd, t, g)) /\ Cardinality(Late(s, pd, t, g)) \in Nat
           /\ Cardinality(Late(s, pd, t, g)) = 0 <=> Late(s, pd, t, g) = {}
    <1>1. PICK N : N = Late(s, pd, t, g)
        OBVIOUS
    <1>2. N \subseteq 1..s.terms.term /\ IsFiniteSet(1..s.terms.term)
        BY <1>1, FS_Interval DEF Late, Scheduled
    <1>3. IsFiniteSet(N)
        BY <1>2, FS_Subset
    <1>4. QED
        BY <1>1, <1>3, FS_CardinalityType, FS_EmptySet

LEMMA LateFirst ==
    ASSUME NEW s, s.terms \in GoodTerms, s.at \in Nat, NEW pd, NEW t \in Int, NEW g \in Nat,
           Late(s, pd, t, g) # {}
    PROVE  Min(Scheduled(s, pd)) \in Late(s, pd, t, g)
    <1>1. PICK no \in Scheduled(s, pd) : Due(s, no) + g * Day < t
        BY DEF Late
    <1>2. PICK m : m = Min(Scheduled(s, pd))
        OBVIOUS
    <1>3. m \in Scheduled(s, pd) /\ m <= no
        BY <1>1, <1>2, ScheduledFirst
    <1>4. m \in Nat /\ no \in Nat
        BY <1>1, <1>3, GoodTermsFacts DEF Scheduled
    <1>5. Month \in Nat /\ Day \in Nat
        BY LoanAssumption
    <1>6. m * Month <= no * Month
        BY <1>3, <1>4, <1>5, MulMono
    <1>7. PICK a, b, c : a = m * Month /\ b = no * Month /\ c = g * Day
        OBVIOUS
    <1>8. a \in Int /\ b \in Int /\ c \in Int
        BY <1>4, <1>5, <1>7
    <1>9. s.at + a + c < t
        BY <1>1, <1>6, <1>7, <1>8 DEF Due
    <1>10. QED
        BY <1>2, <1>3, <1>7, <1>9 DEF Late, Due

(* A state in which one more installment is noted as missed.               *)
Notes(s, r, no) == /\ r.known = s.known /\ r.terms = s.terms /\ r.at = s.at
                   /\ r.defaulted = s.defaulted /\ r.repaid = s.repaid
                   /\ r.missed = s.missed \cup {no}

LEMMA NotesLate ==
    ASSUME NEW s, NEW r, NEW no, Notes(s, r, no), NEW rc, NEW pd, NEW t, NEW g
    PROVE  /\ Live(r, rc) => Live(s, rc)
           /\ Late(r, pd, t, g) = Late(s, pd, t, g) \ {no}
    <1>1. Scheduled(r, pd) = Scheduled(s, pd) \ {no}
        BY DEF Notes, Scheduled
    <1>2. \A n : Due(r, n) = Due(s, n)
        BY DEF Notes, Due
    <1>3. Late(r, pd, t, g) = Late(s, pd, t, g) \ {no}
        BY <1>1, <1>2 DEF Late
    <1>4. Status(r, rc) = Status(s, rc)
        BY DEF Notes, Status
    <1>5. QED
        BY <1>3, <1>4 DEF Live, Notes

LEMMA TodoParts ==
    ASSUME NEW todo \in Seq(CallType), todo # << >>
    PROVE  /\ Len(todo) \in Nat \ {0} /\ DOMAIN todo = 1..Len(todo) /\ 1 \in DOMAIN todo
           /\ Head(todo) = todo[1] /\ todo[1] \in CallType
           /\ Tail(todo) \in Seq(CallType) /\ DOMAIN Tail(todo) = 1..(Len(todo) - 1)
           /\ \A i \in 1..(Len(todo) - 1) : Tail(todo)[i] = todo[i + 1]
    OBVIOUS

LEMMA RestParts ==
    ASSUME NEW todo \in Seq(CallType), todo # << >>, todo[1].left # 1, NEW r, r = RestOf(todo)
    PROVE  /\ r \in Seq(CallType) /\ DOMAIN r = DOMAIN todo
           /\ r[1].loan = todo[1].loan /\ r[1].left = todo[1].left - 1
           /\ \A i \in DOMAIN todo : i # 1 => r[i] = todo[i]
    <1>1. r = [todo EXCEPT ![1].left = @ - 1]
        BY TodoParts DEF RestOf
    <1>2. DOMAIN todo = 1..Len(todo) /\ Len(todo) \in Nat \ {0} /\ todo[1] \in CallType
        BY TodoParts
    <1>3. PICK e : e = [todo[1] EXCEPT !.left = @ - 1]
        OBVIOUS
    <1>4. todo[1].left \in Int /\ todo[1].loan \in Loans
          /\ todo[1] = [loan |-> todo[1].loan, left |-> todo[1].left]
        BY <1>2 DEF CallType
    <1>5. e = [loan |-> todo[1].loan, left |-> todo[1].left - 1]
        BY <1>3, <1>4
    <1>6. e.loan = todo[1].loan /\ e.left = todo[1].left - 1 /\ e \in CallType
        BY <1>4, <1>5 DEF CallType
    <1>7. r = [todo EXCEPT ![1] = e]
        BY <1>1, <1>3
    <1>8. QED
        BY <1>2, <1>6, <1>7

LEMMA RestType ==
    ASSUME NEW todo \in Seq(CallType), todo # << >>, AllLeft(todo)
    PROVE  /\ RestOf(todo) \in Seq(CallType) /\ AllLeft(RestOf(todo))
           /\ Tail(todo) \in Seq(CallType) /\ AllLeft(Tail(todo))
    <1>1. Tail(todo) \in Seq(CallType) /\ AllLeft(Tail(todo))
        <2>1. \A i \in 1..(Len(todo) - 1) : i + 1 \in DOMAIN todo
            BY TodoParts
        <2>2. QED
            BY <2>1, TodoParts DEF AllLeft
    <1>2. CASE todo[1].left = 1
        BY <1>1, <1>2, TodoParts DEF RestOf
    <1>3. CASE todo[1].left # 1
        <2>1. PICK r : r = RestOf(todo)
            OBVIOUS
        <2>2. /\ r \in Seq(CallType) /\ DOMAIN r = DOMAIN todo
              /\ r[1].left = todo[1].left - 1
              /\ \A i \in DOMAIN todo : i # 1 => r[i] = todo[i]
            BY <1>3, <2>1, RestParts
        <2>3. todo[1].left > 0 /\ todo[1].left \in Int
            BY TodoParts DEF AllLeft, CallType
        <2>4. AllLeft(r)
            BY <1>3, <2>2, <2>3 DEF AllLeft
        <2>5. QED
            BY <1>1, <2>1, <2>2, <2>4
    <1>4. QED
        BY <1>2, <1>3

(* A call for one loan leaves enough for another.                          *)
LEMMA RestOther ==
    ASSUME NEW todo \in Seq(CallType), todo # << >>, NEW l, Head(todo).loan # l, NEW N,
           Enough(N, todo, l)
    PROVE  Enough(N, RestOf(todo), l) /\ Enough(N, Tail(todo), l)
    <1>1. SUFFICES ASSUME NEW i \in DOMAIN todo, todo[i].loan = l, Cardinality(N) <= todo[i].left
                   PROVE  Enough(N, RestOf(todo), l) /\ Enough(N, Tail(todo), l)
        BY DEF Enough
    <1>2. i # 1 /\ i \in 1..Len(todo) /\ Len(todo) \in Nat
        BY <1>1, TodoParts
    <1>3. PICK k : k = i - 1
        OBVIOUS
    <1>4. k \in 1..(Len(todo) - 1) /\ k + 1 = i
        BY <1>2, <1>3
    <1>5. k \in DOMAIN Tail(todo) /\ Tail(todo)[k] = todo[i]
        BY <1>4, TodoParts
    <1>6. Enough(N, Tail(todo), l)
        BY <1>1, <1>5 DEF Enough
    <1>7. CASE todo[1].left = 1
        BY <1>6, <1>7, TodoParts DEF RestOf
    <1>8. CASE todo[1].left # 1
        <2>1. PICK r : r = RestOf(todo)
            OBVIOUS
        <2>2. DOMAIN r = DOMAIN todo /\ r[i] = todo[i]
            BY <1>2, <1>8, <2>1, RestParts
        <2>3. Enough(N, r, l)
            BY <1>1, <2>2 DEF Enough
        <2>4. QED
            BY <1>6, <2>1, <2>3
    <1>9. QED
        BY <1>7, <1>8

(* A call takes the first of the installments it is for.                   *)
LEMMA RestTake ==
    ASSUME NEW todo \in Seq(CallType), todo # << >>, AllLeft(todo), NEW l, NEW N,
           IsFiniteSet(N), Enough(N, todo, l), NEW no, N # {} => no \in N,
           Head(todo).loan = l
    PROVE  Enough(N \ {no}, RestOf(todo), l)
    <1>1. CASE N = {}
        BY <1>1 DEF Enough
    <1>2. CASE N # {}
        <2>1. PICK i \in DOMAIN todo : todo[i].loan = l /\ Cardinality(N) <= todo[i].left
            BY <1>2 DEF Enough
        <2>2. PICK M : M = N \ {no}
            OBVIOUS
        <2>3. /\ IsFiniteSet(M) /\ Cardinality(M) = Cardinality(N) - 1
            BY <1>2, <2>2, FS_RemoveElement
        <2>4. Cardinality(N) \in Nat /\ Cardinality(M) \in Nat /\ (Cardinality(M) = 0 <=> M = {})
            BY <2>3, FS_CardinalityType, FS_EmptySet
        <2>5. todo[i] \in CallType /\ todo[i].left \in Int
            <3>1. todo[i] \in CallType
                BY <2>1, TodoParts
            <3>2. QED
                BY <3>1 DEF CallType
        <2>6. Cardinality(M) <= todo[i].left
            BY <2>1, <2>3, <2>4, <2>5
        <2>7. CASE i = 1 /\ todo[1].left = 1
            <3>1. M = {}
                BY <2>1, <2>3, <2>4, <2>7
            <3>2. QED
                BY <2>2, <3>1 DEF Enough
        <2>8. CASE i # 1 /\ todo[1].left = 1
            <3>1. RestOf(todo) = Tail(todo)
                BY <2>8, TodoParts DEF RestOf
            <3>2. PICK k : k = i - 1
                OBVIOUS
            <3>3. k \in 1..(Len(todo) - 1) /\ k + 1 = i
                BY <2>1, <2>8, <3>2, TodoParts
            <3>4. k \in DOMAIN Tail(todo) /\ Tail(todo)[k] = todo[i]
                BY <3>3, TodoParts
            <3>5. QED
                BY <2>1, <2>2, <2>6, <3>1, <3>4 DEF Enough
        <2>9. CASE todo[1].left # 1
            <3>1. PICK r : r = RestOf(todo)
                OBVIOUS
            <3>2. /\ DOMAIN r = DOMAIN todo
                  /\ r[1].loan = todo[1].loan /\ r[1].left = todo[1].left - 1
                  /\ \A x \in DOMAIN todo : x # 1 => r[x] = todo[x]
                BY <2>9, <3>1, RestParts
            <3>3. r[i].loan = l /\ Cardinality(M) <= r[i].left
                <4>1. CASE i = 1
                    BY <2>1, <2>3, <2>4, <2>5, <3>2, <4>1
                <4>2. CASE i # 1
                    BY <2>1, <2>6, <3>2, <4>2
                <4>3. QED
                    BY <4>1, <4>2
            <3>4. QED
                BY <2>1, <2>2, <3>1, <3>2, <3>3 DEF Enough
        <2>10. QED
            BY <2>7, <2>8, <2>9
    <1>3. QED
        BY <1>1, <1>2

-----------------------------------------------------------------------------
(* An advance of the time that has read the loans: of a loan that nobody   *)
(* else worked on, nothing is in the log that the projection has not       *)
(* passed, but for the event the advance has just appended itself.         *)
Past(at, j) == j.op = "advance" /\ at \notin {"set", "list"}

Caught(at, j, l) == \A n \in DOMAIN log : log[n].loan = l =>
                      n <= lastSeq \/ (at = "apply" /\ j.seq = n)

CaughtOK == \A p \in Procs : Past(pc[p], job[p]) =>
              \A l \in Loans \ raced : Caught(pc[p], job[p], l)

(* Its calls, the first of them for the loan at hand.                      *)
TodoOK(at, j) ==
    /\ (at \in {"get", "txs", "balance", "evaluate", "fee", "insert", "commit", "apply",
                "reread"} /\ j.then = "miss")
       => j.todo # << >> /\ j.loan = Head(j.todo).loan
    /\ AllLeft(j.todo) /\ j.grace \in Nat

(* What the calls must suffice for on a loan l with the installments N     *)
(* overdue.                                                                *)
Counts(at, j, l, N) ==
    /\ at \in {"get", "txs", "balance"} /\ j.then = "miss" => Enough(N, j.todo, l)
    /\ at \in {"evaluate", "fee", "insert", "commit", "apply"} /\ j.then = "miss" =>
         IF l = j.loan THEN Enough(N \ {j.no}, RestOf(j.todo), l) ELSE Enough(N, j.todo, l)
    /\ at = "reread" /\ j.then = "miss" =>
         IF l = j.loan THEN Enough(N, RestOf(j.todo), l) ELSE Enough(N, j.todo, l)
    /\ j.then = "default" /\ l # j.loan => Enough(N, j.todo, l)
    /\ at = "served" => N = {}

(* Of a loan l in state s with rc outstanding and pd paid, at time t: it   *)
(* has been listed or is about to be; what was read of it is still so; the *)
(* calls suffice.                                                          *)
Serves(at, j, l, s, rc, pd, t) ==
    /\ at \in {"copy", "txs", "balance"} /\ j.then = "tick" /\ s.known =>
         \/ j.list[l] > 0 \/ j.loan = l
         \/ \E i \in DOMAIN j.views : j.views[i] = ViewOf(l, s, rc, pd)
    /\ at = "plan" /\ s.known => \E i \in DOMAIN j.views : j.views[i] = ViewOf(l, s, rc, pd)
    /\ at \in {"txs", "balance"} /\ j.loan = l => j.st = s
    /\ at = "balance" /\ j.loan = l => j.paid = pd
    /\ at \in {"evaluate", "fee"} /\ j.loan = l => rc > 0
    /\ Live(s, rc) => Counts(at, j, l, Late(s, pd, t, j.grace))

ServesOK == \A p \in Procs : job[p].op = "advance" =>
    /\ TodoOK(pc[p], job[p])
    /\ Past(pc[p], job[p]) =>
         \A l \in Loans \ raced : Serves(pc[p], job[p], l, st[l], recv[l], paid[l], clock)

ServeInv == CaughtOK /\ ServesOK

(* Nothing noted on a loan leaves its state, one more installment adds to  *)
(* what is missed.                                                         *)
LEMMA FoldNothing ==
    ASSUME LogOK, ProjOK, NEW S \in SUBSET DOMAIN log, Fold(S), NEW l \in Loans,
           \A n \in S : log[n].loan # l
    PROVE  st'[l] = st[l]
    <1>1. /\ Noted(S, l, "originated") = {} /\ Noted(S, l, "missed") = {}
          /\ Noted(S, l, "defaulted") = {} /\ Noted(S, l, "repaid") = {}
        BY DEF Noted
    <1>2. CASE ~st[l].known
        BY <1>1, <1>2, FoldStates
    <1>3. CASE st[l].known
        <2>1. st'[l] = [known |-> TRUE, terms |-> st[l].terms, at |-> st[l].at,
                        missed |-> st[l].missed \cup {log[n].no : n \in {}},
                        defaulted |-> st[l].defaulted \/ FALSE,
                        repaid |-> st[l].repaid \/ FALSE]
            BY <1>1, <1>3, FoldStates
        <2>2. st[l] \in StType
            BY DEF ProjOK
        <2>3. PICK d \in BOOLEAN, r \in BOOLEAN : d = st[l].defaulted /\ r = st[l].repaid
            BY <2>2 DEF StType
        <2>4. /\ st[l] = [known |-> TRUE, terms |-> st[l].terms, at |-> st[l].at,
                          missed |-> st[l].missed, defaulted |-> d, repaid |-> r]
            BY <1>3, <2>2, <2>3 DEF StType
        <2>5. (st[l].defaulted \/ FALSE) = d /\ (st[l].repaid \/ FALSE) = r
            BY <2>3
        <2>6. (st[l].missed \cup {log[n].no : n \in {}}) = st[l].missed
            OBVIOUS
        <2>7. QED
            BY <2>1, <2>4, <2>5, <2>6
    <1>4. QED
        BY <1>2, <1>3

LEMMA FoldMissed ==
    ASSUME LogOK, ProjOK, NEW S \in SUBSET DOMAIN log, Fold(S), NEW l \in Loans, st[l].known,
           NEW m \in S, log[m].loan = l, log[m].type = "missed",
           \A n \in S : log[n].loan = l => n = m
    PROVE  Notes(st[l], st'[l], log[m].no)
    <1>1. /\ Noted(S, l, "originated") = {} /\ Noted(S, l, "missed") = {m}
          /\ Noted(S, l, "defaulted") = {} /\ Noted(S, l, "repaid") = {}
        BY DEF Noted
    <1>2. st'[l] = [known |-> TRUE, terms |-> st[l].terms, at |-> st[l].at,
                    missed |-> st[l].missed \cup {log[n].no : n \in {m}},
                    defaulted |-> st[l].defaulted \/ FALSE,
                    repaid |-> st[l].repaid \/ FALSE]
        BY <1>1, FoldStates
    <1>3. st[l] \in StType
        BY DEF ProjOK
    <1>4. PICK d \in BOOLEAN, r \in BOOLEAN : d = st[l].defaulted /\ r = st[l].repaid
        BY <1>3 DEF StType
    <1>5. (st[l].defaulted \/ FALSE) = d /\ (st[l].repaid \/ FALSE) = r /\ st[l].known = TRUE
        BY <1>3, <1>4 DEF StType
    <1>6. {log[n].no : n \in {m}} = {log[m].no}
        OBVIOUS
    <1>7. st'[l] = [known |-> TRUE, terms |-> st[l].terms, at |-> st[l].at,
                    missed |-> st[l].missed \cup {log[m].no}, defaulted |-> d, repaid |-> r]
        BY <1>2, <1>5, <1>6
    <1>8. QED
        BY <1>4, <1>5, <1>7 DEF Notes

LEMMA Steady ==
    ASSUME LoanInv, StateInv, KindOK, WaitOK, CaughtOK, NEW S \in SUBSET DOMAIN log, Fold(S),
           NEW p \in Procs, Past(pc[p], job[p]), NEW l \in Loans \ raced,
           \A n \in S : n > lastSeq \/ log[n].loan # l
    PROVE  \/ st'[l] = st[l]
           \/ /\ pc[p] = "apply" /\ job[p].loan = l
              /\ job[p].then = "miss" => Notes(st[l], st'[l], job[p].no)
    <1>1. LogOK /\ ProjOK
        BY DEF LoanInv, StateInv
    <1>2. CASE \A n \in S : log[n].loan # l
        BY <1>1, <1>2, FoldNothing
    <1>3. CASE ~\A n \in S : log[n].loan # l
        <2>1. PICK m \in S : log[m].loan = l
            BY <1>3
        <2>2. lastSeq \in Int /\ \A n \in DOMAIN log : n \in Int
            BY <1>1 DEF LogOK, ProjOK
        <2>3. \A n \in S : log[n].loan = l => pc[p] = "apply" /\ job[p].seq = n
            BY <2>2 DEF CaughtOK, Caught
        <2>4. pc[p] = "apply" /\ job[p].seq = m /\ \A n \in S : log[n].loan = l => n = m
            BY <2>1, <2>3
        <2>5. log[m] = job[p].event /\ Kind("apply", job[p])
            BY <2>4 DEF WaitOK, Waits, KindOK
        <2>6. job[p].loan = l
            BY <2>1, <2>5 DEF Kind
        <2>7. ASSUME job[p].then = "miss" PROVE Notes(st[l], st'[l], job[p].no)
            <3>1. log[m].type = "missed" /\ log[m].no = job[p].no
                BY <2>5, <2>7 DEF Kind
            <3>2. phase \in {"seeding", "up"}
                BY <2>4, PhaseHere
            <3>3. st[l].known
                BY <1>1, <2>1, <3>1, <3>2 DEF ProjOK
            <3>4. Notes(st[l], st'[l], log[m].no)
                BY <1>1, <2>1, <2>4, <3>1, <3>3, FoldMissed
            <3>5. QED
                BY <3>1, <3>4
        <2>8. QED
            BY <2>4, <2>6, <2>7
    <1>4. QED
        BY <1>2, <1>3

LEMMA ServesAway ==
    ASSUME NEW at, NEW j, NEW l, NEW s, NEW r, NEW rc, NEW pd, NEW t,
           Serves(at, j, l, s, rc, pd, t),
           \/ r = s
           \/ /\ at = "apply" /\ j.loan = l
              /\ j.then = "miss" => Notes(s, r, j.no)
    PROVE  Serves(at, j, l, r, rc, pd, t)
    <1>1. CASE r = s
        BY <1>1
    <1>2. CASE at = "apply" /\ j.loan = l /\ j.then # "miss"
        BY <1>2 DEF Serves, Counts
    <1>3. CASE at = "apply" /\ j.loan = l /\ j.then = "miss" /\ Notes(s, r, j.no)
        <2>1. /\ Live(r, rc) => Live(s, rc)
              /\ Late(r, pd, t, j.grace) = Late(s, pd, t, j.grace) \ {j.no}
            BY <1>3, NotesLate
        <2>2. PICK N, M : N = Late(s, pd, t, j.grace) /\ M = Late(r, pd, t, j.grace)
            OBVIOUS
        <2>3. M \ {j.no} = N \ {j.no}
            BY <2>1, <2>2
        <2>4. ASSUME Live(r, rc) PROVE Counts(at, j, l, M)
            <3>1. Counts(at, j, l, N)
                BY <2>1, <2>2, <2>4 DEF Serves
            <3>2. Enough(N \ {j.no}, RestOf(j.todo), l)
                BY <1>3, <3>1 DEF Counts
            <3>3. QED
                BY <1>3, <2>3, <3>2 DEF Counts
        <2>5. QED
            BY <1>3, <2>2, <2>4 DEF Serves
    <1>4. QED
        BY <1>1, <1>2, <1>3

(* A goroutine leaves the books of other loans alone, and the time unless  *)
(* it advances it.                                                         *)
LEMMA Touches ==
    ASSUME LoanInv, StateInv, KindOK, NEW p \in Procs, Seed(p) \/ Ask(p) \/ Step(p) \/ Fail(p),
           NEW l \in Loans, ~Holds(job[p], l)
    PROVE  recv'[l] = recv[l] /\ paid'[l] = paid[l] /\ clock' = clock
    <1>1. Kind(pc[p], job[p])
        BY DEF KindOK
    <1>2. pc[p] # "idle" => job[p].loan # l /\ job[p].op # "advance"
        BY <1>1 DEF Kind, Holds
    <1>3. recv \in [Loans -> Int] /\ paid \in [Loans -> SUBSET Installments]
        BY DEF StateInv, BankOK
    <1>4. CASE Pay(p) \/ PostFee(p) \/ WriteOff(p) \/ Disburse(p) \/ PostLost(p)
        <2>1. pc[p] # "idle" /\ clock' = clock
            BY <1>4 DEF Pay, PostFee, WriteOff, Disburse, PostLost, world
        <2>2. \/ PayEffect(job[p]) \/ FeeEffect(job[p])
              \/ WriteOffEffect(job[p]) \/ DisburseEffect(job[p])
            BY <1>4 DEF Pay, PostFee, WriteOff, Disburse, PostLost
        <2>3. PICK k : k = job[p].loan
            OBVIOUS
        <2>4. /\ (\E a : recv' = [recv EXCEPT ![k] = a])
              /\ paid' = paid \/ (\E a : paid' = [paid EXCEPT ![k] = a])
            BY <2>2, <2>3 DEF PayEffect, FeeEffect, WriteOffEffect, DisburseEffect
        <2>5. k # l
            BY <1>2, <2>1, <2>3
        <2>6. QED
            BY <1>3, <2>1, <2>4, <2>5
    <1>5. ~SetTo(p)
        BY <1>1, <1>2 DEF SetTo, Kind
    <1>6. CASE Seed(p) \/ Ask(p)
        BY <1>6 DEF Seed, Ask, Underwrite, Originate, Repay, MissPayment, Default, AdvanceTime,
                    Begin, books, world
    <1>7. CASE StoreError(p) \/ CommitLost(p)
        BY <1>7 DEF StoreError, CommitLost, books, world
    <1>8. CASE Decide(p)
        BY <1>8, DecideAt
    <1>9. CASE \/ Get(p) \/ Txs(p) \/ RepayBuilt(p) \/ Funds(p) \/ PayBuilt(p)
               \/ appendRepaidEvent(p) \/ MissBuilt(p) \/ Evaluate(p) \/ DefaultBuilt(p)
               \/ Owed(p) \/ Score(p) \/ Price(p) \/ OpenReceivable(p)
        BY <1>9 DEF Get, Txs, RepayBuilt, Funds, PayBuilt, appendRepaidEvent, MissBuilt, Evaluate,
                    DefaultBuilt, Owed, Score, Price, OpenReceivable, Built, books, world
    <1>10. CASE \/ Insert(p) \/ Commit(p) \/ ApplyAppended(p) \/ Reread(p) \/ List(p) \/ Copy(p)
                \/ TickBuilt(p) \/ Plan(p) \/ Served(p)
        BY <1>10 DEF Insert, Commit, ApplyAppended, Reread, List, Copy, TickBuilt, Plan, Served,
                     Built, books, world
    <1>11. QED
        BY <1>4, <1>5, <1>6, <1>7, <1>8, <1>9, <1>10 DEF Step, Fail

(* What a step does to the projection.                                     *)
LEMMA StepProj ==
    ASSUME LoanInv, KindOK, NEW p \in Procs, Seed(p) \/ Ask(p) \/ Step(p) \/ Fail(p)
    PROVE  \/ UNCHANGED <<st, lastSeq>>
           \/ refresh /\ log' = log
           \/ pc[p] = "apply" /\ ApplyAppended(p)
    <1>1. CASE Seed(p) \/ Get(p) \/ Reread(p) \/ List(p) \/ ApplyAppended(p)
        BY <1>1 DEF Seed, Get, Reread, List, ApplyAppended, events
    <1>2. CASE Ask(p)
        BY <1>2 DEF Ask, Underwrite, Originate, Repay, MissPayment, Default, AdvanceTime, Begin,
                    proj
    <1>3. CASE Fail(p)
        BY <1>3 DEF Fail, StoreError, PostLost, CommitLost, proj
    <1>4. CASE \/ Txs(p) \/ RepayBuilt(p) \/ Funds(p) \/ Pay(p) \/ PayBuilt(p)
               \/ appendRepaidEvent(p) \/ MissBuilt(p) \/ Evaluate(p) \/ PostFee(p)
               \/ DefaultBuilt(p) \/ Owed(p) \/ WriteOff(p) \/ Score(p) \/ Price(p)
        BY <1>4 DEF Txs, RepayBuilt, Funds, Pay, PayBuilt, appendRepaidEvent, MissBuilt, Evaluate,
                    PostFee, DefaultBuilt, Owed, WriteOff, Score, Price, Built, proj
    <1>5. CASE \/ Decide(p) \/ OpenReceivable(p) \/ Disburse(p) \/ Insert(p) \/ Commit(p)
               \/ SetTo(p) \/ Copy(p) \/ TickBuilt(p) \/ Plan(p) \/ Served(p)
        BY <1>5, DecideAt DEF OpenReceivable, Disburse, Insert, Commit, SetTo, Copy, TickBuilt,
                    Plan, Served, Built, proj
    <1>6. QED
        BY <1>1, <1>2, <1>3, <1>4, <1>5 DEF Step

(* The log grows only with a commit, and the projection never falls back   *)
(* while the process runs.                                                 *)
LEMMA LogKept ==
    ASSUME LoanInv, KindOK, NEW p \in Procs, Seed(p) \/ Ask(p) \/ Step(p) \/ Fail(p),
           ~Commit(p), ~CommitLost(p)
    PROVE  log' = log
    <1>1. CASE Seed(p) \/ Ask(p)
        BY <1>1 DEF Seed, Ask, Underwrite, Originate, Repay, MissPayment, Default, AdvanceTime,
                    Begin, events
    <1>2. CASE Fail(p)
        BY <1>2 DEF Fail, StoreError, PostLost, events
    <1>3. CASE \/ Get(p) \/ Txs(p) \/ RepayBuilt(p) \/ Funds(p) \/ Pay(p) \/ PayBuilt(p)
               \/ appendRepaidEvent(p) \/ MissBuilt(p) \/ Evaluate(p) \/ PostFee(p)
               \/ DefaultBuilt(p) \/ Owed(p) \/ WriteOff(p) \/ Score(p) \/ Price(p)
        BY <1>3 DEF Get, Txs, RepayBuilt, Funds, Pay, PayBuilt, appendRepaidEvent, MissBuilt,
                    Evaluate, PostFee, DefaultBuilt, Owed, WriteOff, Score, Price, Built, events
    <1>4. CASE \/ Decide(p) \/ OpenReceivable(p) \/ Disburse(p) \/ Insert(p) \/ ApplyAppended(p)
               \/ Reread(p) \/ SetTo(p) \/ List(p) \/ Copy(p) \/ TickBuilt(p) \/ Plan(p)
               \/ Served(p)
        BY <1>4, DecideAt DEF OpenReceivable, Disburse, Insert, ApplyAppended, Reread, SetTo, List,
                    Copy, TickBuilt, Plan, Served, Built, events
    <1>5. QED
        BY <1>1, <1>2, <1>3, <1>4 DEF Step

LEMMA SeqGrows ==
    ASSUME LoanInv, StateInv, KindOK, NEW p \in Procs, Seed(p) \/ Ask(p) \/ Step(p) \/ Fail(p)
    PROVE  /\ lastSeq \in Int /\ lastSeq' \in Int /\ lastSeq' >= lastSeq
           /\ pc[p] = "apply" => lastSeq' >= job[p].seq
    <1>1. LogOK /\ ProjOK /\ lastSeq \in Int
        BY DEF LoanInv, StateInv, ProjOK, LogOK
    <1>2. pc[p] = "apply" => ApplyAppended(p)
        BY DEF Seed, Ask, Underwrite, Originate, Repay, MissPayment, Default, AdvanceTime, Begin,
               LoanInv, PhaseOK, Step, Get, Txs, RepayBuilt, Funds, Pay, PayBuilt,
               appendRepaidEvent, MissBuilt, Evaluate, PostFee, DefaultBuilt, Owed, WriteOff,
               Score, Price, Decide, OpenReceivable, Disburse, Insert, Commit, Reread, SetTo, List,
               Copy, TickBuilt, Plan, Served, Built, Fail, StoreError, PostLost, CommitLost
    <1>3. CASE ApplyAppended(p)
        <2>1. pc[p] = "apply" /\ Fold({job[p].seq})
            BY <1>3 DEF ApplyAppended
        <2>2. {job[p].seq} \in SUBSET DOMAIN log
            BY <2>1 DEF LoanInv, SeqsOK, SeqOK
        <2>3. lastSeq' \in 0..nextSeq /\ lastSeq' >= lastSeq /\ job[p].seq <= lastSeq'
            BY <1>1, <2>1, <2>2, FoldSeq
        <2>4. job[p].seq \in Int
            BY <1>1, <2>2 DEF LogOK
        <2>5. QED
            BY <1>1, <2>3, <2>4
    <1>4. CASE refresh
        <2>1. PICK S : S = {n \in DOMAIN log : n > lastSeq}
            OBVIOUS
        <2>2. S \in SUBSET DOMAIN log /\ Fold(S)
            BY <1>4, <2>1 DEF refresh
        <2>3. lastSeq' \in 0..nextSeq /\ lastSeq' >= lastSeq
            BY <1>1, <2>2, FoldSeq
        <2>4. QED
            BY <1>1, <1>2, <1>3, <2>3
    <1>5. CASE UNCHANGED <<st, lastSeq>>
        BY <1>1, <1>2, <1>3, <1>5
    <1>6. QED
        BY <1>3, <1>4, <1>5, StepProj

LEMMA CaughtMove ==
    ASSUME CaughtOK, NEW p \in Procs, raced \subseteq raced', log' = log,
           \A n \in DOMAIN log : n \in Int,
           lastSeq \in Int, lastSeq' \in Int, lastSeq' >= lastSeq,
           \A q \in Procs : q # p => pc'[q] = pc[q] /\ job'[q] = job[q],
           Past(pc'[p], job'[p]) =>
             \/ Past(pc[p], job[p]) /\ (pc[p] = "apply" => lastSeq' >= job[p].seq)
             \/ \A n \in DOMAIN log : n <= lastSeq'
    PROVE  CaughtOK'
    <1>1. SUFFICES ASSUME NEW q \in Procs, Past(pc'[q], job'[q]), NEW l \in Loans \ raced',
                          NEW n \in DOMAIN log, log[n].loan = l
                   PROVE  n <= lastSeq' \/ (pc'[q] = "apply" /\ job'[q].seq = n)
        BY DEF CaughtOK, Caught
    <1>2. l \in Loans \ raced
        BY <1>1
    <1>3. CASE q # p
        BY <1>1, <1>2, <1>3 DEF CaughtOK, Caught
    <1>4. CASE q = p /\ Past(pc[p], job[p]) /\ (pc[p] = "apply" => lastSeq' >= job[p].seq)
        BY <1>1, <1>2, <1>4 DEF CaughtOK, Caught
    <1>5. CASE \A i \in DOMAIN log : i <= lastSeq'
        BY <1>1, <1>5
    <1>6. QED
        BY <1>1, <1>3, <1>4, <1>5

(* Goroutines other than p stay where they are, and what p does on its own *)
(* behalf when it asks for something or fails.                             *)
Others(p) == \A q \in Procs : q # p => pc'[q] = pc[q] /\ job'[q] = job[q]

LEMMA StepGoes ==
    ASSUME LoanInv, StateInv, KindOK, NEW p \in Procs, Step(p)
    PROVE  /\ Others(p) /\ raced \subseteq raced'
           /\ job'[p].op = "advance" => job[p].op = "advance" /\ raced' = raced
    <1>1. CASE Decide(p)
        <2>1. \/ Own(p) /\ pc'[p] = "idle" /\ raced' = raced
              \/ /\ raced \subseteq raced' /\ job'[p].op = job[p].op /\ Others(p)
                 /\ pc'[p] = "open" /\ job'[p].then = "none"
            BY <1>1, DecideAt DEF Others
        <2>2. job[p].op # "advance"
            BY <1>1 DEF Decide, StateInv, FitOK, Fit, Serving
        <2>3. QED
            BY <2>1, <2>2, NoJobKind DEF Own, Goes, Others
    <1>2. CASE ~Decide(p)
        <2>1. Own(p)
            BY <1>2, OwnStep
        <2>2. raced' = raced
            BY <1>2 DEF Step, Get, Txs, RepayBuilt, Funds, Pay, PayBuilt, appendRepaidEvent,
                    MissBuilt, Evaluate, PostFee, DefaultBuilt, Owed, WriteOff, Score, Price,
                    OpenReceivable, Disburse, Insert, Commit, ApplyAppended, Reread, SetTo, List,
                    Copy, TickBuilt, Plan, Served, Built, history
        <2>3. QED
            BY <2>1, <2>2, NoJobKind DEF Own, Goes, Others
    <1>3. QED
        BY <1>1, <1>2

LEMMA AskGoes ==
    ASSUME LoanInv, NEW p \in Procs, Ask(p)
    PROVE  /\ Others(p) /\ raced \subseteq raced'
           /\ job'[p].op = "advance" =>
                pc'[p] = "set" /\ job'[p].todo = << >> /\ job'[p].then = "none" /\ job'[p].grace = 0
    <1>1. PICK s, j, S : /\ Begin(p, s, j, S)
                         /\ j.op = "advance" => /\ s = "set" /\ j.todo = << >>
                                                /\ j.then = "none" /\ j.grace = 0
        <2>1. ASSUME NEW x, NEW o \in {"originate", "underwrite"}
              PROVE  [NoJob EXCEPT !.op = o, !.ask = x].op # "advance"
            BY DEF NoJob
        <2>2. ASSUME NEW l, NEW a, NEW o \in {"repay", "miss", "default"}
              PROVE  /\ [NoJob EXCEPT !.op = o, !.then = o, !.loan = l].op # "advance"
                     /\ [NoJob EXCEPT !.op = o, !.then = o, !.loan = l, !.amount = a].op # "advance"
            BY DEF NoJob
        <2>3. CASE Underwrite(p) \/ Originate(p)
            <3>1. \E x : \E o \in {"originate", "underwrite"} : \E S :
                    Begin(p, "score", [NoJob EXCEPT !.op = o, !.ask = x], S)
                BY <2>3 DEF Underwrite, Originate
            <3>2. QED
                BY <2>1, <3>1
        <2>4. CASE Repay(p) \/ MissPayment(p) \/ Default(p)
            <3>1. \/ \E l, a : \E o \in {"repay", "miss", "default"} : \E S :
                       Begin(p, "get", [NoJob EXCEPT !.op = o, !.then = o, !.loan = l,
                                                     !.amount = a], S)
                  \/ \E l : \E o \in {"repay", "miss", "default"} : \E S :
                       Begin(p, "get", [NoJob EXCEPT !.op = o, !.then = o, !.loan = l], S)
                BY <2>4 DEF Repay, MissPayment, Default
            <3>2. QED
                BY <2>2, <3>1
        <2>5. CASE AdvanceTime(p)
            <3>1. PICK t : Begin(p, "set", [NoJob EXCEPT !.op = "advance", !.target = t], Loans)
                BY <2>5 DEF AdvanceTime
            <3>2. PICK j : j = [NoJob EXCEPT !.op = "advance", !.target = t]
                OBVIOUS
            <3>3. j.todo = << >> /\ j.then = "none" /\ j.grace = 0
                BY <3>2 DEF NoJob
            <3>4. QED
                BY <3>1, <3>2, <3>3
        <2>6. QED
            BY <2>3, <2>4, <2>5 DEF Ask
    <1>2. Go(p, s, j) /\ raced \subseteq raced'
        BY <1>1 DEF Begin
    <1>3. QED
        BY <1>1, <1>2, GoAt DEF Others

LEMMA FailGoes ==
    ASSUME LoanInv, NEW p \in Procs, Fail(p)
    PROVE  Others(p) /\ raced' = raced /\ job'[p].op # "advance"
    <1>1. raced' = raced /\ \E ok : Return(p, ok)
        BY DEF Fail, StoreError, PostLost, CommitLost, history
    <1>2. QED
        BY <1>1, ReturnAt, NoJobKind DEF Others

LEMMA SeedGoes ==
    ASSUME LoanInv, NEW p \in Procs, Seed(p)
    PROVE  /\ Others(p) /\ raced' = raced /\ refresh
           /\ job'[p].op # "advance" \/ (pc'[p] = pc[p] /\ job'[p] = job[p])
    <1>1. /\ raced' = raced /\ refresh
          /\ UNCHANGED <<pc, job>> \/ Lands(p, "score", [NoJob EXCEPT !.op = "seed"])
        BY DEF Seed, Lands, history
    <1>2. [NoJob EXCEPT !.op = "seed"].op # "advance"
        BY DEF NoJob
    <1>3. QED
        BY <1>1, <1>2, LandsAt DEF Others

LEMMA CaughtCommit ==
    ASSUME LoanInv, StateInv, KindOK, AloneOK, CaughtOK, NEW p \in Procs,
           Commit(p) \/ CommitLost(p)
    PROVE  CaughtOK'
    <1>1. PICK k : k = job[p]
        OBVIOUS
    <1>2. /\ pc[p] = "commit" /\ Kind("commit", k)
          /\ DOMAIN log' = DOMAIN log \cup {k.seq} /\ log'[k.seq] = k.event
          /\ \A n \in DOMAIN log : log'[n] = log[n]
          /\ UNCHANGED <<lastSeq, raced>>
          /\ (pc'[p] = "apply" /\ job'[p] = k) \/ (pc'[p] = "idle" /\ job'[p] = NoJob)
          /\ \A q \in Procs : q # p => pc'[q] = pc[q] /\ job'[q] = job[q]
        BY <1>1, CommitAt
    <1>3. k.op # "none" /\ k.event.loan = k.loan
        BY <1>2 DEF Kind
    <1>4. SUFFICES ASSUME NEW q \in Procs, Past(pc'[q], job'[q]), NEW l \in Loans \ raced,
                          NEW n \in DOMAIN log', log'[n].loan = l
                   PROVE  n <= lastSeq \/ (pc'[q] = "apply" /\ job'[q].seq = n)
        BY <1>2 DEF CaughtOK, Caught
    <1>5. CASE q # p
        <2>1. Past(pc[q], job[q]) /\ pc'[q] = pc[q] /\ job'[q] = job[q]
            BY <1>2, <1>4, <1>5
        <2>2. Holds(job[q], l)
            BY <2>1 DEF Past, Holds
        <2>3. ~Holds(job[p], l)
            BY <1>4, <1>5, <2>2 DEF AloneOK
        <2>4. k.event.loan # l
            BY <1>1, <1>3, <2>3 DEF Holds
        <2>5. n \in DOMAIN log /\ log[n].loan = l
            BY <1>2, <1>4, <2>4
        <2>6. QED
            BY <1>4, <2>1, <2>5 DEF CaughtOK, Caught
    <1>6. CASE q = p
        <2>1. pc'[p] = "apply" /\ job'[p] = k /\ k.op = "advance"
            BY <1>2, <1>4, <1>6, NoJobKind DEF Past
        <2>2. CASE n = k.seq
            BY <1>6, <2>1, <2>2
        <2>3. CASE n \in DOMAIN log
            <3>1. Past(pc[p], job[p]) /\ log[n].loan = l
                BY <1>1, <1>2, <1>4, <2>1, <2>3 DEF Past
            <3>2. n <= lastSeq
                BY <1>2, <1>4, <2>3, <3>1 DEF CaughtOK, Caught
            <3>3. QED
                BY <3>2
        <2>4. QED
            BY <1>2, <1>4, <2>2, <2>3
    <1>7. QED
        BY <1>5, <1>6

LEMMA CaughtNext ==
    ASSUME LoanInv, StateInv, KindOK, AloneOK, CaughtOK, [Next]_vars
    PROVE  CaughtOK'
    <1>1. LogOK /\ ProjOK /\ \A n \in DOMAIN log : n \in Int
        BY DEF LoanInv, StateInv, LogOK
    <1>2. ASSUME NEW p \in Procs, Seed(p) \/ Ask(p) \/ Step(p) \/ Fail(p),
                 ~Commit(p), ~CommitLost(p)
          PROVE  CaughtOK'
        <2>1. log' = log
            BY <1>2, LogKept
        <2>2. /\ lastSeq \in Int /\ lastSeq' \in Int /\ lastSeq' >= lastSeq
              /\ pc[p] = "apply" => lastSeq' >= job[p].seq
            BY <1>2, SeqGrows
        <2>3. Others(p) /\ raced \subseteq raced'
            BY <1>2, StepGoes, AskGoes, FailGoes, SeedGoes
        <2>4. ASSUME Past(pc'[p], job'[p])
              PROVE  Past(pc[p], job[p]) \/ \A n \in DOMAIN log : n <= lastSeq'
            <3>1. CASE refresh
                BY <1>1, <3>1, RefreshSees
            <3>2. CASE Step(p) /\ pc[p] \notin {"list", "set"}
                BY <2>4, <3>2, StepGoes DEF Past
            <3>3. CASE Step(p) /\ pc[p] = "list"
                BY <1>1, <3>3, RefreshSees DEF Step, Get, Txs, RepayBuilt, Funds, Pay, PayBuilt,
                   appendRepaidEvent, MissBuilt, Evaluate, PostFee, DefaultBuilt, Owed, WriteOff,
                   Score, Price, Decide, OpenReceivable, Disburse, Insert, Commit, ApplyAppended,
                   Reread, SetTo, List, Copy, TickBuilt, Plan, Served, Built
            <3>4. CASE Step(p) /\ pc[p] = "set"
                <4>1. SetTo(p)
                    BY <3>4 DEF Step, Get, Txs, RepayBuilt, Funds, Pay, PayBuilt,
                       appendRepaidEvent, MissBuilt, Evaluate, PostFee, DefaultBuilt, Owed,
                       WriteOff, Score, Price, Decide, OpenReceivable, Disburse, Insert, Commit,
                       ApplyAppended, Reread, List, Copy, TickBuilt, Plan, Served, Built
                <4>2. (\E j : Go(p, "list", j)) \/ Return(p, FALSE)
                    BY <4>1 DEF SetTo
                <4>3. pc'[p] \in {"list", "idle"} /\ (pc'[p] = "idle" => job'[p] = NoJob)
                    BY <4>2, GoAt, ReturnAt
                <4>4. QED
                    BY <2>4, <4>3, NoJobKind DEF Past
            <3>5. CASE Ask(p) \/ Fail(p)
                BY <2>4, <3>5, AskGoes, FailGoes DEF Past
            <3>6. QED
                BY <1>2, <3>1, <3>2, <3>3, <3>4, <3>5, SeedGoes
        <2>5. QED
            BY <1>1, <2>1, <2>2, <2>3, <2>4, CaughtMove DEF Others
    <1>3. ASSUME NEW p \in Procs, Seed(p) \/ Ask(p) \/ Step(p) \/ Fail(p)
          PROVE  CaughtOK'
        BY <1>2, <1>3, CaughtCommit
    <1>4. CASE Read
        <2>1. refresh /\ UNCHANGED <<log, pc, job, raced>>
            BY <1>4 DEF Read, events, control, history
        <2>2. \A n \in DOMAIN log : n <= lastSeq'
            BY <1>1, <2>1, RefreshSees
        <2>3. QED
            BY <2>1, <2>2 DEF CaughtOK, Caught
    <1>5. CASE EditRule \/ UNCHANGED vars
        <2>1. UNCHANGED <<log, pc, job, raced, lastSeq>>
            BY <1>5 DEF EditRule, vars, events, proj, control, history
        <2>2. QED
            BY <2>1 DEF CaughtOK, Caught
    <1>6. CASE Crash \/ StartAgain
        <2>1. job' = [p \in Procs |-> NoJob]
            BY <1>6 DEF Crash, StartAgain, Restart
        <2>2. QED
            BY <2>1, NoJobKind DEF CaughtOK, Past
    <1>7. QED
        BY <1>3, <1>4, <1>5, <1>6 DEF Next

-----------------------------------------------------------------------------
(* What an advance relies on about a loan stays so whatever others do.     *)
LEMMA ServesOther ==
    ASSUME LoanInv, StateInv, KindOK, AloneOK, WaitOK, CaughtOK, ServesOK, NEW p \in Procs,
           Seed(p) \/ Ask(p) \/ Step(p) \/ Fail(p), raced \subseteq raced',
           NEW q \in Procs, q # p, Past(pc[q], job[q]), NEW l \in Loans \ raced'
    PROVE  Serves(pc[q], job[q], l, st'[l], recv'[l], paid'[l], clock')
    <1>1. l \in Loans \ raced /\ job[q].op = "advance"
        BY DEF Past
    <1>2. Serves(pc[q], job[q], l, st[l], recv[l], paid[l], clock)
        BY <1>1 DEF ServesOK
    <1>3. Holds(job[q], l)
        BY <1>1 DEF Holds
    <1>4. ~Holds(job[p], l)
        BY <1>1, <1>3 DEF AloneOK
    <1>5. recv'[l] = recv[l] /\ paid'[l] = paid[l] /\ clock' = clock
        BY <1>1, <1>4, Touches
    <1>6. \/ st'[l] = st[l]
          \/ /\ pc[q] = "apply" /\ job[q].loan = l
             /\ job[q].then = "miss" => Notes(st[l], st'[l], job[q].no)
        <2>1. CASE UNCHANGED <<st, lastSeq>>
            BY <2>1
        <2>2. CASE refresh
            <3>1. PICK S : S = {n \in DOMAIN log : n > lastSeq}
                OBVIOUS
            <3>2. S \in SUBSET DOMAIN log /\ Fold(S) /\ \A n \in S : n > lastSeq
                BY <2>2, <3>1 DEF refresh
            <3>3. QED
                BY <1>1, <3>2, Steady
        <2>3. CASE pc[p] = "apply" /\ ApplyAppended(p)
            <3>1. PICK S : S = {job[p].seq}
                OBVIOUS
            <3>2. Fold(S)
                BY <2>3, <3>1 DEF ApplyAppended
            <3>3. job[p].seq \in DOMAIN log /\ log[job[p].seq] = job[p].event
                BY <2>3 DEF WaitOK, Waits
            <3>4. job[p].event.loan = job[p].loan /\ job[p].op # "none"
                BY <2>3 DEF KindOK, Kind
            <3>5. log[job[p].seq].loan # l
                BY <1>4, <3>3, <3>4 DEF Holds
            <3>6. S \in SUBSET DOMAIN log /\ \A n \in S : log[n].loan # l
                BY <3>1, <3>3, <3>5
            <3>7. QED
                BY <1>1, <3>2, <3>6, Steady
        <2>4. QED
            BY <2>1, <2>2, <2>3, StepProj
    <1>7. Serves(pc[q], job[q], l, st'[l], recv[l], paid[l], clock)
        BY <1>2, <1>6, ServesAway
    <1>8. QED
        BY <1>5, <1>7

(* What p itself must see to.                                              *)
OwnServes(p) ==
    job'[p].op = "advance" =>
      /\ TodoOK(pc'[p], job'[p])
      /\ Past(pc'[p], job'[p]) =>
           \A l \in Loans \ raced' :
             Serves(pc'[p], job'[p], l, st'[l], recv'[l], paid'[l], clock')

LEMMA ServesMove ==
    ASSUME LoanInv, StateInv, KindOK, AloneOK, WaitOK, CaughtOK, ServesOK, NEW p \in Procs,
           Seed(p) \/ Ask(p) \/ Step(p) \/ Fail(p), raced \subseteq raced', Others(p),
           OwnServes(p)
    PROVE  ServesOK'
    <1>1. SUFFICES ASSUME NEW q \in Procs, job'[q].op = "advance"
                   PROVE  /\ TodoOK(pc'[q], job'[q])
                          /\ Past(pc'[q], job'[q]) =>
                               \A l \in Loans \ raced' :
                                 Serves(pc'[q], job'[q], l, st'[l], recv'[l], paid'[l], clock')
        BY DEF ServesOK, TodoOK, AllLeft
    <1>2. CASE q = p
        BY <1>1, <1>2 DEF OwnServes
    <1>3. CASE q # p
        <2>1. pc'[q] = pc[q] /\ job'[q] = job[q]
            BY <1>3 DEF Others
        <2>2. TodoOK(pc[q], job[q])
            BY <1>1, <2>1 DEF ServesOK
        <2>3. ASSUME Past(pc[q], job[q]), NEW l \in Loans \ raced'
              PROVE  Serves(pc[q], job[q], l, st'[l], recv'[l], paid'[l], clock')
            BY <1>3, <2>3, ServesOther
        <2>4. QED
            BY <2>1, <2>2, <2>3
    <1>4. QED
        BY <1>2, <1>3

(* An own refresh, a step that leaves the state alone.                     *)
LEMMA OwnRefresh ==
    ASSUME LoanInv, StateInv, KindOK, WaitOK, CaughtOK, NEW p \in Procs, Past(pc[p], job[p]),
           pc[p] # "apply", refresh, NEW l \in Loans \ raced
    PROVE  st'[l] = st[l]
    <1>1. PICK S : S = {n \in DOMAIN log : n > lastSeq}
        OBVIOUS
    <1>2. S \in SUBSET DOMAIN log /\ Fold(S) /\ \A n \in S : n > lastSeq
        BY <1>1 DEF refresh
    <1>3. QED
        BY <1>2, Steady

-----------------------------------------------------------------------------
(* The steps of an advance itself.                                         *)
LEMMA ServesGo ==
    ASSUME LoanInv, NEW p \in Procs, NEW s, NEW k, Go(p, s, k), raced' = raced, TodoOK(s, k),
           \A l \in Loans \ raced : Serves(s, k, l, st'[l], recv'[l], paid'[l], clock')
    PROVE  OwnServes(p)
    BY GoAt DEF OwnServes

LEMMA ServesReturn ==
    ASSUME LoanInv, NEW p \in Procs, NEW ok, Return(p, ok)
    PROVE  OwnServes(p)
    BY ReturnAt, NoJobKind DEF OwnServes

LEMMA AdvanceHere ==
    ASSUME LoanInv, StateInv, KindOK, ServesOK, NEW p \in Procs, job[p].op = "advance"
    PROVE  /\ IsJob(job[p]) /\ Fit(pc[p], job[p], listed) /\ Serving(pc[p], job[p])
           /\ Kind(pc[p], job[p]) /\ TodoOK(pc[p], job[p])
           /\ job[p].todo \in Seq(CallType)
           /\ pc[p] \notin {"set", "list"} =>
                \A l \in Loans \ raced :
                  Serves(pc[p], job[p], l, st[l], recv[l], paid[l], clock)
    <1>1. Fit(pc[p], job[p], listed)
        BY DEF StateInv, FitOK
    <1>2. IsJob(job[p])
        BY JobHere
    <1>3. Serving(pc[p], job[p]) /\ job[p].todo \in Seq(CallType)
        BY <1>1 DEF Fit
    <1>4. QED
        BY <1>1, <1>2, <1>3 DEF KindOK, ServesOK, Past

LEMMA ServesNextMiss ==
    ASSUME LoanInv, NEW p \in Procs, NEW j, j.op = "advance", j.todo \in Seq(CallType),
           AllLeft(j.todo), j.grace \in Nat, raced' = raced, NextMiss(p, j),
           \A l \in Loans \ raced : Live(st'[l], recv'[l]) =>
             Enough(Late(st'[l], paid'[l], clock', j.grace), j.todo, l)
    PROVE  OwnServes(p)
    <1> DEFINE i == [NoJob EXCEPT !.op = j.op, !.ticks = j.ticks, !.grace = j.grace,
                                  !.todo = j.todo]
               m == [i EXCEPT !.then = "miss", !.loan = Head(j.todo).loan]
               t == [i EXCEPT !.then = "tick", !.ticks = @ + 1]
    <1>1. \/ j.todo # << >> /\ Go(p, "get", m)
          \/ Go(p, "list", t)
          \/ j.todo = << >> /\ Go(p, "served", i)
        BY DEF NextMiss
    <1>2. /\ IsJob(i) /\ i.op = "advance" /\ i.then = "none" /\ i.todo = j.todo
          /\ i.grace = j.grace
        BY DEF IsJob, NoJob, Fields
    <1> HIDE DEF i
    <1>3. /\ m.then = "miss" /\ m.op = "advance" /\ m.loan = Head(j.todo).loan
          /\ m.todo = j.todo /\ m.grace = j.grace
          /\ t.then = "tick" /\ t.todo = j.todo /\ t.grace = j.grace
        BY <1>2 DEF IsJob, Fields
    <1> HIDE DEF m, t
    <1>4. CASE j.todo # << >> /\ Go(p, "get", m)
        <2>1. TodoOK("get", m)
            BY <1>3, <1>4 DEF TodoOK
        <2>2. ASSUME NEW l \in Loans \ raced
              PROVE  Serves("get", m, l, st'[l], recv'[l], paid'[l], clock')
            BY <1>3 DEF Serves, Counts
        <2>3. QED
            BY <1>4, <2>1, <2>2, ServesGo
    <1>5. CASE Go(p, "list", t)
        <2>1. TodoOK("list", t)
            BY <1>3 DEF TodoOK
        <2>2. ~Past("list", t)
            BY DEF Past
        <2>3. QED
            BY <1>5, <2>1, <2>2, GoAt DEF OwnServes
    <1>6. CASE j.todo = << >> /\ Go(p, "served", i)
        <2>1. TodoOK("served", i)
            BY <1>2 DEF TodoOK
        <2>2. ASSUME NEW l \in Loans \ raced
              PROVE  Serves("served", i, l, st'[l], recv'[l], paid'[l], clock')
            <3>1. ASSUME NEW N, Enough(N, j.todo, l) PROVE N = {}
                BY <1>6, <3>1 DEF Enough
            <3>2. QED
                BY <1>2, <3>1 DEF Serves, Counts
        <2>3. QED
            BY <1>6, <2>1, <2>2, ServesGo
    <1>7. QED
        BY <1>1, <1>4, <1>5, <1>6

LEMMA ServesFinish ==
    ASSUME LoanInv, NEW p \in Procs, Finish(p), NEW j, j = job[p], j.op = "advance", IsJob(j),
           j.todo \in Seq(CallType), AllLeft(j.todo), j.grace \in Nat, raced' = raced,
           j.then \in {"miss", "default"},
           j.then = "miss" => j.todo # << >> /\ j.loan = Head(j.todo).loan,
           \A l \in Loans \ raced : Live(st'[l], recv'[l]) =>
             LET N == Late(st'[l], paid'[l], clock', j.grace) IN
             IF j.then = "miss" /\ l = j.loan THEN Enough(N, RestOf(j.todo), l)
             ELSE Enough(N, j.todo, l)
    PROVE  OwnServes(p)
    <1> DEFINE rest == RestOf(j.todo)
               d == [j EXCEPT !.then = "default", !.default = FALSE, !.todo = Tail(@)]
               r == [j EXCEPT !.todo = rest]
    <1>1. \/ j.then = "default" /\ NextMiss(p, j)
          \/ j.then = "miss" /\ (Go(p, "get", d) \/ NextMiss(p, r))
        BY DEF Finish, RestOf
    <1> HIDE DEF rest
    <1>2. /\ d.op = "advance" /\ d.then = "default" /\ d.todo = Tail(j.todo) /\ d.grace = j.grace
          /\ d.loan = j.loan
          /\ r.op = "advance" /\ r.todo = rest /\ r.grace = j.grace
        BY DEF IsJob, Fields
    <1> HIDE DEF d, r
    <1>3. CASE j.then = "default" /\ NextMiss(p, j)
        BY <1>3, ServesNextMiss
    <1>4. CASE j.then = "miss" /\ Go(p, "get", d)
        <2>1. Tail(j.todo) \in Seq(CallType) /\ AllLeft(Tail(j.todo))
            BY <1>4, RestType
        <2>2. TodoOK("get", d)
            BY <1>2, <2>1 DEF TodoOK
        <2>3. ASSUME NEW l \in Loans \ raced
              PROVE  Serves("get", d, l, st'[l], recv'[l], paid'[l], clock')
            <3>1. ASSUME Live(st'[l], recv'[l]), l # j.loan
                  PROVE  Enough(Late(st'[l], paid'[l], clock', j.grace), Tail(j.todo), l)
                <4>1. Enough(Late(st'[l], paid'[l], clock', j.grace), j.todo, l)
                    BY <3>1
                <4>2. QED
                    BY <1>4, <3>1, <4>1, RestOther
            <3>2. QED
                BY <1>2, <3>1 DEF Serves, Counts
        <2>4. QED
            BY <1>4, <2>2, <2>3, ServesGo
    <1>5. CASE j.then = "miss" /\ NextMiss(p, r)
        <2>1. rest \in Seq(CallType) /\ AllLeft(rest)
            BY <1>5, RestType DEF rest
        <2>2. ASSUME NEW l \in Loans \ raced, Live(st'[l], recv'[l])
              PROVE  Enough(Late(st'[l], paid'[l], clock', r.grace), r.todo, l)
            <3>1. CASE l = j.loan
                BY <1>2, <1>5, <2>2, <3>1 DEF rest
            <3>2. CASE l # j.loan
                <4>1. Enough(Late(st'[l], paid'[l], clock', j.grace), j.todo, l)
                    BY <2>2, <3>2
                <4>2. Enough(Late(st'[l], paid'[l], clock', j.grace), rest, l)
                    BY <1>5, <3>2, <4>1, RestOther DEF rest
                <4>3. QED
                    BY <1>2, <4>2
            <3>3. QED
                BY <3>1, <3>2
        <2>3. QED
            BY <1>2, <1>5, <2>1, <2>2, ServesNextMiss
    <1>6. QED
        BY <1>1, <1>3, <1>4, <1>5

LEMMA ServesGet ==
    ASSUME LoanInv, StateInv, KindOK, WaitOK, CaughtOK, ServesOK, NEW p \in Procs,
           job[p].op = "advance", Get(p) \/ Txs(p)
    PROVE  OwnServes(p)
    <1>1. PICK j : j = job[p]
        OBVIOUS
    <1>2. IsJob(j) /\ Serving(pc[p], j) /\ TodoOK(pc[p], j)
        BY <1>1, AdvanceHere
    <1>3. pc[p] \in {"get", "txs"} /\ UNCHANGED <<recv, paid, clock, raced>>
        BY DEF Get, Txs, books, world, history
    <1>4. \A l \in Loans \ raced : Serves(pc[p], j, l, st[l], recv[l], paid[l], clock)
        BY <1>1, <1>3, AdvanceHere
    <1>5. CASE Get(p)
        <2>1. PICK k : k = [j EXCEPT !.st = st'[j.loan]]
            OBVIOUS
        <2>2. pc[p] = "get" /\ refresh /\ (Go(p, "txs", k) \/ Return(p, FALSE))
            BY <1>1, <1>5, <2>1 DEF Get
        <2>3. /\ k.then = j.then /\ k.loan = j.loan /\ k.todo = j.todo /\ k.grace = j.grace
              /\ k.st = st'[j.loan]
            BY <1>2, <2>1 DEF IsJob, Fields
        <2>4. j.then \in {"miss", "default"}
            BY <1>2, <2>2 DEF Serving
        <2>5. TodoOK("txs", k)
            BY <1>2, <2>2, <2>3 DEF TodoOK
        <2>6. ASSUME NEW l \in Loans \ raced
              PROVE  Serves("txs", k, l, st'[l], recv'[l], paid'[l], clock')
            <3>1. st'[l] = st[l]
                BY <1>1, <2>2, OwnRefresh DEF Past
            <3>2. Serves("get", j, l, st[l], recv[l], paid[l], clock)
                BY <1>4, <2>2
            <3>3. PICK N : N = Late(st[l], paid[l], clock, j.grace)
                OBVIOUS
            <3>4. Live(st[l], recv[l]) => Counts("txs", k, l, N)
                BY <2>3, <2>4, <3>2, <3>3 DEF Serves, Counts
            <3>5. Serves("txs", k, l, st[l], recv[l], paid[l], clock)
                BY <2>3, <2>4, <3>1, <3>3, <3>4 DEF Serves
            <3>6. QED
                BY <1>3, <3>1, <3>5
        <2>7. QED
            BY <1>3, <2>2, <2>5, <2>6, ServesGo, ServesReturn
    <1>6. CASE Txs(p)
        <2>1. PICK k : k = [j EXCEPT !.paid = paid[j.loan]]
            OBVIOUS
        <2>2. pc[p] = "txs" /\ Go(p, "balance", k) /\ st' = st
            BY <1>1, <1>6, <2>1 DEF Txs, proj
        <2>3. /\ k.then = j.then /\ k.loan = j.loan /\ k.todo = j.todo /\ k.grace = j.grace
              /\ k.st = j.st /\ k.list = j.list /\ k.views = j.views /\ k.paid = paid[j.loan]
            BY <1>2, <2>1 DEF IsJob, Fields
        <2>4. TodoOK("balance", k)
            BY <1>2, <2>2, <2>3 DEF TodoOK
        <2>5. ASSUME NEW l \in Loans \ raced
              PROVE  Serves("balance", k, l, st[l], recv[l], paid[l], clock)
            <3>1. Serves("txs", j, l, st[l], recv[l], paid[l], clock)
                BY <1>4, <2>2
            <3>2. PICK N : N = Late(st[l], paid[l], clock, j.grace)
                OBVIOUS
            <3>3. Live(st[l], recv[l]) => Counts("balance", k, l, N)
                BY <2>3, <3>1, <3>2 DEF Serves, Counts
            <3>4. QED
                BY <2>3, <3>1, <3>2, <3>3 DEF Serves
        <2>6. QED
            BY <1>3, <2>2, <2>4, <2>5, ServesGo
    <1>7. QED
        BY <1>5, <1>6

LEMMA ServesMissBuilt ==
    ASSUME LoanInv, StateInv, KindOK, ServesOK, NEW p \in Procs, job[p].op = "advance",
           MissBuilt(p)
    PROVE  OwnServes(p)
    <1>1. PICK j : j = job[p]
        OBVIOUS
    <1>2. pc[p] = "balance" /\ j.then = "miss" /\ UNCHANGED <<st, recv, paid, clock, raced>>
        BY <1>1 DEF MissBuilt, Built, books, proj, world, history
    <1>3. /\ IsJob(j) /\ Fit("balance", j, listed) /\ TodoOK("balance", j)
          /\ j.todo \in Seq(CallType)
          /\ \A l \in Loans \ raced : Serves("balance", j, l, st[l], recv[l], paid[l], clock)
        BY <1>1, <1>2, AdvanceHere
    <1>4. CASE ~Open(j)
        <2>1. Return(p, FALSE)
            BY <1>1, <1>4 DEF MissBuilt
        <2>2. QED
            BY <2>1, ServesReturn
    <1>5. CASE Open(j)
        <2>1. PICK k : k = [j EXCEPT !.no = firstScheduled(j)]
            OBVIOUS
        <2>2. Go(p, "evaluate", k)
            BY <1>1, <1>5, <2>1 DEF MissBuilt
        <2>3. /\ k.then = "miss" /\ k.loan = j.loan /\ k.todo = j.todo /\ k.grace = j.grace
              /\ k.no = firstScheduled(j)
            BY <1>2, <1>3, <2>1 DEF IsJob, Fields
        <2>4. /\ j.todo # << >> /\ j.loan = Head(j.todo).loan /\ AllLeft(j.todo)
              /\ j.grace \in Nat
            BY <1>2, <1>3 DEF TodoOK
        <2>5. TodoOK("evaluate", k)
            BY <2>3, <2>4 DEF TodoOK
        <2>6. ASSUME NEW l \in Loans \ raced
              PROVE  Serves("evaluate", k, l, st[l], recv[l], paid[l], clock)
            <3>1. Serves("balance", j, l, st[l], recv[l], paid[l], clock)
                BY <1>3
            <3>2. PICK N : N = Late(st[l], paid[l], clock, j.grace)
                OBVIOUS
            <3>3. Live(st[l], recv[l]) => Enough(N, j.todo, l)
                BY <1>2, <3>1, <3>2 DEF Serves, Counts
            <3>4. CASE l # j.loan
                <4>1. Live(st[l], recv[l]) => Counts("evaluate", k, l, N)
                    BY <2>3, <3>3, <3>4 DEF Counts
                <4>2. QED
                    BY <2>3, <3>2, <3>4, <4>1 DEF Serves
            <3>5. CASE l = j.loan
                <4>1. j.st = st[l] /\ j.paid = paid[l]
                    BY <3>1, <3>5 DEF Serves
                <4>2. j.st \in StType /\ j.st.terms \in GoodTerms
                    BY <1>3 DEF Fit
                <4>3. st[l].terms \in GoodTerms /\ st[l].at \in Nat
                    BY <4>1, <4>2 DEF StType
                <4>4. st[l].terms.term \in Nat
                    BY <4>3, GoodTermsFacts
                <4>5. clock \in Int
                    BY LoanAssumption DEF StateInv, BoundsOK
                <4>6. IsFiniteSet(N)
                    BY <3>2, <4>4, LateFinite
                <4>7. k.no = Min(Scheduled(st[l], paid[l]))
                    BY <2>3, <4>1 DEF firstScheduled
                <4>8. N # {} => k.no \in N
                    BY <2>4, <3>2, <4>3, <4>5, <4>7, LateFirst
                <4>9. Live(st[l], recv[l]) => Enough(N \ {k.no}, RestOf(j.todo), l)
                    BY <1>3, <2>4, <3>3, <3>5, <4>6, <4>8, RestTake
                <4>10. Live(st[l], recv[l]) => Counts("evaluate", k, l, N)
                    BY <2>3, <3>5, <4>9 DEF Counts
                <4>11. recv[l] > 0
                    <5>1. ~(recv[l] <= 0) /\ recv[l] \in Int
                        BY <1>5, <3>5 DEF Open, Status, StateInv, BankOK
                    <5>2. QED
                        BY <5>1
                <4>12. QED
                    BY <2>3, <3>2, <4>10, <4>11 DEF Serves
            <3>6. QED
                BY <3>4, <3>5
        <2>7. QED
            BY <1>2, <2>2, <2>5, <2>6, ServesGo
    <1>6. QED
        BY <1>4, <1>5

LEMMA ServesEvaluate ==
    ASSUME LoanInv, StateInv, KindOK, ServesOK, NEW p \in Procs, job[p].op = "advance",
           Evaluate(p)
    PROVE  OwnServes(p)
    <1>1. PICK j : j = job[p]
        OBVIOUS
    <1>2. pc[p] = "evaluate" /\ UNCHANGED <<st, recv, paid, clock, raced>>
        BY DEF Evaluate, books, proj, world, history
    <1>3. /\ IsJob(j) /\ Kind("evaluate", j) /\ TodoOK("evaluate", j)
          /\ \A l \in Loans \ raced : Serves("evaluate", j, l, st[l], recv[l], paid[l], clock)
        BY <1>1, <1>2, AdvanceHere
    <1>4. PICK d : d = EvaluateServicing(rule.servicing,
                            IF clock < Due(j.st, j.no) THEN 0
                            ELSE (clock - Due(j.st, j.no)) \div Day,
                            Cardinality(j.st.missed))
        OBVIOUS
    <1>5. PICK e : e = [type |-> "missed", loan |-> j.loan, no |-> j.no, fee |-> d.fee]
        OBVIOUS
    <1>6. PICK k : k = [j EXCEPT !.default = d.should_default, !.event = e]
        OBVIOUS
    <1>7. \E s \in {"fee", "insert"} : Go(p, s, k)
        BY <1>1, <1>4, <1>5, <1>6 DEF Evaluate
    <1>8. /\ k.then = j.then /\ k.loan = j.loan /\ k.todo = j.todo /\ k.grace = j.grace
          /\ k.no = j.no
        BY <1>3, <1>6 DEF IsJob, Fields
    <1>9. j.then = "miss"
        BY <1>3 DEF Kind
    <1>10. ASSUME NEW s \in {"fee", "insert"}
           PROVE  TodoOK(s, k)
        BY <1>3, <1>8, <1>9 DEF TodoOK
    <1>11. ASSUME NEW s \in {"fee", "insert"}, NEW l \in Loans \ raced
           PROVE  Serves(s, k, l, st[l], recv[l], paid[l], clock)
        <2>1. Serves("evaluate", j, l, st[l], recv[l], paid[l], clock)
            BY <1>3
        <2>2. PICK N : N = Late(st[l], paid[l], clock, j.grace)
            OBVIOUS
        <2>3. Live(st[l], recv[l]) => Counts(s, k, l, N)
            BY <1>8, <1>9, <2>1, <2>2 DEF Serves, Counts
        <2>4. QED
            BY <1>8, <1>9, <2>1, <2>2, <2>3 DEF Serves
    <1>12. QED
        BY <1>2, <1>7, <1>10, <1>11, ServesGo

LEMMA ServesPostFee ==
    ASSUME LoanInv, StateInv, KindOK, ServesOK, NEW p \in Procs, job[p].op = "advance",
           PostFee(p)
    PROVE  OwnServes(p)
    <1>1. PICK j : j = job[p]
        OBVIOUS
    <1>2. /\ pc[p] = "fee" /\ UNCHANGED <<st, paid, clock, raced>> /\ Go(p, "insert", j)
          /\ recv' = [recv EXCEPT ![j.loan] = @ + j.event.fee]
        BY <1>1 DEF PostFee, FeeEffect, proj, world, history
    <1>3. /\ IsJob(j) /\ Kind("fee", j) /\ TodoOK("fee", j)
          /\ \A l \in Loans \ raced : Serves("fee", j, l, st[l], recv[l], paid[l], clock)
        BY <1>1, <1>2, AdvanceHere
    <1>4. j.then = "miss"
        BY <1>3 DEF Kind
    <1>5. TodoOK("insert", j)
        BY <1>3, <1>4 DEF TodoOK
    <1>6. ASSUME NEW l \in Loans \ raced
          PROVE  Serves("insert", j, l, st[l], recv'[l], paid[l], clock)
        <2>1. Serves("fee", j, l, st[l], recv[l], paid[l], clock)
            BY <1>3
        <2>2. PICK N : N = Late(st[l], paid[l], clock, j.grace)
            OBVIOUS
        <2>3. Live(st[l], recv'[l]) => Live(st[l], recv[l])
            <3>1. CASE l = j.loan
                <4>1. recv[l] > 0 /\ recv[l] \in Int
                    BY <2>1, <3>1 DEF Serves, StateInv, BankOK
                <4>2. QED
                    BY <4>1 DEF Live, Status
            <3>2. CASE l # j.loan
                <4>1. recv'[l] = recv[l]
                    BY <1>2, <3>2 DEF StateInv, BankOK
                <4>2. QED
                    BY <4>1
            <3>3. QED
                BY <3>1, <3>2
        <2>4. Live(st[l], recv[l]) => Counts("insert", j, l, N)
            BY <1>4, <2>1, <2>2 DEF Serves, Counts
        <2>5. QED
            BY <1>4, <2>2, <2>3, <2>4 DEF Serves
    <1>7. QED
        BY <1>2, <1>5, <1>6, ServesGo

LEMMA ServesDefault ==
    ASSUME LoanInv, StateInv, KindOK, ServesOK, NEW p \in Procs, job[p].op = "advance",
           DefaultBuilt(p) \/ Owed(p) \/ WriteOff(p)
    PROVE  OwnServes(p)
    <1>1. PICK j : j = job[p]
        OBVIOUS
    <1>2. pc[p] \in {"balance", "owed", "writeoff"} /\ UNCHANGED <<st, paid, clock, raced>>
        BY DEF DefaultBuilt, Owed, WriteOff, WriteOffEffect, Built, books, proj, world, history
    <1>3. /\ IsJob(j) /\ Kind(pc[p], j) /\ TodoOK(pc[p], j) /\ j.todo \in Seq(CallType)
          /\ \A l \in Loans \ raced : Serves(pc[p], j, l, st[l], recv[l], paid[l], clock)
        BY <1>1, <1>2, AdvanceHere
    <1>4. j.then = "default"
        BY <1>1, <1>3 DEF Kind, DefaultBuilt, Owed, WriteOff, Built
    <1>5. AllLeft(j.todo) /\ j.grace \in Nat
        BY <1>3 DEF TodoOK
    <1>6. ASSUME NEW l \in Loans \ raced, Live(st[l], recv[l]), l # j.loan
          PROVE  Enough(Late(st[l], paid[l], clock, j.grace), j.todo, l)
        BY <1>3, <1>4, <1>6 DEF Serves, Counts
    <1>7. ASSUME NEW s \in {"owed", "writeoff", "insert"}, NEW k, k.then = "default",
                 k.todo = j.todo, k.loan = j.loan, k.grace = j.grace, Go(p, s, k),
                 \A l \in Loans \ raced : l # j.loan => recv'[l] = recv[l]
          PROVE  OwnServes(p)
        <2>1. TodoOK(s, k)
            BY <1>5, <1>7 DEF TodoOK
        <2>2. ASSUME NEW l \in Loans \ raced
              PROVE  Serves(s, k, l, st[l], recv'[l], paid[l], clock)
            <3>1. PICK N : N = Late(st[l], paid[l], clock, j.grace)
                OBVIOUS
            <3>2. Live(st[l], recv'[l]) => Counts(s, k, l, N)
                BY <1>6, <1>7, <3>1 DEF Counts
            <3>3. QED
                BY <1>7, <3>1, <3>2 DEF Serves
        <2>3. QED
            BY <1>2, <1>7, <2>1, <2>2, ServesGo
    <1>8. CASE DefaultBuilt(p)
        <2>1. pc[p] = "balance" /\ recv' = recv
            BY <1>8 DEF DefaultBuilt, Built, books
        <2>2. PICK x : x = Status(j.st, recv[j.loan])
            OBVIOUS
        <2>3. x \in {"defaulted", "repaid", "active"}
            BY <2>2 DEF Status
        <2>4. \/ x = "defaulted" /\ Finish(p)
              \/ Return(p, FALSE)
              \/ Go(p, "owed", j)
            BY <1>1, <1>8, <2>2, <2>3 DEF DefaultBuilt
        <2>5. CASE x = "defaulted" /\ Finish(p)
            <3>1. ASSUME NEW l \in Loans \ raced, Live(st[l], recv[l])
                  PROVE  Enough(Late(st[l], paid[l], clock, j.grace), j.todo, l)
                <4>1. l # j.loan
                    <5>1. SUFFICES ASSUME l = j.loan PROVE FALSE
                        OBVIOUS
                    <5>2. j.st = st[l]
                        BY <1>3, <2>1, <5>1 DEF Serves
                    <5>3. Status(st[l], recv[l]) = "defaulted"
                        BY <2>2, <2>5, <5>1, <5>2
                    <5>4. QED
                        BY <3>1, <5>3 DEF Live
                <4>2. QED
                    BY <1>6, <3>1, <4>1
            <3>2. ASSUME NEW l \in Loans \ raced, Live(st'[l], recv'[l])
                  PROVE  Enough(Late(st'[l], paid'[l], clock', j.grace), j.todo, l)
                BY <1>2, <2>1, <3>1, <3>2
            <3>3. QED
                BY <1>1, <1>2, <1>3, <1>4, <1>5, <2>5, <3>2, ServesFinish
        <2>6. CASE Return(p, FALSE)
            BY <2>6, ServesReturn
        <2>7. CASE Go(p, "owed", j)
            BY <1>4, <1>7, <2>1, <2>7
        <2>8. QED
            BY <2>4, <2>5, <2>6, <2>7
    <1>9. CASE Owed(p)
        <2>1. PICK e : e = [type |-> "defaulted", loan |-> j.loan]
            OBVIOUS
        <2>2. PICK k : k = [j EXCEPT !.amount = recv[j.loan], !.event = e]
            OBVIOUS
        <2>3. (\E s \in {"writeoff", "insert"} : Go(p, s, k)) /\ recv' = recv
            BY <1>1, <1>9, <2>1, <2>2 DEF Owed, books
        <2>4. k.then = "default" /\ k.loan = j.loan /\ k.todo = j.todo /\ k.grace = j.grace
            BY <1>3, <1>4, <2>2 DEF IsJob, Fields
        <2>5. QED
            BY <1>7, <2>3, <2>4
    <1>10. CASE WriteOff(p)
        <2>1. Go(p, "insert", j) /\ recv' = [recv EXCEPT ![j.loan] = @ - j.amount]
            BY <1>1, <1>10 DEF WriteOff, WriteOffEffect
        <2>2. \A l \in Loans \ raced : l # j.loan => recv'[l] = recv[l]
            BY <2>1 DEF StateInv, BankOK
        <2>3. QED
            BY <1>4, <1>7, <2>1, <2>2
    <1>11. QED
        BY <1>8, <1>9, <1>10

LEMMA ServesInsert ==
    ASSUME LoanInv, StateInv, KindOK, ServesOK, NEW p \in Procs, job[p].op = "advance",
           Insert(p) \/ Commit(p)
    PROVE  OwnServes(p)
    <1>1. PICK j : j = job[p]
        OBVIOUS
    <1>2. pc[p] \in {"insert", "commit"} /\ UNCHANGED <<st, recv, paid, clock, raced>>
        BY DEF Insert, Commit, books, proj, world, history
    <1>3. /\ IsJob(j) /\ Serving(pc[p], j) /\ TodoOK(pc[p], j)
          /\ \A l \in Loans \ raced : Serves(pc[p], j, l, st[l], recv[l], paid[l], clock)
        BY <1>1, <1>2, AdvanceHere
    <1>4. PICK k : k = [j EXCEPT !.seq = nextSeq + 1]
        OBVIOUS
    <1>5. Go(p, "commit", k) \/ Go(p, "apply", j)
        BY <1>1, <1>4 DEF Insert, Commit
    <1>6. /\ k.then = j.then /\ k.loan = j.loan /\ k.todo = j.todo /\ k.grace = j.grace
          /\ k.no = j.no
        BY <1>3, <1>4 DEF IsJob, Fields
    <1>7. j.then \in {"miss", "default"}
        BY <1>2, <1>3 DEF Serving
    <1>8. ASSUME NEW s \in {"commit", "apply"}, NEW i \in {j, k}, Go(p, s, i)
          PROVE  OwnServes(p)
        <2>1. /\ i.then = j.then /\ i.loan = j.loan /\ i.todo = j.todo /\ i.grace = j.grace
              /\ i.no = j.no
            BY <1>6, <1>8
        <2>2. TodoOK(s, i)
            BY <1>2, <1>3, <2>1 DEF TodoOK
        <2>3. ASSUME NEW l \in Loans \ raced
              PROVE  Serves(s, i, l, st[l], recv[l], paid[l], clock)
            <3>1. Serves(pc[p], j, l, st[l], recv[l], paid[l], clock)
                BY <1>3
            <3>2. PICK N : N = Late(st[l], paid[l], clock, j.grace)
                OBVIOUS
            <3>3. Live(st[l], recv[l]) => Counts(s, i, l, N)
                BY <1>2, <2>1, <3>1, <3>2 DEF Serves, Counts
            <3>4. QED
                BY <2>1, <3>2, <3>3 DEF Serves
        <2>4. QED
            BY <1>2, <1>8, <2>2, <2>3, ServesGo
    <1>9. QED
        BY <1>5, <1>8

LEMMA ServesApply ==
    ASSUME LoanInv, StateInv, KindOK, WaitOK, ServesOK, NEW p \in Procs,
           job[p].op = "advance", ApplyAppended(p)
    PROVE  OwnServes(p)
    <1>1. PICK j : j = job[p]
        OBVIOUS
    <1>2. PICK S : S = {j.seq}
        OBVIOUS
    <1>3. /\ pc[p] = "apply" /\ UNCHANGED <<recv, paid, clock, raced>> /\ Go(p, "reread", j)
          /\ Fold(S)
        BY <1>1, <1>2 DEF ApplyAppended, books, world, history
    <1>4. /\ IsJob(j) /\ Kind("apply", j) /\ Serving("apply", j) /\ TodoOK("apply", j)
          /\ Fit("apply", j, listed)
          /\ \A l \in Loans \ raced : Serves("apply", j, l, st[l], recv[l], paid[l], clock)
        BY <1>1, <1>3, AdvanceHere
    <1>5. j.then \in {"miss", "default"} /\ j.loan \in Loans
        BY <1>4 DEF Serving, Fit, OnLoan
    <1>6. S \in SUBSET DOMAIN log /\ j.seq \in S /\ log[j.seq] = j.event /\ LogOK /\ ProjOK
        BY <1>1, <1>2, <1>3 DEF WaitOK, Waits, LoanInv, StateInv
    <1>7. j.event.loan = j.loan
        BY <1>4 DEF Kind
    <1>8. TodoOK("reread", j)
        BY <1>4 DEF TodoOK
    <1>9. ASSUME NEW l \in Loans \ raced
          PROVE  Serves("reread", j, l, st'[l], recv[l], paid[l], clock)
        <2>1. Serves("apply", j, l, st[l], recv[l], paid[l], clock)
            BY <1>4
        <2>2. PICK N, M : /\ N = Late(st[l], paid[l], clock, j.grace)
                          /\ M = Late(st'[l], paid[l], clock, j.grace)
            OBVIOUS
        <2>3. Live(st[l], recv[l]) => Counts("apply", j, l, N)
            BY <2>1, <2>2 DEF Serves
        <2>4. Live(st'[l], recv[l]) => Counts("reread", j, l, M)
            <3>1. CASE l # j.loan
                <4>1. \A n \in S : log[n].loan # l
                    BY <1>2, <1>6, <1>7, <3>1
                <4>2. st'[l] = st[l]
                    BY <1>3, <1>6, <4>1, FoldNothing
                <4>3. M = N
                    BY <2>2, <4>2
                <4>4. QED
                    BY <2>3, <3>1, <4>2, <4>3 DEF Counts
            <3>2. CASE l = j.loan /\ j.then = "default"
                BY <3>2 DEF Counts
            <3>3. CASE l = j.loan /\ j.then = "miss"
                <4>1. j.event.type = "missed" /\ j.event.no = j.no
                    BY <1>4, <3>3 DEF Kind
                <4>2. phase \in {"seeding", "up"}
                    BY <1>3, PhaseHere
                <4>3. st[l].known
                    BY <1>6, <1>7, <3>3, <4>1, <4>2 DEF ProjOK
                <4>4. /\ log[j.seq].loan = l /\ log[j.seq].type = "missed"
                      /\ \A n \in S : log[n].loan = l => n = j.seq
                    BY <1>2, <1>6, <1>7, <3>3, <4>1
                <4>5. Notes(st[l], st'[l], log[j.seq].no)
                    BY <1>3, <1>6, <4>3, <4>4, FoldMissed
                <4>6. Notes(st[l], st'[l], j.no)
                    BY <1>6, <4>1, <4>5
                <4>7. (Live(st'[l], recv[l]) => Live(st[l], recv[l])) /\ M = N \ {j.no}
                    BY <2>2, <4>6, NotesLate
                <4>8. Live(st[l], recv[l]) => Enough(N \ {j.no}, RestOf(j.todo), l)
                    BY <2>3, <3>3 DEF Counts
                <4>9. QED
                    BY <3>3, <4>7, <4>8 DEF Counts
            <3>4. QED
                BY <1>5, <3>1, <3>2, <3>3
        <2>5. QED
            BY <2>2, <2>4 DEF Serves
    <1>10. QED
        BY <1>3, <1>8, <1>9, ServesGo

LEMMA ServesReread ==
    ASSUME LoanInv, StateInv, KindOK, WaitOK, CaughtOK, ToldOK, ServesOK, NEW p \in Procs,
           job[p].op = "advance", Reread(p)
    PROVE  OwnServes(p)
    <1>1. PICK j : j = job[p]
        OBVIOUS
    <1>2. /\ pc[p] = "reread" /\ UNCHANGED <<recv, paid, clock, raced>> /\ refresh /\ Finish(p)
        BY DEF Reread, books, world, history
    <1>3. /\ IsJob(j) /\ Serving("reread", j) /\ TodoOK("reread", j) /\ j.todo \in Seq(CallType)
          /\ \A l \in Loans \ raced : Serves("reread", j, l, st[l], recv[l], paid[l], clock)
        BY <1>1, <1>2, AdvanceHere
    <1>4. j.then \in {"miss", "default"}
        BY <1>3 DEF Serving
    <1>5. /\ AllLeft(j.todo) /\ j.grace \in Nat
          /\ j.then = "miss" => j.todo # << >> /\ j.loan = Head(j.todo).loan
        BY <1>3 DEF TodoOK
    <1>6. ASSUME NEW l \in Loans \ raced, Live(st'[l], recv'[l])
          PROVE  LET N == Late(st'[l], paid'[l], clock', j.grace) IN
                 IF j.then = "miss" /\ l = j.loan THEN Enough(N, RestOf(j.todo), l)
                 ELSE Enough(N, j.todo, l)
        <2>1. st'[l] = st[l] /\ Live(st[l], recv[l])
            BY <1>1, <1>2, <1>6, OwnRefresh DEF Past
        <2>2. PICK N : N = Late(st[l], paid[l], clock, j.grace)
            OBVIOUS
        <2>3. Counts("reread", j, l, N)
            BY <1>3, <2>1, <2>2 DEF Serves
        <2>4. N = Late(st'[l], paid'[l], clock', j.grace)
            BY <1>2, <2>1, <2>2
        <2>5. CASE j.then = "miss"
            BY <2>3, <2>4, <2>5 DEF Counts
        <2>6. CASE j.then = "default"
            <3>1. l # j.loan
                <4>1. SUFFICES ASSUME l = j.loan PROVE FALSE
                    OBVIOUS
                <4>2. ToldOf("reread", j, log, lost, paid, recv)
                    BY <1>1, <1>2, <4>1 DEF ToldOK
                <4>3. recv[l] <= 0
                    BY <2>6, <4>1, <4>2 DEF ToldOf, Told
                <4>4. QED
                    BY <2>1, <4>3 DEF Live, Status
            <3>2. QED
                BY <2>3, <2>4, <2>6, <3>1 DEF Counts
        <2>7. QED
            BY <1>4, <2>5, <2>6
    <1>7. QED
        BY <1>1, <1>2, <1>3, <1>4, <1>5, <1>6, ServesFinish

LEMMA ServesNextInList ==
    ASSUME LoanInv, NEW p \in Procs, NEW k, IsJob(k), k.then = "tick",
           AllLeft(k.todo), k.grace \in Nat, k.list \in [Loans -> Int], raced' = raced,
           NextInList(p, k),
           \A l \in Loans \ raced : st'[l].known =>
             \/ k.list[l] > 0
             \/ \E i \in DOMAIN k.views : k.views[i] = ViewOf(l, st'[l], recv'[l], paid'[l])
    PROVE  OwnServes(p)
    <1>1. CASE {l \in Loans : k.list[l] > 0} = {}
        <2>1. Go(p, "plan", k)
            BY <1>1 DEF NextInList
        <2>2. TodoOK("plan", k)
            BY DEF TodoOK
        <2>3. ASSUME NEW l \in Loans \ raced
              PROVE  Serves("plan", k, l, st'[l], recv'[l], paid'[l], clock')
            <3>1. ~(k.list[l] > 0)
                BY <1>1
            <3>2. QED
                BY <3>1 DEF Serves, Counts
        <2>4. QED
            BY <2>1, <2>2, <2>3, ServesGo
    <1>2. CASE {l \in Loans : k.list[l] > 0} # {}
        <2>1. PICK m \in Loans : Go(p, "copy", [k EXCEPT !.loan = m, !.list[m] = @ - 1])
            BY <1>2 DEF NextInList
        <2>2. PICK i : i = [k EXCEPT !.loan = m, !.list[m] = @ - 1]
            OBVIOUS
        <2>3. /\ i.then = "tick" /\ i.todo = k.todo /\ i.grace = k.grace /\ i.views = k.views
              /\ i.loan = m /\ i.list = [k.list EXCEPT ![m] = @ - 1]
            BY <2>2 DEF IsJob, Fields
        <2>4. TodoOK("copy", i)
            BY <2>3 DEF TodoOK
        <2>5. ASSUME NEW l \in Loans \ raced
              PROVE  Serves("copy", i, l, st'[l], recv'[l], paid'[l], clock')
            <3>1. l = i.loan \/ i.list[l] = k.list[l]
                BY <2>3
            <3>2. QED
                BY <2>3, <3>1 DEF Serves, Counts
        <2>6. QED
            BY <2>1, <2>2, <2>4, <2>5, ServesGo
    <1>3. QED
        BY <1>1, <1>2

LEMMA ServesList ==
    ASSUME LoanInv, StateInv, ProjOK', KindOK, ServesOK, NEW p \in Procs, job[p].op = "advance",
           List(p)
    PROVE  OwnServes(p)
    <1>1. PICK j : j = job[p]
        OBVIOUS
    <1>2. PICK k : k = [j EXCEPT !.list = listed', !.views = << >>]
        OBVIOUS
    <1>3. pc[p] = "list" /\ raced' = raced /\ NextInList(p, k)
        BY <1>1, <1>2 DEF List, history
    <1>4. IsJob(j) /\ TodoOK("list", j) /\ Fit("list", j, listed)
        BY <1>1, <1>3, AdvanceHere
    <1>5. j.then = "tick" /\ AllLeft(j.todo) /\ j.grace \in Nat
        BY <1>4 DEF Fit, TodoOK
    <1>6. /\ k.then = "tick" /\ k.todo = j.todo /\ k.grace = j.grace /\ k.list = listed'
          /\ IsJob(k)
        BY <1>2, <1>4, <1>5 DEF IsJob, Fields
    <1>7. /\ listed' \in [Loans -> Int]
          /\ \A l \in Loans : st'[l].known => listed'[l] > 0
        BY DEF ProjOK
    <1>8. QED
        BY <1>3, <1>5, <1>6, <1>7, ServesNextInList

LEMMA ServesCopy ==
    ASSUME LoanInv, StateInv, KindOK, ServesOK, NEW p \in Procs, job[p].op = "advance", Copy(p)
    PROVE  OwnServes(p)
    <1>1. PICK j : j = job[p]
        OBVIOUS
    <1>2. PICK k : k = [j EXCEPT !.st = st[j.loan]]
        OBVIOUS
    <1>3. pc[p] = "copy" /\ UNCHANGED <<st, recv, paid, clock, raced>> /\ Go(p, "txs", k)
        BY <1>1, <1>2 DEF Copy, books, proj, world, history
    <1>4. /\ IsJob(j) /\ TodoOK("copy", j) /\ Fit("copy", j, listed)
          /\ \A l \in Loans \ raced : Serves("copy", j, l, st[l], recv[l], paid[l], clock)
        BY <1>1, <1>3, AdvanceHere
    <1>5. /\ k.then = j.then /\ k.todo = j.todo /\ k.grace = j.grace /\ k.list = j.list
          /\ k.views = j.views /\ k.loan = j.loan /\ k.st = st[j.loan]
        BY <1>2, <1>4 DEF IsJob, Fields
    <1>6. j.then = "tick"
        BY <1>4 DEF Fit
    <1>7. TodoOK("txs", k)
        BY <1>4, <1>5, <1>6 DEF TodoOK
    <1>8. ASSUME NEW l \in Loans \ raced
          PROVE  Serves("txs", k, l, st[l], recv[l], paid[l], clock)
        <2>1. Serves("copy", j, l, st[l], recv[l], paid[l], clock)
            BY <1>4
        <2>2. QED
            BY <1>5, <1>6, <2>1 DEF Serves, Counts
    <1>9. QED
        BY <1>3, <1>7, <1>8, ServesGo

LEMMA ServesTickBuilt ==
    ASSUME LoanInv, StateInv, KindOK, ServesOK, NEW p \in Procs, job[p].op = "advance",
           TickBuilt(p)
    PROVE  OwnServes(p)
    <1>1. PICK j : j = job[p]
        OBVIOUS
    <1>2. PICK v : v = ViewOf(j.loan, j.st, recv[j.loan], j.paid)
        OBVIOUS
    <1>3. PICK k : k = [j EXCEPT !.views = Append(@, v)]
        OBVIOUS
    <1>4. /\ pc[p] = "balance" /\ j.then = "tick" /\ UNCHANGED <<st, recv, paid, clock, raced>>
          /\ NextInList(p, k)
        BY <1>1, <1>2, <1>3 DEF TickBuilt, Built, ViewOf, books, proj, world, history
    <1>5. /\ IsJob(j) /\ TodoOK("balance", j) /\ Fit("balance", j, listed)
          /\ \A l \in Loans \ raced : Serves("balance", j, l, st[l], recv[l], paid[l], clock)
        BY <1>1, <1>4, AdvanceHere
    <1>6. j.views \in Seq(ViewType) /\ j.list \in [Loans -> Int]
        BY <1>4, <1>5 DEF Fit
    <1>7. PICK w : w = Append(j.views, v)
        OBVIOUS
    <1>8. /\ k.then = "tick" /\ k.todo = j.todo /\ k.grace = j.grace /\ k.list = j.list
          /\ k.views = w /\ IsJob(k)
        BY <1>3, <1>4, <1>5, <1>7 DEF IsJob, Fields
    <1>9. AllLeft(j.todo) /\ j.grace \in Nat
        BY <1>5 DEF TodoOK
    <1>10. /\ DOMAIN w = 1..(Len(j.views) + 1) /\ DOMAIN j.views = 1..Len(j.views)
           /\ Len(j.views) \in Nat /\ w[Len(j.views) + 1] = v
           /\ \A i \in 1..Len(j.views) : w[i] = j.views[i]
        BY <1>6, <1>7
    <1>11. Len(j.views) + 1 \in DOMAIN w /\ \A i \in DOMAIN j.views : i \in DOMAIN w
        BY <1>10
    <1>12. ASSUME NEW l \in Loans \ raced, st[l].known
           PROVE  \/ k.list[l] > 0
                  \/ \E i \in DOMAIN k.views : k.views[i] = ViewOf(l, st[l], recv[l], paid[l])
        <2>1. Serves("balance", j, l, st[l], recv[l], paid[l], clock)
            BY <1>5
        <2>2. CASE l = j.loan
            <3>1. v = ViewOf(l, st[l], recv[l], paid[l])
                BY <1>2, <2>1, <2>2 DEF Serves
            <3>2. QED
                BY <1>8, <1>10, <1>11, <3>1
        <2>3. CASE l # j.loan
            <3>1. \/ j.list[l] > 0
                  \/ \E i \in DOMAIN j.views : j.views[i] = ViewOf(l, st[l], recv[l], paid[l])
                BY <1>4, <1>12, <2>1, <2>3 DEF Serves
            <3>2. QED
                BY <1>8, <1>10, <1>11, <3>1
        <2>4. QED
            BY <2>2, <2>3
    <1>13. QED
        BY <1>4, <1>6, <1>8, <1>9, <1>12, ServesNextInList

LEMMA ServesPlan ==
    ASSUME LoanInv, StateInv, KindOK, ServesOK, NEW p \in Procs, job[p].op = "advance", Plan(p)
    PROVE  OwnServes(p)
    <1>1. PICK j : j = job[p]
        OBVIOUS
    <1>2. PICK g, c : g = rule.servicing.grace /\ c = Calls(j.views, g)
        OBVIOUS
    <1>3. PICK k, i : /\ k = [j EXCEPT !.todo = c, !.grace = g]
                      /\ i = [NoJob EXCEPT !.op = j.op, !.grace = g]
        OBVIOUS
    <1>4. pc[p] = "plan" /\ UNCHANGED <<st, recv, paid, clock, raced>>
        BY DEF Plan, books, proj, world, history
    <1>5. /\ IsJob(j) /\ Fit("plan", j, listed)
          /\ \A l \in Loans \ raced : Serves("plan", j, l, st[l], recv[l], paid[l], clock)
        BY <1>1, <1>4, AdvanceHere
    <1>6. k.todo = c /\ k.grace = g /\ k.op = "advance"
        BY <1>1, <1>3, <1>5 DEF IsJob, Fields
    <1>7. i.then = "none" /\ i.todo = << >> /\ i.grace = g
        BY <1>3 DEF NoJob
    <1>8. \/ c = << >> /\ Go(p, "served", i)
          \/ NextMiss(p, k)
        <2>1. LET n == [job[p] EXCEPT !.todo = Calls(job[p].views, rule.servicing.grace),
                                      !.grace = rule.servicing.grace]
              IN  IF n.todo = << >>
                  THEN Go(p, "served", [NoJob EXCEPT !.op = job[p].op,
                                                     !.grace = rule.servicing.grace])
                  ELSE NextMiss(p, n)
            BY DEF Plan
        <2>2. IF k.todo = << >> THEN Go(p, "served", i) ELSE NextMiss(p, k)
            BY <1>1, <1>2, <1>3, <2>1
        <2>3. QED
            BY <1>6, <2>2
    <1>9. j.views \in Seq(ViewType)
        BY <1>5 DEF Fit
    <1>10. /\ c \in Seq(CallType) /\ AllLeft(c)
           /\ \A n \in DOMAIN j.views : Misses(j.views[n], g) # 0 =>
                \E x \in DOMAIN c : /\ c[x].loan = j.views[n].loan
                                    /\ c[x].left = Misses(j.views[n], g)
        BY <1>2, <1>9, CallsCover DEF AllLeft
    <1>11. g \in Nat
        <2>1. rule.servicing \in Contents.servicing
            BY LoanAssumption DEF LoanInv, RulesOK
        <2>2. QED
            BY <1>2, <2>1, LoanAssumption
    <1>12. ASSUME NEW l \in Loans \ raced, Live(st[l], recv[l])
           PROVE  Enough(Late(st[l], paid[l], clock, g), c, l)
        <2>1. Status(st[l], recv[l]) = "active" /\ st[l].known
            BY <1>12 DEF Live
        <2>2. PICK n \in DOMAIN j.views : j.views[n] = ViewOf(l, st[l], recv[l], paid[l])
            BY <1>5, <2>1 DEF Serves
        <2>3. PICK v : v = j.views[n]
            OBVIOUS
        <2>4. v.loan = l /\ v.st = st[l] /\ v.scheduled = Scheduled(st[l], paid[l])
            BY <2>1, <2>2, <2>3 DEF ViewOf
        <2>5. PICK N : N = Late(st[l], paid[l], clock, g)
            OBVIOUS
        <2>6. N = {no \in v.scheduled : Overdue(v.st, no, g)}
            BY <2>4, <2>5 DEF Late, Overdue
        <2>7. Misses(v, g) = Cardinality(N)
            BY <2>6 DEF Misses
        <2>8. st[l].terms.term \in Nat
            <3>1. st[l] \in StType
                BY DEF StateInv, ProjOK
            <3>2. st[l].terms \in GoodTerms \/ st[l].terms = NoTerms
                BY <3>1 DEF StType
            <3>3. QED
                BY <3>2, GoodTermsFacts DEF NoTerms
        <2>9. Cardinality(N) \in Nat /\ (Cardinality(N) = 0 <=> N = {})
            BY <2>5, <2>8, LateFinite
        <2>10. CASE N = {}
            BY <2>5, <2>10 DEF Enough
        <2>11. CASE N # {}
            <3>1. PICK x \in DOMAIN c : c[x].loan = v.loan /\ c[x].left = Misses(v, g)
                BY <1>10, <2>3, <2>7, <2>9, <2>11
            <3>2. c[x].loan = l /\ Cardinality(N) <= c[x].left
                BY <2>4, <2>7, <2>9, <3>1
            <3>3. QED
                BY <2>5, <3>2 DEF Enough
        <2>12. QED
            BY <2>10, <2>11
    <1>13. CASE NextMiss(p, k)
        <2>1. ASSUME NEW l \in Loans \ raced, Live(st'[l], recv'[l])
              PROVE  Enough(Late(st'[l], paid'[l], clock', k.grace), k.todo, l)
            BY <1>4, <1>6, <1>12, <2>1
        <2>2. QED
            BY <1>4, <1>6, <1>10, <1>11, <1>13, <2>1, ServesNextMiss
    <1>14. CASE c = << >> /\ Go(p, "served", i)
        <2>1. TodoOK("served", i)
            BY <1>7, <1>11 DEF TodoOK, AllLeft
        <2>2. ASSUME NEW l \in Loans \ raced
              PROVE  Serves("served", i, l, st[l], recv[l], paid[l], clock)
            <3>1. PICK N : N = Late(st[l], paid[l], clock, g)
                OBVIOUS
            <3>2. Live(st[l], recv[l]) => N = {}
                BY <1>12, <1>14, <3>1 DEF Enough
            <3>3. QED
                BY <1>7, <3>1, <3>2 DEF Serves, Counts
        <2>3. QED
            BY <1>4, <1>14, <2>1, <2>2, ServesGo
    <1>15. QED
        BY <1>8, <1>13, <1>14

LEMMA ServesSet ==
    ASSUME LoanInv, StateInv, KindOK, ServesOK, NEW p \in Procs, job[p].op = "advance", SetTo(p)
    PROVE  OwnServes(p)
    <1>1. PICK j, k : j = job[p] /\ k = [j EXCEPT !.then = "tick", !.ticks = 1]
        OBVIOUS
    <1>2. pc[p] = "set" /\ (Go(p, "list", k) \/ Return(p, FALSE))
        BY <1>1 DEF SetTo
    <1>3. IsJob(j) /\ TodoOK("set", j)
        BY <1>1, <1>2, AdvanceHere
    <1>4. k.todo = j.todo /\ k.grace = j.grace
        BY <1>1, <1>3 DEF IsJob, Fields
    <1>5. TodoOK("list", k) /\ ~Past("list", k)
        BY <1>3, <1>4 DEF TodoOK, Past
    <1>6. CASE Go(p, "list", k)
        BY <1>5, <1>6, GoAt DEF OwnServes
    <1>7. QED
        BY <1>2, <1>6, ServesReturn

(* An advance takes no step of another operation.                          *)
LEMMA ServesStep ==
    ASSUME LoanInv, StateInv, ProjOK', KindOK, AloneOK, WaitOK, CaughtOK, ToldOK, ServesOK,
           NEW p \in Procs, Step(p), job[p].op = "advance"
    PROVE  OwnServes(p)
    <1>1. Serving(pc[p], job[p])
        BY AdvanceHere
    <1>2. /\ pc[p] \notin {"score", "price", "decide", "open", "disburse", "funds", "pay", "repaid"}
          /\ pc[p] = "balance" => job[p].then \in {"tick", "miss", "default"}
        BY <1>1 DEF Serving
    <1>3. /\ ~RepayBuilt(p) /\ ~Funds(p) /\ ~Pay(p) /\ ~PayBuilt(p) /\ ~appendRepaidEvent(p)
          /\ ~Score(p) /\ ~Price(p) /\ ~Decide(p) /\ ~OpenReceivable(p) /\ ~Disburse(p)
        BY <1>2 DEF RepayBuilt, Funds, Pay, PayBuilt, appendRepaidEvent, Score, Price, Decide,
                    OpenReceivable, Disburse, Built
    <1>4. CASE Served(p)
        BY <1>4, ServesReturn DEF Served
    <1>5. CASE \/ Get(p) \/ Txs(p) \/ MissBuilt(p) \/ Evaluate(p) \/ PostFee(p) \/ DefaultBuilt(p)
               \/ Owed(p) \/ WriteOff(p)
        BY <1>5, ServesGet, ServesMissBuilt, ServesEvaluate, ServesPostFee, ServesDefault
    <1>6. CASE \/ Insert(p) \/ Commit(p) \/ ApplyAppended(p) \/ Reread(p)
        BY <1>6, ServesInsert, ServesApply, ServesReread
    <1>7. CASE \/ SetTo(p) \/ List(p) \/ Copy(p) \/ TickBuilt(p) \/ Plan(p)
        BY <1>7, ServesSet, ServesList, ServesCopy, ServesTickBuilt, ServesPlan
    <1>8. QED
        BY <1>3, <1>4, <1>5, <1>6, <1>7 DEF Step

LEMMA ServesNext ==
    ASSUME LoanInv, StateInv, ProjOK', KindOK, AloneOK, WaitOK, CaughtOK, ToldOK, ServesOK,
           [Next]_vars
    PROVE  ServesOK'
    <1>1. ASSUME NEW p \in Procs, Seed(p) \/ Ask(p) \/ Step(p) \/ Fail(p)
          PROVE  ServesOK'
        <2>1. Others(p) /\ raced \subseteq raced'
            BY <1>1, StepGoes, AskGoes, FailGoes, SeedGoes
        <2>2. OwnServes(p)
            <3>1. CASE Step(p)
                BY <3>1, StepGoes, ServesStep DEF OwnServes
            <3>2. CASE Ask(p)
                <4>1. ASSUME job'[p].op = "advance"
                      PROVE  TodoOK(pc'[p], job'[p]) /\ ~Past(pc'[p], job'[p])
                    BY <3>2, <4>1, AskGoes DEF TodoOK, AllLeft, Past
                <4>2. QED
                    BY <4>1 DEF OwnServes
            <3>3. CASE Fail(p)
                BY <3>3, FailGoes DEF OwnServes
            <3>4. CASE Seed(p)
                <4>1. job[p].op # "advance"
                    <5>1. pc[p] = "idle"
                        BY <3>4 DEF Seed, LoanInv, PhaseOK
                    <5>2. QED
                        BY <5>1 DEF KindOK, Kind
                <4>2. QED
                    BY <3>4, <4>1, SeedGoes DEF OwnServes
            <3>5. QED
                BY <1>1, <3>1, <3>2, <3>3, <3>4
        <2>3. QED
            BY <1>1, <2>1, <2>2, ServesMove
    <1>2. CASE Read
        <2>1. refresh /\ UNCHANGED <<log, pc, job, raced, recv, paid, clock>>
            BY <1>2 DEF Read, events, books, world, control, history
        <2>2. PICK S : S = {n \in DOMAIN log : n > lastSeq}
            OBVIOUS
        <2>3. S \in SUBSET DOMAIN log /\ Fold(S) /\ \A n \in S : n > lastSeq
            BY <2>1, <2>2 DEF refresh
        <2>4. ASSUME NEW q \in Procs, Past(pc[q], job[q]), NEW l \in Loans \ raced
              PROVE  Serves(pc[q], job[q], l, st'[l], recv[l], paid[l], clock)
            <3>1. \/ st'[l] = st[l]
                  \/ /\ pc[q] = "apply" /\ job[q].loan = l
                     /\ job[q].then = "miss" => Notes(st[l], st'[l], job[q].no)
                BY <2>3, <2>4, Steady
            <3>2. Serves(pc[q], job[q], l, st[l], recv[l], paid[l], clock)
                BY <2>4 DEF ServesOK, Past
            <3>3. QED
                BY <3>1, <3>2, ServesAway
        <2>5. SUFFICES ASSUME NEW q \in Procs, job'[q].op = "advance"
                       PROVE  /\ TodoOK(pc'[q], job'[q])
                              /\ Past(pc'[q], job'[q]) =>
                                   \A l \in Loans \ raced' :
                                     Serves(pc'[q], job'[q], l, st'[l], recv'[l], paid'[l], clock')
            BY DEF ServesOK, TodoOK, AllLeft
        <2>6. TodoOK(pc[q], job[q])
            BY <2>1, <2>5 DEF ServesOK
        <2>7. QED
            BY <2>1, <2>4, <2>6
    <1>3. CASE EditRule \/ UNCHANGED vars
        <2>1. UNCHANGED <<pc, job, raced, st, recv, paid, clock>>
            BY <1>3 DEF EditRule, vars, books, world, proj, control, history
        <2>2. SUFFICES ASSUME NEW q \in Procs, job'[q].op = "advance"
                       PROVE  /\ TodoOK(pc'[q], job'[q])
                              /\ Past(pc'[q], job'[q]) =>
                                   \A l \in Loans \ raced' :
                                     Serves(pc'[q], job'[q], l, st'[l], recv'[l], paid'[l], clock')
            BY DEF ServesOK, TodoOK, AllLeft
        <2>3. QED
            BY <2>1, <2>2 DEF ServesOK
    <1>4. CASE Crash \/ StartAgain
        <2>1. job' = [p \in Procs |-> NoJob]
            BY <1>4 DEF Crash, StartAgain, Restart
        <2>2. QED
            BY <2>1, NoJobKind DEF ServesOK
    <1>5. QED
        BY <1>1, <1>2, <1>3, <1>4 DEF Next

LEMMA InitServe == Init => ServeInv
    <1>1. ASSUME Init PROVE \A p \in Procs : job[p].op # "advance"
        BY <1>1, NoJobKind DEF Init
    <1>2. QED
        BY <1>1 DEF ServeInv, CaughtOK, ServesOK, Past

LEMMA NextServe ==
    ASSUME LoanInv, StateInv, StateInv', AloneInv, ServeInv, [Next]_vars
    PROVE  ServeInv'
    <1>1. KindOK /\ AloneOK /\ WaitOK /\ ToldOK /\ CaughtOK /\ ServesOK /\ ProjOK'
        BY DEF AloneInv, ServeInv, StateInv
    <1>2. CaughtOK'
        BY <1>1, CaughtNext
    <1>3. ServesOK'
        BY <1>1, ServesNext
    <1>4. QED
        BY <1>2, <1>3 DEF ServeInv

(* ServeInv holds in every state: an advance of the time that has listed   *)
(* the loans has at every step enough calls left for the overdue           *)
(* installments of every active loan that it alone works on, however many  *)
(* requests, reads, edits of a rule and failures come between (AdvanceTime,*)
(* tickUntilStable, Tick).                                                 *)
THEOREM ServeInvariant == Spec => []ServeInv
    BY LoanInvariant, StateInvariant, AloneInvariant, InitServe, NextServe, PTL DEF Spec

(* When AdvanceTime is about to answer, no active loan that it alone was   *)
(* working on has an installment past its grace period that is neither     *)
(* paid nor missed, however many fell due in the jump and whatever         *)
(* maxTickIterations is (AdvanceTime, tickUntilStable, Tick).              *)
THEOREM AdvanceAlwaysServices == Spec => []AdvanceServicesAll
    <1>1. ASSUME AloneInv, ServeInv PROVE AdvanceServicesAll
        <2>1. SUFFICES ASSUME NEW p \in Procs, pc[p] = "served", NEW l \in Loans \ raced,
                              st[l].known, Status(st[l], recv[l]) = "active",
                              NEW no \in Scheduled(st[l], paid[l])
                       PROVE  ~Overdue(st[l], no, job[p].grace)
            BY DEF AdvanceServicesAll
        <2>2. job[p].op = "advance"
            BY <1>1, <2>1 DEF AloneInv, KindOK, Kind
        <2>3. Serves("served", job[p], l, st[l], recv[l], paid[l], clock)
            BY <1>1, <2>1, <2>2 DEF ServeInv, ServesOK, Past
        <2>4. Live(st[l], recv[l])
            BY <2>1 DEF Live
        <2>5. Late(st[l], paid[l], clock, job[p].grace) = {}
            BY <2>3, <2>4 DEF Serves, Counts
        <2>6. QED
            BY <2>5 DEF Late, Overdue
    <1>2. QED
        BY <1>1, AloneInvariant, ServeInvariant, PTL
=============================================================================
