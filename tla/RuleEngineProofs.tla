-------------------------- MODULE RuleEngineProofs --------------------------
(***************************************************************************)
(* The version history of every rule is a chain, the cache and the audit   *)
(* log only ever refer to it, and rows are immutable: for any number of    *)
(* goroutines, rules, documents, store errors and crashes.                 *)
(***************************************************************************)
EXTENDS RuleEngine, TLAPS

(* What a goroutine between two of its steps knows about the table.        *)
JobOKOf(p) ==
    LET j == job[p] IN
    /\ pc[p] \in {"stamp", "insert", "cache"} =>
         /\ j.prev \in DOMAIN rows[j.rule]
         /\ j.raw.line \in {0, j.prev + 1}
    /\ pc[p] = "insert" =>
         restarts > 0 \/ (j.now <= clock /\ rows[j.rule][j.prev].from <= j.now)
    /\ pc[p] = "cache" =>
         /\ Validate(j.raw)
         /\ j.prev + 1 \in DOMAIN rows[j.rule]
         /\ rows[j.rule][j.prev + 1].content = j.raw
    /\ pc[p] = "record" =>
         /\ j.raw.line \in DOMAIN rows[j.rule]
         /\ rows[j.rule][j.raw.line].content = j.raw

JobOK == \A p \in Procs : JobOKOf(p)

(* Until a restart sets the clock back no version is effective from the    *)
(* future, and a text that parses carries the number of its row.           *)
RowsOK ==
    \A r \in Rules : \A v \in DOMAIN rows[r] :
        /\ restarts > 0 \/ rows[r][v].from <= clock
        /\ rows[r][v].content.line \in {0, v}

UpIsWarm == phase = "up" => \A r \in Rules : cache[r] # NoRule

IInv == /\ TypeOK /\ VersionChain /\ CacheFromStore /\ AuditSound
        /\ JobOK /\ RowsOK /\ UpIsWarm

-----------------------------------------------------------------------------
(* What InsertRuleVersion does to the table, row by row.                   *)
LEMMA InsertEffect ==
    ASSUME TypeOK, NEW r \in Rules, NEW v \in Nat \ {0}, NEW d \in Documents,
           NEW now \in Nat, InsertRuleVersion(r, v, d, now),
           v \notin DOMAIN rows[r]
    PROVE  /\ DOMAIN rows' = Rules
           /\ \A q \in Rules \ {r} : rows'[q] = rows[q]
           /\ DOMAIN rows'[r] = DOMAIN rows[r] \cup {v}
           /\ rows'[r][v].content = d
           /\ rows'[r][v].from = now
           /\ rows'[r][v].to = Open
           /\ \A w \in DOMAIN rows[r] :
                /\ rows'[r][w].content = rows[r][w].content
                /\ rows'[r][w].from = rows[r][w].from
                /\ rows'[r][w].to = IF rows[r][w].to = Open THEN now
                                    ELSE rows[r][w].to
           /\ \A w \in DOMAIN rows'[r] : w \in Nat \ {0} /\ rows'[r][w] \in Row
    <1>1. /\ DOMAIN rows' = Rules
          /\ \A q \in Rules \ {r} : rows'[q] = rows[q]
          /\ rows'[r] = [w \in DOMAIN rows[r] \cup {v} |->
                  IF w = v THEN [content |-> d, from |-> now, to |-> Open]
                  ELSE IF rows[r][w].to = Open THEN [rows[r][w] EXCEPT !.to = now]
                  ELSE rows[r][w]]
        BY DEF InsertRuleVersion, Closed, TypeOK
    <1>2. /\ DOMAIN rows'[r] = DOMAIN rows[r] \cup {v}
          /\ rows'[r][v] = [content |-> d, from |-> now, to |-> Open]
        BY <1>1
    <1>3. ASSUME NEW w \in DOMAIN rows[r]
          PROVE  /\ w # v
                 /\ rows[r][w] \in Row
                 /\ rows'[r][w] = IF rows[r][w].to = Open
                                  THEN [rows[r][w] EXCEPT !.to = now]
                                  ELSE rows[r][w]
        BY <1>1 DEF TypeOK
    <1>4. ASSUME NEW w \in DOMAIN rows[r]
          PROVE  /\ rows'[r][w] \in Row
                 /\ rows'[r][w].content = rows[r][w].content
                 /\ rows'[r][w].from = rows[r][w].from
                 /\ rows'[r][w].to = IF rows[r][w].to = Open THEN now
                                     ELSE rows[r][w].to
        BY <1>3 DEF Row
    <1>5. \A w \in DOMAIN rows'[r] : w \in Nat \ {0} /\ rows'[r][w] \in Row
        BY <1>2, <1>4 DEF Row, TypeOK
    <1>6. /\ rows'[r][v].content = d
          /\ rows'[r][v].from = now
          /\ rows'[r][v].to = Open
        BY <1>2
    <1>7. QED
        BY <1>1, <1>2, <1>4, <1>5, <1>6

(* The step keeps every row: the action of RowsImmutable.                  *)
Kept ==
    \A r \in Rules : \A v \in DOMAIN rows[r] :
        /\ v \in DOMAIN rows'[r]
        /\ rows'[r][v].content = rows[r][v].content
        /\ rows'[r][v].from = rows[r][v].from
        /\ rows[r][v].to # Open => rows'[r][v].to = rows[r][v].to

(* Inserting the successor of the latest version keeps the table in order, *)
(* and what refers to the table valid.                                     *)
LEMMA InsertKeeps ==
    ASSUME IInv,
           NEW r \in Rules, NEW v \in Nat \ {0}, NEW d \in Documents,
           NEW now \in Nat, InsertRuleVersion(r, v, d, now),
           v \notin DOMAIN rows[r],
           d.line \in {0, v},
           restarts > 0 \/ now <= clock,
           \/ v = 1
           \/ /\ v - 1 \in DOMAIN rows[r]
              /\ restarts > 0 \/ rows[r][v - 1].from <= now,
           UNCHANGED <<apps, cache, clock, restarts>>
    PROVE  /\ Kept
           /\ DOMAIN rows' = Rules
           /\ \A q \in Rules : \A w \in DOMAIN rows'[q] :
                w \in Nat \ {0} /\ rows'[q][w] \in Row
           /\ VersionChain' /\ CacheFromStore' /\ AuditSound' /\ RowsOK'
    <1> USE DEF IInv
    <1>1. /\ DOMAIN rows' = Rules
          /\ \A q \in Rules \ {r} : rows'[q] = rows[q]
          /\ DOMAIN rows'[r] = DOMAIN rows[r] \cup {v}
          /\ rows'[r][v].content = d
          /\ rows'[r][v].from = now
          /\ rows'[r][v].to = Open
          /\ \A w \in DOMAIN rows[r] :
               /\ rows'[r][w].content = rows[r][w].content
               /\ rows'[r][w].from = rows[r][w].from
               /\ rows'[r][w].to = IF rows[r][w].to = Open THEN now
                                   ELSE rows[r][w].to
          /\ \A w \in DOMAIN rows'[r] : w \in Nat \ {0} /\ rows'[r][w] \in Row
        BY InsertEffect
    <1>2. Kept
        BY <1>1 DEF Kept
    <1>3. \A q \in Rules : \A w \in DOMAIN rows'[q] :
            w \in Nat \ {0} /\ rows'[q][w] \in Row
        BY <1>1 DEF TypeOK
    <1>4. VersionChain'
        <2> SUFFICES ASSUME NEW q \in Rules, NEW w \in DOMAIN rows'[q]
                     PROVE  /\ \A u \in 1..w : u \in DOMAIN rows'[q]
                            /\ IF w + 1 \in DOMAIN rows'[q]
                               THEN /\ rows'[q][w].to = rows'[q][w + 1].from
                                    /\ \/ restarts' > 0
                                       \/ rows'[q][w].from <= rows'[q][w + 1].from
                               ELSE rows'[q][w].to = Open
            BY DEF VersionChain
        <2>1. CASE q # r
            <3>1. rows'[q] = rows[q] /\ restarts' = restarts /\ w \in DOMAIN rows[q]
                BY <2>1, <1>1
            <3>2. /\ \A u \in 1..w : u \in DOMAIN rows[q]
                  /\ IF w + 1 \in DOMAIN rows[q]
                     THEN /\ rows[q][w].to = rows[q][w + 1].from
                          /\ restarts > 0 \/ rows[q][w].from <= rows[q][w + 1].from
                     ELSE rows[q][w].to = Open
                BY <3>1 DEF VersionChain
            <3>3. QED
                BY <3>1, <3>2
        <2>2. CASE q = r /\ w = v
            <3>1. v + 1 \notin DOMAIN rows[r]
                BY DEF VersionChain, TypeOK
            <3>2. \A u \in 1..v : u \in DOMAIN rows'[r]
                <4>1. CASE v = 1
                    BY <4>1, <1>1
                <4>2. CASE v - 1 \in DOMAIN rows[r]
                    <5>1. \A u \in 1..(v - 1) : u \in DOMAIN rows[r]
                        BY <4>2 DEF VersionChain
                    <5>2. QED
                        BY <5>1, <1>1
                <4>3. QED
                    BY <4>1, <4>2
            <3>3. QED
                BY <2>2, <3>1, <3>2, <1>1
        <2>3. CASE q = r /\ w # v
            <3>1. w \in DOMAIN rows[r] /\ w \in Nat \ {0}
                BY <2>3, <1>1
            <3>2. \A u \in 1..w : u \in DOMAIN rows'[r]
                BY <3>1, <1>1 DEF VersionChain
            <3>3. CASE w + 1 = v
                <4>1. w + 1 \notin DOMAIN rows[r]
                    BY <3>3
                <4>2. rows[r][w].to = Open
                    BY <4>1, <3>1 DEF VersionChain
                <4>3. w = v - 1 /\ v # 1
                    BY <3>1, <3>3
                <4>4. restarts > 0 \/ rows[r][w].from <= now
                    BY <4>3
                <4>5. QED
                    BY <2>3, <3>1, <3>2, <3>3, <4>2, <4>4, <1>1
            <3>4. CASE w + 1 # v /\ w + 1 \in DOMAIN rows[r]
                <4>1. rows[r][w].to = rows[r][w + 1].from
                    BY <3>1, <3>4 DEF VersionChain
                <4>2. rows[r][w].to # Open
                    BY <4>1, <3>4, RuleAssumption DEF TypeOK, Row
                <4>3. restarts > 0 \/ rows[r][w].from <= rows[r][w + 1].from
                    BY <3>1, <3>4 DEF VersionChain
                <4>4. QED
                    BY <2>3, <3>1, <3>2, <3>4, <4>1, <4>2, <4>3, <1>1
            <3>5. CASE w + 1 # v /\ w + 1 \notin DOMAIN rows[r]
                <4>1. v # 1 => v - 1 = w \/ v - 1 < w \/ v - 1 > w
                    BY <3>1
                <4>2. w < v
                    BY <3>1 DEF VersionChain
                <4>3. v - 1 \in DOMAIN rows[r] /\ w + 1 \in 1..(v - 1)
                    BY <4>2, <3>1, <3>5
                <4>4. FALSE
                    BY <4>3, <3>5 DEF VersionChain
                <4>5. QED
                    BY <4>4
            <3>6. QED
                BY <3>3, <3>4, <3>5
        <2>4. QED
            BY <2>1, <2>2, <2>3
    <1>5. CacheFromStore'
        BY <1>2 DEF CacheFromStore, Kept
    <1>6. AuditSound'
        BY <1>2 DEF AuditSound, Kept, TypeOK, App
    <1>7. RowsOK'
        BY <1>1 DEF RowsOK
    <1>8. QED
        BY <1>1, <1>2, <1>3, <1>4, <1>5, <1>6, <1>7

-----------------------------------------------------------------------------
(* A step that leaves table, audit log, cache and clock alone keeps what   *)
(* is said of them.                                                        *)
LEMMA Framed ==
    ASSUME IInv, UNCHANGED <<rows, apps, cache, clock, restarts>>
    PROVE  VersionChain' /\ CacheFromStore' /\ AuditSound' /\ RowsOK' /\ Kept
    BY DEF IInv, VersionChain, CacheFromStore, AuditSound, RowsOK, Kept, IsLatest

(* What one goroutine knows survives a step that keeps the rows and lets   *)
(* the goroutine itself alone.                                             *)
LEMMA JobKept ==
    ASSUME IInv, Kept, NEW p \in Procs, clock' \in Nat, clock <= clock',
           pc'[p] = pc[p], job'[p] = job[p], UNCHANGED restarts
    PROVE  JobOKOf(p)'
    <1>1. JobOKOf(p)
        BY DEF IInv, JobOK
    <1>2. CASE pc[p] \in {"idle", "list", "relist"}
        BY <1>2 DEF JobOKOf
    <1>3. CASE pc[p] \in {"stamp", "insert", "cache", "record"}
        <2>1. job[p].rule \in Rules /\ job[p].now \in Nat /\ clock \in Nat
            BY <1>3 DEF IInv, TypeOK
        <2>2. pc[p] = "insert" => restarts > 0 \/ job[p].now <= clock'
            BY <1>1, <2>1 DEF JobOKOf
        <2>3. QED
            BY <1>1, <1>3, <2>1, <2>2 DEF JobOKOf, Kept
    <1>4. QED
        BY <1>2, <1>3 DEF IInv, TypeOK

LEMMA InitIInv == Init => IInv
    BY RuleAssumption DEF Init, IInv, TypeOK, VersionChain, CacheFromStore,
       AuditSound, JobOK, JobOKOf, RowsOK, UpIsWarm, Idle, Job

-----------------------------------------------------------------------------
LEMMA LoadInsertStep ==
    ASSUME IInv, NEW r \in Rules, LoadInsert(r)
    PROVE  IInv' /\ Kept
    <1>1. [body |-> DiskBody[r], line |-> 1] \in Documents
        BY RuleAssumption DEF Documents
    <1>2. clock \in Nat
        BY DEF IInv, TypeOK
    <1>3. /\ Kept
          /\ DOMAIN rows' = Rules
          /\ \A q \in Rules : \A w \in DOMAIN rows'[q] :
               w \in Nat \ {0} /\ rows'[q][w] \in Row
          /\ VersionChain' /\ CacheFromStore' /\ AuditSound' /\ RowsOK'
        BY <1>1, <1>2, InsertKeeps DEF LoadInsert
    <1>4. TypeOK' /\ UpIsWarm'
        BY <1>3 DEF LoadInsert, IInv, TypeOK, UpIsWarm
    <1>5. JobOK'
        <2>1. \A p \in Procs : JobOKOf(p)'
            BY <1>2, <1>3, JobKept DEF LoadInsert
        <2>2. QED
            BY <2>1 DEF JobOK
    <1>6. QED
        BY <1>3, <1>4, <1>5 DEF IInv

LEMMA LoadWarmStep ==
    ASSUME IInv, LoadWarm
    PROVE  IInv' /\ Kept
    <1>1. PICK live \in [Rules -> UNION {DOMAIN rows[r] : r \in Rules}] :
             /\ \A r \in Rules : live[r] \in OpenVersions(r)
             /\ IF \A r \in Rules : Validate(rows[r][live[r]].content)
                THEN /\ cache' = [r \in Rules |-> rows[r][live[r]].content]
                     /\ phase' = "up"
                ELSE /\ phase' = "failed"
                     /\ UNCHANGED cache
        BY DEF LoadWarm
    <1>2. \A r \in Rules : /\ live[r] \in DOMAIN rows[r]
                           /\ rows[r][live[r]].content \in Documents
                           /\ rows[r][live[r]].content.line \in {0, live[r]}
        BY <1>1 DEF OpenVersions, IInv, TypeOK, Row, RowsOK
    <1>3. UNCHANGED <<rows, apps, clock, pc, job, acked, faults, restarts>>
        BY DEF LoadWarm
    <1>4. VersionChain' /\ AuditSound' /\ RowsOK' /\ Kept
        BY <1>3 DEF IInv, VersionChain, AuditSound, RowsOK, Kept
    <1>5. JobOK'
        <2>1. \A p \in Procs : JobOKOf(p)'
            BY <1>3, <1>4, JobKept DEF IInv, TypeOK
        <2>2. QED
            BY <2>1 DEF JobOK
    <1>6. CASE \A r \in Rules : Validate(rows[r][live[r]].content)
        <2>1. cache' = [r \in Rules |-> rows[r][live[r]].content] /\ phase' = "up"
            BY <1>1, <1>6
        <2>2. CacheFromStore'
            BY <2>1, <1>2, <1>3, <1>6 DEF CacheFromStore, Validate
        <2>3. UpIsWarm'
            BY <2>1, <1>6 DEF UpIsWarm, Validate, NoRule
        <2>4. TypeOK'
            BY <2>1, <1>2, <1>3 DEF IInv, TypeOK
        <2>5. QED
            BY <2>2, <2>3, <2>4, <1>4, <1>5 DEF IInv
    <1>7. CASE ~ \A r \in Rules : Validate(rows[r][live[r]].content)
        <2>1. phase' = "failed" /\ cache' = cache
            BY <1>1, <1>7
        <2>2. TypeOK' /\ CacheFromStore' /\ UpIsWarm'
            BY <2>1, <1>3 DEF IInv, TypeOK, CacheFromStore, UpIsWarm
        <2>3. QED
            BY <2>2, <1>4, <1>5 DEF IInv
    <1>8. QED
        BY <1>6, <1>7

-----------------------------------------------------------------------------
(* A step of goroutine p that touches neither table, audit log, cache nor  *)
(* clock preserves the invariant if p's own knowledge is right after it.   *)
LEMMA OwnStep ==
    ASSUME IInv, NEW p \in Procs,
           NEW s \in {"idle", "list", "relist", "stamp", "insert", "cache", "record"},
           NEW j \in [rule : Rules \cup {"none"}, raw : Documents \cup {NoRule},
                      prev : Nat, now : Nat],
           s # "idle" => j.rule \in Rules /\ j.raw \in Documents,
           pc' = [pc EXCEPT ![p] = s], job' = [job EXCEPT ![p] = j],
           JobOKOf(p)',
           UNCHANGED <<rows, apps, cache, clock, phase, acked, restarts>>,
           faults' \in Nat
    PROVE  IInv' /\ Kept
    <1>1. VersionChain' /\ CacheFromStore' /\ AuditSound' /\ RowsOK' /\ Kept
        BY Framed
    <1>2. pc'[p] = s /\ job'[p] = j
        BY DEF IInv, TypeOK
    <1>3. \A q \in Procs \ {p} : pc'[q] = pc[q] /\ job'[q] = job[q]
        BY DEF IInv, TypeOK
    <1>4. clock' \in Nat /\ clock <= clock'
        BY DEF IInv, TypeOK
    <1>5. \A q \in Procs \ {p} : JobOKOf(q)'
        BY <1>1, <1>3, <1>4, JobKept
    <1>6. JobOK'
        BY <1>5 DEF JobOK
    <1>7. pc' \in [Procs -> {"idle", "list", "relist", "stamp", "insert", "cache",
                             "record"}]
        BY DEF IInv, TypeOK
    <1>8. job' \in [Procs -> [rule : Rules \cup {"none"},
                              raw : Documents \cup {NoRule},
                              prev : Nat, now : Nat]]
        BY DEF IInv, TypeOK
    <1>9. \A q \in Procs : pc'[q] # "idle" =>
                              job'[q].rule \in Rules /\ job'[q].raw \in Documents
        BY <1>2, <1>3 DEF IInv, TypeOK
    <1>10. TypeOK'
        BY <1>7, <1>8, <1>9 DEF IInv, TypeOK
    <1>11. UpIsWarm'
        BY DEF IInv, UpIsWarm
    <1>12. QED
        BY <1>1, <1>6, <1>10, <1>11 DEF IInv

(* The first steps: a goroutine in "list" or "relist" knows nothing yet,   *)
(* one in "record" holds a document of the cache.                          *)
LEMMA RequestStep ==
    ASSUME IInv, NEW p \in Procs, Request(p)
    PROVE  IInv' /\ Kept
    <1>1. CASE SaveBegin(p)
        <2>1. PICK r \in Rules, b \in Bodies :
                Start(p, "list", Job(r, [body |-> b, line |-> 1]))
            BY <1>1 DEF SaveBegin, Save
        <2> DEFINE j == [rule |-> r, raw |-> [body |-> b, line |-> 1],
                         prev |-> 0, now |-> 0]
        <2>2. Start(p, "list", j)
            BY <2>1 DEF Job
        <2>3. j.raw \in Documents /\ j.rule \in Rules
            BY DEF Documents
        <2>4. j \in [rule : Rules \cup {"none"}, raw : Documents \cup {NoRule},
                     prev : Nat, now : Nat]
            BY <2>3
        <2>5. JobOKOf(p)' /\ faults' \in Nat
            BY <2>2 DEF JobOKOf, Start, IInv, TypeOK
        <2> HIDE DEF j
        <2>6. QED
            BY <2>2, <2>3, <2>4, <2>5, OwnStep DEF Start
    <1>2. CASE ReactivateBegin(p)
        <2>0. PICK r \in Rules : \E v \in DOMAIN rows[r] :
                Start(p, "relist", Job(r, rows[r][v].content))
            BY <1>2 DEF ReactivateBegin, Reactivate
        <2>1. PICK v \in DOMAIN rows[r] :
                Start(p, "relist", Job(r, rows[r][v].content))
            BY <2>0
        <2> DEFINE j == [rule |-> r, raw |-> rows[r][v].content,
                         prev |-> 0, now |-> 0]
        <2>2. Start(p, "relist", j)
            BY <2>1 DEF Job
        <2>3. j.raw \in Documents /\ j.rule \in Rules
            BY DEF IInv, TypeOK, Row
        <2>4. j \in [rule : Rules \cup {"none"}, raw : Documents \cup {NoRule},
                     prev : Nat, now : Nat]
            BY <2>3
        <2>5. JobOKOf(p)' /\ faults' \in Nat
            BY <2>2 DEF JobOKOf, Start, IInv, TypeOK
        <2> HIDE DEF j
        <2>6. QED
            BY <2>2, <2>3, <2>4, <2>5, OwnStep DEF Start
    <1>3. CASE EvaluateBegin(p)
        <2>1. PICK r \in Rules :
                Start(p, "record", Job(r, cache[r]))
            BY <1>3 DEF EvaluateBegin
        <2> DEFINE j == [rule |-> r, raw |-> cache[r], prev |-> 0, now |-> 0]
        <2>2. Start(p, "record", j)
            BY <2>1 DEF Job
        <2>3. cache[r] # NoRule
            BY <2>2 DEF Start, IInv, UpIsWarm
        <2>4. j.raw \in Documents /\ j.rule \in Rules
            BY <2>3 DEF IInv, TypeOK
        <2>5. j \in [rule : Rules \cup {"none"}, raw : Documents \cup {NoRule},
                     prev : Nat, now : Nat]
            BY <2>4
        <2>6. pc'[p] = "record" /\ job'[p] = j
            BY <2>2 DEF Start, IInv, TypeOK
        <2>7. /\ j.raw.line \in DOMAIN rows[j.rule]
              /\ rows[j.rule][j.raw.line].content = j.raw
            BY <2>3 DEF IInv, CacheFromStore
        <2>8. JobOKOf(p)' /\ faults' \in Nat
            BY <2>2, <2>6, <2>7 DEF JobOKOf, Start, IInv, TypeOK
        <2> HIDE DEF j
        <2>9. QED
            BY <2>2, <2>4, <2>5, <2>8, OwnStep DEF Start
    <1>4. QED
        BY <1>1, <1>2, <1>3 DEF Request

(* latestVersion tells the goroutine the number of a row, and the version  *)
(* line is set to the next.                                                *)
LEMMA ListVersionsStep ==
    ASSUME IInv, NEW p \in Procs, ListVersions(p)
    PROVE  IInv' /\ Kept
    <1> DEFINE r == job[p].rule
    <1>1. PICK m \in DOMAIN rows[r] :
             LET raw == rewriteVersionLine(job[p].raw, m + 1) IN
             IF pc[p] = "relist" /\ ~Validate(raw)
             THEN /\ pc' = [pc EXCEPT ![p] = "idle"]
                  /\ job' = [job EXCEPT ![p] = Idle]
             ELSE /\ pc' = [pc EXCEPT ![p] = "stamp"]
                  /\ job' = [job EXCEPT ![p] = [rule |-> r, raw |-> raw,
                                             prev |-> m, now |-> 0]]
        BY DEF ListVersions
    <1> DEFINE raw == rewriteVersionLine(job[p].raw, m + 1)
    <1>2. /\ r \in Rules /\ job[p].raw \in Documents /\ m \in Nat \ {0}
          /\ job[p] \in [rule : Rules \cup {"none"}, raw : Documents \cup {NoRule},
                         prev : Nat, now : Nat]
        BY DEF IInv, TypeOK, ListVersions
    <1>3. raw \in Documents /\ raw.line \in {0, m + 1}
        BY <1>2 DEF rewriteVersionLine, Documents
    <1>4. /\ UNCHANGED <<rows, apps, cache, clock, phase, acked, restarts>>
          /\ faults' \in Nat
        BY DEF ListVersions, IInv, TypeOK
    <1>5. CASE pc[p] = "relist" /\ ~Validate(raw)
        <2>1. pc' = [pc EXCEPT ![p] = "idle"] /\ job' = [job EXCEPT ![p] = Idle]
            BY <1>1, <1>5
        <2>2. Idle \in [rule : Rules \cup {"none"}, raw : Documents \cup {NoRule},
                        prev : Nat, now : Nat]
            BY DEF Idle, Job
        <2>3. JobOKOf(p)'
            BY <2>1 DEF JobOKOf, IInv, TypeOK
        <2>4. QED
            BY <2>1, <2>2, <2>3, <1>4, OwnStep
    <1>6. CASE ~(pc[p] = "relist" /\ ~Validate(raw))
        <2> DEFINE j == [rule |-> r, raw |-> raw, prev |-> m, now |-> 0]
        <2>1. /\ pc' = [pc EXCEPT ![p] = "stamp"]
              /\ job' = [job EXCEPT ![p] = j]
            BY <1>1, <1>6
        <2>3. /\ j.rule \in Rules /\ j.raw \in Documents
              /\ j.prev \in DOMAIN rows[j.rule] /\ j.raw.line \in {0, j.prev + 1}
            BY <1>2, <1>3
        <2>4. j \in [rule : Rules \cup {"none"}, raw : Documents \cup {NoRule},
                     prev : Nat, now : Nat]
            BY <1>2, <1>3
        <2> HIDE DEF j
        <2>5. pc'[p] = "stamp" /\ job'[p] = j
            BY <2>1 DEF IInv, TypeOK
        <2>6. JobOKOf(p)'
            BY <2>3, <2>5, <1>4 DEF JobOKOf
        <2>7. QED
            BY <2>1, <2>3, <2>4, <2>6, <1>4, OwnStep
    <1>7. QED
        BY <1>5, <1>6

(* The time stamped is not before the row the goroutine saw last.          *)
LEMMA StampStep ==
    ASSUME IInv, NEW p \in Procs, Stamp(p)
    PROVE  IInv' /\ Kept
    <1> DEFINE j == [rule |-> job[p].rule, raw |-> job[p].raw,
                     prev |-> job[p].prev, now |-> clock]
    <1>1. /\ job[p].rule \in Rules /\ job[p].raw \in Documents /\ clock \in Nat
          /\ job[p] \in [rule : Rules \cup {"none"}, raw : Documents \cup {NoRule},
                         prev : Nat, now : Nat]
        BY DEF Stamp, IInv, TypeOK
    <1>0. [job[p] EXCEPT !.now = clock] = j
        BY <1>1
    <1>2. job' = [job EXCEPT ![p] = j] /\ pc' = [pc EXCEPT ![p] = "insert"]
        BY <1>0 DEF Stamp, IInv, TypeOK
    <1>3. /\ j \in [rule : Rules \cup {"none"}, raw : Documents \cup {NoRule},
                    prev : Nat, now : Nat]
          /\ j.rule \in Rules /\ j.raw \in Documents
        BY <1>1
    <1>4. j.prev \in DOMAIN rows[j.rule] /\ j.raw.line \in {0, j.prev + 1}
        BY DEF Stamp, IInv, JobOK, JobOKOf
    <1>5. restarts > 0 \/ (j.now <= clock /\ rows[j.rule][j.prev].from <= j.now)
        BY <1>1, <1>4 DEF IInv, RowsOK
    <1> HIDE DEF j
    <1>6. pc'[p] = "insert" /\ job'[p] = j
        BY <1>2 DEF IInv, TypeOK
    <1>7. /\ UNCHANGED <<rows, apps, cache, clock, phase, acked, restarts>>
          /\ faults' \in Nat
        BY DEF Stamp, IInv, TypeOK
    <1>8. JobOKOf(p)'
        BY <1>4, <1>5, <1>6, <1>7 DEF JobOKOf
    <1>9. QED
        BY <1>2, <1>3, <1>7, <1>8, OwnStep

(* A request that ends without touching the shared state.                  *)
LEMMA FinishStep ==
    ASSUME IInv, NEW p \in Procs, Finish(p), faults' \in Nat,
           UNCHANGED <<rows, apps, cache, clock, phase, acked, restarts>>
    PROVE  IInv' /\ Kept
    <1>1. Idle \in [rule : Rules \cup {"none"}, raw : Documents \cup {NoRule},
                    prev : Nat, now : Nat]
        BY DEF Idle, Job
    <1>2. JobOKOf(p)'
        BY DEF Finish, JobOKOf, IInv, TypeOK
    <1>3. QED
        BY <1>1, <1>2, OwnStep DEF Finish

(* The insert: prev is a row of the table and prev + 1 is not, so prev is  *)
(* the latest version, whatever happened since ListVersions.               *)
LEMMA InsertStep ==
    ASSUME IInv, NEW p \in Procs, InsertOK(p) \/ InsertLost(p)
    PROVE  IInv' /\ Kept
    <1> DEFINE j == job[p]
               v == job[p].prev + 1
    <1>1. /\ j.rule \in Rules /\ j.raw \in Documents /\ j.now \in Nat
          /\ v \in Nat \ {0} /\ pc[p] = "insert"
        BY DEF InsertOK, Taken, InsertLost, IInv, TypeOK
    <1>2. /\ j.prev \in DOMAIN rows[j.rule] /\ j.raw.line \in {0, v}
          /\ restarts > 0 \/ (j.now <= clock /\ rows[j.rule][j.prev].from <= j.now)
        BY <1>1 DEF IInv, JobOK, JobOKOf
    <1>3. /\ InsertRuleVersion(j.rule, v, j.raw, j.now)
          /\ v \notin DOMAIN rows[j.rule]
          /\ UNCHANGED <<apps, cache, clock, restarts>>
        BY DEF InsertOK, Taken, InsertLost
    <1>4. v - 1 = j.prev
        BY DEF IInv, TypeOK
    <1>5. /\ v - 1 \in DOMAIN rows[j.rule]
          /\ restarts > 0 \/ rows[j.rule][v - 1].from <= j.now
        BY <1>2, <1>4
    <1>6. /\ Kept
          /\ DOMAIN rows' = Rules
          /\ \A q \in Rules : \A w \in DOMAIN rows'[q] :
               w \in Nat \ {0} /\ rows'[q][w] \in Row
          /\ VersionChain' /\ CacheFromStore' /\ AuditSound' /\ RowsOK'
        BY <1>1, <1>2, <1>3, <1>5, InsertKeeps
    <1>7. DOMAIN rows'[j.rule] = DOMAIN rows[j.rule] \cup {v}
          /\ rows'[j.rule][v].content = j.raw
        BY <1>1, <1>3, InsertEffect DEF IInv
    <1>8. \/ Finish(p)
          \/ Validate(j.raw) /\ pc' = [pc EXCEPT ![p] = "cache"] /\ UNCHANGED job
        BY DEF InsertOK, Taken, InsertLost
    <1>9. \A q \in Procs \ {p} : pc'[q] = pc[q] /\ job'[q] = job[q]
        BY <1>8 DEF Finish, IInv, TypeOK
    <1>10. \A q \in Procs \ {p} : JobOKOf(q)'
        BY <1>3, <1>6, <1>9, JobKept DEF IInv, TypeOK
    <1>11. JobOKOf(p)'
        <2>1. CASE Finish(p)
            BY <2>1 DEF Finish, JobOKOf, IInv, TypeOK
        <2>2. CASE Validate(j.raw) /\ pc' = [pc EXCEPT ![p] = "cache"] /\ UNCHANGED job
            <3>1. pc'[p] = "cache" /\ job'[p] = j
                BY <2>2 DEF IInv, TypeOK
            <3>2. j.prev \in DOMAIN rows'[j.rule] /\ v \in DOMAIN rows'[j.rule]
                BY <1>2, <1>7
            <3>3. QED
                BY <2>2, <3>1, <3>2, <1>2, <1>7 DEF JobOKOf, Validate
        <2>3. QED
            BY <1>8, <2>1, <2>2
    <1>12. JobOK'
        BY <1>10, <1>11 DEF JobOK
    <1>13. /\ pc' \in [Procs -> {"idle", "list", "relist", "stamp", "insert", "cache",
                                "record"}]
           /\ job' \in [Procs -> [rule : Rules \cup {"none"},
                                  raw : Documents \cup {NoRule},
                                  prev : Nat, now : Nat]]
           /\ \A q \in Procs : pc'[q] # "idle" =>
                                 job'[q].rule \in Rules /\ job'[q].raw \in Documents
        <2>1. CASE Finish(p)
            BY <2>1 DEF Finish, IInv, TypeOK, Idle, Job
        <2>2. CASE Validate(j.raw) /\ pc' = [pc EXCEPT ![p] = "cache"] /\ UNCHANGED job
            BY <1>1, <2>2 DEF IInv, TypeOK
        <2>3. QED
            BY <1>8, <2>1, <2>2
    <1>14. TypeOK'
        BY <1>6, <1>13 DEF IInv, TypeOK, InsertOK, Taken, InsertLost
    <1>15. UpIsWarm'
        BY DEF IInv, UpIsWarm, InsertOK, Taken, InsertLost
    <1>16. QED
        BY <1>6, <1>12, <1>14, <1>15 DEF IInv

(* The cache entry becomes the document of the row just inserted.          *)
LEMMA ReplaceCacheStep ==
    ASSUME IInv, NEW p \in Procs, ReplaceCache(p)
    PROVE  IInv' /\ Kept
    <1> DEFINE j == job[p]
    <1>1. /\ j.rule \in Rules /\ j.raw \in Documents /\ j.prev \in Nat
          /\ pc[p] = "cache"
        BY DEF ReplaceCache, IInv, TypeOK
    <1>2. /\ j.raw.line = j.prev + 1
          /\ j.prev + 1 \in DOMAIN rows[j.rule]
          /\ rows[j.rule][j.prev + 1].content = j.raw
        BY <1>1 DEF IInv, JobOK, JobOKOf, Validate
    <1>3. cache' = [cache EXCEPT ![j.rule] = j.raw]
        BY DEF ReplaceCache
    <1>4. UNCHANGED <<rows, apps, clock, phase, faults, restarts>> /\ Finish(p)
        BY DEF ReplaceCache
    <1>5. VersionChain' /\ AuditSound' /\ RowsOK' /\ Kept
        BY <1>4 DEF IInv, VersionChain, AuditSound, RowsOK, Kept
    <1>6. CacheFromStore'
        BY <1>1, <1>2, <1>3, <1>4 DEF IInv, TypeOK, CacheFromStore
    <1>7. j.raw # NoRule
        BY <1>1, <1>2 DEF NoRule
    <1>8. UpIsWarm'
        BY <1>1, <1>3, <1>4, <1>7 DEF IInv, TypeOK, UpIsWarm
    <1>9. JobOK'
        <2>1. \A q \in Procs \ {p} : pc'[q] = pc[q] /\ job'[q] = job[q]
            BY <1>4 DEF Finish, IInv, TypeOK
        <2>2. \A q \in Procs \ {p} : JobOKOf(q)'
            BY <2>1, <1>4, <1>5, JobKept DEF IInv, TypeOK
        <2>3. JobOKOf(p)'
            BY <1>4 DEF Finish, JobOKOf, IInv, TypeOK
        <2>4. QED
            BY <2>2, <2>3 DEF JobOK
    <1>10. TypeOK'
        <2>1. acked' \in [Rules -> Nat]
            BY <1>1 DEF ReplaceCache, IInv, TypeOK
        <2>2. /\ pc' \in [Procs -> {"idle", "list", "relist", "stamp", "insert",
                                    "cache", "record"}]
              /\ job' \in [Procs -> [rule : Rules \cup {"none"},
                                     raw : Documents \cup {NoRule},
                                     prev : Nat, now : Nat]]
              /\ \A q \in Procs : pc'[q] # "idle" =>
                                    job'[q].rule \in Rules /\ job'[q].raw \in Documents
            BY <1>4 DEF Finish, IInv, TypeOK, Idle, Job
        <2>3. cache' \in [Rules -> Documents \cup {NoRule}]
            BY <1>1, <1>3 DEF IInv, TypeOK
        <2>4. QED
            BY <1>4, <2>1, <2>2, <2>3 DEF IInv, TypeOK
    <1>11. QED
        BY <1>5, <1>6, <1>8, <1>9, <1>10 DEF IInv

(* The recorded version is the row of the document evaluated, and that row *)
(* is effective from no later than now.                                    *)
LEMMA EvaluateRecordStep ==
    ASSUME IInv, NEW p \in Procs, EvaluateRecord(p)
    PROVE  IInv' /\ Kept
    <1> DEFINE j == job[p]
               a == [rule |-> j.rule, version |-> j.raw.line,
                     body |-> j.raw.body, at |-> clock]
    <1>1. j.rule \in Rules /\ j.raw \in Documents /\ clock \in Nat /\ pc[p] = "record"
        BY DEF EvaluateRecord, IInv, TypeOK
    <1>2. /\ j.raw.line \in DOMAIN rows[j.rule]
          /\ rows[j.rule][j.raw.line].content = j.raw
        BY <1>1 DEF IInv, JobOK, JobOKOf
    <1>3. restarts > 0 \/ rows[j.rule][j.raw.line].from <= clock
        BY <1>1, <1>2 DEF IInv, RowsOK
    <1>4. a \in App
        BY <1>1 DEF App, Documents
    <1>5. /\ apps' = apps \cup {a} /\ Finish(p)
          /\ UNCHANGED <<rows, cache, clock, phase, acked, faults, restarts>>
        BY DEF EvaluateRecord
    <1>6. VersionChain' /\ CacheFromStore' /\ RowsOK' /\ Kept
        BY <1>5 DEF IInv, VersionChain, CacheFromStore, RowsOK, Kept
    <1>7. AuditSound'
        BY <1>2, <1>3, <1>5 DEF IInv, AuditSound
    <1>8. JobOK'
        <2>1. \A q \in Procs \ {p} : pc'[q] = pc[q] /\ job'[q] = job[q]
            BY <1>5 DEF Finish, IInv, TypeOK
        <2>2. \A q \in Procs \ {p} : JobOKOf(q)'
            BY <2>1, <1>5, <1>6, JobKept DEF IInv, TypeOK
        <2>3. JobOKOf(p)'
            BY <1>5 DEF Finish, JobOKOf, IInv, TypeOK
        <2>4. QED
            BY <2>2, <2>3 DEF JobOK
    <1>9. /\ pc' \in [Procs -> {"idle", "list", "relist", "stamp", "insert",
                                "cache", "record"}]
          /\ job' \in [Procs -> [rule : Rules \cup {"none"},
                                 raw : Documents \cup {NoRule},
                                 prev : Nat, now : Nat]]
          /\ \A q \in Procs : pc'[q] # "idle" =>
                                job'[q].rule \in Rules /\ job'[q].raw \in Documents
        BY <1>5 DEF Finish, IInv, TypeOK, Idle, Job
    <1> HIDE DEF a
    <1>10. TypeOK' /\ UpIsWarm'
        BY <1>4, <1>5, <1>9 DEF IInv, TypeOK, UpIsWarm
    <1>11. QED
        BY <1>6, <1>7, <1>8, <1>10 DEF IInv

LEMMA AdvanceClockStep ==
    ASSUME IInv, AdvanceClock
    PROVE  IInv' /\ Kept
    <1>1. clock \in Nat /\ clock' \in Nat /\ clock <= clock'
        BY DEF AdvanceClock, IInv, TypeOK
    <1>2. UNCHANGED <<rows, apps, cache, pc, job, phase, acked, faults, restarts>>
        BY DEF AdvanceClock
    <1>3. VersionChain' /\ CacheFromStore' /\ AuditSound' /\ Kept
        BY <1>2 DEF IInv, VersionChain, CacheFromStore, AuditSound, Kept
    <1>4. RowsOK'
        BY <1>1, <1>2 DEF IInv, RowsOK, TypeOK, Row
    <1>5. JobOK'
        BY <1>1, <1>2, <1>3, JobKept DEF JobOK
    <1>6. TypeOK' /\ UpIsWarm'
        BY <1>1, <1>2 DEF IInv, TypeOK, UpIsWarm
    <1>7. QED
        BY <1>3, <1>4, <1>5, <1>6 DEF IInv

(* A crash empties the cache, forgets every request and resets the clock.  *)
LEMMA CrashStep ==
    ASSUME IInv, Crash
    PROVE  IInv' /\ Kept
    <1>1. UNCHANGED <<rows, apps, acked>> /\ restarts' \in Nat /\ restarts' > 0
        BY DEF Crash, IInv, TypeOK
    <1>2. VersionChain' /\ AuditSound' /\ RowsOK' /\ Kept
        BY <1>1 DEF IInv, VersionChain, AuditSound, RowsOK, Kept
    <1>3. CacheFromStore' /\ UpIsWarm' /\ JobOK'
        BY DEF Crash, CacheFromStore, UpIsWarm, JobOK, JobOKOf
    <1>4. TypeOK'
        BY DEF Crash, IInv, TypeOK, Idle, Job
    <1>5. QED
        BY <1>2, <1>3, <1>4 DEF IInv

LEMMA StutterStep ==
    ASSUME IInv, UNCHANGED vars
    PROVE  IInv' /\ Kept
    BY DEF vars, IInv, TypeOK, VersionChain, CacheFromStore, AuditSound, JobOK,
       JobOKOf, RowsOK, UpIsWarm, Kept

(* Every step of the rule engine preserves the invariant and keeps every   *)
(* row of the version table.                                               *)
LEMMA NextStep ==
    ASSUME IInv, [Next]_vars
    PROVE  IInv' /\ Kept
    <1>1. CASE \E r \in Rules : LoadInsert(r)
        BY <1>1, LoadInsertStep
    <1>2. CASE LoadWarm
        BY <1>2, LoadWarmStep
    <1>3. ASSUME NEW p \in Procs, Request(p) \/ Step(p) \/ InsertLost(p) \/ StoreError(p)
          PROVE  IInv' /\ Kept
        <2>1. CASE Request(p)
            BY <2>1, RequestStep
        <2>2. CASE ListVersions(p)
            BY <2>2, ListVersionsStep
        <2>3. CASE Stamp(p)
            BY <2>3, StampStep
        <2>4. CASE InsertConflict(p)
            BY <2>4, FinishStep DEF InsertConflict, Taken, IInv, TypeOK
        <2>5. CASE InsertOK(p) \/ InsertLost(p)
            BY <2>5, InsertStep
        <2>6. CASE ReplaceCache(p)
            BY <2>6, ReplaceCacheStep
        <2>7. CASE EvaluateRecord(p)
            BY <2>7, EvaluateRecordStep
        <2>8. CASE StoreError(p)
            <3>1. faults' \in Nat
                BY <2>8 DEF StoreError, IInv, TypeOK
            <3>2. QED
                BY <2>8, <3>1, FinishStep DEF StoreError
        <2>9. QED
            BY <1>3, <2>1, <2>2, <2>3, <2>4, <2>5, <2>6, <2>7, <2>8 DEF Step
    <1>4. CASE AdvanceClock
        BY <1>4, AdvanceClockStep
    <1>5. CASE Crash
        BY <1>5, CrashStep
    <1>6. CASE UNCHANGED vars
        BY <1>6, StutterStep
    <1>7. QED
        BY <1>1, <1>2, <1>3, <1>4, <1>5, <1>6 DEF Next

-----------------------------------------------------------------------------
(* The strengthened invariant holds in every reachable state.              *)
THEOREM EngineInvariant == Spec => []IInv
    <1>1. Init => IInv
        BY InitIInv
    <1>2. IInv /\ [Next]_vars => IInv'
        BY NextStep
    <1>3. QED
        BY <1>1, <1>2, PTL DEF Spec

(* Every variable of the engine keeps its type, through crashes, conflicts *)
(* and store errors.                                                       *)
THEOREM TypeCorrect == Spec => []TypeOK
    <1>1. IInv => TypeOK
        BY DEF IInv
    <1>2. QED
        BY <1>1, EngineInvariant, PTL

(* The versions of a rule form a chain, however many Saves and Reactivates *)
(* race for the next number, ordered in time until a restart.              *)
THEOREM Chain == Spec => []VersionChain
    <1>1. IInv => VersionChain
        BY DEF IInv
    <1>2. QED
        BY <1>1, EngineInvariant, PTL

(* The engine evaluates with texts of the store only: the cache entry is   *)
(* the stored version that its version line names.                         *)
THEOREM CacheIsStored == Spec => []CacheFromStore
    <1>1. IInv => CacheFromStore
        BY DEF IInv
    <1>2. QED
        BY <1>1, EngineInvariant, PTL

(* Every decision in the audit log names the stored version whose text     *)
(* made it, in force already unless a restart set the clock back.          *)
THEOREM Audit == Spec => []AuditSound
    <1>1. IInv => AuditSound
        BY DEF IInv
    <1>2. QED
        BY <1>1, EngineInvariant, PTL

(* Version rows are never deleted or rewritten, and are closed only once.  *)
THEOREM Immutable == Spec => RowsImmutable
    <1>1. IInv /\ [Next]_vars =>
            [\A r \in Rules : \A v \in DOMAIN rows[r] :
                /\ v \in DOMAIN rows'[r]
                /\ rows'[r][v].content = rows[r][v].content
                /\ rows'[r][v].from = rows[r][v].from
                /\ rows[r][v].to # Open => rows'[r][v].to = rows[r][v].to]_vars
        BY NextStep DEF Kept
    <1>2. QED
        BY <1>1, EngineInvariant, PTL DEF Spec, RowsImmutable
=============================================================================
