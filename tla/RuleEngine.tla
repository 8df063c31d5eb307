----------------------------- MODULE RuleEngine -----------------------------
(***************************************************************************)
(* internal/rules with the rule store of internal/store: versioned rules,  *)
(* the in-memory cache of the live version of each, and the audit log of   *)
(* decisions.  Saves, reactivations and evaluations run concurrently, one  *)
(* goroutine per HTTP request; neither Save nor Reactivate holds a lock    *)
(* from reading the version history to replacing the cache entry.          *)
(***************************************************************************)
EXTENDS Integers, FiniteSets

CONSTANTS
    Procs,     \* request goroutines
    Rules,     \* registered rule identifiers
    Bodies,    \* rule documents that pass schema validation
    Flow,      \* those with no "version:" line of their own (flow style)
    Failing,   \* those with an example that fails
    DiskBody,  \* [Rules -> Bodies], the files in rules/
    Open,      \* effective_to of the live version
    Postgres,  \* TRUE: pgstore, FALSE: memstore
    MaxVersions, MaxApps, MaxTime, MaxFaults    \* bounds

ASSUME RuleAssumption ==
    /\ Flow \subseteq Bodies /\ Failing \subseteq Bodies
    /\ DiskBody \in [Rules -> Bodies \ Flow]
    /\ Open \notin Nat
    /\ Postgres \in BOOLEAN
    /\ {MaxVersions, MaxApps, MaxTime, MaxFaults} \subseteq Nat

VARIABLES
    rows,   \* the rule_versions table: [Rules -> [versions -> Row]]
    apps,   \* the rule_applications table
    cache,  \* the live document of each rule in memory, or NoRule
    clock,  \* simulated time
    pc,     \* step each goroutine is at
    job,    \* what each goroutine is working on
    phase,  \* "loading" | "up" | "failed"
    acked,  \* history: highest version a client was told is saved
    faults, \* store errors and crashes so far
    restarts \* history: crashes so far

vars == <<rows, apps, cache, clock, pc, job, phase, acked, faults, restarts>>

(* A document is its body and the number on its version line; 0 stands for *)
(* the text that results when a version line is put in front of a flow     *)
(* style document, which does not parse.                                   *)
Documents == [body : Bodies, line : Nat]

Validate(d) == d.line # 0

NoRule == [body |-> "none", line |-> 0]

Row == [content : Documents, from : Nat, to : Nat \cup {Open}]

App == [rule : Rules, version : Nat, body : Bodies, at : Nat]

Job(r, raw) == [rule |-> r, raw |-> raw, prev |-> 0, now |-> 0]

Idle == Job("none", NoRule)

rewriteVersionLine_Keeps(d, n) == d            \* leaves the old number

rewriteVersionLine(d, n) ==
    [d EXCEPT !.line = IF d.body \in Flow THEN 0 ELSE n]

IsLatest(r, m) == m \in DOMAIN rows[r] /\ \A v \in DOMAIN rows[r] : v <= m

OpenVersions(r) == {v \in DOMAIN rows[r] : rows[r][v].to = Open}

Init ==
    /\ rows = [r \in Rules |-> << >>]
    /\ apps = {}
    /\ cache = [r \in Rules |-> NoRule]
    /\ clock = 0
    /\ pc = [p \in Procs |-> "idle"]
    /\ job = [p \in Procs |-> Idle]
    /\ phase = "loading"
    /\ acked = [r \in Rules |-> 0]
    /\ faults = 0
    /\ restarts = 0

-----------------------------------------------------------------------------
(* UPDATE ... SET effective_to = now WHERE effective_to IS NULL.           *)
Closed_Never(row, now) == row                  \* the UPDATE is missing

Closed(row, now) == IF row.to = Open THEN [row EXCEPT !.to = now] ELSE row

(* InsertRuleVersion: every open version of the rule is closed at the new  *)
(* one's effective_from and the new one is added, in one transaction.      *)
InsertRuleVersion(r, v, d, now) ==
    rows' = [rows EXCEPT ![r] =
               [w \in DOMAIN rows[r] \cup {v} |->
                  IF w = v THEN [content |-> d, from |-> now, to |-> Open]
                  ELSE Closed(rows[r][w], now)]]

(* LoadFromDisk: a rule with no stored version gets its file as version 1, *)
LoadInsert_Zero(r) ==                          \* numbers from zero
    /\ phase = "loading"
    /\ DOMAIN rows[r] = {}
    /\ InsertRuleVersion(r, 0, [body |-> DiskBody[r], line |-> 1], clock)
    /\ UNCHANGED <<apps, cache, clock, pc, job, phase, acked, faults, restarts>>

LoadInsert(r) ==
    /\ phase = "loading"
    /\ DOMAIN rows[r] = {}
    /\ InsertRuleVersion(r, 1, [body |-> DiskBody[r], line |-> 1], clock)
    /\ UNCHANGED <<apps, cache, clock, pc, job, phase, acked, faults, restarts>>

(* then the cache is filled with the open version of each; the server      *)
(* starts to serve, or exits if one of them does not validate.             *)
LoadWarm ==
    /\ phase = "loading"
    /\ \A r \in Rules : DOMAIN rows[r] # {}
    /\ \E live \in [Rules -> UNION {DOMAIN rows[r] : r \in Rules}] :
         /\ \A r \in Rules :
              /\ live[r] \in OpenVersions(r)
              /\ \A v \in OpenVersions(r) : v <= live[r]
         /\ IF \A r \in Rules : Validate(rows[r][live[r]].content)
            THEN /\ cache' = [r \in Rules |-> rows[r][live[r]].content]
                 /\ phase' = "up"
            ELSE /\ phase' = "failed"
                 /\ UNCHANGED cache
    /\ UNCHANGED <<rows, apps, clock, pc, job, acked, faults, restarts>>

-----------------------------------------------------------------------------
Start(p, step, j) ==
    /\ phase = "up"
    /\ pc[p] = "idle"
    /\ pc' = [pc EXCEPT ![p] = step]
    /\ job' = [job EXCEPT ![p] = j]
    /\ UNCHANGED <<rows, apps, cache, clock, phase, acked, faults, restarts>>

(* Save, up to the examples gate: a document that fails it, or does not    *)
(* validate, is refused and changes nothing.                               *)
Save(p, r, b, allowFailing) ==
    /\ Cardinality(DOMAIN rows[r]) < MaxVersions
    /\ b \notin Failing \/ allowFailing
    /\ Start(p, "list", Job(r, [body |-> b, line |-> 1]))

(* Reactivate begins by fetching the version to bring back.                *)
Reactivate(p, r, v) ==
    /\ Cardinality(DOMAIN rows[r]) < MaxVersions
    /\ Start(p, "relist", Job(r, rows[r][v].content))

SaveBegin(p) ==
    \E r \in Rules, b \in Bodies, allowFailing \in BOOLEAN :
        Save(p, r, b, allowFailing)

ReactivateBegin(p) ==
    \E r \in Rules : \E v \in DOMAIN rows[r] : Reactivate(p, r, v)

(* latestVersion: both then read the highest version number and rewrite    *)
(* the version line to the next; Reactivate validates the result here.     *)
ListVersions(p) ==
    LET r == job[p].rule IN
    /\ pc[p] \in {"list", "relist"}
    /\ \E m \in DOMAIN rows[r] :
         LET raw == rewriteVersionLine(job[p].raw, m + 1) IN
         /\ IsLatest(r, m)
         /\ IF pc[p] = "relist" /\ ~Validate(raw)
            THEN /\ pc' = [pc EXCEPT ![p] = "idle"]
                 /\ job' = [job EXCEPT ![p] = Idle]
            ELSE /\ pc' = [pc EXCEPT ![p] = "stamp"]
                 /\ job' = [job EXCEPT ![p] = [rule |-> r, raw |-> raw,
                                              prev |-> m, now |-> 0]]
    /\ UNCHANGED <<rows, apps, cache, clock, phase, acked, faults, restarts>>

Stamp(p) ==
    /\ pc[p] = "stamp"
    /\ job' = [job EXCEPT ![p].now = clock]
    /\ pc' = [pc EXCEPT ![p] = "insert"]
    /\ UNCHANGED <<rows, apps, cache, clock, phase, acked, faults, restarts>>

Finish(p) ==
    /\ pc' = [pc EXCEPT ![p] = "idle"]
    /\ job' = [job EXCEPT ![p] = Idle]

(* The primary key (rule_id, version) of rule_versions.                    *)
Taken_Never(r, v) == FALSE                     \* the row is replaced

Taken(r, v) == v \in DOMAIN rows[r]

(* The insert is refused if another goroutine took the version number.     *)
InsertConflict(p) ==
    /\ pc[p] = "insert"
    /\ Taken(job[p].rule, job[p].prev + 1)
    /\ Finish(p)
    /\ UNCHANGED <<rows, apps, cache, clock, phase, acked, faults, restarts>>

(* After the insert Save validates the rewritten text again; if that fails *)
(* it reports an error, but the new version stays in the store.            *)
InsertOK(p) ==
    LET j == job[p] IN
    /\ pc[p] = "insert"
    /\ ~Taken(j.rule, j.prev + 1)
    /\ InsertRuleVersion(j.rule, j.prev + 1, j.raw, j.now)
    /\ IF Validate(j.raw)
       THEN pc' = [pc EXCEPT ![p] = "cache"] /\ UNCHANGED job
       ELSE Finish(p)
    /\ UNCHANGED <<apps, cache, clock, phase, acked, faults, restarts>>

(* The insert commits but the store reports an error.                      *)
InsertLost(p) ==
    LET j == job[p] IN
    /\ Postgres
    /\ pc[p] = "insert"
    /\ ~Taken(j.rule, j.prev + 1)
    /\ faults < MaxFaults
    /\ faults' = faults + 1
    /\ InsertRuleVersion(j.rule, j.prev + 1, j.raw, j.now)
    /\ Finish(p)
    /\ UNCHANGED <<apps, cache, clock, phase, acked, restarts>>

(* Replace the cache entry and answer the client.                          *)
ReplaceCache(p) ==
    LET j == job[p] IN
    /\ pc[p] = "cache"
    /\ cache' = [cache EXCEPT ![j.rule] = j.raw]
    /\ acked' = [acked EXCEPT ![j.rule] =
                   IF j.prev + 1 > @ THEN j.prev + 1 ELSE @]
    /\ Finish(p)
    /\ UNCHANGED <<rows, apps, clock, phase, faults, restarts>>

-----------------------------------------------------------------------------
(* Evaluate takes the cached rule ...                                      *)
EvaluateBegin(p) ==
    /\ Cardinality(apps) < MaxApps
    /\ \E r \in Rules :
        Start(p, "record", Job(r, cache[r]))

(* ... and records the decision under the version on that document, at     *)
(* the time it is by then.                                                 *)
EvaluateRecord_Rereads(p) ==                   \* asks for the version again
    LET j == job[p] IN
    /\ pc[p] = "record"
    /\ apps' = apps \cup {[rule |-> j.rule, version |-> cache[j.rule].line,
                           body |-> j.raw.body, at |-> clock]}
    /\ Finish(p)
    /\ UNCHANGED <<rows, cache, clock, phase, acked, faults, restarts>>

EvaluateRecord(p) ==
    LET j == job[p] IN
    /\ pc[p] = "record"
    /\ apps' = apps \cup {[rule |-> j.rule, version |-> j.raw.line,
                           body |-> j.raw.body, at |-> clock]}
    /\ Finish(p)
    /\ UNCHANGED <<rows, cache, clock, phase, acked, faults, restarts>>

(* A store error anywhere in a request: the request fails, nothing more.   *)
StoreError(p) ==
    /\ Postgres
    /\ pc[p] \in {"list", "relist", "insert", "record"}
    /\ faults < MaxFaults
    /\ faults' = faults + 1
    /\ Finish(p)
    /\ UNCHANGED <<rows, apps, cache, clock, phase, acked, restarts>>

-----------------------------------------------------------------------------
AdvanceClock ==
    /\ clock < MaxTime
    /\ clock' = clock + 1
    /\ UNCHANGED <<rows, apps, cache, pc, job, phase, acked, faults, restarts>>

(* The process dies and is started again on the same database; simulated   *)
(* time begins again at SIM_START.                                         *)
Crash ==
    /\ Postgres
    /\ faults < MaxFaults
    /\ faults' = faults + 1
    /\ cache' = [r \in Rules |-> NoRule]
    /\ pc' = [p \in Procs |-> "idle"]
    /\ job' = [p \in Procs |-> Idle]
    /\ phase' = "loading"
    /\ clock' = 0
    /\ restarts' = restarts + 1
    /\ UNCHANGED <<rows, apps, acked>>

Request(p) == SaveBegin(p) \/ ReactivateBegin(p) \/ EvaluateBegin(p)

Step(p) == \/ ListVersions(p) \/ Stamp(p) \/ InsertConflict(p) \/ InsertOK(p)
           \/ ReplaceCache(p) \/ EvaluateRecord(p)

Next ==
    \/ \E r \in Rules : LoadInsert(r)
    \/ LoadWarm
    \/ \E p \in Procs : Request(p) \/ Step(p) \/ InsertLost(p) \/ StoreError(p)
    \/ AdvanceClock
    \/ Crash

Spec == Init /\ [][Next]_vars

-----------------------------------------------------------------------------
(* Types; version numbers are positive, and a goroutine that is inside a   *)
(* request works on a registered rule and a document of it.                *)
TypeOK ==
    /\ DOMAIN rows = Rules
    /\ \A r \in Rules : \A v \in DOMAIN rows[r] :
         v \in Nat \ {0} /\ rows[r][v] \in Row
    /\ apps \subseteq App
    /\ cache \in [Rules -> Documents \cup {NoRule}]
    /\ clock \in Nat
    /\ pc \in [Procs -> {"idle", "list", "relist", "stamp", "insert", "cache",
                         "record"}]
    /\ job \in [Procs -> [rule : Rules \cup {"none"},
                          raw : Documents \cup {NoRule},
                          prev : Nat, now : Nat]]
    /\ \A p \in Procs : pc[p] # "idle" =>
                          job[p].rule \in Rules /\ job[p].raw \in Documents
    /\ phase \in {"loading", "up", "failed"}
    /\ acked \in [Rules -> Nat]
    /\ faults \in Nat /\ restarts \in Nat

(* The versions of a rule are numbered 1..n without a gap, only the last   *)
(* is open, and each is effective from where its predecessor ends,         *)
(* whatever saves and reactivations race for the next number; until a      *)
(* restart sets the clock back exactly one version is in force at every    *)
(* simulated time (Save, InsertRuleVersion).                               *)
VersionChain ==
    \A r \in Rules : \A v \in DOMAIN rows[r] :
        /\ \A w \in 1..v : w \in DOMAIN rows[r]
        /\ IF v + 1 \in DOMAIN rows[r]
           THEN /\ rows[r][v].to = rows[r][v + 1].from
                /\ restarts > 0 \/ rows[r][v].from <= rows[r][v + 1].from
           ELSE rows[r][v].to = Open

(* The document in memory is, to the letter and with the number on its     *)
(* version line, a version of the store (Save, Reactivate, LoadFromDisk).  *)
CacheFromStore ==
    \A r \in Rules : cache[r] # NoRule =>
        /\ cache[r].line \in DOMAIN rows[r]
        /\ rows[r][cache[r].line].content = cache[r]

(* Every recorded decision names a stored version and was made with that   *)
(* version's text; until a restart sets the clock back, not before that    *)
(* version came into force (Evaluate).                                     *)
AuditSound ==
    \A a \in apps :
        /\ a.version \in DOMAIN rows[a.rule]
        /\ rows[a.rule][a.version].content.body = a.body
        /\ restarts > 0 \/ rows[a.rule][a.version].from <= a.at

(* A version row never disappears and never changes, except that           *)
(* effective_to goes once from open to a time (InsertRuleVersion).         *)
RowsImmutable ==
    [][\A r \in Rules : \A v \in DOMAIN rows[r] :
          /\ v \in DOMAIN rows'[r]
          /\ rows'[r][v].content = rows[r][v].content
          /\ rows'[r][v].from = rows[r][v].from
          /\ rows[r][v].to # Open => rows'[r][v].to = rows[r][v].to]_vars

(* The next decision after a save is answered is made with the saved       *)
(* version or a later one.                                                 *)
SavedIsLive ==
    phase = "up" => \A r \in Rules : cache[r].line >= acked[r]

(* A document that the store holds as the live version validates.          *)
LiveValidates ==
    \A r \in Rules : \A v \in OpenVersions(r) : Validate(rows[r][v].content)
=============================================================================
