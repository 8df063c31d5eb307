----------------------------- MODULE DemoProofs -----------------------------
(***************************************************************************)
(* The demo service beside the rule editor: it implements the rule engine, *)
(* a reset can always go back to the baseline, and steps are recorded in   *)
(* order, for any number of goroutines, rules, scenarios and reloads.      *)
(***************************************************************************)
EXTENDS Demo, RuleEngineProofs, SequenceTheorems

States == [snapshot : [Rules -> Nat], runs : [StepIDs -> {"none", "ran", "failed"}]]

Histories == [base : [Rules -> Bodies \cup {NoField}], disturbed : SUBSET Causes,
              done : SUBSET StepIDs, stray : SUBSET StepIDs]

Places == {"none", "ensure", "snap", "reload", "detail", "view", "check",
           "edit", "saving", "restore", "compare", "restoring", "resnap",
           "record"}

(* The steps of a reset, those of a run, and all that work on a state.     *)
Resets == {"restore", "compare", "restoring", "resnap"}

Runs == {"edit", "saving", "record"}

Working == Resets \cup Runs \cup {"check", "view"}

Reqs == [op : {"none", "run", "reset", "start", "reload", "view"},
         scenario : Scenarios \cup {"none"}, sc : Seq(Steps) \cup Files,
         step : Nat, force : BOOLEAN, st : Nat, todo : SUBSET Rules,
         rule : Rules \cup {"none"}, ver : Nat, snap : [Rules -> Nat],
         ok : BOOLEAN, crossed : BOOLEAN]

(* What a goroutine holds at each of its steps.                            *)
ReqOK(p) ==
    LET j == req[p] IN
    /\ j.st \in 0..Len(heap)
    /\ at[p] # "none" => phase = "up"
    /\ at[p] \in {"saving", "restoring"} => pc[p] # "idle"
    /\ at[p] \notin {"none", "saving", "restoring"} => pc[p] = "idle"
    /\ at[p] \notin {"none", "reload"} => j.sc \in Seq(Steps) /\ j.scenario \in Scenarios
    /\ at[p] = "reload" => j.sc \in Files
    /\ at[p] \in Working => j.st # 0
    /\ at[p] \in {"ensure", "snap"} \cup Resets => j.op \in {"run", "reset", "start"}
    /\ at[p] = "ensure" \/ at[p] \in Resets => j.op # "start"
    /\ at[p] \in Runs \cup {"check"} => j.op = "run"
    /\ at[p] # "none" /\ j.op = "run" => j.step \in StepIDs
    /\ at[p] \in Runs => j.step \in DOMAIN j.sc
    /\ at[p] \in Resets /\ j.op = "run" =>
         j.step \in DOMAIN j.sc /\ j.sc[j.step].action = "reset_scenario"

(* The versions it holds are stored.                                       *)
SnapOK(p) ==
    LET j == req[p] IN
    /\ \A r \in Rules : j.snap[r] # 0 => j.snap[r] \in DOMAIN rows[r]
    /\ at[p] \in {"compare", "restoring"} =>
         j.rule \in Rules /\ j.ver \in DOMAIN rows[j.rule]

(* The rules that a reset is done with, ...                                *)
Restored(p) ==
    LET j == req[p] IN
    ruleIDsForScenario(j.sc) \
        (CASE at[p] = "restore" -> j.todo
           [] at[p] = "resnap" -> {}
           [] OTHER -> j.todo \cup {j.rule})

(* ... whose baseline is live again; nobody else made another one live.    *)
BaseOK(p) ==
    LET j == req[p]
        h == past[j.st]
    IN at[p] \in Resets =>
         /\ at[p] \in {"compare", "restoring"} =>
              h.disturbed # {} \/ Body(j.rule, j.ver) = h.base[j.rule]
         /\ at[p] = "restoring" =>
              job[p].rule = j.rule /\ job[p].raw.body = Body(j.rule, j.ver)
         /\ \A r \in Restored(p) : h.disturbed # {} \/ h.base[r] \in {NoField, cache[r].body}
         /\ at[p] = "resnap" =>
              \A r \in Rules : j.snap[r] # 0 =>
                /\ r \in ruleIDsForScenario(j.sc)
                /\ \/ h.disturbed # {}
                   \/ Body(r, j.snap[r]) = h.base[r]
                   \/ h.base[r] = NoField /\ Body(r, j.snap[r]) = cache[r].body

(* A step under way was in order, unless something excuses it.             *)
OrderOK(p) ==
    LET j == req[p] IN
    at[p] \in Runs =>
        \/ j.step = 1 \/ j.force \/ j.crossed
        \/ j.sc[j.step].action = "reset_scenario"
        \/ j.step - 1 \in past[j.st].done

HeapOK ==
    /\ defs \in Files
    /\ requests \in Nat
    /\ states \in [Scenarios -> 0..Len(heap)]
    /\ heap \in Seq(States)
    /\ past \in Seq(Histories)
    /\ Len(past) = Len(heap)
    /\ at \in [Procs -> Places]
    /\ req \in [Procs -> Reqs]

(* A baseline that is missing in the snapshot is missing in the history.   *)
Baselines ==
    \A x \in DOMAIN heap : \A r \in Rules :
        heap[x].snapshot[r] = 0 => past[x].disturbed # {} \/ past[x].base[r] = NoField

RanIsDone ==
    \A x \in DOMAIN heap : \A i \in StepIDs :
        heap[x].runs[i] = "ran" => i \in past[x].done

GoroutineOK(p) == ReqOK(p) /\ SnapOK(p) /\ BaseOK(p) /\ OrderOK(p)

Goroutines == \A p \in Procs : GoroutineOK(p)

DInv == /\ IInv /\ HeapOK /\ BaselineKept /\ Baselines /\ PredecessorRan
        /\ RanIsDone /\ Goroutines

-----------------------------------------------------------------------------
(* What Go does.                                                           *)
LEMMA GoEffect ==
    ASSUME HeapOK, NEW p \in Procs, NEW step, NEW j, Go(p, step, j)
    PROVE  /\ at'[p] = step /\ req'[p] = j
           /\ \A q \in Procs \ {p} : at'[q] = at[q] /\ req'[q] = req[q]
           /\ step \in Places => at' \in [Procs -> Places]
           /\ j \in Reqs => req' \in [Procs -> Reqs]
    BY DEF Go, HeapOK

(* NoReq is a request, and the parts of one have their types.              *)
LEMMA NoReqType == NoReq \in Reqs
    <1>1. << >> \in Seq(Steps) /\ [r \in Rules |-> 0] \in [Rules -> Nat]
        BY EmptySeq
    <1>2. QED
        BY <1>1 DEF NoReq, Reqs

(* The scenarios of the loaded file are sequences of steps.                *)
LEMMA Scripts ==
    ASSUME NEW f \in Files, NEW s \in Scenarios
    PROVE  f[s] \in Seq(Steps)
    BY DemoAssumption DEF DemoAssumption

(* While a goroutine works the engine is up, and every rule is live.       *)
LEMMA Live ==
    ASSUME IInv, phase = "up", NEW r \in Rules
    PROVE  /\ cache[r] \in Documents
           /\ cache[r].body \in Bodies
           /\ cache[r].line \in Nat \ {0}
           /\ cache[r].line \in DOMAIN rows[r]
           /\ rows[r][cache[r].line].content = cache[r]
           /\ Body(r, cache[r].line) = cache[r].body
    BY DEF IInv, TypeOK, UpIsWarm, CacheFromStore, Documents, Body

(* The step of a scenario that a run is at.                                *)
LEMMA StepType ==
    ASSUME HeapOK, NEW p \in Procs, ReqOK(p), at[p] \in Runs
    PROVE  req[p].sc[req[p].step] \in Steps
    <1>1. req[p].sc \in Seq(Steps) /\ req[p].step \in DOMAIN req[p].sc
        BY DEF ReqOK, Runs
    <1>2. QED
        BY <1>1, LenProperties, ElementOfSeq

-----------------------------------------------------------------------------
(* editRule does what a save of the rule editor does.                      *)
LEMMA EditIsSave ==
    ASSUME DInv, NEW p \in Procs, editRule(p)
    PROVE  [Next]_vars
    <1> DEFINE s == req[p].sc[req[p].step]
               b == s.set[cache[s.rule].body]
    <1>1. at[p] = "edit" /\ ReqOK(p) /\ HeapOK /\ IInv
        BY DEF editRule, DInv, Goroutines, GoroutineOK
    <1>2. s \in Steps
        BY <1>1, StepType DEF Runs
    <1>3. s.rule \in Rules /\ s.allow \in BOOLEAN /\ s.set \in [Bodies -> Bodies \cup {NoField}]
        BY <1>2 DEF Steps
    <1>4. phase = "up"
        BY <1>1 DEF ReqOK
    <1>5. cache[s.rule].body \in Bodies
        BY <1>1, <1>3, <1>4, Live
    <1>6. b \in Bodies \cup {NoField}
        BY <1>3, <1>5
    <1>7. UNCHANGED vars \/ (b # NoField /\ Save(p, s.rule, b, s.allow))
        BY DEF editRule
    <1>8. CASE b # NoField /\ Save(p, s.rule, b, s.allow)
        <2>1. SaveBegin(p)
            BY <1>3, <1>6, <1>8 DEF SaveBegin
        <2>2. QED
            BY <2>1 DEF Next, Request
    <1>9. QED
        BY <1>7, <1>8

(* resetScenario brings back stored versions only.                         *)
LEMMA RestoreIsReactivate ==
    ASSUME DInv, NEW p \in Procs, RestoreCompare(p)
    PROVE  [Next]_vars
    <1>1. at[p] = "compare" /\ SnapOK(p)
        BY DEF RestoreCompare, DInv, Goroutines, GoroutineOK
    <1>2. req[p].rule \in Rules /\ req[p].ver \in DOMAIN rows[req[p].rule]
        BY <1>1 DEF SnapOK
    <1>3. UNCHANGED vars \/ Reactivate(p, req[p].rule, req[p].ver)
        BY DEF RestoreCompare
    <1>4. CASE Reactivate(p, req[p].rule, req[p].ver)
        <2>1. ReactivateBegin(p)
            BY <1>2, <1>4 DEF ReactivateBegin
        <2>2. QED
            BY <2>1 DEF Next, Request
    <1>5. QED
        BY <1>3, <1>4

(* Every step of the demo service is a step of the rule engine, or leaves  *)
(* it alone.                                                               *)
LEMMA DemoStepIsEngineStep ==
    ASSUME DInv, [DemoNext]_demoVars
    PROVE  [Next]_vars
    <1>1. ASSUME NEW p \in Procs, DemoRequest(p)
          PROVE  UNCHANGED vars
        BY <1>1 DEF DemoRequest, RunStep, handleReset, StartScenario, Reload, View, Begin
    <1>2. ASSUME NEW p \in Procs, DemoStep(p)
          PROVE  [Next]_vars
        <2>1. CASE editRule(p)
            BY <2>1, EditIsSave
        <2>2. CASE RestoreCompare(p)
            BY <2>2, RestoreIsReactivate
        <2>3. ASSUME \/ ReloadInstall(p) \/ detail(p) \/ Viewed(p) \/ ensureStarted(p)
                     \/ SnapshotGet(p) \/ startScenario(p) \/ CheckStep(p)
                     \/ RestoreNext(p) \/ Rebase(p) \/ Record(p)
              PROVE  UNCHANGED vars
            BY <2>3 DEF ReloadInstall, detail, Viewed, ensureStarted, SnapshotGet,
                        startScenario, CheckStep, RestoreNext, Rebase, Record
        <2>4. QED
            BY <1>2, <2>1, <2>2, <2>3 DEF DemoStep
    <1>3. ASSUME NEW p \in Procs, EngineRequest(p) \/ EngineStep(p)
          PROVE  Next
        BY <1>3 DEF EngineRequest, EngineStep, Next
    <1>4. ASSUME EngineOther
          PROVE  Next
        BY <1>4 DEF EngineOther, Next
    <1>5. ASSUME Die \/ \E p, q \in Procs : MapRace(p, q)
          PROVE  Next
        BY <1>5 DEF Die, MapRace, Next
    <1>6. ASSUME UNCHANGED demoVars
          PROVE  UNCHANGED vars
        BY <1>6 DEF demoVars
    <1>7. QED
        BY <1>1, <1>2, <1>3, <1>4, <1>5, <1>6 DEF DemoNext

-----------------------------------------------------------------------------
(* A goroutine is not disturbed by steps of others that leave the state,   *)
(* its history, the rules and its own engine call alone.                   *)
LEMMA OthersKept ==
    ASSUME DInv, NEW p \in Procs, UNCHANGED <<heap, past, rows, cache, phase>>,
           at'[p] = at[p], req'[p] = req[p], pc'[p] = pc[p], job'[p] = job[p]
    PROVE  GoroutineOK(p)'
    <1>1. ReqOK(p) /\ SnapOK(p) /\ BaseOK(p) /\ OrderOK(p)
        BY DEF DInv, Goroutines, GoroutineOK
    <1>2. ReqOK(p)'
        BY <1>1 DEF ReqOK
    <1>3. SnapOK(p)'
        BY <1>1 DEF SnapOK
    <1>4. BaseOK(p)'
        BY <1>1 DEF BaseOK, Restored, Body
    <1>5. OrderOK(p)'
        BY <1>1 DEF OrderOK
    <1>6. QED
        BY <1>2, <1>3, <1>4, <1>5 DEF GoroutineOK

(* A request that only goes on to its next step.                           *)
LEMMA GoKeeps ==
    ASSUME DInv, IInv', NEW p \in Procs, NEW step \in Places, NEW j \in Reqs,
           Go(p, step, j),
           UNCHANGED <<heap, past, rows, cache, phase>>,
           \A q \in Procs \ {p} : pc'[q] = pc[q] /\ job'[q] = job[q],
           requests' \in Nat, defs' \in Files,
           states' \in [Scenarios -> 0..Len(heap)],
           GoroutineOK(p)'
    PROVE  DInv'
    <1>1. HeapOK /\ BaselineKept /\ Baselines /\ PredecessorRan /\ RanIsDone
        BY DEF DInv
    <1>2. /\ \A q \in Procs \ {p} : at'[q] = at[q] /\ req'[q] = req[q]
          /\ at' \in [Procs -> Places] /\ req' \in [Procs -> Reqs]
        BY <1>1, GoEffect
    <1>3. HeapOK'
        BY <1>1, <1>2 DEF HeapOK
    <1>4. ASSUME NEW q \in Procs
          PROVE  GoroutineOK(q)'
        <2>1. CASE q = p
            BY <2>1
        <2>2. CASE q # p
            BY <1>2, <2>2, OthersKept
        <2>3. QED
            BY <2>1, <2>2
    <1>5. /\ BaselineKept' /\ Baselines' /\ PredecessorRan' /\ RanIsDone'
        BY <1>1 DEF BaselineKept, Baselines, PredecessorRan, RanIsDone, Body
    <1>6. QED
        BY <1>3, <1>4, <1>5 DEF DInv, Goroutines

(* What holds of a goroutine that has answered, ...                        *)
LEMMA AnswerOK ==
    ASSUME NEW p \in Procs, HeapOK, Answer(p), Len(heap') \in Nat
    PROVE  GoroutineOK(p)'
    <1>1. at'[p] = "none" /\ req'[p] = NoReq
        BY GoEffect DEF Answer
    <1>2. ReqOK(p)'
        BY <1>1 DEF ReqOK, Working, Resets, Runs, NoReq
    <1>3. SnapOK(p)'
        BY <1>1 DEF SnapOK, NoReq
    <1>4. BaseOK(p)' /\ OrderOK(p)'
        BY <1>1 DEF BaseOK, OrderOK, Resets, Runs
    <1>5. QED
        BY <1>2, <1>3, <1>4 DEF GoroutineOK

(* ... of a request that has not yet a state or only reads one, ...        *)
LEMMA EarlyOK ==
    ASSUME NEW p \in Procs, HeapOK, NEW step \in {"ensure", "snap", "detail", "view", "check"},
           NEW j \in Reqs, Go(p, step, j),
           phase' = "up", pc'[p] = "idle",
           j.sc \in Seq(Steps), j.scenario \in Scenarios,
           j.st \in 0..Len(heap'), step \in {"view", "check"} => j.st # 0,
           step \in {"ensure", "snap"} => j.op \in {"run", "reset", "start"},
           step = "ensure" => j.op # "start",
           step = "check" => j.op = "run",
           j.op = "run" => j.step \in StepIDs,
           \A r \in Rules : j.snap[r] # 0 => j.snap[r] \in DOMAIN rows'[r]
    PROVE  GoroutineOK(p)'
    <1>1. at'[p] = step /\ req'[p] = j
        BY GoEffect
    <1>2. ReqOK(p)'
        BY <1>1 DEF ReqOK, Working, Resets, Runs
    <1>3. SnapOK(p)'
        BY <1>1 DEF SnapOK
    <1>4. BaseOK(p)' /\ OrderOK(p)'
        BY <1>1 DEF BaseOK, OrderOK, Resets, Runs
    <1>5. QED
        BY <1>2, <1>3, <1>4 DEF GoroutineOK

(* ... of a run past its check, ...                                        *)
LEMMA RunOK ==
    ASSUME NEW p \in Procs, HeapOK, NEW step \in {"edit", "saving", "record"},
           NEW j \in Reqs, Go(p, step, j),
           phase' = "up", step = "saving" <=> pc'[p] # "idle",
           j.sc \in Seq(Steps), j.scenario \in Scenarios,
           j.st \in 1..Len(heap'), j.op = "run", j.step \in StepIDs,
           j.step \in DOMAIN j.sc,
           \A r \in Rules : j.snap[r] # 0 => j.snap[r] \in DOMAIN rows'[r],
           \/ j.step = 1 \/ j.force \/ j.crossed
           \/ j.sc[j.step].action = "reset_scenario"
           \/ j.step - 1 \in past'[j.st].done
    PROVE  GoroutineOK(p)'
    <1>1. at'[p] = step /\ req'[p] = j
        BY GoEffect
    <1>2. ReqOK(p)'
        BY <1>1 DEF ReqOK, Working, Resets, Runs
    <1>3. SnapOK(p)'
        BY <1>1 DEF SnapOK
    <1>4. BaseOK(p)'
        BY <1>1 DEF BaseOK, Resets
    <1>5. OrderOK(p)'
        BY <1>1 DEF OrderOK
    <1>6. QED
        BY <1>2, <1>3, <1>4, <1>5 DEF GoroutineOK

(* ... and of a reset.                                                     *)
ResetReq(j, n) ==
    /\ j \in Reqs
    /\ j.sc \in Seq(Steps) /\ j.scenario \in Scenarios
    /\ j.st \in 1..n /\ j.op \in {"run", "reset"}
    /\ j.op = "run" => /\ j.step \in StepIDs /\ j.step \in DOMAIN j.sc
                       /\ j.sc[j.step].action = "reset_scenario"

LEMMA ResetOK ==
    ASSUME NEW p \in Procs, HeapOK, NEW step \in Resets, NEW j, ResetReq(j, Len(heap')),
           Go(p, step, j),
           phase' = "up", step = "restoring" <=> pc'[p] # "idle"
    PROVE  /\ ReqOK(p)' /\ OrderOK(p)'
           /\ at'[p] = step /\ req'[p] = j
           /\ step \in Places /\ j \in Reqs
    <1>1. at'[p] = step /\ req'[p] = j
        BY GoEffect
    <1>2. ReqOK(p)'
        BY <1>1 DEF ReqOK, Working, Resets, Runs, ResetReq
    <1>3. OrderOK(p)'
        BY <1>1 DEF OrderOK, Resets, Runs
    <1>4. QED
        BY <1>1, <1>2, <1>3 DEF Resets, Places, ResetReq

LEMMA RestoreOK ==
    ASSUME NEW p \in Procs, HeapOK, NEW j, ResetReq(j, Len(heap')), Restore(p, j),
           phase' = "up", pc'[p] = "idle",
           \A r \in Rules : j.snap[r] # 0 => j.snap[r] \in DOMAIN rows'[r],
           \A r \in ruleIDsForScenario(j.sc) \ j.todo :
               past'[j.st].disturbed # {} \/ past'[j.st].base[r] \in {NoField, cache'[r].body}
    PROVE  /\ GoroutineOK(p)'
           /\ \E step \in Places, k \in Reqs : Go(p, step, k)
    <1>1. CASE j.todo = {}
        <2> DEFINE k == [j EXCEPT !.todo = ruleIDsForScenario(j.sc),
                                  !.snap = [r \in Rules |-> 0]]
        <2>1. Go(p, "resnap", k)
            BY <1>1 DEF Restore, Snapshot
        <2>2. k \in Reqs
            BY DEF ResetReq, Reqs, ruleIDsForScenario
        <2>3. /\ k.sc = j.sc /\ k.scenario = j.scenario /\ k.st = j.st /\ k.op = j.op
              /\ k.step = j.step /\ k.snap = [r \in Rules |-> 0]
            BY DEF ResetReq, Reqs
        <2>4. ResetReq(k, Len(heap'))
            BY <2>2, <2>3 DEF ResetReq
        <2> HIDE DEF k
        <2>5. ReqOK(p)' /\ OrderOK(p)' /\ at'[p] = "resnap" /\ req'[p] = k
            BY <2>1, <2>4, ResetOK DEF Resets
        <2>6. SnapOK(p)'
            BY <2>3, <2>5 DEF SnapOK
        <2>7. BaseOK(p)'
            BY <1>1, <2>3, <2>5 DEF BaseOK, Restored, Resets
        <2>8. QED
            BY <2>1, <2>2, <2>5, <2>6, <2>7 DEF GoroutineOK, Places
    <1>2. CASE j.todo # {}
        <2>1. Go(p, "restore", j)
            BY <1>2 DEF Restore
        <2>2. ReqOK(p)' /\ OrderOK(p)' /\ at'[p] = "restore" /\ req'[p] = j
            BY <2>1, ResetOK DEF Resets
        <2>3. SnapOK(p)'
            BY <2>2 DEF SnapOK
        <2>4. BaseOK(p)'
            BY <2>2 DEF BaseOK, Restored, Resets
        <2>5. QED
            BY <2>1, <2>2, <2>3, <2>4 DEF GoroutineOK, Places, ResetReq
    <1>3. QED
        BY <1>1, <1>2

-----------------------------------------------------------------------------
(* Steps that only move one request on.                                    *)
LEMMA QuietKeeps ==
    ASSUME DInv, NEW p \in Procs, NEW step \in Places, NEW j \in Reqs, Go(p, step, j),
           UNCHANGED <<vars, defs, states, heap, past>>, requests' \in Nat,
           GoroutineOK(p)'
    PROVE  DInv'
    <1>1. IInv'
        BY StutterStep DEF DInv
    <1>2. UNCHANGED <<rows, cache, phase, pc, job>>
        BY DEF vars
    <1>3. defs' \in Files /\ states' \in [Scenarios -> 0..Len(heap)]
        BY DEF DInv, HeapOK
    <1>4. QED
        BY <1>1, <1>2, <1>3, GoKeeps

LEMMA AnswerKeeps ==
    ASSUME DInv, NEW p \in Procs, Answer(p),
           UNCHANGED <<vars, defs, states, heap, past, requests>>
    PROVE  DInv'
    <1>1. HeapOK /\ requests' \in Nat /\ Len(heap') \in Nat
        BY LenProperties DEF DInv, HeapOK
    <1>2. GoroutineOK(p)'
        BY <1>1, AnswerOK
    <1>3. QED
        BY <1>1, <1>2, NoReqType, QuietKeeps DEF Answer, Places

LEMMA LookupType ==
    ASSUME HeapOK, NEW s \in Scenarios, NEW op \in {"run", "reset", "start", "view"}
    PROVE  LET j == Lookup(s, op) IN
           /\ j \in Reqs
           /\ j.op = op /\ j.scenario = s /\ j.sc = defs[s] /\ j.sc \in Seq(Steps)
           /\ j.st = 0 /\ j.snap = [r \in Rules |-> 0]
    <1>1. defs[s] \in Seq(Steps)
        BY Scripts DEF HeapOK
    <1>2. QED
        BY <1>1, NoReqType DEF Lookup, NoReq, Reqs

LEMMA BeginKeeps ==
    ASSUME DInv, NEW p \in Procs, NEW step \in {"ensure", "snap", "detail"},
           NEW j \in Reqs, Begin(p, step, j),
           j.sc \in Seq(Steps), j.scenario \in Scenarios, j.st = 0,
           step # "detail" => j.op \in {"run", "reset", "start"},
           step = "ensure" => j.op # "start",
           j.op = "run" => j.step \in StepIDs,
           j.snap = [r \in Rules |-> 0]
    PROVE  DInv'
    <1>1. /\ HeapOK /\ requests' \in Nat /\ Len(heap') \in Nat
          /\ phase' = "up" /\ pc'[p] = "idle"
          /\ Go(p, step, j) /\ UNCHANGED <<vars, defs, states, heap, past>>
        BY LenProperties DEF DInv, HeapOK, Begin, vars
    <1>2. GoroutineOK(p)'
        BY <1>1, EarlyOK
    <1>3. QED
        BY <1>1, <1>2, QuietKeeps DEF Places

LEMMA DemoRequestStep ==
    ASSUME DInv, NEW p \in Procs, DemoRequest(p)
    PROVE  DInv'
    <1>1. HeapOK
        BY DEF DInv
    <1>2. CASE RunStep(p)
        <2>1. PICK s \in Scenarios, i \in StepIDs, force \in BOOLEAN :
                Begin(p, "ensure", [Lookup(s, "run") EXCEPT !.step = i, !.force = force])
            BY <1>2 DEF RunStep
        <2> DEFINE j == [Lookup(s, "run") EXCEPT !.step = i, !.force = force]
        <2>2. i \in Nat
            BY DemoAssumption DEF StepIDs, DemoAssumption
        <2> DEFINE k == Lookup(s, "run")
        <2>a. /\ k \in Reqs
              /\ k.op = "run" /\ k.scenario = s /\ k.sc \in Seq(Steps)
              /\ k.st = 0 /\ k.snap = [r \in Rules |-> 0]
            BY <1>1, LookupType
        <2> HIDE DEF k
        <2>3. /\ j \in Reqs
              /\ j.op = "run" /\ j.scenario = s /\ j.sc \in Seq(Steps)
              /\ j.st = 0 /\ j.snap = [r \in Rules |-> 0] /\ j.step = i
            <3>1. j = [k EXCEPT !.step = i, !.force = force]
                BY DEF k
            <3>2. QED
                BY <2>2, <2>a, <3>1 DEF Reqs
        <2> HIDE DEF j
        <2>4. QED
            BY <2>1, <2>3, BeginKeeps DEF j
    <1>3. CASE handleReset(p)
        BY <1>1, <1>3, LookupType, BeginKeeps DEF handleReset
    <1>4. CASE StartScenario(p)
        <2>1. PICK s \in Scenarios :
                Begin(p, "snap", [Lookup(s, "start") EXCEPT
                                    !.todo = ruleIDsForScenario(defs[s])])
            BY <1>4 DEF StartScenario
        <2> DEFINE j == [Lookup(s, "start") EXCEPT !.todo = ruleIDsForScenario(defs[s])]
        <2> DEFINE k == Lookup(s, "start")
        <2>a. /\ k \in Reqs
              /\ k.op = "start" /\ k.scenario = s /\ k.sc \in Seq(Steps)
              /\ k.st = 0 /\ k.snap = [r \in Rules |-> 0]
            BY <1>1, LookupType
        <2>b. ruleIDsForScenario(defs[s]) \in SUBSET Rules
            BY DEF ruleIDsForScenario
        <2> HIDE DEF k
        <2>2. /\ j \in Reqs
              /\ j.op = "start" /\ j.scenario = s /\ j.sc \in Seq(Steps)
              /\ j.st = 0 /\ j.snap = [r \in Rules |-> 0]
            <3>1. j = [k EXCEPT !.todo = ruleIDsForScenario(defs[s])]
                BY DEF k
            <3>2. QED
                BY <2>a, <2>b, <3>1 DEF Reqs
        <2> HIDE DEF j
        <2>3. QED
            BY <2>1, <2>2, BeginKeeps DEF j
    <1>5. CASE View(p)
        BY <1>1, <1>5, LookupType, BeginKeeps DEF View
    <1>6. CASE Reload(p)
        <2>1. PICK f \in Files :
                Begin(p, "reload", [NoReq EXCEPT !.op = "reload", !.sc = f])
            BY <1>6 DEF Reload
        <2> DEFINE j == [NoReq EXCEPT !.op = "reload", !.sc = f]
        <2>2. /\ j \in Reqs /\ j.sc = f /\ j.st = 0 /\ j.op = "reload"
              /\ j.snap = [r \in Rules |-> 0]
            BY NoReqType DEF Reqs, NoReq
        <2> HIDE DEF j
        <2>3. /\ requests' \in Nat /\ Len(heap') \in Nat
              /\ phase' = "up" /\ pc'[p] = "idle"
              /\ Go(p, "reload", j) /\ UNCHANGED <<vars, defs, states, heap, past>>
            BY <1>1, <2>1, LenProperties DEF HeapOK, Begin, vars, j
        <2>4. at'[p] = "reload" /\ req'[p] = j
            BY <1>1, <2>3, GoEffect
        <2>5. GoroutineOK(p)'
            BY <2>2, <2>3, <2>4 DEF GoroutineOK, ReqOK, SnapOK, BaseOK, OrderOK,
               Working, Resets, Runs
        <2>6. QED
            BY <2>2, <2>3, <2>5, QuietKeeps DEF Places
    <1>7. QED
        BY <1>2, <1>3, <1>4, <1>5, <1>6 DEF DemoRequest

(* What a goroutine at work knows.                                         *)
LEMMA Holds ==
    ASSUME DInv, NEW p \in Procs
    PROVE  /\ ReqOK(p) /\ SnapOK(p) /\ BaseOK(p) /\ OrderOK(p)
           /\ IInv /\ HeapOK /\ req[p] \in Reqs /\ at[p] \in Places
           /\ Len(heap) \in Nat /\ DOMAIN heap = 1..Len(heap)
           /\ DOMAIN past = 1..Len(heap)
           /\ \A x \in 1..Len(heap) : heap[x] \in States /\ past[x] \in Histories
    BY LenProperties, ElementOfSeq DEF DInv, Goroutines, GoroutineOK, HeapOK

(* Requests that have just got their state.                                *)
LEMMA StartedOK ==
    ASSUME NEW p \in Procs, HeapOK, NEW j \in Reqs, Started(p, j),
           phase' = "up", pc'[p] = "idle",
           j.sc \in Seq(Steps), j.scenario \in Scenarios,
           j.st \in 1..Len(heap'), Len(heap') \in Nat,
           j.op \in {"run", "reset", "start"},
           j.op = "run" => j.step \in StepIDs,
           \A r \in Rules : j.snap[r] # 0 => j.snap[r] \in DOMAIN rows'[r]
    PROVE  /\ GoroutineOK(p)'
           /\ \E step \in Places, k \in Reqs : Go(p, step, k)
    <1>1. CASE j.op = "run"
        <2>1. Go(p, "check", j)
            BY <1>1 DEF Started
        <2>2. QED
            BY <1>1, <2>1, EarlyOK DEF Places
    <1>2. CASE j.op = "start"
        <2>1. Go(p, "detail", j)
            BY <1>2 DEF Started
        <2>2. QED
            BY <1>2, <2>1, EarlyOK DEF Places
    <1>3. CASE j.op = "reset"
        <2> DEFINE k == [j EXCEPT !.todo = ruleIDsForScenario(j.sc)]
        <2>1. Restore(p, k)
            BY <1>3 DEF Started, BeginRestore
        <2>2. ruleIDsForScenario(j.sc) \in SUBSET Rules
            BY DEF ruleIDsForScenario
        <2>3. /\ k \in Reqs /\ k.sc = j.sc /\ k.scenario = j.scenario /\ k.st = j.st
              /\ k.op = "reset" /\ k.snap = j.snap /\ k.todo = ruleIDsForScenario(j.sc)
            BY <1>3, <2>2 DEF Reqs
        <2> HIDE DEF k
        <2>4. ResetReq(k, Len(heap'))
            BY <2>3 DEF ResetReq
        <2>5. QED
            BY <2>1, <2>3, <2>4, RestoreOK
    <1>4. QED
        BY <1>1, <1>2, <1>3

LEMMA ReloadInstallStep ==
    ASSUME DInv, NEW p \in Procs, ReloadInstall(p)
    PROVE  DInv'
    <1>1. HeapOK /\ ReqOK(p) /\ Len(heap) \in Nat
        BY Holds
    <1>2. /\ Answer(p) /\ UNCHANGED <<heap, past, requests, rows, cache, phase, pc, job>>
          /\ UNCHANGED vars
        BY DEF ReloadInstall, vars
    <1>3. defs' \in Files /\ states' \in [Scenarios -> 0..Len(heap)] /\ requests' \in Nat
        BY <1>1, <1>2 DEF ReloadInstall, ReqOK, HeapOK
    <1>4. GoroutineOK(p)'
        BY <1>1, <1>2, AnswerOK
    <1>5. IInv'
        BY <1>2, StutterStep DEF DInv
    <1>6. QED
        BY <1>2, <1>3, <1>4, <1>5, NoReqType, GoKeeps DEF Answer, Places

LEMMA DetailStep ==
    ASSUME DInv, NEW p \in Procs, detail(p)
    PROVE  DInv'
    <1> DEFINE s == req[p].scenario
               j == [req[p] EXCEPT !.st = states[s]]
    <1>1. /\ UNCHANGED <<vars, defs, states, heap, past, requests>> /\ at[p] = "detail"
          /\ Answer(p) \/ (states[s] # 0 /\ Go(p, "view", j))
        BY DEF detail
    <1>2. CASE Answer(p)
        BY <1>1, <1>2, AnswerKeeps
    <1>3. CASE states[s] # 0 /\ Go(p, "view", j)
        <2>1. /\ ReqOK(p) /\ SnapOK(p) /\ HeapOK /\ req[p] \in Reqs
            BY Holds
        <2>2. /\ s \in Scenarios /\ req[p].sc \in Seq(Steps) /\ phase = "up"
              /\ pc[p] = "idle" /\ (req[p].op = "run" => req[p].step \in StepIDs)
            BY <1>1, <2>1 DEF ReqOK
        <2>3. states[s] \in 1..Len(heap) /\ states[s] \in Nat /\ requests' \in Nat
            BY <1>1, <1>3, <2>1, <2>2 DEF HeapOK
        <2>4. /\ j \in Reqs /\ j.sc = req[p].sc /\ j.scenario = s /\ j.st = states[s]
              /\ j.op = req[p].op /\ j.step = req[p].step /\ j.snap = req[p].snap
            BY <2>1, <2>3 DEF Reqs
        <2> HIDE DEF j
        <2>5. UNCHANGED <<rows, phase, pc, heap>>
            BY <1>1 DEF vars
        <2>6. /\ \A r \in Rules : j.snap[r] # 0 => j.snap[r] \in DOMAIN rows'[r]
              /\ j.st \in 0..Len(heap') /\ j.st # 0 /\ phase' = "up" /\ pc'[p] = "idle"
            BY <1>3, <2>1, <2>2, <2>3, <2>4, <2>5 DEF SnapOK
        <2>7. GoroutineOK(p)'
            BY <1>3, <2>1, <2>2, <2>4, <2>6, EarlyOK
        <2>8. QED
            BY <1>1, <1>3, <2>3, <2>4, <2>7, QuietKeeps DEF Places
    <1>4. QED
        BY <1>1, <1>2, <1>3

LEMMA EnsureStartedStep ==
    ASSUME DInv, NEW p \in Procs, ensureStarted(p)
    PROVE  DInv'
    <1> DEFINE x == states[req[p].scenario]
               j == [req[p] EXCEPT !.st = x]
               k == [req[p] EXCEPT !.todo = ruleIDsForScenario(req[p].sc),
                                   !.snap = [r \in Rules |-> 0]]
    <1>1. /\ ReqOK(p) /\ SnapOK(p) /\ HeapOK /\ req[p] \in Reqs /\ Len(heap) \in Nat
        BY Holds
    <1>2. /\ UNCHANGED <<vars, defs, states, heap, past, requests>> /\ at[p] = "ensure"
          /\ UNCHANGED <<rows, phase, pc>>
          /\ IF x # 0 THEN Started(p, j) ELSE Go(p, "snap", k)
        BY DEF ensureStarted, Snapshot, vars
    <1>3. /\ req[p].scenario \in Scenarios /\ req[p].sc \in Seq(Steps) /\ phase = "up"
          /\ pc[p] = "idle" /\ (req[p].op = "run" => req[p].step \in StepIDs)
          /\ req[p].op \in {"run", "reset"}
        BY <1>1, <1>2 DEF ReqOK
    <1>4. x \in 0..Len(heap) /\ x \in Nat /\ requests' \in Nat
        BY <1>1, <1>2, <1>3 DEF HeapOK
    <1>5. CASE x # 0
        <2>1. /\ j \in Reqs /\ j.sc = req[p].sc /\ j.scenario = req[p].scenario
              /\ j.st = x /\ j.op = req[p].op /\ j.step = req[p].step
              /\ j.snap = req[p].snap
            BY <1>1, <1>4 DEF Reqs
        <2> HIDE DEF j
        <2>2. /\ \A r \in Rules : j.snap[r] # 0 => j.snap[r] \in DOMAIN rows'[r]
              /\ j.st \in 1..Len(heap') /\ Len(heap') \in Nat
              /\ phase' = "up" /\ pc'[p] = "idle"
            BY <1>1, <1>2, <1>3, <1>4, <1>5, <2>1 DEF SnapOK
        <2>3. Started(p, j)
            BY <1>2, <1>5
        <2>4. /\ GoroutineOK(p)'
              /\ \E step \in Places, i \in Reqs : Go(p, step, i)
            BY <1>1, <1>3, <2>1, <2>2, <2>3, StartedOK
        <2>5. QED
            BY <1>2, <1>4, <2>4, QuietKeeps
    <1>6. CASE x = 0
        <2>1. ruleIDsForScenario(req[p].sc) \in SUBSET Rules
            BY DEF ruleIDsForScenario
        <2>2. /\ k \in Reqs /\ k.sc = req[p].sc /\ k.scenario = req[p].scenario
              /\ k.st = req[p].st /\ k.op = req[p].op /\ k.step = req[p].step
              /\ k.snap = [r \in Rules |-> 0]
            BY <1>1, <2>1 DEF Reqs
        <2> HIDE DEF k
        <2>3. GoroutineOK(p)'
            BY <1>1, <1>2, <1>3, <1>6, <2>2, EarlyOK DEF ReqOK
        <2>4. QED
            BY <1>2, <1>4, <1>6, <2>2, <2>3, QuietKeeps DEF Places
    <1>7. QED
        BY <1>4, <1>5, <1>6

(* The next rule of a list is one that the scenario edits.                 *)
LEMMA NextRuleIsEdited ==
    ASSUME NEW sc, NEW S \in SUBSET Rules, NEW r \in S, NextRule(sc, S, r)
    PROVE  r \in ruleIDsForScenario(sc)
    BY DEF NextRule, ruleIDsForScenario

LEMMA SnapshotGetStep ==
    ASSUME DInv, NEW p \in Procs, SnapshotGet(p)
    PROVE  DInv'
    <1>1. PICK r \in req[p].todo :
            /\ NextRule(req[p].sc, req[p].todo, r)
            /\ Go(p, at[p], [req[p] EXCEPT !.todo = @ \ {r}, !.snap[r] = cache[r].line])
        BY DEF SnapshotGet
    <1> DEFINE j == [req[p] EXCEPT !.todo = @ \ {r}, !.snap[r] = cache[r].line]
    <1>2. /\ UNCHANGED <<vars, defs, states, heap, past, requests>>
          /\ UNCHANGED <<rows, phase, pc, cache, job>>
          /\ at[p] \in {"snap", "resnap"}
        BY DEF SnapshotGet, vars
    <1>3. /\ ReqOK(p) /\ SnapOK(p) /\ BaseOK(p) /\ IInv /\ HeapOK /\ req[p] \in Reqs
          /\ Len(heap) \in Nat
        BY Holds
    <1>4. r \in Rules /\ req[p].todo \in SUBSET Rules
        BY <1>1, <1>3 DEF Reqs
    <1>5. r \in ruleIDsForScenario(req[p].sc)
        BY <1>1, <1>4, NextRuleIsEdited
    <1>6. /\ req[p].scenario \in Scenarios /\ req[p].sc \in Seq(Steps) /\ phase = "up"
          /\ pc[p] = "idle" /\ (req[p].op = "run" => req[p].step \in StepIDs)
          /\ req[p].op \in {"run", "reset", "start"}
          /\ req[p].st \in 0..Len(heap)
        BY <1>2, <1>3 DEF ReqOK, Resets
    <1>7. /\ cache[r].line \in Nat \ {0} /\ cache[r].line \in DOMAIN rows[r]
          /\ Body(r, cache[r].line) = cache[r].body
        BY <1>3, <1>4, <1>6, Live
    <1>8. /\ j \in Reqs /\ j.sc = req[p].sc /\ j.scenario = req[p].scenario
          /\ j.st = req[p].st /\ j.op = req[p].op /\ j.step = req[p].step
          /\ j.snap[r] = cache[r].line
          /\ \A q \in Rules \ {r} : j.snap[q] = req[p].snap[q]
        <2> DEFINE m == [req[p].snap EXCEPT ![r] = cache[r].line]
                   d == req[p].todo \ {r}
        <2>1. /\ m \in [Rules -> Nat] /\ m[r] = cache[r].line
              /\ \A q \in Rules \ {r} : m[q] = req[p].snap[q]
            BY <1>3, <1>4, <1>7 DEF Reqs
        <2>2. d \in SUBSET Rules
            BY <1>4
        <2>3. j = [req[p] EXCEPT !.todo = d, !.snap = m]
            BY <1>3 DEF Reqs
        <2> HIDE DEF j, m, d
        <2>4. QED
            BY <1>3, <2>1, <2>2, <2>3 DEF Reqs
    <1>9. Go(p, at[p], j)
        BY <1>1
    <1> HIDE DEF j
    <1>10. /\ \A q \in Rules : j.snap[q] # 0 => j.snap[q] \in DOMAIN rows'[q]
           /\ phase' = "up" /\ pc'[p] = "idle" /\ j.st \in 0..Len(heap')
           /\ requests' \in Nat
        BY <1>2, <1>3, <1>6, <1>7, <1>8 DEF SnapOK, HeapOK
    <1>11. GoroutineOK(p)'
        <2>1. CASE at[p] = "snap"
            BY <1>3, <1>6, <1>8, <1>9, <1>10, <2>1, EarlyOK
        <2>2. CASE at[p] = "resnap"
            <3>1. ResetReq(j, Len(heap'))
                BY <1>2, <1>3, <1>6, <1>8, <2>2 DEF ResetReq, ReqOK, Resets, Working
            <3>2. ReqOK(p)' /\ OrderOK(p)' /\ at'[p] = "resnap" /\ req'[p] = j
                BY <1>3, <1>9, <1>10, <2>2, <3>1, ResetOK DEF Resets
            <3>3. SnapOK(p)'
                BY <1>10, <3>2 DEF SnapOK
            <3>4. BaseOK(p)'
                <4>1. ASSUME NEW q \in ruleIDsForScenario(j.sc)
                      PROVE  past[j.st].disturbed # {}
                               \/ past[j.st].base[q] \in {NoField, cache[q].body}
                    BY <1>3, <1>8, <2>2 DEF BaseOK, Restored, Resets
                <4>2. ASSUME NEW q \in Rules, j.snap[q] # 0
                      PROVE  /\ q \in ruleIDsForScenario(j.sc)
                             /\ \/ past[j.st].disturbed # {}
                                \/ Body(q, j.snap[q]) = past[j.st].base[q]
                                \/ /\ past[j.st].base[q] = NoField
                                   /\ Body(q, j.snap[q]) = cache[q].body
                    <5>1. CASE q = r
                        BY <1>5, <1>7, <1>8, <4>1, <5>1
                    <5>2. CASE q # r
                        BY <1>3, <1>8, <2>2, <4>2, <5>2 DEF BaseOK, Resets
                    <5>3. QED
                        BY <5>1, <5>2
                <4>3. QED
                    BY <1>2, <3>2, <4>1, <4>2 DEF BaseOK, Restored, Body
            <3>5. QED
                BY <3>2, <3>3, <3>4 DEF GoroutineOK
        <2>3. QED
            BY <1>2, <2>1, <2>2
    <1>12. QED
        BY <1>2, <1>8, <1>9, <1>10, <1>11, QuietKeeps DEF Places

LEMMA CheckStepStep ==
    ASSUME DInv, NEW p \in Procs, CheckStep(p)
    PROVE  DInv'
    <1> DEFINE j == [req[p] EXCEPT !.crossed = FALSE]
    <1>1. /\ UNCHANGED <<vars, defs, states, heap, past, requests>>
          /\ UNCHANGED <<rows, phase, pc, cache, job>>
          /\ at[p] = "check"
        BY DEF CheckStep, vars
    <1>2. /\ ReqOK(p) /\ SnapOK(p) /\ HeapOK /\ req[p] \in Reqs /\ Len(heap) \in Nat
        BY Holds
    <1>3. /\ req[p].scenario \in Scenarios /\ req[p].sc \in Seq(Steps) /\ phase = "up"
          /\ pc[p] = "idle" /\ req[p].op = "run" /\ req[p].step \in StepIDs
          /\ req[p].st \in 1..Len(heap)
        BY <1>1, <1>2 DEF ReqOK, Working
    <1>4. /\ j \in Reqs /\ j.sc = req[p].sc /\ j.scenario = req[p].scenario
          /\ j.st = req[p].st /\ j.op = req[p].op /\ j.step = req[p].step
          /\ j.snap = req[p].snap /\ j.force = req[p].force
        BY <1>2 DEF Reqs
    <1>5. \/ Answer(p)
          \/ /\ j.step \in DOMAIN j.sc /\ InOrder(j)
             /\ CASE j.sc[j.step].action = "call_api" -> Go(p, "record", j)
                  [] j.sc[j.step].action = "edit_rule" -> Go(p, "edit", j)
                  [] j.sc[j.step].action = "reset_scenario" -> BeginRestore(p, j)
        BY DEF CheckStep
    <1> HIDE DEF j
    <1>6. /\ \A q \in Rules : j.snap[q] # 0 => j.snap[q] \in DOMAIN rows'[q]
          /\ phase' = "up" /\ pc'[p] = "idle" /\ j.st \in 1..Len(heap')
          /\ requests' \in Nat
        BY <1>1, <1>2, <1>3, <1>4 DEF SnapOK, HeapOK
    <1>7. CASE Answer(p)
        BY <1>1, <1>7, AnswerKeeps
    <1>8. ASSUME j.step \in DOMAIN j.sc, InOrder(j),
                 NEW step \in {"record", "edit"}, Go(p, step, j)
          PROVE  DInv'
        <2>1. \/ j.step = 1 \/ j.force \/ j.sc[j.step].action = "reset_scenario"
              \/ j.step - 1 \in past'[j.st].done
            <3>1. RanIsDone /\ DOMAIN heap = 1..Len(heap)
                BY Holds DEF DInv
            <3>2. j.step # 1 => j.step - 1 \in StepIDs
                BY <1>3, <1>4, DemoAssumption DEF StepIDs, DemoAssumption
            <3>3. QED
                BY <1>1, <1>3, <1>4, <1>8, <3>1, <3>2 DEF InOrder, RanIsDone
        <2>2. GoroutineOK(p)'
            BY <1>2, <1>3, <1>4, <1>6, <1>8, <2>1, RunOK
        <2>3. QED
            BY <1>1, <1>4, <1>6, <1>8, <2>2, QuietKeeps DEF Places
    <1>9. ASSUME j.step \in DOMAIN j.sc, j.sc[j.step].action = "reset_scenario",
                 BeginRestore(p, j)
          PROVE  DInv'
        <2> DEFINE k == [j EXCEPT !.todo = ruleIDsForScenario(j.sc)]
        <2>1. Restore(p, k)
            BY <1>9 DEF BeginRestore
        <2>2. ruleIDsForScenario(j.sc) \in SUBSET Rules
            BY DEF ruleIDsForScenario
        <2>3. /\ k \in Reqs /\ k.sc = j.sc /\ k.scenario = j.scenario /\ k.st = j.st
              /\ k.op = j.op /\ k.snap = j.snap /\ k.todo = ruleIDsForScenario(j.sc)
              /\ k.step = j.step
            BY <1>4, <2>2 DEF Reqs
        <2> HIDE DEF k
        <2>4. ResetReq(k, Len(heap'))
            BY <1>3, <1>4, <1>6, <1>9, <2>3 DEF ResetReq
        <2>5. /\ GoroutineOK(p)'
              /\ \E step \in Places, i \in Reqs : Go(p, step, i)
            BY <1>2, <1>6, <2>1, <2>3, <2>4, RestoreOK
        <2>6. QED
            BY <1>1, <1>6, <2>5, QuietKeeps
    <1>10. QED
        <2>1. ASSUME j.step \in DOMAIN j.sc
              PROVE  j.sc[j.step].action \in {"call_api", "edit_rule", "reset_scenario"}
            <3>1. j.sc[j.step] \in Steps
                BY <1>3, <1>4, <2>1, LenProperties, ElementOfSeq
            <3>2. QED
                BY <3>1 DEF Steps
        <2>2. QED
            BY <1>5, <1>7, <1>8, <1>9, <2>1

LEMMA RestoreNextStep ==
    ASSUME DInv, NEW p \in Procs, RestoreNext(p)
    PROVE  DInv'
    <1>1. PICK r \in req[p].todo :
            LET v == heap[req[p].st].snapshot[r]
                k == [req[p] EXCEPT !.todo = @ \ {r}, !.rule = r, !.ver = v]
            IN  /\ NextRule(req[p].sc, req[p].todo, r)
                /\ IF v = 0 THEN Restore(p, k) ELSE Go(p, "compare", k)
        BY DEF RestoreNext
    <1> DEFINE j == req[p]
               v == heap[j.st].snapshot[r]
               k == [j EXCEPT !.todo = @ \ {r}, !.rule = r, !.ver = v]
    <1>2. /\ UNCHANGED <<vars, defs, states, heap, past, requests>>
          /\ UNCHANGED <<rows, phase, pc, cache, job>>
          /\ at[p] = "restore"
        BY DEF RestoreNext, vars
    <1>3. /\ ReqOK(p) /\ SnapOK(p) /\ BaseOK(p) /\ HeapOK /\ j \in Reqs
          /\ Len(heap) \in Nat /\ DOMAIN heap = 1..Len(heap)
          /\ \A x \in 1..Len(heap) : heap[x] \in States
        BY Holds
    <1>4. r \in Rules /\ j.todo \in SUBSET Rules
        BY <1>1, <1>3 DEF Reqs
    <1>5. r \in ruleIDsForScenario(j.sc)
        BY <1>1, <1>4, NextRuleIsEdited
    <1>6. ResetReq(j, Len(heap)) /\ phase = "up" /\ pc[p] = "idle"
        BY <1>2, <1>3 DEF ResetReq, ReqOK, Resets, Working
    <1>7. v \in Nat /\ j.st \in DOMAIN heap
        BY <1>3, <1>4, <1>6 DEF States, ResetReq
    <1>8. /\ k \in Reqs /\ k.sc = j.sc /\ k.scenario = j.scenario
          /\ k.st = j.st /\ k.op = j.op /\ k.step = j.step
          /\ k.snap = j.snap /\ k.todo = j.todo \ {r} /\ k.rule = r /\ k.ver = v
        <2> DEFINE d == j.todo \ {r}
        <2>1. d \in SUBSET Rules
            BY <1>4
        <2>2. k = [j EXCEPT !.todo = d, !.rule = r, !.ver = v]
            BY <1>3 DEF Reqs
        <2> HIDE DEF k, v, d
        <2>3. QED
            BY <1>3, <1>4, <1>7, <2>1, <2>2 DEF Reqs, d
    <1>9. IF v = 0 THEN Restore(p, k) ELSE Go(p, "compare", k)
        BY <1>1
    <1>10. /\ v = 0 => past[j.st].disturbed # {} \/ past[j.st].base[r] = NoField
           /\ v # 0 => /\ v \in DOMAIN rows[r]
                       /\ past[j.st].disturbed # {} \/ Body(r, v) = past[j.st].base[r]
        BY <1>4, <1>7 DEF DInv, Baselines, BaselineKept
    <1> HIDE DEF k, v
    <1>11. /\ ResetReq(k, Len(heap')) /\ requests' \in Nat
           /\ \A q \in Rules : k.snap[q] # 0 => k.snap[q] \in DOMAIN rows'[q]
           /\ phase' = "up" /\ pc'[p] = "idle"
        BY <1>2, <1>3, <1>6, <1>8 DEF ResetReq, SnapOK, HeapOK
    <1>12. \A q \in ruleIDsForScenario(j.sc) \ j.todo :
             past[j.st].disturbed # {} \/ past[j.st].base[q] \in {NoField, cache[q].body}
        BY <1>2, <1>3 DEF BaseOK, Restored, Resets
    <1>13. CASE v = 0
        <2>1. \A q \in ruleIDsForScenario(k.sc) \ k.todo :
                past'[k.st].disturbed # {} \/ past'[k.st].base[q] \in {NoField, cache'[q].body}
            BY <1>2, <1>8, <1>10, <1>12, <1>13
        <2>2. /\ GoroutineOK(p)'
              /\ \E step \in Places, i \in Reqs : Go(p, step, i)
            BY <1>3, <1>9, <1>11, <1>13, <2>1, RestoreOK
        <2>3. QED
            BY <1>2, <1>11, <2>2, QuietKeeps
    <1>14. CASE v # 0
        <2>1. Go(p, "compare", k)
            BY <1>9, <1>14
        <2>2. ReqOK(p)' /\ OrderOK(p)' /\ at'[p] = "compare" /\ req'[p] = k
            BY <1>3, <1>11, <2>1, ResetOK DEF Resets
        <2>3. SnapOK(p)'
            BY <1>2, <1>4, <1>8, <1>10, <1>11, <1>14, <2>2 DEF SnapOK
        <2>4. BaseOK(p)'
            BY <1>2, <1>8, <1>10, <1>12, <1>14, <2>2 DEF BaseOK, Restored, Resets, Body
        <2>5. QED
            BY <1>2, <1>8, <1>11, <2>1, <2>2, <2>3, <2>4, QuietKeeps
               DEF GoroutineOK, Places
    <1>15. QED
        BY <1>13, <1>14

(* What Save and Reactivate begin with.                                    *)
LEMMA StartEffect ==
    ASSUME IInv, NEW p \in Procs, NEW step \in {"list", "relist"}, NEW j, Start(p, step, j)
    PROVE  /\ pc'[p] # "idle" /\ job'[p] = j /\ phase' = "up"
           /\ \A q \in Procs \ {p} : pc'[q] = pc[q] /\ job'[q] = job[q]
           /\ UNCHANGED <<rows, cache, phase>>
    BY DEF Start, IInv, TypeOK

LEMMA EditRuleStep ==
    ASSUME DInv, NEW p \in Procs, editRule(p)
    PROVE  DInv'
    <1>1. IInv'
        BY EditIsSave, NextStep DEF DInv
    <1>2. /\ UNCHANGED <<defs, states, heap, past, requests>> /\ at[p] = "edit"
        BY DEF editRule
    <1>3. /\ ReqOK(p) /\ SnapOK(p) /\ OrderOK(p) /\ IInv /\ HeapOK /\ req[p] \in Reqs
          /\ Len(heap) \in Nat
        BY Holds
    <1>4. /\ req[p].scenario \in Scenarios /\ req[p].sc \in Seq(Steps) /\ phase = "up"
          /\ pc[p] = "idle" /\ req[p].op = "run" /\ req[p].step \in StepIDs
          /\ req[p].st \in 1..Len(heap) /\ req[p].step \in DOMAIN req[p].sc
          /\ \/ req[p].step = 1 \/ req[p].force \/ req[p].crossed
             \/ req[p].sc[req[p].step].action = "reset_scenario"
             \/ req[p].step - 1 \in past[req[p].st].done
        BY <1>2, <1>3 DEF ReqOK, OrderOK, Working, Runs
    <1>5. requests' \in Nat /\ defs' \in Files /\ states' \in [Scenarios -> 0..Len(heap)]
        BY <1>2, <1>3 DEF HeapOK
    <1>6. CASE Fails(p) /\ UNCHANGED vars
        <2> DEFINE j == [req[p] EXCEPT !.ok = FALSE]
        <2>1. Go(p, "record", j) /\ UNCHANGED <<rows, pc, phase>>
            BY <1>4, <1>6 DEF Fails, vars
        <2>2. /\ j \in Reqs /\ j.sc = req[p].sc /\ j.scenario = req[p].scenario
              /\ j.st = req[p].st /\ j.op = req[p].op /\ j.step = req[p].step
              /\ j.snap = req[p].snap /\ j.force = req[p].force
              /\ j.crossed = req[p].crossed
            BY <1>3 DEF Reqs
        <2> HIDE DEF j
        <2>3. /\ \A q \in Rules : j.snap[q] # 0 => j.snap[q] \in DOMAIN rows'[q]
              /\ phase' = "up" /\ pc'[p] = "idle" /\ j.st \in 1..Len(heap')
              /\ past' = past
            BY <1>2, <1>3, <1>4, <2>1, <2>2 DEF SnapOK
        <2>4. GoroutineOK(p)'
            BY <1>3, <1>4, <2>1, <2>2, <2>3, RunOK
        <2>5. QED
            BY <1>2, <1>5, <1>6, <2>1, <2>2, <2>4, QuietKeeps DEF Places
    <1>7. ASSUME NEW s, NEW b, Save(p, s.rule, b, s.allow), Go(p, "saving", req[p])
          PROVE  DInv'
        <2>1. /\ pc'[p] # "idle" /\ phase' = "up" /\ UNCHANGED <<rows, cache, phase>>
              /\ \A q \in Procs \ {p} : pc'[q] = pc[q] /\ job'[q] = job[q]
            BY <1>3, <1>7, StartEffect DEF Save
        <2>2. /\ \A q \in Rules : req[p].snap[q] # 0 => req[p].snap[q] \in DOMAIN rows'[q]
              /\ req[p].st \in 1..Len(heap')
            BY <1>2, <1>3, <1>4, <2>1 DEF SnapOK
        <2>3. GoroutineOK(p)'
            BY <1>2, <1>3, <1>4, <1>7, <2>1, <2>2, RunOK
        <2>4. QED
            BY <1>1, <1>2, <1>3, <1>5, <1>7, <2>1, <2>3, GoKeeps DEF Places
    <1>8. QED
        BY <1>6, <1>7 DEF editRule

LEMMA RestoreCompareStep ==
    ASSUME DInv, NEW p \in Procs, RestoreCompare(p)
    PROVE  DInv'
    <1> DEFINE j == req[p]
    <1>1. IInv'
        BY RestoreIsReactivate, NextStep DEF DInv
    <1>2. /\ UNCHANGED <<defs, states, heap, past, requests>> /\ at[p] = "compare"
        BY DEF RestoreCompare
    <1>3. /\ ReqOK(p) /\ SnapOK(p) /\ BaseOK(p) /\ IInv /\ HeapOK /\ j \in Reqs
          /\ Len(heap) \in Nat
        BY Holds
    <1>4. /\ ResetReq(j, Len(heap)) /\ phase = "up" /\ pc[p] = "idle"
          /\ j.rule \in Rules /\ j.ver \in DOMAIN rows[j.rule]
          /\ past[j.st].disturbed # {} \/ Body(j.rule, j.ver) = past[j.st].base[j.rule]
        BY <1>2, <1>3 DEF ResetReq, ReqOK, Resets, Working, SnapOK, BaseOK
    <1>5. \A q \in ruleIDsForScenario(j.sc) \ (j.todo \cup {j.rule}) :
             past[j.st].disturbed # {} \/ past[j.st].base[q] \in {NoField, cache[q].body}
        BY <1>2, <1>3 DEF BaseOK, Restored, Resets
    <1>6. requests' \in Nat /\ defs' \in Files /\ states' \in [Scenarios -> 0..Len(heap)]
        BY <1>2, <1>3 DEF HeapOK
    <1>7. CASE cache[j.rule].line = j.ver /\ Restore(p, j) /\ UNCHANGED vars
        <2>1. Body(j.rule, j.ver) = cache[j.rule].body
            BY <1>3, <1>4, <1>7, Live
        <2>2. UNCHANGED <<rows, cache, pc, phase>>
            BY <1>7 DEF vars
        <2>3. \A q \in ruleIDsForScenario(j.sc) \ j.todo :
                past'[j.st].disturbed # {} \/ past'[j.st].base[q] \in {NoField, cache'[q].body}
            BY <1>2, <1>4, <1>5, <2>1, <2>2
        <2>4. /\ \A q \in Rules : j.snap[q] # 0 => j.snap[q] \in DOMAIN rows'[q]
              /\ phase' = "up" /\ pc'[p] = "idle" /\ ResetReq(j, Len(heap'))
            BY <1>2, <1>3, <1>4, <2>2 DEF SnapOK
        <2>5. /\ GoroutineOK(p)'
              /\ \E step \in Places, i \in Reqs : Go(p, step, i)
            BY <1>3, <1>7, <2>3, <2>4, RestoreOK
        <2>6. QED
            BY <1>2, <1>6, <1>7, <2>5, QuietKeeps
    <1>8. CASE Reactivate(p, j.rule, j.ver) /\ Go(p, "restoring", j)
        <2>1. /\ pc'[p] # "idle" /\ phase' = "up" /\ UNCHANGED <<rows, cache, phase>>
              /\ job'[p] = Job(j.rule, rows[j.rule][j.ver].content)
              /\ \A q \in Procs \ {p} : pc'[q] = pc[q] /\ job'[q] = job[q]
            BY <1>3, <1>8, StartEffect DEF Reactivate
        <2>2. job'[p].rule = j.rule /\ job'[p].raw.body = Body(j.rule, j.ver)
            BY <2>1 DEF Job, Body
        <2>3. ResetReq(j, Len(heap'))
            BY <1>2, <1>4
        <2>4. ReqOK(p)' /\ OrderOK(p)' /\ at'[p] = "restoring" /\ req'[p] = j
            BY <1>3, <1>8, <2>1, <2>3, ResetOK DEF Resets
        <2>5. SnapOK(p)'
            BY <1>3, <1>4, <2>1, <2>4 DEF SnapOK
        <2>6. BaseOK(p)'
            BY <1>2, <1>4, <1>5, <2>1, <2>2, <2>4 DEF BaseOK, Restored, Resets, Body
        <2>7. QED
            BY <1>1, <1>2, <1>3, <1>6, <1>8, <2>1, <2>4, <2>5, <2>6, GoKeeps
               DEF GoroutineOK, Places
    <1>9. QED
        BY <1>7, <1>8 DEF RestoreCompare

-----------------------------------------------------------------------------
(* Steps on the states.  A goroutine is not disturbed by what another does *)
(* to its state as long as a baseline only becomes known, and what is      *)
(* done stays done unless the goroutine has been crossed.                  *)
LEMMA HistoryKept ==
    ASSUME DInv, NEW q \in Procs, UNCHANGED <<rows, cache, phase>>,
           at'[q] = at[q], pc'[q] = pc[q], job'[q] = job[q],
           NEW b \in BOOLEAN, req'[q] = [req[q] EXCEPT !.crossed = b],
           Len(heap') \in Nat, Len(heap) <= Len(heap'),
           req[q].crossed => b,
           req[q].st # 0 =>
             /\ b \/ past[req[q].st].done \subseteq past'[req[q].st].done
             /\ \/ past'[req[q].st].disturbed # {}
                \/ /\ past[req[q].st].disturbed = {}
                   /\ \A r \in Rules :
                        \/ past'[req[q].st].base[r] = past[req[q].st].base[r]
                        \/ /\ past[req[q].st].base[r] = NoField
                           /\ past'[req[q].st].base[r] = cache[r].body
    PROVE  GoroutineOK(q)'
    <1> DEFINE j == req[q]
               k == req'[q]
    <1>1. /\ ReqOK(q) /\ SnapOK(q) /\ BaseOK(q) /\ OrderOK(q) /\ IInv /\ j \in Reqs
          /\ Len(heap) \in Nat
        BY Holds
    <1>2. /\ k.sc = j.sc /\ k.scenario = j.scenario /\ k.st = j.st /\ k.op = j.op
          /\ k.step = j.step /\ k.force = j.force /\ k.todo = j.todo
          /\ k.rule = j.rule /\ k.ver = j.ver /\ k.snap = j.snap /\ k.crossed = b
          /\ j.st \in Nat
        BY <1>1 DEF Reqs
    <1>3. ReqOK(q)'
        BY <1>1, <1>2 DEF ReqOK
    <1>4. SnapOK(q)'
        BY <1>1, <1>2 DEF SnapOK
    <1>5. OrderOK(q)'
        <2>1. at[q] \in Runs => j.st # 0
            BY <1>1 DEF ReqOK, Working
        <2>2. QED
            BY <1>1, <1>2, <2>1 DEF OrderOK
    <1>6. ASSUME at[q] \in Resets, past'[j.st].disturbed = {}
          PROVE  /\ past[j.st].disturbed = {}
                 /\ \A r \in Rules :
                      \/ past'[j.st].base[r] = past[j.st].base[r]
                      \/ /\ past[j.st].base[r] = NoField
                         /\ past'[j.st].base[r] = cache[r].body
        BY <1>1, <1>6 DEF ReqOK, Working
    <1>7. BaseOK(q)'
        <2> SUFFICES ASSUME at[q] \in Resets
                     PROVE  BaseOK(q)'
            BY DEF BaseOK
        <2>1. ASSUME at[q] \in {"compare", "restoring"}
              PROVE  past'[j.st].disturbed # {} \/ Body(j.rule, j.ver) = past'[j.st].base[j.rule]
            <3>1. j.rule \in Rules /\ j.ver \in DOMAIN rows[j.rule]
                BY <1>1, <2>1 DEF SnapOK
            <3>2. Body(j.rule, j.ver) # NoField
                BY <1>1, <3>1, DemoAssumption
                   DEF IInv, TypeOK, Row, Documents, Body, DemoAssumption
            <3>3. past[j.st].disturbed # {} \/ Body(j.rule, j.ver) = past[j.st].base[j.rule]
                BY <1>1, <2>1 DEF BaseOK
            <3>4. QED
                BY <1>6, <3>1, <3>2, <3>3
        <2>2. ASSUME NEW r \in Restored(q)
              PROVE  past'[j.st].disturbed # {} \/ past'[j.st].base[r] \in {NoField, cache[r].body}
            <3>1. r \in Rules
                BY <2>2 DEF Restored, ruleIDsForScenario
            <3>2. past[j.st].disturbed # {} \/ past[j.st].base[r] \in {NoField, cache[r].body}
                BY <1>1, <2>2 DEF BaseOK
            <3>3. QED
                BY <1>6, <3>1, <3>2
        <2>3. ASSUME at[q] = "resnap", NEW r \in Rules, j.snap[r] # 0
              PROVE  /\ r \in ruleIDsForScenario(j.sc)
                     /\ \/ past'[j.st].disturbed # {}
                        \/ Body(r, j.snap[r]) = past'[j.st].base[r]
                        \/ /\ past'[j.st].base[r] = NoField
                           /\ Body(r, j.snap[r]) = cache[r].body
            <3>1. /\ r \in ruleIDsForScenario(j.sc)
                  /\ \/ past[j.st].disturbed # {}
                     \/ Body(r, j.snap[r]) = past[j.st].base[r]
                     \/ /\ past[j.st].base[r] = NoField
                        /\ Body(r, j.snap[r]) = cache[r].body
                BY <1>1, <2>3 DEF BaseOK
            <3>2. Body(r, j.snap[r]) # NoField
                BY <1>1, <2>3, DemoAssumption
                   DEF SnapOK, IInv, TypeOK, Row, Documents, Body, DemoAssumption
            <3>3. QED
                BY <1>6, <3>1, <3>2
        <2>4. Restored(q)' = Restored(q)
            BY <1>2 DEF Restored
        <2>5. at[q] = "restoring" =>
                job'[q].rule = j.rule /\ job'[q].raw.body = Body(j.rule, j.ver)
            BY <1>1 DEF BaseOK
        <2>6. QED
            BY <1>2, <2>1, <2>2, <2>3, <2>4, <2>5 DEF BaseOK, Body
    <1>8. QED
        BY <1>3, <1>4, <1>5, <1>7 DEF GoroutineOK

(* Others than the one that moves, when their requests stay as they are.   *)
LEMMA OtherHistoryKept ==
    ASSUME DInv, NEW p \in Procs, NEW step, NEW i, Go(p, step, i),
           NEW q \in Procs \ {p}, UNCHANGED vars,
           Len(heap') \in Nat, Len(heap) <= Len(heap'),
           \A x \in 1..Len(heap) :
             /\ past[x].done \subseteq past'[x].done
             /\ past'[x].disturbed = past[x].disturbed
             /\ past'[x].base = past[x].base
    PROVE  GoroutineOK(q)'
    <1>1. /\ at'[q] = at[q] /\ req'[q] = req[q] /\ req[q] \in Reqs /\ ReqOK(q)
          /\ Len(heap) \in Nat
        BY Holds, GoEffect
    <1>2. UNCHANGED <<rows, cache, phase, pc, job>>
        BY DEF vars
    <1>3. req'[q] = [req[q] EXCEPT !.crossed = req[q].crossed] /\ req[q].crossed \in BOOLEAN
        BY <1>1 DEF Reqs
    <1>4. req[q].st # 0 => req[q].st \in 1..Len(heap)
        BY <1>1 DEF ReqOK
    <1>5. QED
        BY <1>1, <1>2, <1>3, <1>4, HistoryKept

(* The history after a reset, ...                                          *)
LEMMA RebasedEffect ==
    ASSUME NEW h \in Histories, NEW j
    PROVE  /\ Rebased(h, j) \in Histories
           /\ Rebased(h, j).base = h.base
           /\ Rebased(h, j).done = {} /\ Rebased(h, j).stray = {}
           /\ h.disturbed # {} => Rebased(h, j).disturbed # {}
           /\ \/ Rebased(h, j).disturbed # {}
              \/ \A r \in Rules : h.base[r] = NoField <=> j.snap[r] = 0
    <1> DEFINE D == h.disturbed \cup {c \in {"reload"} : \E r \in Rules :
                                        ~(h.base[r] = NoField <=> j.snap[r] = 0)}
    <1>1. D \in SUBSET Causes
        BY DEF Histories, Causes
    <1>2. Rebased(h, j) = [h EXCEPT !.disturbed = D, !.done = {}, !.stray = {}]
        BY DEF Rebased
    <1>3. h.disturbed # {} => D # {}
        OBVIOUS
    <1>4. ASSUME NEW r \in Rules, ~(h.base[r] = NoField <=> j.snap[r] = 0)
          PROVE  "reload" \in D
        BY <1>4
    <1>5. D # {} \/ \A r \in Rules : h.base[r] = NoField <=> j.snap[r] = 0
        BY <1>4
    <1> HIDE DEF D
    <1>6. QED
        BY <1>1, <1>2, <1>3, <1>5 DEF Histories

(* ... and of a state that replaces another one.                           *)
LEMMA ReplacedEffect ==
    ASSUME NEW h \in Histories, NEW j
    PROVE  /\ Replaced(h, j) \in Histories
           /\ \/ Replaced(h, j).disturbed # {}
              \/ \A r \in Rules :
                   /\ j.snap[r] # 0 => Body(r, j.snap[r]) = Replaced(h, j).base[r]
                   /\ j.snap[r] = 0 => Replaced(h, j).base[r] = NoField
    <1> DEFINE k == Rebased(h, j)
               D == k.disturbed \cup {c \in {"start"} : \E r \in Rules :
                                        /\ j.snap[r] # 0
                                        /\ Body(r, j.snap[r]) # h.base[r]}
    <1>1. /\ k \in Histories /\ k.base = h.base
          /\ \/ k.disturbed # {}
             \/ \A r \in Rules : h.base[r] = NoField <=> j.snap[r] = 0
        BY RebasedEffect
    <1>2. Replaced(h, j) = [k EXCEPT !.disturbed = D]
        BY DEF Replaced
    <1> HIDE DEF k
    <1>3. D \in SUBSET Causes /\ (k.disturbed # {} => D # {})
        BY <1>1 DEF Histories, Causes
    <1>4. ASSUME NEW r \in Rules, j.snap[r] # 0, Body(r, j.snap[r]) # h.base[r]
          PROVE  "start" \in D
        BY <1>4
    <1>5. \/ D # {}
          \/ \A r \in Rules : j.snap[r] # 0 => Body(r, j.snap[r]) = h.base[r]
        BY <1>4
    <1> HIDE DEF D
    <1>6. /\ Replaced(h, j) \in Histories
          /\ Replaced(h, j).base = h.base /\ Replaced(h, j).disturbed = D
        BY <1>1, <1>2, <1>3 DEF Histories
    <1>7. QED
        BY <1>1, <1>3, <1>5, <1>6

LEMMA StartScenarioStep ==
    ASSUME DInv, NEW p \in Procs, startScenario(p)
    PROVE  DInv'
    <1> DEFINE j == req[p]
               x == Len(heap) + 1
               k == [j EXCEPT !.st = x]
               e == [snapshot |-> j.snap, runs |-> NoRuns]
               y == states[j.scenario]
               g == IF j.op = "start" \/ y = 0 THEN Fresh(j) ELSE Replaced(past[y], j)
    <1>1. /\ ReqOK(p) /\ SnapOK(p) /\ IInv /\ HeapOK /\ j \in Reqs
          /\ Len(heap) \in Nat /\ DOMAIN heap = 1..Len(heap) /\ DOMAIN past = 1..Len(heap)
          /\ \A i \in 1..Len(heap) : past[i] \in Histories
        BY Holds
    <1>2. /\ UNCHANGED <<vars, defs, requests>> /\ at[p] = "snap"
          /\ heap' = Append(heap, e) /\ past' = Append(past, g)
          /\ states' = [states EXCEPT ![j.scenario] = x]
          /\ Started(p, k)
        BY DEF startScenario
    <1>3. UNCHANGED <<rows, cache, phase, pc, job>>
        BY <1>2 DEF vars
    <1>4. IInv'
        BY <1>1, <1>2, StutterStep
    <1>5. e \in States
        BY <1>1 DEF Reqs, States, NoRuns
    <1>6. /\ g \in Histories
          /\ \/ g.disturbed # {}
             \/ \A r \in Rules : /\ j.snap[r] # 0 => Body(r, j.snap[r]) = g.base[r]
                                 /\ j.snap[r] = 0 => g.base[r] = NoField
        <2>1. ASSUME NEW r \in Rules, j.snap[r] # 0
              PROVE  Body(r, j.snap[r]) \in Bodies
            BY <1>1, <2>1 DEF SnapOK, IInv, TypeOK, Row, Documents, Body
        <2>2. CASE j.op = "start" \/ y = 0
            BY <2>1, <2>2 DEF Histories, Fresh
        <2>3. CASE ~(j.op = "start" \/ y = 0)
            <3>1. j.scenario \in Scenarios
                BY <1>1, <1>2 DEF ReqOK
            <3>2. y \in 1..Len(heap)
                BY <1>1, <2>3, <3>1 DEF HeapOK
            <3>3. g = Replaced(past[y], j)
                BY <2>3
            <3>4. past[y] \in Histories
                BY <1>1, <3>2
            <3> DEFINE k0 == Replaced(past[y], j)
            <3>5. /\ k0 \in Histories
                  /\ \/ k0.disturbed # {}
                     \/ \A r \in Rules :
                          /\ j.snap[r] # 0 => Body(r, j.snap[r]) = k0.base[r]
                          /\ j.snap[r] = 0 => k0.base[r] = NoField
                BY <3>4, ReplacedEffect
            <3>6. g = k0
                BY <3>3
            <3> HIDE DEF k0, g
            <3>7. QED
                BY <3>5, <3>6
        <2>4. QED
            BY <2>2, <2>3
    <1>7. /\ heap \in Seq(States) /\ past \in Seq(Histories) /\ Len(past) = Len(heap)
        BY <1>1 DEF HeapOK
    <1>8. e.snapshot = j.snap /\ e.runs = NoRuns
        OBVIOUS
    <1> HIDE DEF e, g
    <1>9. /\ heap' \in Seq(States) /\ Len(heap') = x /\ heap'[x] = e
          /\ \A i \in 1..Len(heap) : heap'[i] = heap[i]
        BY <1>2, <1>5, <1>7, AppendProperties
    <1>10. /\ past' \in Seq(Histories) /\ Len(past') = x /\ past'[x] = g
           /\ \A i \in 1..Len(heap) : past'[i] = past[i]
        BY <1>2, <1>6, <1>7, AppendProperties
    <1>11. DOMAIN heap' = 1..x /\ x \in Nat /\ 1..x = (1..Len(heap)) \cup {x}
        BY <1>1, <1>9, LenProperties
    <1>12. /\ k \in Reqs /\ k.sc = j.sc /\ k.scenario = j.scenario /\ k.st = x
           /\ k.op = j.op /\ k.step = j.step /\ k.snap = j.snap
        BY <1>1, <1>11 DEF Reqs
    <1>13. /\ j.scenario \in Scenarios /\ j.sc \in Seq(Steps) /\ phase = "up"
           /\ pc[p] = "idle" /\ (j.op = "run" => j.step \in StepIDs)
           /\ j.op \in {"run", "reset", "start"}
        BY <1>1, <1>2 DEF ReqOK
    <1> HIDE DEF k
    <1>14. /\ \A r \in Rules : k.snap[r] # 0 => k.snap[r] \in DOMAIN rows'[r]
           /\ k.st \in 1..Len(heap') /\ Len(heap') \in Nat
           /\ phase' = "up" /\ pc'[p] = "idle"
        BY <1>1, <1>3, <1>9, <1>11, <1>12, <1>13 DEF SnapOK
    <1>15. /\ GoroutineOK(p)'
           /\ \E step \in Places, i \in Reqs : Go(p, step, i)
        BY <1>1, <1>2, <1>12, <1>13, <1>14, StartedOK
    <1>16. PICK step \in Places, m \in Reqs : Go(p, step, m)
        BY <1>15
    <1>17. ASSUME NEW q \in Procs \ {p}
           PROVE  GoroutineOK(q)'
        BY <1>2, <1>9, <1>10, <1>11, <1>16, OtherHistoryKept
    <1>18. at' \in [Procs -> Places] /\ req' \in [Procs -> Reqs]
        BY <1>1, <1>16, GoEffect
    <1>19. states' \in [Scenarios -> 0..Len(heap')]
        BY <1>1, <1>2, <1>9, <1>11, <1>13 DEF HeapOK
    <1>20. HeapOK'
        BY <1>1, <1>2, <1>9, <1>10, <1>18, <1>19 DEF HeapOK
    <1>21. BaselineKept' /\ Baselines'
        <2>1. ASSUME NEW i \in DOMAIN heap', NEW r \in Rules
              PROVE  /\ heap'[i].snapshot[r] # 0 =>
                          /\ heap'[i].snapshot[r] \in DOMAIN rows[r]
                          /\ past'[i].disturbed # {}
                               \/ Body(r, heap'[i].snapshot[r]) = past'[i].base[r]
                     /\ heap'[i].snapshot[r] = 0 =>
                          past'[i].disturbed # {} \/ past'[i].base[r] = NoField
            <3>1. CASE i = x
                BY <1>1, <1>6, <1>8, <1>9, <1>10, <3>1 DEF SnapOK
            <3>2. CASE i \in 1..Len(heap)
                BY <1>1, <1>9, <1>10, <3>2 DEF DInv, BaselineKept, Baselines
            <3>3. QED
                BY <1>11, <3>1, <3>2
        <2>2. QED
            BY <1>3, <2>1 DEF BaselineKept, Baselines, Body
    <1>22. PredecessorRan' /\ RanIsDone'
        <2>1. ASSUME NEW i \in DOMAIN heap', NEW n \in StepIDs, heap'[i].runs[n] = "ran"
              PROVE  /\ n \in past'[i].done
                     /\ n \in 2..MaxSteps /\ n \notin past'[i].stray =>
                          n - 1 \in past'[i].done
            <3>1. CASE i = x
                BY <1>8, <1>9, <2>1, <3>1 DEF NoRuns
            <3>2. CASE i \in 1..Len(heap)
                BY <1>1, <1>9, <1>10, <2>1, <3>2 DEF DInv, PredecessorRan, RanIsDone
            <3>3. QED
                BY <1>11, <3>1, <3>2
        <2>2. 2..MaxSteps \subseteq StepIDs
            BY DemoAssumption DEF StepIDs, DemoAssumption
        <2>3. QED
            BY <2>1, <2>2 DEF PredecessorRan, RanIsDone
    <1>23. QED
        BY <1>4, <1>15, <1>17, <1>20, <1>21, <1>22 DEF DInv, Goroutines

LEMMA RecordStep ==
    ASSUME DInv, NEW p \in Procs, Record(p)
    PROVE  DInv'
    <1> DEFINE j == req[p]
               x == j.st
               n == j.step
               stray == j.force \/ j.crossed \/ j.sc[n].action = "reset_scenario"
               e == [heap[x] EXCEPT !.runs = [heap[x].runs EXCEPT
                                                ![n] = IF j.ok THEN "ran" ELSE "failed"]]
               g == [past[x] EXCEPT
                       !.done = IF j.ok THEN @ \cup {n} ELSE @,
                       !.stray = IF stray THEN @ \cup {n} ELSE @ \ {n}]
    <1>1. /\ ReqOK(p) /\ OrderOK(p) /\ IInv /\ HeapOK /\ j \in Reqs
          /\ Len(heap) \in Nat /\ DOMAIN heap = 1..Len(heap) /\ DOMAIN past = 1..Len(heap)
          /\ \A i \in 1..Len(heap) : heap[i] \in States /\ past[i] \in Histories
        BY Holds
    <1>2. UNCHANGED <<vars, defs, states, requests>> /\ at[p] = "record" /\ Answer(p)
        BY DEF Record
    <1>3. UNCHANGED <<rows, cache, phase, pc, job>> /\ IInv'
        BY <1>1, <1>2, StutterStep DEF vars
    <1>4. x \in 1..Len(heap) /\ n \in StepIDs
        BY <1>1, <1>2 DEF ReqOK, Working, Runs
    <1>5. heap[x] \in States /\ past[x] \in Histories
        BY <1>1, <1>4
    <1>6. heap' = [heap EXCEPT ![x] = e] /\ past' = [past EXCEPT ![x] = g]
        BY DEF Record
    <1>7. /\ e \in States /\ e.snapshot = heap[x].snapshot
          /\ \A i \in StepIDs : e.runs[i] = "ran" =>
               heap[x].runs[i] = "ran" \/ (i = n /\ j.ok)
        BY <1>1, <1>4, <1>5 DEF States, Reqs
    <1>8. /\ g.base = past[x].base /\ g.disturbed = past[x].disturbed
          /\ past[x].done \subseteq g.done /\ (j.ok => n \in g.done)
          /\ \A i \in StepIDs : i \notin g.stray =>
               (i = n /\ ~stray) \/ (i # n /\ i \notin past[x].stray)
        BY <1>4, <1>5 DEF Histories
    <1>9. g \in Histories
        BY <1>4, <1>5 DEF Histories
    <1>10. ~stray /\ n # 1 => n - 1 \in past[x].done
        BY <1>1, <1>2 DEF OrderOK, Runs
    <1> HIDE DEF e, g, stray
    <1>11. /\ heap' \in Seq(States) /\ Len(heap') = Len(heap) /\ heap'[x] = e
           /\ \A i \in 1..Len(heap) : i # x => heap'[i] = heap[i]
        BY <1>1, <1>4, <1>6, <1>7, ExceptSeq DEF HeapOK
    <1>12. /\ past' \in Seq(Histories) /\ Len(past') = Len(heap) /\ past'[x] = g
           /\ \A i \in 1..Len(heap) : i # x => past'[i] = past[i]
        BY <1>1, <1>4, <1>6, <1>9, ExceptSeq DEF HeapOK
    <1>13. DOMAIN heap' = 1..Len(heap)
        BY <1>11, LenProperties
    <1>14. GoroutineOK(p)'
        BY <1>1, <1>2, <1>11, AnswerOK
    <1>15. ASSUME NEW q \in Procs \ {p}
           PROVE  GoroutineOK(q)'
        <2>1. \A i \in 1..Len(heap) :
                /\ past[i].done \subseteq past'[i].done
                /\ past'[i].disturbed = past[i].disturbed
                /\ past'[i].base = past[i].base
            BY <1>8, <1>12
        <2>2. QED
            BY <1>1, <1>2, <1>11, <2>1, OtherHistoryKept DEF Answer
    <1>16. at' \in [Procs -> Places] /\ req' \in [Procs -> Reqs]
        BY <1>1, <1>2, NoReqType, GoEffect DEF Answer, Places
    <1>17. HeapOK'
        BY <1>1, <1>2, <1>11, <1>12, <1>16 DEF HeapOK
    <1>18. BaselineKept' /\ Baselines'
        <2>1. \A i \in DOMAIN heap : /\ heap'[i].snapshot = heap[i].snapshot
                                     /\ past'[i].base = past[i].base
                                     /\ past'[i].disturbed = past[i].disturbed
            BY <1>1, <1>7, <1>8, <1>11, <1>12
        <2>2. BaselineKept /\ Baselines
            BY DEF DInv
        <2>3. UNCHANGED rows /\ DOMAIN heap' = DOMAIN heap
            BY <1>1, <1>3, <1>13
        <2>4. BaselineKept'
            BY <2>1, <2>2, <2>3 DEF BaselineKept, Body
        <2>5. Baselines'
            BY <2>1, <2>2, <2>3 DEF Baselines
        <2>6. QED
            BY <2>4, <2>5
    <1>19. PredecessorRan' /\ RanIsDone'
        <2>1. ASSUME NEW i \in 1..Len(heap), NEW m \in StepIDs, heap'[i].runs[m] = "ran"
              PROVE  /\ m \in past'[i].done
                     /\ m \in 2..MaxSteps /\ m \notin past'[i].stray =>
                          m - 1 \in past'[i].done
            <3>1. CASE i # x
                BY <1>1, <1>11, <1>12, <2>1, <3>1 DEF DInv, PredecessorRan, RanIsDone
            <3>2. CASE i = x
                <4>1. heap[x].runs[m] = "ran" \/ (m = n /\ j.ok)
                    BY <1>7, <1>11, <2>1, <3>2
                <4>2. m \in g.done
                    BY <1>1, <1>4, <1>8, <4>1 DEF DInv, RanIsDone
                <4>3. ASSUME m \in 2..MaxSteps, m \notin g.stray
                      PROVE  m - 1 \in g.done
                    BY <1>1, <1>4, <1>8, <1>10, <4>1, <4>3 DEF DInv, PredecessorRan
                <4>4. QED
                    BY <1>12, <3>2, <4>2, <4>3
            <3>3. QED
                BY <3>1, <3>2
        <2>2. 2..MaxSteps \subseteq StepIDs
            BY DemoAssumption DEF StepIDs, DemoAssumption
        <2>3. QED
            BY <1>13, <2>1, <2>2 DEF PredecessorRan, RanIsDone
    <1>20. QED
        BY <1>3, <1>14, <1>15, <1>17, <1>18, <1>19 DEF DInv, Goroutines

LEMMA RebaseStep ==
    ASSUME DInv, NEW p \in Procs, Rebase(p)
    PROVE  DInv'
    <1> DEFINE j == req[p]
               x == j.st
               h == past[x]
               e == [snapshot |-> j.snap, runs |-> NoRuns]
               g == Rebased(h, j)
    <1>1. /\ ReqOK(p) /\ SnapOK(p) /\ BaseOK(p) /\ IInv /\ HeapOK /\ j \in Reqs
          /\ Len(heap) \in Nat /\ DOMAIN heap = 1..Len(heap) /\ DOMAIN past = 1..Len(heap)
          /\ \A i \in 1..Len(heap) : heap[i] \in States /\ past[i] \in Histories
        BY Holds
    <1>2. UNCHANGED <<vars, defs, states, requests>> /\ at[p] = "resnap"
        BY DEF Rebase
    <1>3. UNCHANGED <<rows, cache, phase, pc, job>> /\ IInv'
        BY <1>1, <1>2, StutterStep DEF vars
    <1>4. /\ x \in 1..Len(heap) /\ phase = "up" /\ pc[p] = "idle"
          /\ j.scenario \in Scenarios /\ j.sc \in Seq(Steps)
          /\ j.op = "run" => /\ j.step \in StepIDs /\ j.step \in DOMAIN j.sc
                             /\ j.sc[j.step].action = "reset_scenario"
        BY <1>1, <1>2 DEF ReqOK, Working, Resets
    <1>5. heap[x] \in States /\ h \in Histories
        BY <1>1, <1>4
    <1>6. heap' = [heap EXCEPT ![x] = e] /\ past' = [past EXCEPT ![x] = g]
        BY DEF Rebase
    <1>7. e \in States /\ e.snapshot = j.snap /\ e.runs = NoRuns
        BY <1>1 DEF States, NoRuns, Reqs
    <1>8. ASSUME NEW r \in Rules, j.snap[r] # 0
          PROVE  /\ j.snap[r] \in DOMAIN rows[r] /\ Body(r, j.snap[r]) \in Bodies
                 /\ \/ h.disturbed # {}
                    \/ Body(r, j.snap[r]) = h.base[r]
                    \/ h.base[r] = NoField /\ Body(r, j.snap[r]) = cache[r].body
        <2>1. j.snap[r] \in DOMAIN rows[r]
            BY <1>1, <1>8 DEF SnapOK
        <2>2. Body(r, j.snap[r]) \in Bodies
            BY <1>1, <2>1 DEF IInv, TypeOK, Row, Documents, Body
        <2>3. QED
            BY <1>1, <1>2, <1>8, <2>1, <2>2 DEF BaseOK, Resets
    <1>9. /\ g \in Histories /\ g.done = {} /\ g.base = h.base
          /\ h.disturbed # {} => g.disturbed # {}
          /\ \/ g.disturbed # {}
             \/ \A r \in Rules : h.base[r] = NoField <=> j.snap[r] = 0
        BY <1>5, RebasedEffect
    <1>10. g \in Histories
        BY <1>9
    <1>11. \/ g.disturbed # {}
           \/ /\ h.disturbed = {}
              /\ \A r \in Rules : \/ g.base[r] = h.base[r]
                                  \/ h.base[r] = NoField /\ g.base[r] = cache[r].body
        BY <1>9
    <1> HIDE DEF e, g
    <1>12. /\ heap' \in Seq(States) /\ Len(heap') = Len(heap) /\ heap'[x] = e
           /\ \A i \in 1..Len(heap) : i # x => heap'[i] = heap[i]
        BY <1>1, <1>4, <1>6, <1>7, ExceptSeq DEF HeapOK
    <1>13. /\ past' \in Seq(Histories) /\ Len(past') = Len(heap) /\ past'[x] = g
           /\ \A i \in 1..Len(heap) : i # x => past'[i] = past[i]
        BY <1>1, <1>4, <1>6, <1>10, ExceptSeq DEF HeapOK
    <1>14. DOMAIN heap' = 1..Len(heap)
        BY <1>12, LenProperties
    <1>15. /\ at' = [at EXCEPT ![p] = IF j.op = "run" THEN "record" ELSE "none"]
           /\ req' = [q \in Procs |->
                        IF q = p THEN IF j.op = "run" THEN j ELSE NoReq
                        ELSE [req[q] EXCEPT !.crossed = @ \/ req[q].st = x]]
        BY DEF Rebase
    <1>16. /\ at'[p] = IF j.op = "run" THEN "record" ELSE "none"
           /\ req'[p] = IF j.op = "run" THEN j ELSE NoReq
           /\ at' \in [Procs -> Places]
        BY <1>1, <1>15 DEF HeapOK, Places
    <1>17. GoroutineOK(p)'
        <2>1. CASE j.op = "run"
            <3>1. ReqOK(p)'
                BY <1>3, <1>4, <1>12, <1>16, <2>1 DEF ReqOK, Working, Resets, Runs
            <3>2. SnapOK(p)'
                BY <1>1, <1>3, <1>16, <2>1 DEF SnapOK
            <3>3. BaseOK(p)' /\ OrderOK(p)'
                BY <1>4, <1>16, <2>1 DEF BaseOK, OrderOK, Resets
            <3>4. QED
                BY <3>1, <3>2, <3>3 DEF GoroutineOK
        <2>2. CASE j.op # "run"
            BY <1>1, <1>12, <1>16, <2>2 DEF GoroutineOK, ReqOK, SnapOK, BaseOK, OrderOK,
               Working, Resets, Runs, NoReq
        <2>3. QED
            BY <2>1, <2>2
    <1>18. ASSUME NEW q \in Procs \ {p}
           PROVE  GoroutineOK(q)' /\ req'[q] \in Reqs
        <2> DEFINE b == req[q].crossed \/ req[q].st = x
        <2>1. req[q] \in Reqs /\ ReqOK(q)
            BY Holds
        <2>2. at'[q] = at[q] /\ req'[q] = [req[q] EXCEPT !.crossed = b]
            BY <1>1, <1>15 DEF HeapOK
        <2>3. b \in BOOLEAN /\ (req[q].crossed => b) /\ (req[q].st = x => b)
            BY <2>1 DEF Reqs
        <2> HIDE DEF b
        <2>4. req'[q] \in Reqs
            BY <2>1, <2>2, <2>3 DEF Reqs
        <2>5. ASSUME req[q].st # 0
              PROVE  /\ b \/ past[req[q].st].done \subseteq past'[req[q].st].done
                     /\ \/ past'[req[q].st].disturbed # {}
                        \/ /\ past[req[q].st].disturbed = {}
                           /\ \A r \in Rules :
                                \/ past'[req[q].st].base[r] = past[req[q].st].base[r]
                                \/ /\ past[req[q].st].base[r] = NoField
                                   /\ past'[req[q].st].base[r] = cache[r].body
            <3>1. req[q].st \in 1..Len(heap)
                BY <2>1, <2>5 DEF ReqOK
            <3>2. CASE req[q].st = x
                BY <1>11, <1>13, <2>3, <3>2
            <3>3. CASE req[q].st # x
                <4>1. past'[req[q].st] = past[req[q].st]
                    BY <1>13, <3>1, <3>3
                <4>2. QED
                    BY <4>1
            <3>4. QED
                BY <3>2, <3>3
        <2>6. GoroutineOK(q)'
            BY <1>1, <1>3, <1>12, <2>2, <2>3, <2>5, HistoryKept
        <2>7. QED
            BY <2>4, <2>6
    <1>19. req' \in [Procs -> Reqs]
        BY <1>1, <1>15, <1>16, <1>18, NoReqType
    <1>20. HeapOK'
        BY <1>1, <1>2, <1>12, <1>13, <1>16, <1>19 DEF HeapOK
    <1>21. BaselineKept' /\ Baselines'
        <2>1. ASSUME NEW i \in 1..Len(heap), NEW r \in Rules
              PROVE  /\ heap'[i].snapshot[r] # 0 =>
                          /\ heap'[i].snapshot[r] \in DOMAIN rows[r]
                          /\ past'[i].disturbed # {}
                               \/ Body(r, heap'[i].snapshot[r]) = past'[i].base[r]
                     /\ heap'[i].snapshot[r] = 0 =>
                          past'[i].disturbed # {} \/ past'[i].base[r] = NoField
            <3>1. CASE i # x
                <4>1. BaselineKept /\ Baselines /\ i \in DOMAIN heap
                    BY <1>1 DEF DInv
                <4>2. heap'[i] = heap[i] /\ past'[i] = past[i]
                    BY <1>12, <1>13, <3>1
                <4>3. QED
                    BY <4>1, <4>2 DEF BaselineKept, Baselines
            <3>2. CASE i = x
                <4>1. heap'[i].snapshot = j.snap /\ past'[i] = g
                    BY <1>7, <1>12, <1>13, <3>2
                <4>2. CASE j.snap[r] = 0
                    BY <1>9, <4>1, <4>2
                <4>3. CASE j.snap[r] # 0
                    BY <1>8, <1>9, <4>1, <4>3
                <4>4. QED
                    BY <4>2, <4>3
            <3>3. QED
                BY <3>1, <3>2
        <2>2. QED
            BY <1>3, <1>14, <2>1 DEF BaselineKept, Baselines, Body
    <1>22. PredecessorRan' /\ RanIsDone'
        <2>1. ASSUME NEW i \in 1..Len(heap), NEW m \in StepIDs, heap'[i].runs[m] = "ran"
              PROVE  /\ m \in past'[i].done
                     /\ m \in 2..MaxSteps /\ m \notin past'[i].stray =>
                          m - 1 \in past'[i].done
            <3>1. i # x
                BY <1>7, <1>12, <2>1 DEF NoRuns
            <3>2. QED
                BY <1>1, <1>12, <1>13, <2>1, <3>1 DEF DInv, PredecessorRan, RanIsDone
        <2>2. 2..MaxSteps \subseteq StepIDs
            BY DemoAssumption DEF StepIDs, DemoAssumption
        <2>3. QED
            BY <1>14, <2>1, <2>2 DEF PredecessorRan, RanIsDone
    <1>23. QED
        BY <1>3, <1>17, <1>18, <1>20, <1>21, <1>22 DEF DInv, Goroutines

-----------------------------------------------------------------------------
(* Steps of the engine.  What they do to the goroutines and the cache.     *)
LEMMA EngineEffect ==
    ASSUME IInv, NEW p \in Procs, Step(p) \/ InsertLost(p) \/ StoreError(p)
    PROVE  /\ UNCHANGED phase /\ pc[p] # "idle"
           /\ \A q \in Procs \ {p} : pc'[q] = pc[q] /\ job'[q] = job[q]
           /\ pc[p] # "cache" => UNCHANGED cache
           /\ pc[p] = "cache" => cache' = [cache EXCEPT ![job[p].rule] = job[p].raw]
                                 /\ pc'[p] = "idle"
           /\ pc'[p] # "idle" => /\ job'[p].rule = job[p].rule
                                 /\ job'[p].raw.body = job[p].raw.body
    <1>1. /\ \A q \in Procs : pc[q] # "idle" => job[q].raw \in Documents
          /\ DOMAIN pc = Procs /\ DOMAIN job = Procs
        BY DEF IInv, TypeOK
    <1>2. CASE ListVersions(p)
        <2>1. PICK m \in DOMAIN rows[job[p].rule] :
                LET raw == rewriteVersionLine(job[p].raw, m + 1) IN
                \/ /\ pc' = [pc EXCEPT ![p] = "idle"]
                   /\ job' = [job EXCEPT ![p] = Idle]
                \/ /\ pc' = [pc EXCEPT ![p] = "stamp"]
                   /\ job' = [job EXCEPT ![p] = [rule |-> job[p].rule, raw |-> raw,
                                                prev |-> m, now |-> 0]]
            BY <1>2 DEF ListVersions
        <2>2. rewriteVersionLine(job[p].raw, m + 1).body = job[p].raw.body
            BY <1>1, <1>2 DEF ListVersions, rewriteVersionLine, Documents
        <2>3. UNCHANGED <<cache, phase>> /\ pc[p] \in {"list", "relist"}
            BY <1>2 DEF ListVersions
        <2>4. QED
            BY <1>1, <2>1, <2>2, <2>3
    <1>3. CASE Stamp(p)
        BY <1>1, <1>3 DEF Stamp, IInv, TypeOK
    <1>4. CASE InsertConflict(p)
        BY <1>1, <1>4 DEF InsertConflict, Finish
    <1>5. CASE InsertOK(p)
        BY <1>1, <1>5 DEF InsertOK, Finish
    <1>6. CASE ReplaceCache(p)
        BY <1>1, <1>6 DEF ReplaceCache, Finish
    <1>7. CASE EvaluateRecord(p)
        BY <1>1, <1>7 DEF EvaluateRecord, Finish
    <1>8. CASE InsertLost(p) \/ StoreError(p)
        BY <1>1, <1>8 DEF InsertLost, StoreError, Finish
    <1>9. QED
        BY <1>2, <1>3, <1>4, <1>5, <1>6, <1>7, <1>8 DEF Step

(* A goroutine with no demo request is in order whatever the engine does,  *)
LEMMA RestingOK ==
    ASSUME DInv, Kept, NEW q \in Procs, at'[q] = "none", req'[q] = req[q], UNCHANGED heap
    PROVE  GoroutineOK(q)'
    <1>1. SnapOK(q) /\ ReqOK(q)
        BY Holds
    <1>2. SnapOK(q)'
        BY <1>1 DEF SnapOK, Kept
    <1>3. ReqOK(q)' /\ BaseOK(q)' /\ OrderOK(q)'
        BY <1>1 DEF ReqOK, BaseOK, OrderOK, Working, Resets, Runs
    <1>4. QED
        BY <1>2, <1>3 DEF GoroutineOK

(* and one at work as long as its own call goes on and no foreign document *)
(* goes unnoticed during a reset.                                          *)
LEMMA WorkingOK ==
    ASSUME DInv, Kept, NEW q \in Procs, UNCHANGED <<heap, phase>>,
           at'[q] = at[q], req'[q] = req[q], pc'[q] = "idle" <=> pc[q] = "idle",
           at[q] = "restoring" =>
             job'[q].rule = job[q].rule /\ job'[q].raw.body = job[q].raw.body,
           \A x \in 1..Len(heap) :
             /\ past'[x].base = past[x].base /\ past'[x].done = past[x].done
             /\ past[x].disturbed # {} => past'[x].disturbed # {},
           at[q] \in Resets =>
             \A r \in ruleIDsForScenario(req[q].sc) :
               \/ cache'[r] = cache[r]
               \/ past'[req[q].st].disturbed # {}
               \/ past[req[q].st].base[r] = cache'[r].body /\ cache'[r].body # NoField
    PROVE  GoroutineOK(q)'
    <1> DEFINE j == req[q]
    <1>1. ReqOK(q) /\ SnapOK(q) /\ BaseOK(q) /\ OrderOK(q) /\ HeapOK /\ IInv
        BY Holds
    <1>2. ReqOK(q)'
        BY <1>1 DEF ReqOK
    <1>3. SnapOK(q)'
        BY <1>1 DEF SnapOK, Kept
    <1>4. at[q] \in Working => j.st \in 1..Len(heap)
        BY <1>1 DEF ReqOK
    <1>5. OrderOK(q)'
        BY <1>1, <1>4 DEF OrderOK, Working
    <1>6. BaseOK(q)'
        <2> SUFFICES ASSUME at[q] \in Resets
                     PROVE  BaseOK(q)'
            BY DEF BaseOK
        <2>1. /\ past'[j.st].base = past[j.st].base
              /\ past[j.st].disturbed # {} => past'[j.st].disturbed # {}
            BY <1>4 DEF Working
        <2>2. \A r \in Rules : \A v \in DOMAIN rows[r] : Body(r, v)' = Body(r, v)
            BY DEF Kept, Body
        <2>3. Restored(q)' = Restored(q)
            BY DEF Restored
        <2>4. ASSUME at[q] \in {"compare", "restoring"}
              PROVE  /\ Body(j.rule, j.ver)' = Body(j.rule, j.ver)
                     /\ past'[j.st].disturbed # {} \/ Body(j.rule, j.ver) = past'[j.st].base[j.rule]
                     /\ at[q] = "restoring" =>
                          job'[q].rule = j.rule /\ job'[q].raw.body = Body(j.rule, j.ver)
            <3>1. j.rule \in Rules /\ j.ver \in DOMAIN rows[j.rule]
                BY <1>1, <2>4 DEF SnapOK
            <3>2. QED
                BY <1>1, <2>1, <2>2, <2>4, <3>1 DEF BaseOK
        <2>5. ASSUME NEW r \in Restored(q)
              PROVE  past'[j.st].disturbed # {} \/ past'[j.st].base[r] \in {NoField, cache'[r].body}
            <3>1. r \in ruleIDsForScenario(j.sc)
                BY <2>5 DEF Restored
            <3>2. QED
                BY <1>1, <2>1, <2>5, <3>1 DEF BaseOK
        <2>6. ASSUME at[q] = "resnap", NEW r \in Rules, j.snap[r] # 0
              PROVE  /\ r \in ruleIDsForScenario(j.sc)
                     /\ \/ past'[j.st].disturbed # {}
                        \/ Body(r, j.snap[r])' = past'[j.st].base[r]
                        \/ /\ past'[j.st].base[r] = NoField
                           /\ Body(r, j.snap[r])' = cache'[r].body
            <3>1. j.snap[r] \in DOMAIN rows[r]
                BY <1>1, <2>6 DEF SnapOK
            <3>2. Body(r, j.snap[r])' = Body(r, j.snap[r])
                BY <2>2, <3>1 DEF Body
            <3>3. /\ r \in ruleIDsForScenario(j.sc)
                  /\ \/ past[j.st].disturbed # {}
                     \/ Body(r, j.snap[r]) = past[j.st].base[r]
                     \/ /\ past[j.st].base[r] = NoField
                        /\ Body(r, j.snap[r]) = cache[r].body
                BY <1>1, <2>6 DEF BaseOK
            <3>4. QED
                BY <2>1, <3>2, <3>3
        <2>7. QED
            BY <2>3, <2>4, <2>5, <2>6 DEF BaseOK, Body
    <1>7. QED
        BY <1>2, <1>3, <1>5, <1>6 DEF GoroutineOK

(* The states are in order after a step that leaves them alone, as rows    *)
(* are immutable.                                                          *)
LEMMA EngineKeeps ==
    ASSUME DInv, IInv', Kept, UNCHANGED <<defs, states, heap>>, requests' \in Nat,
           past' \in Seq(Histories), Len(past') = Len(heap),
           \A x \in 1..Len(heap) :
             /\ past'[x].base = past[x].base /\ past'[x].done = past[x].done
             /\ past'[x].stray = past[x].stray
             /\ past[x].disturbed # {} => past'[x].disturbed # {},
           at' \in [Procs -> Places], req' \in [Procs -> Reqs],
           \A q \in Procs : GoroutineOK(q)'
    PROVE  DInv'
    <1>1. /\ HeapOK /\ BaselineKept /\ Baselines /\ PredecessorRan /\ RanIsDone
          /\ DOMAIN heap = 1..Len(heap)
        BY LenProperties DEF DInv, HeapOK
    <1>2. HeapOK'
        BY <1>1 DEF HeapOK
    <1>3. BaselineKept'
        <2>1. ASSUME NEW x \in DOMAIN heap, NEW r \in Rules, heap[x].snapshot[r] # 0
              PROVE  /\ heap[x].snapshot[r] \in DOMAIN rows'[r]
                     /\ \/ past'[x].disturbed # {}
                        \/ Body(r, heap[x].snapshot[r])' = past'[x].base[r]
            <3>1. /\ heap[x].snapshot[r] \in DOMAIN rows[r]
                  /\ past[x].disturbed # {} \/ Body(r, heap[x].snapshot[r]) = past[x].base[r]
                BY <1>1, <2>1 DEF BaselineKept
            <3>2. /\ heap[x].snapshot[r] \in DOMAIN rows'[r]
                  /\ Body(r, heap[x].snapshot[r])' = Body(r, heap[x].snapshot[r])
                BY <3>1 DEF Kept, Body
            <3>3. QED
                BY <1>1, <3>1, <3>2
        <2>2. QED
            BY <2>1 DEF BaselineKept, Body
    <1>4. PredecessorRan' /\ RanIsDone'
        BY <1>1 DEF PredecessorRan, RanIsDone
    <1>5. Baselines'
        <2>1. ASSUME NEW x \in DOMAIN heap, NEW r \in Rules, heap[x].snapshot[r] = 0
              PROVE  past'[x].disturbed # {} \/ past'[x].base[r] = NoField
            <3>1. past[x].disturbed # {} \/ past[x].base[r] = NoField
                BY <1>1, <2>1 DEF Baselines
            <3>2. QED
                BY <1>1, <3>1
        <2>2. QED
            BY <2>1 DEF Baselines
    <1>6. QED
        BY <1>2, <1>3, <1>4, <1>5 DEF DInv, Goroutines

(* What the engine does for the rule editor, and by itself.                *)
LEMMA EngineRequestStep ==
    ASSUME DInv, NEW p \in Procs, EngineRequest(p)
    PROVE  DInv'
    <1>1. IInv' /\ Kept
        BY RequestStep DEF DInv, EngineRequest
    <1>2. /\ UNCHANGED <<defs, states, heap, at, req, past, phase, cache>>
          /\ requests' = requests + 1
          /\ at[p] = "none"
          /\ \E step, j : pc' = [pc EXCEPT ![p] = step] /\ job' = [job EXCEPT ![p] = j]
        BY DEF EngineRequest, Request, SaveBegin, ReactivateBegin, EvaluateBegin,
               Save, Reactivate, Start
    <1>3. \A q \in Procs \ {p} : pc'[q] = pc[q] /\ job'[q] = job[q]
        BY <1>2 DEF DInv, IInv, TypeOK
    <1>4. GoroutineOK(p)'
        BY <1>1, <1>2, RestingOK
    <1>5. ASSUME NEW q \in Procs \ {p}
          PROVE  GoroutineOK(q)'
        BY <1>1, <1>2, <1>3, WorkingOK
    <1>6. HeapOK
        BY DEF DInv
    <1>7. QED
        BY <1>1, <1>2, <1>4, <1>5, <1>6, EngineKeeps DEF HeapOK

LEMMA EngineOtherStep ==
    ASSUME DInv, EngineOther
    PROVE  DInv'
    <1>1. UNCHANGED demo
        BY DEF EngineOther
    <1>2. UNCHANGED <<defs, states, heap, at, req, past, requests>>
        BY <1>1 DEF demo
    <1>3. HeapOK
        BY DEF DInv
    <1>4. IInv' /\ Kept
        <2>1. Next
            BY DEF EngineOther, Next
        <2>2. QED
            BY <2>1, NextStep DEF DInv
    <1>5. ASSUME NEW q \in Procs
          PROVE  GoroutineOK(q)'
        <2>1. CASE AdvanceClock
            BY <1>2, <1>4, <2>1, WorkingOK DEF AdvanceClock
        <2>2. CASE ~AdvanceClock
            <3>1. phase = "loading"
                BY <2>2 DEF EngineOther, LoadInsert, LoadWarm
            <3>2. at[q] = "none"
                BY <3>1, Holds DEF ReqOK
            <3>3. QED
                BY <1>2, <1>4, <3>2, RestingOK
        <2>3. QED
            BY <2>1, <2>2
    <1>6. QED
        BY <1>2, <1>3, <1>4, <1>5, EngineKeeps DEF HeapOK

(* What an engine call leaves of the histories, ...                        *)
LEMMA DisturbedOnly ==
    ASSUME DInv, NEW p \in Procs, EngineStep(p)
    PROVE  /\ past' \in Seq(Histories) /\ Len(past') = Len(heap)
           /\ \A x \in 1..Len(heap) :
                /\ past'[x].base = past[x].base /\ past'[x].done = past[x].done
                /\ past'[x].stray = past[x].stray
                /\ past'[x].disturbed = past[x].disturbed
                    \cup {c \in {"reset"} : Disturbs(p, x)}
    <1>1. /\ Len(heap) \in Nat /\ DOMAIN past = 1..Len(heap)
          /\ \A x \in 1..Len(heap) : past[x] \in Histories
        BY Holds
    <1>2. past' = [x \in 1..Len(heap) |->
                     [past[x] EXCEPT !.disturbed = past[x].disturbed
                                               \cup {c \in {"reset"} : Disturbs(p, x)}]]
        BY <1>1 DEF EngineStep
    <1>3. ASSUME NEW x \in 1..Len(heap)
          PROVE  /\ past'[x] \in Histories
                 /\ past'[x].base = past[x].base /\ past'[x].done = past[x].done
                 /\ past'[x].stray = past[x].stray
                 /\ past'[x].disturbed = past[x].disturbed
                    \cup {c \in {"reset"} : Disturbs(p, x)}
        <2> DEFINE b == past[x].disturbed \cup {c \in {"reset"} : Disturbs(p, x)}
        <2>1. b \in SUBSET Causes
            BY <1>1 DEF Histories, Causes
        <2>2. past'[x] = [past[x] EXCEPT !.disturbed = b]
            BY <1>2
        <2> HIDE DEF b
        <2>3. /\ past'[x] \in Histories
              /\ past'[x].base = past[x].base /\ past'[x].done = past[x].done
              /\ past'[x].stray = past[x].stray
              /\ past'[x].disturbed = b
            BY <1>1, <2>1, <2>2 DEF Histories
        <2>4. QED
            BY <2>3 DEF b
    <1>4. past' \in Seq(Histories) /\ Len(past') = Len(heap)
        <2>1. past' \in [1..Len(heap) -> Histories]
            BY <1>2, <1>3
        <2>2. QED
            BY <1>1, <2>1
    <1>5. QED
        BY <1>3, <1>4

(* ... and where its request goes on when it returns.                      *)
LEMMA ReturnedOK ==
    ASSUME DInv, NEW p \in Procs, EngineStep(p), pc'[p] = "idle", Kept
    PROVE  /\ GoroutineOK(p)'
           /\ at' \in [Procs -> Places] /\ req' \in [Procs -> Reqs]
           /\ \A q \in Procs \ {p} : at'[q] = at[q] /\ req'[q] = req[q]
    <1> DEFINE j == req[p]
    <1>1. /\ ReqOK(p) /\ SnapOK(p) /\ BaseOK(p) /\ OrderOK(p) /\ IInv /\ HeapOK
          /\ j \in Reqs /\ at[p] \in Places /\ Len(heap) \in Nat
        BY Holds
    <1>2. /\ UNCHANGED <<phase, heap>> /\ pc[p] # "idle"
          /\ pc[p] # "cache" => UNCHANGED cache
          /\ pc[p] = "cache" => cache' = [cache EXCEPT ![job[p].rule] = job[p].raw]
        BY <1>1, EngineEffect DEF EngineStep
    <1>3. Returned(p, pc[p] = "cache")
        BY DEF EngineStep
    <1>4. at[p] \in {"none", "saving", "restoring"}
        BY <1>1, <1>2 DEF ReqOK
    <1>5. \A x \in 1..Len(heap) :
            /\ past'[x].base = past[x].base /\ past'[x].done = past[x].done
            /\ past[x].disturbed # {} => past'[x].disturbed # {}
        BY DisturbedOnly
    <1>6. \A r \in Rules : j.snap[r] # 0 => j.snap[r] \in DOMAIN rows'[r]
        BY <1>1 DEF SnapOK, Kept
    <1>7. CASE at[p] = "none"
        <2>1. UNCHANGED <<at, req>>
            BY <1>3, <1>7 DEF Returned
        <2>2. QED
            BY <1>1, <1>2, <1>7, <2>1, RestingOK DEF HeapOK
    <1>8. ASSUME at[p] # "none"
          PROVE  /\ phase' = "up" /\ j.sc \in Seq(Steps) /\ j.scenario \in Scenarios
                 /\ j.st \in 1..Len(heap')
                 /\ (j.op = "run" => j.step \in StepIDs /\ j.step \in DOMAIN j.sc)
        BY <1>1, <1>2, <1>4, <1>8 DEF ReqOK, Working, Resets, Runs
    <1>9. ASSUME at[p] # "none", j.op = "run", NEW b \in BOOLEAN,
                 NEW i, i = [j EXCEPT !.ok = b], Go(p, "record", i)
          PROVE  GoroutineOK(p)'
        <2>1. /\ i \in Reqs /\ i.sc = j.sc /\ i.scenario = j.scenario
              /\ i.st = j.st /\ i.op = j.op /\ i.step = j.step
              /\ i.snap = j.snap /\ i.force = j.force /\ i.crossed = j.crossed
            BY <1>1, <1>9 DEF Reqs
        <2>2. \/ i.step = 1 \/ i.force \/ i.crossed
              \/ i.sc[i.step].action = "reset_scenario"
              \/ i.step - 1 \in past'[i.st].done
            <3>1. CASE at[p] = "saving"
                BY <1>1, <1>2, <1>5, <1>8, <1>9, <2>1, <3>1 DEF OrderOK, Runs
            <3>2. CASE at[p] = "restoring"
                BY <1>1, <1>9, <2>1, <3>2 DEF ReqOK, Resets
            <3>3. QED
                BY <1>4, <1>9, <3>1, <3>2
        <2>3. QED
            BY <1>1, <1>6, <1>8, <1>9, <2>1, <2>2, RunOK
    <1>10. ASSUME at[p] # "none", Fails(p)
           PROVE  GoroutineOK(p)' /\ \E step \in Places, i \in Reqs : Go(p, step, i)
        <2>1. CASE j.op = "run"
            <3>1. Go(p, "record", [j EXCEPT !.ok = FALSE])
                BY <1>10, <2>1 DEF Fails
            <3>2. [j EXCEPT !.ok = FALSE] \in Reqs
                BY <1>1 DEF Reqs
            <3>3. QED
                BY <1>9, <1>10, <2>1, <3>1, <3>2 DEF Places
        <2>2. CASE j.op # "run"
            <3>1. Answer(p)
                BY <1>10, <2>2 DEF Fails
            <3>2. GoroutineOK(p)'
                BY <1>1, <1>2, <3>1, AnswerOK
            <3>3. QED
                BY <3>1, <3>2, NoReqType DEF Answer, Places
        <2>3. QED
            BY <2>1, <2>2
    <1>11. CASE at[p] = "saving"
        <2>1. j.op = "run" /\ j = [j EXCEPT !.ok = j.ok] /\ j.ok \in BOOLEAN
            BY <1>1, <1>11 DEF ReqOK, Runs, Reqs
        <2>2. Go(p, "record", j) \/ Fails(p)
            BY <1>3, <1>11 DEF Returned
        <2>3. GoroutineOK(p)' /\ \E step \in Places, i \in Reqs : Go(p, step, i)
            BY <1>1, <1>9, <1>10, <1>11, <2>1, <2>2 DEF Places
        <2>4. QED
            BY <1>1, <2>3, GoEffect
    <1>12. CASE at[p] = "restoring"
        <2>1. CASE Fails(p)
            BY <1>1, <1>10, <1>12, <2>1, GoEffect
        <2>2. CASE Restore(p, j) /\ pc[p] = "cache"
            <3>1. /\ j.rule \in Rules /\ job[p].rule = j.rule
                  /\ job[p].raw.body = Body(j.rule, j.ver)
                  /\ past[j.st].disturbed # {} \/ Body(j.rule, j.ver) = past[j.st].base[j.rule]
                  /\ \A r \in ruleIDsForScenario(j.sc) \ (j.todo \cup {j.rule}) :
                       past[j.st].disturbed # {} \/ past[j.st].base[r] \in {NoField, cache[r].body}
                BY <1>1, <1>12 DEF SnapOK, BaseOK, Restored, Resets
            <3>2. /\ cache'[j.rule] = job[p].raw
                  /\ \A r \in Rules \ {j.rule} : cache'[r] = cache[r]
                BY <1>1, <1>2, <2>2, <3>1 DEF IInv, TypeOK
            <3>3. ASSUME NEW r \in ruleIDsForScenario(j.sc) \ j.todo
                  PROVE  past'[j.st].disturbed # {}
                           \/ past'[j.st].base[r] \in {NoField, cache'[r].body}
                <4>1. r \in Rules
                    BY <3>3 DEF ruleIDsForScenario
                <4>2. /\ past'[j.st].base = past[j.st].base
                      /\ past[j.st].disturbed # {} => past'[j.st].disturbed # {}
                    BY <1>2, <1>5, <1>8, <1>12
                <4>3. QED
                    BY <3>1, <3>2, <3>3, <4>1, <4>2
            <3>4. ResetReq(j, Len(heap'))
                BY <1>1, <1>8, <1>12 DEF ResetReq, ReqOK, Resets
            <3>5. GoroutineOK(p)' /\ \E step \in Places, i \in Reqs : Go(p, step, i)
                BY <1>1, <1>6, <1>8, <1>12, <2>2, <3>3, <3>4, RestoreOK
            <3>6. QED
                BY <1>1, <3>5, GoEffect
        <2>3. QED
            BY <1>3, <1>12, <2>1, <2>2 DEF Returned
    <1>13. QED
        BY <1>4, <1>7, <1>11, <1>12

LEMMA EngineStepStep ==
    ASSUME DInv, NEW p \in Procs, EngineStep(p)
    PROVE  DInv'
    <1>1. IInv /\ HeapOK
        BY DEF DInv
    <1>2. IInv' /\ Kept
        <2>1. Next
            BY DEF EngineStep, Next
        <2>2. QED
            BY <1>1, <2>1, NextStep
    <1>3. /\ UNCHANGED phase /\ pc[p] # "idle"
          /\ \A q \in Procs \ {p} : pc'[q] = pc[q] /\ job'[q] = job[q]
          /\ pc[p] # "cache" => UNCHANGED cache
          /\ pc[p] = "cache" => cache' = [cache EXCEPT ![job[p].rule] = job[p].raw]
                                /\ pc'[p] = "idle"
          /\ pc'[p] # "idle" => /\ job'[p].rule = job[p].rule
                                /\ job'[p].raw.body = job[p].raw.body
        BY <1>1, EngineEffect DEF EngineStep
    <1>4. /\ past' \in Seq(Histories) /\ Len(past') = Len(heap)
          /\ \A x \in 1..Len(heap) :
               /\ past'[x].base = past[x].base /\ past'[x].done = past[x].done
               /\ past'[x].stray = past[x].stray
               /\ past'[x].disturbed = past[x].disturbed
                    \cup {c \in {"reset"} : Disturbs(p, x)}
        BY DisturbedOnly
    <1>5. UNCHANGED <<defs, states, heap, requests>>
        BY DEF EngineStep
    <1>6. /\ GoroutineOK(p)'
          /\ at' \in [Procs -> Places] /\ req' \in [Procs -> Reqs]
          /\ \A q \in Procs \ {p} : at'[q] = at[q] /\ req'[q] = req[q]
        <2>1. CASE pc'[p] = "idle"
            BY <1>2, <2>1, ReturnedOK
        <2>2. CASE pc'[p] # "idle"
            <3>1. UNCHANGED <<at, req, cache>>
                BY <1>3, <2>2 DEF EngineStep
            <3>2. GoroutineOK(p)'
                BY <1>2, <1>3, <1>4, <1>5, <2>2, <3>1, WorkingOK
            <3>3. QED
                BY <1>1, <3>1, <3>2 DEF HeapOK
        <2>3. QED
            BY <2>1, <2>2
    <1>7. ASSUME NEW q \in Procs \ {p}
          PROVE  GoroutineOK(q)'
        <2>1. ASSUME at[q] \in Resets, NEW r \in ruleIDsForScenario(req[q].sc),
                     cache'[r] # cache[r]
              PROVE  \/ past'[req[q].st].disturbed # {}
                     \/ /\ past[req[q].st].base[r] = cache'[r].body
                        /\ cache'[r].body # NoField
            <3>1. r \in Rules /\ req[q].st \in 1..Len(heap)
                BY <2>1, Holds DEF ruleIDsForScenario, ReqOK, Working
            <3>2. pc[p] = "cache" /\ job[p].rule = r /\ cache'[r] = job[p].raw
                BY <1>1, <1>3, <2>1, <3>1 DEF IInv, TypeOK
            <3>3. job[p].raw.body \in Bodies
                BY <1>1, <1>3 DEF IInv, TypeOK, Documents
            <3>4. job[p].raw.body # NoField
                BY <3>3, DemoAssumption DEF DemoAssumption
            <3>5. Resetting(q, req[q].st)
                BY <2>1 DEF Resetting, Resets
            <3>6. CASE past[req[q].st].base[r] = job[p].raw.body
                BY <3>2, <3>4, <3>6
            <3>7. CASE past[req[q].st].base[r] # job[p].raw.body
                <4>1. Disturbs(p, req[q].st)
                    BY <2>1, <3>2, <3>5, <3>7 DEF Disturbs
                <4>2. QED
                    BY <1>4, <3>1, <4>1
            <3>8. QED
                BY <3>6, <3>7
        <2>2. QED
            BY <1>2, <1>3, <1>4, <1>5, <1>6, <2>1, WorkingOK
    <1>8. requests' \in Nat
        BY <1>1, <1>5 DEF HeapOK
    <1>9. QED
        BY <1>2, <1>4, <1>5, <1>6, <1>7, <1>8, EngineKeeps

-----------------------------------------------------------------------------
(* A process that is started again, or for the first time, holds no state  *)
(* and no request.                                                         *)
LEMMA FreshOK ==
    ASSUME IInv, defs \in Files, states = [s \in Scenarios |-> 0], heap = << >>,
           past = << >>, at = [p \in Procs |-> "none"], req = [p \in Procs |-> NoReq],
           requests \in Nat
    PROVE  DInv
    <1>1. Len(heap) = 0 /\ Len(past) = 0 /\ heap \in Seq(States) /\ past \in Seq(Histories)
        BY EmptySeq
    <1>2. HeapOK
        BY <1>1, NoReqType DEF HeapOK, Places
    <1>3. DOMAIN heap = {}
        OBVIOUS
    <1>4. BaselineKept /\ Baselines /\ PredecessorRan /\ RanIsDone
        BY <1>3 DEF BaselineKept, Baselines, PredecessorRan, RanIsDone
    <1>5. Goroutines
        BY <1>1 DEF Goroutines, GoroutineOK, ReqOK, SnapOK, BaseOK, OrderOK, Working,
           Resets, Runs, NoReq
    <1>6. QED
        BY <1>2, <1>4, <1>5 DEF DInv

LEMMA DieStep ==
    ASSUME DInv, Die
    PROVE  DInv'
    <1>1. IInv'
        BY CrashStep DEF DInv, Die
    <1>2. /\ defs' \in Files /\ states' = [s \in Scenarios |-> 0] /\ heap' = << >>
          /\ past' = << >> /\ at' = [p \in Procs |-> "none"]
          /\ req' = [p \in Procs |-> NoReq] /\ requests' \in Nat
        BY DEF DInv, HeapOK, Die
    <1>3. Len(heap') = 0 /\ Len(past') = 0 /\ heap' \in Seq(States) /\ past' \in Seq(Histories)
        BY <1>2, EmptySeq
    <1>4. HeapOK'
        BY <1>2, <1>3, NoReqType DEF HeapOK, Places
    <1>5. DOMAIN heap' = {}
        BY <1>2
    <1>6. BaselineKept' /\ Baselines' /\ PredecessorRan' /\ RanIsDone'
        BY <1>5 DEF BaselineKept, Baselines, PredecessorRan, RanIsDone
    <1>7. Goroutines'
        BY <1>2, <1>3 DEF Goroutines, GoroutineOK, ReqOK, SnapOK, BaseOK, OrderOK, Working,
           Resets, Runs, NoReq
    <1>8. QED
        BY <1>1, <1>4, <1>6, <1>7 DEF DInv

LEMMA ViewedStep ==
    ASSUME DInv, NEW p \in Procs, Viewed(p)
    PROVE  DInv'
    BY AnswerKeeps DEF Viewed

LEMMA DemoStutterStep ==
    ASSUME DInv, UNCHANGED demoVars
    PROVE  DInv'
    <1>1. UNCHANGED vars /\ UNCHANGED <<defs, states, heap, at, req, requests, past>>
        BY DEF demoVars, demo
    <1>2. UNCHANGED <<rows, cache, phase, pc, job>>
        BY <1>1 DEF vars
    <1>3. IInv' /\ Kept
        BY <1>1, StutterStep DEF DInv
    <1>4. \A q \in Procs : GoroutineOK(q)'
        BY <1>1, <1>2, OthersKept
    <1>5. HeapOK
        BY DEF DInv
    <1>6. QED
        BY <1>1, <1>3, <1>4, <1>5, EngineKeeps DEF HeapOK

LEMMA DemoNextStep ==
    ASSUME DInv, [DemoNext]_demoVars
    PROVE  DInv'
    <1>1. ASSUME NEW p \in Procs, DemoStep(p)
          PROVE  DInv'
        BY <1>1, ReloadInstallStep, DetailStep, ViewedStep, EnsureStartedStep,
           SnapshotGetStep, StartScenarioStep, CheckStepStep, EditRuleStep,
           RestoreNextStep, RestoreCompareStep, RebaseStep, RecordStep DEF DemoStep
    <1>2. ASSUME NEW p \in Procs, DemoRequest(p) \/ EngineRequest(p) \/ EngineStep(p)
          PROVE  DInv'
        BY <1>2, DemoRequestStep, EngineRequestStep, EngineStepStep
    <1>3. CASE EngineOther
        BY <1>3, EngineOtherStep
    <1>4. CASE Die \/ \E p, q \in Procs : MapRace(p, q)
        BY <1>4, DieStep DEF MapRace
    <1>5. CASE UNCHANGED demoVars
        BY <1>5, DemoStutterStep
    <1>6. QED
        BY <1>1, <1>2, <1>3, <1>4, <1>5 DEF DemoNext

-----------------------------------------------------------------------------
(* The strengthened invariant of engine and demo service together holds in *)
(* every reachable state.                                                  *)
THEOREM DemoInvariant == DemoSpec => []DInv
    <1>1. DemoInit => DInv
        <2>1. ASSUME DemoInit
              PROVE  IInv
            BY <2>1, InitIInv DEF DemoInit
        <2>2. QED
            BY <2>1, FreshOK DEF DemoInit
    <1>2. DInv /\ [DemoNext]_demoVars => DInv'
        BY DemoNextStep
    <1>3. QED
        BY <1>1, <1>2, PTL DEF DemoSpec

(* The demo service changes rules only as the rule editor can: RunStep and *)
(* resetScenario, whatever runs beside them, are behaviours of the engine. *)
THEOREM ImplementsEngine == DemoSpec => EngineSpec
    <1>1. DemoInit => Init
        BY DEF DemoInit
    <1>2. DInv /\ [DemoNext]_demoVars => [Next]_vars
        BY DemoStepIsEngineStep
    <1>3. QED
        BY <1>1, <1>2, DemoInvariant, PTL DEF DemoSpec, EngineSpec, Spec

(* Every request works on a scenarioState of its own process, and states,  *)
(* heap and requests keep their types through reloads, resets and crashes. *)
THEOREM DemoTypes == DemoSpec => []DemoTypeOK
    <1>1. DInv => DemoTypeOK
        BY DEF DInv, HeapOK, Goroutines, GoroutineOK, ReqOK, DemoTypeOK, States, Places
    <1>2. QED
        BY <1>1, DemoInvariant, PTL

(* However many runs and resets interleave, a snapshot names stored        *)
(* versions and keeps the documents that were live when the demo began,    *)
(* unless requests that started the scenario at once, a foreign save       *)
(* during a reset or a definition from before a Reload have cost it them   *)
(* (startScenario, ensureStarted, resetScenario).                          *)
THEOREM Baseline == DemoSpec => []BaselineKept
    <1>1. DInv => BaselineKept
        BY DEF DInv
    <1>2. QED
        BY <1>1, DemoInvariant, PTL

(* A step is recorded as run only after the one before it, whatever        *)
(* RunSteps race, except where force or a reset in between excuses it.     *)
THEOREM StepsInOrder == DemoSpec => []PredecessorRan
    <1>1. DInv => PredecessorRan
        BY DEF DInv
    <1>2. QED
        BY <1>1, DemoInvariant, PTL

=============================================================================
