-------------------------------- MODULE Demo --------------------------------
(***************************************************************************)
(* internal/demo: scripted scenarios that call the API, edit live rules    *)
(* through the rule engine and put them back.  The service runs beside the *)
(* rule editor, in the goroutines of RuleEngine: a goroutine inside an     *)
(* engine call has pc[p] # "idle", and at[p] says where its demo request   *)
(* stands.  mu and stateMu are held inside a step, never across two, and   *)
(* never across an engine call.                                            *)
(***************************************************************************)
EXTENDS RuleEngine, Sequences

CONSTANTS
    Scenarios,   \* scenario identifiers
    Files,       \* what the scenario file may hold, [Scenarios -> Seq(Steps)]
    MaxSteps,    \* steps are identified by their position, 1..MaxSteps
    MaxRequests  \* bound on requests, the rule editor's included

NoField == "none"

(* A step; `set` gives the document that its edit makes of a document, or  *)
(* NoField where the field is missing.                                     *)
Steps == [action : {"call_api", "edit_rule", "reset_scenario"}, rule : Rules,
          set : [Bodies -> Bodies \cup {NoField}], allow : BOOLEAN]

ASSUME DemoAssumption ==
    /\ MaxSteps \in Nat /\ MaxRequests \in Nat
    /\ NoField \notin Bodies
    /\ Files # {}
    /\ \A f \in Files :
         /\ DOMAIN f = Scenarios
         /\ \A s \in Scenarios : f[s] \in Seq(Steps) /\ Len(f[s]) <= MaxSteps

VARIABLES
    defs,     \* the loaded definitions (byID); << >>: no such scenario
    states,   \* the state of each started scenario, an index of heap, or 0
    heap,     \* the scenarioStates allocated by this process
    at, req,  \* step and request of each goroutine
    requests,
    past      \* history of each scenarioState

demo     == <<defs, states, heap, at, req, requests, past>>
demoVars == <<vars, demo>>

StepIDs == 1..MaxSteps

NoReq == [op |-> "none", scenario |-> "none", sc |-> << >>, step |-> 0,
          force |-> FALSE, st |-> 0, todo |-> {}, rule |-> "none", ver |-> 0,
          snap |-> [r \in Rules |-> 0], ok |-> TRUE, crossed |-> FALSE]

NoRuns == [i \in StepIDs |-> "none"]

(* The rules that edit_rule steps touch, in the order of the steps.        *)
Edits(sc, r) == {i \in DOMAIN sc : sc[i].action = "edit_rule" /\ sc[i].rule = r}

ruleIDsForScenario(sc) == {r \in Rules : Edits(sc, r) # {}}

NextRule(sc, S, r) ==
    /\ r \in S
    /\ \A q \in S : \E i \in Edits(sc, r) : \A k \in Edits(sc, q) : i <= k

Body(r, v) == rows[r][v].content.body

DemoInit ==
    /\ Init
    /\ defs \in Files
    /\ states = [s \in Scenarios |-> 0]
    /\ heap = << >>
    /\ at = [p \in Procs |-> "none"]
    /\ req = [p \in Procs |-> NoReq]
    /\ requests = 0
    /\ past = << >>

-----------------------------------------------------------------------------
Go(p, step, j) ==
    /\ at' = [at EXCEPT ![p] = step]
    /\ req' = [req EXCEPT ![p] = j]

Answer(p) == Go(p, "none", NoReq)

(* The request fails: RunStep records that, the reset endpoint does not.   *)
Fails(p) == IF req[p].op = "run" THEN Go(p, "record", [req[p] EXCEPT !.ok = FALSE])
            ELSE Answer(p)

Snapshot(p, step, j) ==
    Go(p, step, [j EXCEPT !.todo = ruleIDsForScenario(j.sc),
                          !.snap = [r \in Rules |-> 0]])

(* resetScenario goes through the rules, then takes the new snapshot.      *)
Restore(p, j) ==
    IF j.todo = {} THEN Snapshot(p, "resnap", j) ELSE Go(p, "restore", j)

BeginRestore(p, j) == Restore(p, [j EXCEPT !.todo = ruleIDsForScenario(j.sc)])

Begin(p, step, j) ==
    /\ phase = "up"
    /\ at[p] = "none" /\ pc[p] = "idle"
    /\ requests < MaxRequests
    /\ requests' = requests + 1
    /\ Go(p, step, j)
    /\ UNCHANGED <<vars, defs, states, heap, past>>

(* The scenario is looked up first; what follows works on that definition. *)
Lookup(s, op) == [NoReq EXCEPT !.op = op, !.scenario = s, !.sc = defs[s]]

RunStep(p) ==
    \E s \in Scenarios, i \in StepIDs, force \in BOOLEAN :
        /\ defs[s] # << >>
        /\ i = 1 => ~force
        /\ Begin(p, "ensure", [Lookup(s, "run") EXCEPT !.step = i, !.force = force])

handleReset(p) ==
    \E s \in Scenarios :
        defs[s] # << >> /\ Begin(p, "ensure", Lookup(s, "reset"))

StartScenario(p) ==
    \E s \in Scenarios :
        /\ defs[s] # << >>
        /\ Begin(p, "snap", [Lookup(s, "start") EXCEPT
                               !.todo = ruleIDsForScenario(defs[s])])

(* Reload reads and checks the file; a file that fails changes nothing.    *)
Reload(p) ==
    \E f \in Files :
        Begin(p, "reload", [NoReq EXCEPT !.op = "reload", !.sc = f])

View(p) ==
    \E s \in Scenarios : defs[s] # << >> /\ Begin(p, "detail", Lookup(s, "view"))

-----------------------------------------------------------------------------
ReloadInstall(p) ==
    /\ at[p] = "reload"
    /\ defs' = req[p].sc
    /\ states' = [s \in Scenarios |-> 0]
    /\ Answer(p)
    /\ UNCHANGED <<vars, heap, requests, past>>

(* brief and detail take the state under stateMu and read its runs after.  *)
detail(p) ==
    LET s == req[p].scenario IN
    /\ at[p] = "detail"
    /\ IF defs[s] = << >> \/ states[s] = 0 THEN Answer(p)
       ELSE Go(p, "view", [req[p] EXCEPT !.st = states[s]])
    /\ UNCHANGED <<vars, defs, states, heap, requests, past>>

Viewed(p) ==
    /\ at[p] = "view"
    /\ Answer(p)
    /\ UNCHANGED <<vars, defs, states, heap, requests, past>>

(* What RunStep and the endpoints do once they have a state.               *)
Started(p, j) == CASE j.op = "run" -> Go(p, "check", j)
                   [] j.op = "reset" -> BeginRestore(p, j)
                   [] j.op = "start" -> Go(p, "detail", j)

ensureStarted(p) ==
    LET x == states[req[p].scenario] IN
    /\ at[p] = "ensure"
    /\ IF x # 0 THEN Started(p, [req[p] EXCEPT !.st = x])
       ELSE Snapshot(p, "snap", req[p])
    /\ UNCHANGED <<vars, defs, states, heap, requests, past>>

(* snapshotVersions: one Get after the other.                              *)
SnapshotGet(p) ==
    /\ at[p] \in {"snap", "resnap"}
    /\ \E r \in req[p].todo :
         /\ NextRule(req[p].sc, req[p].todo, r)
         /\ Go(p, at[p], [req[p] EXCEPT !.todo = @ \ {r},
                                        !.snap[r] = cache[r].line])
    /\ UNCHANGED <<vars, defs, states, heap, requests, past>>

(* History of a state: the documents from before the demo (base), what has *)
(* changed them since (disturbed), and the steps done.  Start, and the     *)
(* first request that finds the scenario not started, find them live; ...  *)
Causes == {"start", "reset", "reload"}

Fresh(j) ==
    [base |-> [r \in Rules |-> IF j.snap[r] = 0 THEN NoField ELSE Body(r, j.snap[r])],
     disturbed |-> {}, done |-> {}, stray |-> {}]

(* ... a reset leaves them what they were, as long as the definition it    *)
(* works by edits the rules that the state has a baseline of; ...          *)
Rebased(h, j) ==
    [h EXCEPT !.disturbed = @ \cup {c \in {"reload"} : \E r \in Rules :
                                        ~(h.base[r] = NoField <=> j.snap[r] = 0)},
              !.done = {}, !.stray = {}]

(* ... and so does a request that found none at the same time as the one   *)
(* whose state its own replaces, unless it saw other documents live.       *)
Replaced(h, j) ==
    LET k == Rebased(h, j) IN
    [k EXCEPT !.disturbed = @ \cup {c \in {"start"} : \E r \in Rules :
                                        /\ j.snap[r] # 0
                                        /\ Body(r, j.snap[r]) # h.base[r]}]

(* startScenario: the new state replaces the one that is there, also for   *)
(* goroutines that found none at the same time.                            *)
startScenario(p) ==
    LET j == req[p]
        x == Len(heap) + 1
        y == states[j.scenario]
    IN
    /\ at[p] = "snap" /\ j.todo = {}
    /\ heap' = Append(heap, [snapshot |-> j.snap, runs |-> NoRuns])
    /\ states' = [states EXCEPT ![j.scenario] = x]
    /\ past' = Append(past, IF j.op = "start" \/ y = 0 THEN Fresh(j)
                            ELSE Replaced(past[y], j))
    /\ Started(p, [j EXCEPT !.st = x])
    /\ UNCHANGED <<vars, defs, requests>>

-----------------------------------------------------------------------------
InOrder_Recorded(j) ==                         \* a failed run counts too
    \/ j.sc[j.step].action = "reset_scenario"
    \/ j.step = 1 \/ j.force
    \/ heap[j.st].runs[j.step - 1] # "none"

InOrder(j) ==
    \/ j.sc[j.step].action = "reset_scenario"
    \/ j.step = 1 \/ j.force
    \/ heap[j.st].runs[j.step - 1] = "ran"

(* RunStep: the step exists, and the one before it has run.                *)
CheckStep(p) ==
    LET j == [req[p] EXCEPT !.crossed = FALSE] IN
    /\ at[p] = "check"
    /\ IF j.step \notin DOMAIN j.sc \/ ~InOrder(j) THEN Answer(p)
       ELSE CASE j.sc[j.step].action = "call_api" -> Go(p, "record", j)
              [] j.sc[j.step].action = "edit_rule" -> Go(p, "edit", j)
              [] j.sc[j.step].action = "reset_scenario" -> BeginRestore(p, j)
    /\ UNCHANGED <<vars, defs, states, heap, requests, past>>

(* editRule: Get, set the field, Save.                                     *)
editRule_Direct(p) ==                          \* sets it in the live rule
    LET s == req[p].sc[req[p].step]
        b == s.set[cache[s.rule].body]
    IN
    /\ at[p] = "edit"
    /\ IF b = NoField THEN Fails(p) /\ UNCHANGED vars
       ELSE /\ cache' = [cache EXCEPT ![s.rule].body = b]
            /\ Go(p, "record", req[p])
            /\ UNCHANGED <<rows, apps, clock, pc, job, phase, acked, faults,
                           restarts>>
    /\ UNCHANGED <<defs, states, heap, requests, past>>

editRule(p) ==
    LET s == req[p].sc[req[p].step]
        b == s.set[cache[s.rule].body]
    IN
    /\ at[p] = "edit"
    /\ IF b = NoField \/ (b \in Failing /\ ~s.allow)
       THEN Fails(p) /\ UNCHANGED vars
       ELSE /\ Save(p, s.rule, b, s.allow)
            /\ Go(p, "saving", req[p])
    /\ UNCHANGED <<defs, states, heap, requests, past>>

(* resetScenario, for each rule: the version of the snapshot, ...          *)
RestoreNext(p) ==
    LET j == req[p] IN
    /\ at[p] = "restore"
    /\ \E r \in j.todo :
         LET v == heap[j.st].snapshot[r]
             k == [j EXCEPT !.todo = @ \ {r}, !.rule = r, !.ver = v]
         IN
         /\ NextRule(j.sc, j.todo, r)
         /\ IF v = 0 THEN Restore(p, k) ELSE Go(p, "compare", k)
    /\ UNCHANGED <<vars, defs, states, heap, requests, past>>

(* ... the live one, and Reactivate if they differ.                        *)
RestoreCompare_Newer(p) ==                     \* off by one
    LET j == req[p] IN
    /\ at[p] = "compare"
    /\ IF cache[j.rule].line <= j.ver + 1
       THEN Restore(p, j) /\ UNCHANGED vars
       ELSE Reactivate(p, j.rule, j.ver) /\ Go(p, "restoring", j)
    /\ UNCHANGED <<defs, states, heap, requests, past>>

RestoreCompare(p) ==
    LET j == req[p] IN
    /\ at[p] = "compare"
    /\ IF cache[j.rule].line = j.ver
       THEN Restore(p, j) /\ UNCHANGED vars
       ELSE Reactivate(p, j.rule, j.ver) /\ Go(p, "restoring", j)
    /\ UNCHANGED <<defs, states, heap, requests, past>>

(* The re-snapshot becomes the baseline and the run state is cleared.      *)
Rebase_NilRuns(p) ==                           \* the map of runs is not made anew
    LET j == req[p] IN
    /\ at[p] = "resnap" /\ j.todo = {}
    /\ heap' = [heap EXCEPT ![j.st] = [snapshot |-> j.snap, runs |-> << >>]]
    /\ past' = [past EXCEPT ![j.st] = Rebased(@, j)]
    /\ IF j.op = "run" THEN Go(p, "record", j) ELSE Answer(p)
    /\ UNCHANGED <<vars, defs, states, requests>>

Rebase(p) ==
    LET j == req[p] IN
    /\ at[p] = "resnap" /\ j.todo = {}
    /\ heap' = [heap EXCEPT ![j.st] = [snapshot |-> j.snap, runs |-> NoRuns]]
    /\ past' = [past EXCEPT ![j.st] = Rebased(@, j)]
    /\ at' = [at EXCEPT ![p] = IF j.op = "run" THEN "record" ELSE "none"]
    /\ req' = [q \in Procs |->
                 IF q = p THEN IF j.op = "run" THEN j ELSE NoReq
                 ELSE [req[q] EXCEPT !.crossed = @ \/ req[q].st = j.st]]
    /\ UNCHANGED <<vars, defs, states, requests>>

(* RunStep puts the record into the state it began with, which may be in   *)
(* nobody's use any more, or have been cleared.                            *)
Record(p) ==
    LET j == req[p]
        stray == j.force \/ j.crossed \/ j.sc[j.step].action = "reset_scenario"
    IN
    /\ at[p] = "record"
    /\ heap' = [heap EXCEPT ![j.st].runs[j.step] = IF j.ok THEN "ran" ELSE "failed"]
    /\ past' = [past EXCEPT
                  ![j.st].done = IF j.ok THEN @ \cup {j.step} ELSE @,
                  ![j.st].stray = IF stray THEN @ \cup {j.step} ELSE @ \ {j.step}]
    /\ Answer(p)
    /\ UNCHANGED <<vars, defs, states, requests>>

-----------------------------------------------------------------------------
(* An engine call of a demo request returns.                               *)
Returned(p, ok) ==
    CASE at[p] = "saving" -> IF ok THEN Go(p, "record", req[p]) ELSE Fails(p)
      [] at[p] = "restoring" -> IF ok THEN Restore(p, req[p]) ELSE Fails(p)
      [] OTHER -> UNCHANGED <<at, req>>

Resetting(p, x) ==
    at[p] \in {"restore", "compare", "restoring", "resnap"} /\ req[p].st = x

(* History: another goroutine makes a foreign document of one of its rules *)
(* live during a reset.                                                    *)
Disturbs(p, x) ==
    /\ pc[p] = "cache"
    /\ \E q \in Procs \ {p} :
         Resetting(q, x) /\ job[p].rule \in ruleIDsForScenario(req[q].sc)
    /\ past[x].base[job[p].rule] # job[p].raw.body

EngineStep(p) ==
    /\ Step(p) \/ InsertLost(p) \/ StoreError(p)
    /\ IF pc'[p] = "idle" THEN Returned(p, pc[p] = "cache") ELSE UNCHANGED <<at, req>>
    /\ past' = [x \in DOMAIN past |->
                  [past[x] EXCEPT !.disturbed =
                     @ \cup {c \in {"reset"} : Disturbs(p, x)}]]
    /\ UNCHANGED <<defs, states, heap, requests>>

(* The rule editor and evaluations.                                        *)
EngineRequest(p) ==
    /\ at[p] = "none" /\ Request(p)
    /\ requests < MaxRequests
    /\ requests' = requests + 1
    /\ UNCHANGED <<defs, states, heap, at, req, past>>

(* What the engine does by itself.                                         *)
EngineOther ==
    /\ \/ \E r \in Rules : LoadInsert(r)
       \/ LoadWarm
       \/ AdvanceClock
    /\ UNCHANGED demo

Die ==
    /\ Crash
    /\ defs' \in Files
    /\ states' = [s \in Scenarios |-> 0]
    /\ heap' = << >> /\ past' = << >>
    /\ at' = [p \in Procs |-> "none"]
    /\ req' = [p \in Procs |-> NoReq]
    /\ UNCHANGED requests

(* The map of runs is read without the lock while RunStep writes it, which *)
(* Go's runtime answers by ending the process.                             *)
MapRace(p, q) ==
    /\ at[p] = "view" /\ at[q] = "record" /\ req[p].st = req[q].st
    /\ Die

DemoRequest(p) == RunStep(p) \/ handleReset(p) \/ StartScenario(p) \/ Reload(p) \/ View(p)

DemoStep(p) ==
    \/ ReloadInstall(p) \/ detail(p) \/ Viewed(p) \/ ensureStarted(p) \/ SnapshotGet(p)
    \/ startScenario(p) \/ CheckStep(p) \/ editRule(p) \/ RestoreNext(p)
    \/ RestoreCompare(p) \/ Rebase(p) \/ Record(p)

DemoNext ==
    \/ \E p \in Procs : DemoRequest(p) \/ DemoStep(p)
                        \/ EngineRequest(p) \/ EngineStep(p)
    \/ EngineOther
    \/ Die
    \/ \E p, q \in Procs : MapRace(p, q)

DemoSpec == DemoInit /\ [][DemoNext]_demoVars

-----------------------------------------------------------------------------
(* Types; a request works on a scenarioState of this process.              *)
DemoTypeOK ==
    /\ defs \in Files
    /\ states \in [Scenarios -> 0..Len(heap)]
    /\ heap \in Seq([snapshot : [Rules -> Nat],
                     runs : [StepIDs -> {"none", "ran", "failed"}]])
    /\ Len(past) = Len(heap)
    /\ at \in [Procs -> {"none", "ensure", "snap", "reload", "detail", "view", "check",
                         "edit", "saving", "restore", "compare", "restoring",
                         "resnap", "record"}]
    /\ \A p \in Procs : req[p].st \in 0..Len(heap)
    /\ requests \in Nat

(* A reset may always go back: each version of a snapshot is stored and,   *)
(* as often as the scenario is run and reset, it holds the document that   *)
(* was live when Start, or the first request that found the scenario not   *)
(* started, began the demo (a Reload ends it, and another one begins).     *)
(* Three things lose it: requests that start the scenario at once, where   *)
(* one sees what the other has edited (ensureStarted); a save of another   *)
(* document while a reset is under way (resetScenario takes what is live   *)
(* at its end as the new baseline); and a request that still works by a    *)
(* definition from before a Reload, which edits other rules.               *)
BaselineKept ==
    \A x \in DOMAIN heap : \A r \in Rules :
        heap[x].snapshot[r] # 0 =>
            /\ heap[x].snapshot[r] \in DOMAIN rows[r]
            /\ past[x].disturbed # {} \/ Body(r, heap[x].snapshot[r]) = past[x].base[r]

(* The service "tracks enough state per scenario to sequence steps and     *)
(* reset every rule a scenario touched back to its pre-demo version", also *)
(* where several requests start the scenario (ensureStarted).              *)
BaselineDespiteStart ==
    \A x \in DOMAIN heap : \A r \in Rules :
        heap[x].snapshot[r] # 0 /\ past[x].disturbed \subseteq {"start"} =>
            Body(r, heap[x].snapshot[r]) = past[x].base[r]

(* A step is recorded as run only if the one before it ran since the last  *)
(* reset, except for forced runs and for those that a reset overtook       *)
(* (RunStep checks the order and records the run under separate locks).    *)
PredecessorRan ==
    \A x \in DOMAIN heap : \A i \in 2..MaxSteps :
        heap[x].runs[i] = "ran" /\ i \notin past[x].stray
            => i - 1 \in past[x].done

(* The demo service changes rules only as the rule editor can: whatever it *)
(* does is a behaviour of the rule engine, so versions, validation,        *)
(* examples and the audit log keep their guarantees (scenario.go: "nothing *)
(* here bypasses validation, examples or versioning").                     *)
EngineSpec == Spec

=============================================================================
