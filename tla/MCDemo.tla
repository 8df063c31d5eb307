------------------------------- MODULE MCDemo -------------------------------
(***************************************************************************)
(* A scenario that edits two rules; the file may be replaced by one whose  *)
(* scenario edits the second rule only and resets.  The field an edit sets *)
(* is missing in the edited document.  Or the rule editor alone, on one    *)
(* rule: with a document in flow style whose examples fail, with           *)
(* evaluations, and with the clock moving.                                 *)
(***************************************************************************)
EXTENDS Demo, TLC

CONSTANTS plain, edited, flow,   \* documents
          r1, r2                 \* rules

MCDiskBody == [r \in Rules |-> plain]

Edit(r, allow) ==
    [action |-> "edit_rule", rule |-> r, allow |-> allow,
     set |-> [b \in Bodies |-> IF b = plain THEN edited ELSE NoField]]

Reset == [action |-> "reset_scenario", rule |-> r1, allow |-> FALSE,
          set |-> [b \in Bodies |-> NoField]]

TwoEdits == [s \in Scenarios |-> <<Edit(r1, TRUE), Edit(r2, FALSE)>>]

EditAndReset == [s \in Scenarios |-> <<Edit(r2, FALSE), Reset>>]

MCFiles == {TwoEdits, EditAndReset}

\* The two workloads exclude each other.
Rows == UNION {{rows[r][v] : v \in DOMAIN rows[r]} : r \in Rules}

Used == {w.content.body : w \in Rows}
          \cup {job[p].raw.body : p \in {q \in Procs : pc[q] # "idle"}}

Decisions == apps # {} \/ \E p \in Procs : pc[p] = "record"

DemoWorkload ==
    /\ flow \notin Used /\ ~Decisions
    /\ clock = 0 /\ \A w \in Rows : w.from = 0
    /\ faults <= 1

EditorWorkload ==
    /\ DOMAIN rows[r2] \subseteq {1} /\ \A p \in Procs : job[p].rule # r2
    /\ defs = TwoEdits /\ heap = << >> /\ \A p \in Procs : at[p] = "none"

MCNext == DemoNext /\ (DemoWorkload \/ EditorWorkload)'

MCSpec == DemoInit /\ [][MCNext]_demoVars

MCSymmetry == Permutations(Procs)
=============================================================================
