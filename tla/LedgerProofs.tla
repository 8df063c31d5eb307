---------------------------- MODULE LedgerProofs ----------------------------
(***************************************************************************)
(* For any number of goroutines, accounts and transactions, any schedule,  *)
(* any store errors and crashes: the log implements the journal, and every *)
(* event reaches the projection at least once and at most twice.           *)
(***************************************************************************)
EXTENDS Ledger, SumTheorems, SequenceTheorems, TLAPS

EventOps == {"open", "ensure", "post", "seed", "settle", "finalize"}

Logged == {log[s] : s \in DOMAIN log}

(* What goroutine p knows of the log between two of its steps.  The check  *)
(* was made on a projection that may have changed since; what it            *)
(* established about the log has not, because the log only grows.          *)
ThreadOK(p) ==
    LET c == Head(calls[p]) IN
    /\ pc[p] # "idle" => calls[p] # << >>
    /\ pc[p] = "append" => c.op \in EventOps /\ J!Legal(EventOf(c), Logged)
    /\ pc[p] = "commit" => /\ c.op \in EventOps
                           /\ seq[p] # 0 /\ seq[p] \notin DOMAIN log
                           /\ J!Legal(EventOf(c), J!EventsBefore(log, seq[p]))
    /\ pc[p] = "apply" => seq[p] \in DOMAIN log

(* Two goroutines never write, or wrote, the same row.                     *)
SeqsDiffer ==
    \A p, q \in Threads :
        p # q /\ pc[p] \in {"commit", "apply"} /\ pc[q] \in {"commit", "apply"}
          => seq[p] # seq[q]

(* What the projection shows is in the log.                                *)
ProjectionOK ==
    /\ \A a \in accounts : Opened(a) \in Logged
    /\ \A t \in TxIDs : /\ status[t] = "pending" => Posted(t) \in Logged
                        /\ status[t] = "settled" => Settled(t) \in Logged

LogInv == /\ TypeOK
          /\ \A p \in Threads : ThreadOK(p)
          /\ SeqsDiffer
          /\ ProjectionOK
          /\ LegalLog

-----------------------------------------------------------------------------
(* The entries of a transaction as functions on their positions, and the   *)
(* positions of those on one side, on the accounts in A.                   *)
Minor(t) == [i \in 1..Len(Entries(t)) |-> Entries(t)[i].minor]

AccountOf(t) == [i \in 1..Len(Entries(t)) |-> Entries(t)[i].account]

On(t, side, A) == {i \in 1..Len(Entries(t)) :
                     Entries(t)[i].direction = side /\ Entries(t)[i].account \in A}

LEMMA EntriesTyped ==
    ASSUME NEW t \in TxIDs
    PROVE  /\ Len(Entries(t)) \in Nat
           /\ \A i \in 1..Len(Entries(t)) :
                Minor(t)[i] \in Int /\ AccountOf(t)[i] \in Accounts
    <1> DEFINE T == [account : Accounts, direction : STRING, currency : STRING,
                     minor : Int]
    <1>1. Entries(t) \in Seq(T)
        BY PostingsAssumption DEF Entries
    <1>2. \A i \in 1..Len(Entries(t)) : Entries(t)[i] \in T
        BY <1>1, ElementOfSeq
    <1>3. Len(Entries(t)) \in Nat
        BY <1>1, LenProperties
    <1>4. \A e \in T : e.account \in Accounts /\ e.minor \in Int
        OBVIOUS
    <1> HIDE DEF T
    <1>5. \A i \in 1..Len(Entries(t)) :
            Entries(t)[i].account \in Accounts /\ Entries(t)[i].minor \in Int
        BY <1>2, <1>4
    <1>6. QED
        BY <1>3, <1>5 DEF Minor, AccountOf

LEMMA OnFinite ==
    ASSUME NEW t \in TxIDs, NEW side, NEW A
    PROVE  IsFiniteSet(On(t, side, A)) /\ On(t, side, A) \subseteq 1..Len(Entries(t))
    <1>1. IsFiniteSet(1..Len(Entries(t)))
        BY EntriesTyped, FS_Interval
    <1>2. On(t, side, A) \subseteq 1..Len(Entries(t))
        BY DEF On
    <1>3. QED
        BY <1>1, <1>2, FS_Subset

(* Total is a sum in the sense of SumTheorems.                             *)
LEMMA TotalIsSum ==
    ASSUME NEW t \in TxIDs, NEW side, NEW A
    PROVE  Total(t, side, A) = SumOver(Minor(t), On(t, side, A))
    <1> DEFINE S == On(t, side, A)
               R(h) == h = [s \in SUBSET S |-> IF s = {} THEN 0
                              ELSE Entries(t)[pick(s)].minor + h[s \ {pick(s)}]]
    <1>1. IsFiniteSet(S) /\ S \subseteq 1..Len(Entries(t))
        BY OnFinite
    <1>2. PICK h : IsSum(Minor(t), S, h)
        BY <1>1, SumExists
    <1>3. \A s \in SUBSET S : s # {} => Minor(t)[pick(s)] = Entries(t)[pick(s)].minor
        BY <1>1, PickIn DEF Minor
    <1>4. \A k : R(k) <=> IsSum(Minor(t), S, k)
        BY <1>3 DEF IsSum
    <1>5. R(h)
        BY <1>2, <1>4
    <1>6. Total(t, side, A) = MapThenSumSet(LAMBDA i : Entries(t)[i].minor, S)
        BY DEF Total, On
    <1>7. \E k : R(k) /\ MapThenSumSet(LAMBDA i : Entries(t)[i].minor, S) = k[S]
        BY <1>5 DEF MapThenSumSet, MapThenFoldSet, pick
    <1> HIDE DEF R, S
    <1>8. Total(t, side, A) = SumOver(Minor(t), S)
        BY <1>1, <1>4, <1>6, <1>7, SumOverIs
    <1>9. QED
        BY <1>8 DEF S

LEMMA TotalTyped ==
    ASSUME NEW t \in TxIDs, NEW side, NEW A
    PROVE  Total(t, side, A) \in Int
    <1>1. \A i \in On(t, side, A) : Minor(t)[i] \in Int
        BY OnFinite, EntriesTyped
    <1>2. QED
        BY <1>1, OnFinite, TotalIsSum, SumOverInt

(* No entry of a well-formed transaction takes anything off a total.       *)
LEMMA TotalNatural ==
    ASSUME NEW t \in SoundTxs, NEW side, NEW A
    PROVE  Total(t, side, A) \in Nat
    <1> DEFINE S == On(t, side, A)
    <1>1. t \in TxIDs /\ IsFiniteSet(S)
        BY OnFinite DEF SoundTxs
    <1>2. \A i \in S : Minor(t)[i] \in Nat
        <2>1. \A i \in 1..Len(Entries(t)) : Minor(t)[i] > 0
            BY DEF SoundTxs, WellFormed, Minor
        <2>2. QED
            BY <1>1, <2>1, EntriesTyped, OnFinite
    <1> HIDE DEF S
    <1>3. SumOver(Minor(t), S) \in Nat
        BY <1>1, <1>2, SumOverNat
    <1>4. QED
        BY <1>1, <1>3, TotalIsSum DEF S

-----------------------------------------------------------------------------
(* The accounts of a currency.                                             *)
Of(c) == {a \in Accounts : Currency[a] = c}

LEMMA OfFinite == \A c : IsFiniteSet(Of(c)) /\ Of(c) \subseteq Accounts
    BY PostingsAssumption, FS_Subset DEF Of

(* What a well-formed transaction adds to the accounts of a currency: on   *)
(* either side the same, its whole total in its own currency and nothing   *)
(* in another.                                                             *)
LEMMA SideOfCurrency ==
    ASSUME NEW t \in SoundTxs, NEW side, NEW c
    PROVE  SumOver([a \in Accounts |-> Total(t, side, {a})], Of(c))
             = IF c = Content[t].currency THEN Total(t, side, Accounts) ELSE 0
    <1> DEFINE S == On(t, side, Accounts)
               g == [a \in Accounts |-> Total(t, side, {a})]
    <1>1. t \in TxIDs /\ IsFiniteSet(S) /\ S \subseteq 1..Len(Entries(t))
        BY OnFinite DEF SoundTxs
    <1>2. \A i \in S : Minor(t)[i] \in Int /\ AccountOf(t)[i] \in Accounts
        BY <1>1, EntriesTyped
    <1>3. IsParts(g, Of(c), Minor(t), S, AccountOf(t))
        <2>1. SUFFICES ASSUME NEW a \in Of(c)
                       PROVE  Total(t, side, {a})
                                = SumOver(Minor(t), Among(S, AccountOf(t), {a}))
            BY OfFinite DEF IsParts
        <2>2. On(t, side, {a}) = Among(S, AccountOf(t), {a})
            BY OfFinite DEF On, AccountOf, Among
        <2>3. QED
            BY <1>1, <2>2, TotalIsSum
    <1> HIDE DEF g
    <1>4. SumOver(g, Of(c)) = SumOver(Minor(t), Among(S, AccountOf(t), Of(c)))
        <2> HIDE DEF S
        <2>1. /\ IsFiniteSet(S) /\ IsFiniteSet(Of(c))
              /\ \A i \in S : Minor(t)[i] \in Int
            BY <1>1, <1>2, OfFinite
        <2>2. QED
            BY <1>3, <2>1, SumOverParts
    <1>5. \A i \in S : AccountOf(t)[i] \in Of(c) <=> c = Content[t].currency
        <2>1. \A i \in 1..Len(Entries(t)) :
                Currency[Entries(t)[i].account] = Content[t].currency
            BY DEF SoundTxs, WellFormed
        <2>2. QED
            BY <1>1, <1>2, <2>1 DEF Of, AccountOf
    <1>6. CASE c = Content[t].currency
        <2>1. Among(S, AccountOf(t), Of(c)) = S
            BY <1>5, <1>6 DEF Among
        <2>2. QED
            BY <1>1, <1>4, <1>6, <2>1, TotalIsSum DEF g
    <1>7. CASE c # Content[t].currency
        <2>1. Among(S, AccountOf(t), Of(c)) = {}
            BY <1>5, <1>7 DEF Among
        <2>2. QED
            BY <1>4, <1>7, <2>1, SumOverEmpty DEF g
    <1>8. QED
        BY <1>6, <1>7

(* Folding a well-formed transaction in adds the same to both sides of     *)
(* every currency.                                                         *)
LEMMA EntriesBalance ==
    ASSUME NEW t \in SoundTxs, NEW c,
           NEW d \in [Accounts -> Nat], NEW k \in [Accounts -> Nat],
           SumOver(d, Of(c)) = SumOver(k, Of(c))
    PROVE  SumOver(AddEntries(d, t, "debit"), Of(c))
             = SumOver(AddEntries(k, t, "credit"), Of(c))
    <1>1. ASSUME NEW f \in [Accounts -> Nat], NEW side
          PROVE  SumOver(AddEntries(f, t, side), Of(c))
                   = SumOver(f, Of(c))
                       + SumOver([a \in Accounts |-> Total(t, side, {a})], Of(c))
        <2> DEFINE g == [a \in Accounts |-> Total(t, side, {a})]
                   h == AddEntries(f, t, side)
        <2>1. \A a \in Of(c) : f[a] \in Int /\ g[a] \in Int /\ h[a] = f[a] + g[a]
            BY TotalNatural, OfFinite DEF AddEntries
        <2> HIDE DEF g, h
        <2>2. SumOver(h, Of(c)) = SumOver(f, Of(c)) + SumOver(g, Of(c))
            BY <2>1, OfFinite, SumOverPlus
        <2>3. QED
            BY <2>2 DEF g, h
    <1>2. Total(t, "debit", Accounts) = Total(t, "credit", Accounts)
        BY DEF SoundTxs, WellFormed
    <1>3. SumOver([a \in Accounts |-> Total(t, "debit", {a})], Of(c))
            = SumOver([a \in Accounts |-> Total(t, "credit", {a})], Of(c))
        BY <1>2, SideOfCurrency
    <1>4. QED
        BY <1>1, <1>3

-----------------------------------------------------------------------------
(* More events before it keep an event legal.                              *)
LEMMA LegalMonotone ==
    ASSUME NEW e, NEW B, NEW C, B \subseteq C, J!Legal(e, B)
    PROVE  J!Legal(e, C)
    BY DEF J!Legal

(* The log keeps what it has.                                              *)
LogGrows == \A s \in DOMAIN log : s \in DOMAIN log' /\ log'[s] = log[s]

LEMMA GrowthKeeps ==
    ASSUME LogGrows
    PROVE  /\ Logged \subseteq Logged'
           /\ \A s : J!EventsBefore(log, s) \subseteq J!EventsBefore(log', s)
    BY DEF LogGrows, Logged, J!EventsBefore

(* The call at the head of a goroutine's list is a call, and the event of  *)
(* one that appends is an event.                                           *)
LEMMA HeadCall ==
    ASSUME TypeOK, NEW p \in Threads, calls[p] # << >>
    PROVE  Head(calls[p]) \in Calls /\ Tail(calls[p]) \in Seq(Calls)
    BY HeadTailProperties DEF TypeOK

LEMMA EventTyped ==
    ASSUME NEW c \in Calls, c.op \in EventOps
    PROVE  EventOf(c) \in Event
    BY DEF EventOf, EventOps, Calls, TxCalls, AccountCalls, Event

(* A goroutine that takes no step knows what it knew: nobody else writes   *)
(* its row.                                                                *)
LEMMA OtherThread ==
    ASSUME LogInv, NEW q \in Threads, LogGrows,
           pc'[q] = pc[q], calls'[q] = calls[q], seq'[q] = seq[q],
           pc[q] = "commit" => seq[q] \notin DOMAIN log'
    PROVE  ThreadOK(q)'
    <1>1. ThreadOK(q)
        BY DEF LogInv
    <1>2. /\ Logged \subseteq Logged'
          /\ J!EventsBefore(log, seq[q]) \subseteq J!EventsBefore(log', seq[q])
        BY GrowthKeeps
    <1> DEFINE c == Head(calls[q])
    <1>3. pc[q] = "append" => J!Legal(EventOf(c), Logged')
        BY <1>1, <1>2, LegalMonotone DEF ThreadOK
    <1>4. pc[q] = "commit" => J!Legal(EventOf(c), J!EventsBefore(log', seq[q]))
        BY <1>1, <1>2, LegalMonotone DEF ThreadOK
    <1>5. pc[q] = "apply" => seq[q] \in DOMAIN log'
        BY <1>1 DEF ThreadOK, LogGrows
    <1>6. QED
        BY <1>1, <1>3, <1>4, <1>5 DEF ThreadOK

(* The parts of a step of goroutine p from which the invariant follows.    *)
LEMMA LogInvStep ==
    ASSUME LogInv, NEW p \in Threads, TypeOK', LogGrows,
           \A q \in Threads \ {p} :
             /\ pc'[q] = pc[q] /\ calls'[q] = calls[q] /\ seq'[q] = seq[q]
             /\ pc[q] = "commit" => seq[q] \notin DOMAIN log'
             /\ pc'[p] \in {"commit", "apply"} /\ pc[q] \in {"commit", "apply"}
                  => seq'[p] # seq[q],
           ThreadOK(p)', ProjectionOK', LegalLog'
    PROVE  LogInv'
    <1>1. \A q \in Threads : ThreadOK(q)'
        BY OtherThread
    <1>2. SeqsDiffer'
        BY DEF LogInv, SeqsDiffer
    <1>3. QED
        BY <1>1, <1>2 DEF LogInv

LEMMA ProjectionKept ==
    ASSUME LogInv, LogGrows, UNCHANGED <<accounts, status>>
    PROVE  ProjectionOK'
    <1>1. Logged \subseteq Logged'
        BY GrowthKeeps
    <1>2. QED
        BY <1>1 DEF LogInv, ProjectionOK

LEMMA LogKept ==
    ASSUME LogInv, UNCHANGED log
    PROVE  LogGrows /\ LegalLog'
    BY DEF LogInv, LogGrows, LegalLog, J!LegalLog

(* projection.apply of an event of the log.                                *)
LEMMA ApplyKeeps ==
    ASSUME LogInv, NEW s \in DOMAIN log, ApplyEvent(s), UNCHANGED <<log, nextSeq>>
    PROVE  /\ accounts' \subseteq Accounts
           /\ status' \in [TxIDs -> Statuses]
           /\ debit' \in [Accounts -> Nat] /\ credit' \in [Accounts -> Nat]
           /\ lastSeq' \in 0..nextSeq
           /\ applied' \in [DOMAIN log -> Nat]
           /\ ProjectionOK'
    <1> DEFINE e == log[s]
    <1>1. e \in Event /\ s \in 1..nextSeq /\ nextSeq \in Nat
        BY DEF LogInv, TypeOK
    <1>2. Logged' = Logged /\ e \in Logged
        BY DEF Logged
    <1>3. lastSeq' \in 0..nextSeq /\ applied' \in [DOMAIN log -> Nat]
        BY <1>1 DEF ApplyEvent, NoteSeq, AddEntries, LogInv, TypeOK
    <1>4. CASE e.type = "opened"
        <2>1. e.id \in Accounts /\ e = Opened(e.id)
            BY <1>1, <1>4 DEF Event, Opened
        <2>2. /\ accounts' = accounts \cup {e.id} /\ status' = status
              /\ debit' = debit /\ credit' = credit
            BY <1>4 DEF ApplyEvent, NoteSeq, AddEntries
        <2>3. ProjectionOK'
            BY <2>1, <2>2, <1>2 DEF LogInv, ProjectionOK
        <2>4. QED
            BY <2>1, <2>2, <2>3, <1>3 DEF LogInv, TypeOK
    <1>5. CASE e.type = "posted"
        <2>1. e.id \in TxIDs /\ e = Posted(e.id)
            BY <1>1, <1>5 DEF Event, Posted
        <2>2. /\ accounts' = accounts /\ status' = [status EXCEPT ![e.id] = "pending"]
              /\ debit' = [a \in Accounts |-> debit[a] + Total(e.id, "debit", {a})]
              /\ credit' = [a \in Accounts |-> credit[a] + Total(e.id, "credit", {a})]
            BY <1>5 DEF ApplyEvent, NoteSeq, AddEntries
        <2>3. ProjectionOK'
            BY <2>1, <2>2, <1>2 DEF LogInv, ProjectionOK, TypeOK
        <2>4. debit' \in [Accounts -> Nat] /\ credit' \in [Accounts -> Nat]
            <3>1. \A a \in Accounts : /\ Total(e.id, "debit", {a}) \in Nat
                                      /\ Total(e.id, "credit", {a}) \in Nat
                <4>1. J!Legal(e, J!EventsBefore(log, s))
                    BY DEF LogInv, LegalLog, J!LegalLog
                <4>2. e.id \in SoundTxs
                    BY <1>5, <4>1 DEF J!Legal
                <4>3. QED
                    BY <4>2, TotalNatural
            <3>2. debit \in [Accounts -> Nat] /\ credit \in [Accounts -> Nat]
                BY DEF LogInv, TypeOK
            <3>3. \A a \in Accounts : /\ debit[a] + Total(e.id, "debit", {a}) \in Nat
                                      /\ credit[a] + Total(e.id, "credit", {a}) \in Nat
                BY <3>1, <3>2
            <3>4. QED
                BY <2>2, <3>3
        <2>5. QED
            BY <2>1, <2>2, <2>3, <2>4, <1>3 DEF LogInv, TypeOK, Statuses
    <1>6. CASE e.type = "settled"
        <2>1. e.id \in TxIDs /\ e = Settled(e.id)
            BY <1>1, <1>6 DEF Event, Settled
        <2>2. /\ accounts' = accounts /\ status' = [status EXCEPT ![e.id] = "settled"]
              /\ debit' = debit /\ credit' = credit
            BY <1>6 DEF ApplyEvent, NoteSeq, AddEntries
        <2>3. ProjectionOK'
            BY <2>1, <2>2, <1>2 DEF LogInv, ProjectionOK, TypeOK
        <2>4. QED
            BY <2>1, <2>2, <2>3, <1>3 DEF LogInv, TypeOK, Statuses
    <1>7. CASE e.type = "finalized"
        <2>1. e.id \in TxIDs
            BY <1>1, <1>7 DEF Event
        <2>2. /\ accounts' = accounts /\ status' = [status EXCEPT ![e.id] = "final"]
              /\ debit' = debit /\ credit' = credit
            BY <1>7 DEF ApplyEvent, NoteSeq, AddEntries
        <2>3. ProjectionOK'
            BY <2>1, <2>2, <1>2 DEF LogInv, ProjectionOK, TypeOK
        <2>4. QED
            BY <2>1, <2>2, <2>3, <1>3 DEF LogInv, TypeOK, Statuses
    <1>8. QED
        BY <1>1, <1>4, <1>5, <1>6, <1>7 DEF Event

-----------------------------------------------------------------------------
(* Returning from a call, with success or with an error.                   *)
LEMMA ContinueTyped ==
    ASSUME TypeOK, NEW p \in Threads, NEW rest \in Seq(Calls), Continue(p, rest)
    PROVE  /\ calls' \in [Threads -> Seq(Calls)]
           /\ pc' \in [Threads -> {"idle", "refresh", "folding", "check", "append",
                                   "commit", "apply"}]
           /\ phase' \in {"starting", "up", "down"}
           /\ calls'[p] = rest
           /\ pc'[p] = IF rest = << >> THEN "idle" ELSE "refresh"
           /\ \A q \in Threads \ {p} : pc'[q] = pc[q] /\ calls'[q] = calls[q]
    BY DEF Continue, TypeOK

LEMMA AbortTyped ==
    ASSUME TypeOK, NEW p \in Threads, Abort(p)
    PROVE  /\ calls' \in [Threads -> Seq(Calls)]
           /\ pc' \in [Threads -> {"idle", "refresh", "folding", "check", "append",
                                   "commit", "apply"}]
           /\ phase' \in {"starting", "up", "down"}
           /\ pc'[p] = "idle"
           /\ \A q \in Threads \ {p} : pc'[q] = pc[q] /\ calls'[q] = calls[q]
    BY DEF Abort, TypeOK

(* A goroutine that is not appending, or appended, has nothing to know     *)
(* but that it has a call to make.                                         *)
LEMMA PlainThread ==
    ASSUME NEW p \in Threads, pc'[p] \in {"idle", "refresh", "folding", "check"},
           pc'[p] # "idle" => calls'[p] # << >>
    PROVE  ThreadOK(p)'
    BY DEF ThreadOK

LEMMA CallTyped ==
    /\ \A t \in TxIDs : \A op \in {"post", "settle", "finalize", "seed", "convert"} :
         Call(op, t) \in Calls
    /\ \A a \in Accounts : Call("open", a) \in Calls /\ Call("ensure", a) \in Calls
    /\ Call("read", Nobody) \in Calls
    BY DEF Call, Calls, TxCalls, AccountCalls

LEMMA BeginStep ==
    ASSUME LogInv, NEW p \in Procs, NEW cs \in Seq(Calls), cs # << >>, Begin(p, cs),
           issued' \subseteq TxIDs \cup Accounts, manual' \in 0..MaxManual
    PROVE  LogInv'
    <1>1. p \in Threads
        BY DEF Threads
    <1>2. /\ pc'[p] = "refresh" /\ calls'[p] = cs
          /\ UNCHANGED <<log, accounts, status>>
          /\ \A q \in Threads \ {p} : /\ pc'[q] = pc[q] /\ calls'[q] = calls[q]
                                      /\ seq'[q] = seq[q]
        BY <1>1 DEF Begin, LogInv, TypeOK, store, proj
    <1>3. TypeOK'
        BY <1>1 DEF Begin, LogInv, TypeOK, store, proj
    <1>4. LogGrows /\ LegalLog' /\ ProjectionOK'
        BY <1>2, LogKept, ProjectionKept
    <1>5. ThreadOK(p)'
        BY <1>1, <1>2, PlainThread
    <1>6. \A q \in Threads \ {p} : pc[q] = "commit" => seq[q] \notin DOMAIN log'
        BY <1>2 DEF LogInv, ThreadOK
    <1>7. QED
        BY <1>1, <1>2, <1>3, <1>4, <1>5, <1>6, LogInvStep

LEMMA RequestStep ==
    ASSUME LogInv, NEW p \in Procs, Request(p)
    PROVE  LogInv'
    <1>1. issued \subseteq TxIDs \cup Accounts /\ manual \in 0..MaxManual
        BY DEF LogInv, TypeOK
    <1>2. CASE OpenAccount(p)
        <2>1. PICK a \in Accounts : /\ Begin(p, <<Call("open", a)>>)
                                    /\ issued' = issued \cup {a}
                                    /\ UNCHANGED manual
            BY <1>2 DEF OpenAccount
        <2>2. <<Call("open", a)>> \in Seq(Calls) /\ <<Call("open", a)>> # << >>
            BY CallTyped
        <2>3. QED
            BY <1>1, <2>1, <2>2, BeginStep
    <1>3. CASE PostAndFinalize(p)
        <2>1. PICK t \in TxIDs :
                /\ Begin(p, <<Call("post", t), Call("settle", t), Call("finalize", t)>>)
                /\ issued' = issued \cup {t}
                /\ UNCHANGED manual
            BY <1>3 DEF PostAndFinalize
        <2> DEFINE cs == <<Call("post", t), Call("settle", t), Call("finalize", t)>>
        <2>2. cs \in Seq(Calls) /\ cs # << >>
            BY CallTyped
        <2> HIDE DEF cs
        <2>3. QED
            BY <1>1, <2>1, <2>2, BeginStep DEF cs
    <1>4. CASE Convert(p)
        <2>1. PICK t \in DOMAIN Linked :
                /\ Begin(p, <<Call("convert", t), Call("post", t), Call("post", Linked[t]),
                              Call("settle", t), Call("finalize", t),
                              Call("settle", Linked[t]), Call("finalize", Linked[t])>>)
                /\ issued' = issued \cup {t, Linked[t]}
                /\ UNCHANGED manual
            BY <1>4 DEF Convert
        <2> DEFINE cs == <<Call("convert", t), Call("post", t), Call("post", Linked[t]),
                           Call("settle", t), Call("finalize", t),
                           Call("settle", Linked[t]), Call("finalize", Linked[t])>>
        <2>2. t \in TxIDs /\ Linked[t] \in TxIDs
            BY LedgerAssumption
        <2>3. cs \in Seq(Calls) /\ cs # << >>
            BY <2>2, CallTyped
        <2> HIDE DEF cs
        <2>4. QED
            BY <1>1, <2>1, <2>2, <2>3, BeginStep DEF cs
    <1>5. ASSUME NEW op \in {"settle", "finalize"}, Manual(p, op)
          PROVE  LogInv'
        <2>1. PICK t \in TxIDs : Begin(p, <<Call(op, t)>>)
            BY <1>5 DEF Manual
        <2>2. <<Call(op, t)>> \in Seq(Calls) /\ <<Call(op, t)>> # << >>
            BY CallTyped
        <2>3. manual' \in 0..MaxManual /\ issued' = issued
            BY <1>1, <1>5, LedgerAssumption DEF Manual
        <2>4. QED
            BY <1>1, <2>1, <2>2, <2>3, BeginStep
    <1>6. CASE Read(p)
        <2>1. <<Call("read", Nobody)>> \in Seq(Calls) /\ <<Call("read", Nobody)>> # << >>
            BY CallTyped
        <2>2. QED
            BY <1>1, <1>6, <2>1, BeginStep DEF Read
    <1>7. QED
        BY <1>2, <1>3, <1>4, <1>5, <1>6 DEF Request, Settle, Finalize

-----------------------------------------------------------------------------
(* A step of p that leaves the log, accounts and statuses alone.           *)
LEMMA QuietStep ==
    ASSUME LogInv, NEW p \in Threads, TypeOK', UNCHANGED <<log, accounts, status>>,
           \A q \in Threads \ {p} :
             pc'[q] = pc[q] /\ calls'[q] = calls[q] /\ seq'[q] = seq[q],
           pc'[p] \notin {"commit", "apply"},
           ThreadOK(p)'
    PROVE  LogInv'
    <1>1. LogGrows /\ LegalLog' /\ ProjectionOK'
        BY LogKept, ProjectionKept
    <1>2. \A q \in Threads \ {p} : pc[q] = "commit" => seq[q] \notin DOMAIN log'
        BY DEF LogInv, ThreadOK
    <1>3. QED
        BY <1>1, <1>2, LogInvStep

LEMMA RefreshStep ==
    ASSUME LogInv, NEW p \in Threads, Refresh(p)
    PROVE  LogInv'
    <1>1. /\ pc'[p] = "folding" /\ calls'[p] = calls[p] /\ calls[p] # << >>
          /\ \A q \in Threads \ {p} : /\ pc'[q] = pc[q] /\ calls'[q] = calls[q]
                                      /\ seq'[q] = seq[q]
        BY DEF Refresh, Unseen, LogInv, TypeOK, ThreadOK
    <1>2. TypeOK' /\ UNCHANGED <<log, accounts, status>>
        BY DEF Refresh, Unseen, LogInv, TypeOK, store, proj
    <1>3. ThreadOK(p)'
        BY <1>1, PlainThread
    <1>4. QED
        BY <1>1, <1>2, <1>3, QuietStep

LEMMA RefreshDoneStep ==
    ASSUME LogInv, NEW p \in Threads, RefreshDone(p)
    PROVE  LogInv'
    <1>1. /\ pc'[p] = "check" /\ calls'[p] = calls[p] /\ calls[p] # << >>
          /\ \A q \in Threads \ {p} : /\ pc'[q] = pc[q] /\ calls'[q] = calls[q]
                                      /\ seq'[q] = seq[q]
        BY DEF RefreshDone, LogInv, TypeOK, ThreadOK
    <1>2. TypeOK' /\ UNCHANGED <<log, accounts, status>>
        BY DEF RefreshDone, LogInv, TypeOK, store, proj
    <1>3. ThreadOK(p)'
        BY <1>1, PlainThread
    <1>4. QED
        BY <1>1, <1>2, <1>3, QuietStep

LEMMA RefreshApplyStep ==
    ASSUME LogInv, NEW p \in Threads, RefreshApply(p)
    PROVE  LogInv'
    <1>1. PICK s \in batch : ApplyEvent(s) /\ batch' = batch \ {s}
        BY DEF RefreshApply, Earliest
    <1>2. s \in DOMAIN log /\ UNCHANGED <<log, nextSeq, pc, calls, seq>>
        BY DEF RefreshApply, Earliest, LogInv, TypeOK, store, threads
    <1>3. /\ accounts' \subseteq Accounts
          /\ status' \in [TxIDs -> Statuses]
          /\ debit' \in [Accounts -> Nat] /\ credit' \in [Accounts -> Nat]
          /\ lastSeq' \in 0..nextSeq
          /\ applied' \in [DOMAIN log -> Nat]
          /\ ProjectionOK'
        BY <1>1, <1>2, ApplyKeeps
    <1>4. TypeOK'
        BY <1>1, <1>2, <1>3 DEF RefreshApply, Earliest, LogInv, TypeOK
    <1>5. LogGrows /\ LegalLog'
        BY <1>2, LogKept
    <1>6. \A q \in Threads : pc[q] = "commit" => seq[q] \notin DOMAIN log'
        BY <1>2 DEF LogInv, ThreadOK
    <1>7. \A q \in Threads : ThreadOK(q)'
        BY <1>2, <1>5, <1>6, OtherThread
    <1>8. SeqsDiffer'
        BY <1>2 DEF LogInv, SeqsDiffer
    <1>9. QED
        BY <1>3, <1>4, <1>5, <1>7, <1>8 DEF LogInv

(* A check that does not lead to an append.                                *)
LEMMA CheckEndStep ==
    ASSUME LogInv, NEW p \in Threads, CheckSilent(p) \/ CheckReject(p)
    PROVE  LogInv'
    <1>1. /\ calls[p] # << >> /\ UNCHANGED <<log, accounts, status, seq>> /\ CheckFrame
        BY DEF CheckSilent, CheckReject, CheckFrame, LogInv, ThreadOK, store, proj
    <1>2. AfterSilent(calls[p]) \in Seq(Calls)
        BY <1>1, HeadCall, EmptySeq DEF AfterSilent, LogInv
    <1>3. CASE CheckSilent(p)
        <2>1. Continue(p, AfterSilent(calls[p]))
            BY <1>3 DEF CheckSilent
        <2>2. /\ calls' \in [Threads -> Seq(Calls)]
              /\ pc' \in [Threads -> {"idle", "refresh", "folding", "check", "append",
                                      "commit", "apply"}]
              /\ phase' \in {"starting", "up", "down"}
              /\ calls'[p] = AfterSilent(calls[p])
              /\ pc'[p] = IF AfterSilent(calls[p]) = << >> THEN "idle" ELSE "refresh"
              /\ \A q \in Threads \ {p} : pc'[q] = pc[q] /\ calls'[q] = calls[q]
            BY <1>2, <2>1, ContinueTyped DEF LogInv
        <2>3. TypeOK'
            BY <1>1, <2>2 DEF CheckFrame, LogInv, TypeOK, store, proj
        <2>4. ThreadOK(p)'
            BY <2>2, PlainThread
        <2>5. QED
            BY <1>1, <2>2, <2>3, <2>4, QuietStep
    <1>4. CASE CheckReject(p)
        <2>1. Abort(p)
            BY <1>4 DEF CheckReject
        <2>2. /\ calls' \in [Threads -> Seq(Calls)]
              /\ pc' \in [Threads -> {"idle", "refresh", "folding", "check", "append",
                                      "commit", "apply"}]
              /\ phase' \in {"starting", "up", "down"}
              /\ pc'[p] = "idle"
              /\ \A q \in Threads \ {p} : pc'[q] = pc[q] /\ calls'[q] = calls[q]
            BY <2>1, AbortTyped DEF LogInv
        <2>3. TypeOK'
            BY <1>1, <2>2 DEF CheckFrame, LogInv, TypeOK, store, proj
        <2>4. ThreadOK(p)'
            BY <2>2, PlainThread
        <2>5. QED
            BY <1>1, <2>2, <2>3, <2>4, QuietStep
    <1>5. QED
        BY <1>3, <1>4

(* What a call requires of the projection, the projection has from the     *)
(* log: so the event may stand after all that is logged now.               *)
LEMMA AllowedIsLegal ==
    ASSUME LogInv, NEW c \in Calls, Allowed(c)
    PROVE  c.op \in EventOps /\ J!Legal(EventOf(c), Logged)
    <1>1. CASE c.op \in {"open", "ensure"}
        BY <1>1 DEF EventOps, EventOf, J!Legal
    <1>2. CASE c.op \in {"post", "seed"}
        <2>1. validate(c.id) /\ EventOf(c).type = "posted" /\ EventOf(c).id = c.id
            BY <1>2 DEF Allowed, transition, EventOf
        <2>2. \A a \in EntryAccounts(c.id) : Opened(a) \in Logged
            BY <2>1 DEF validate, LogInv, ProjectionOK
        <2>3. c.id \in SoundTxs /\ TouchedAccounts[c.id] = EntryAccounts(c.id)
            BY <1>2, <2>1 DEF validate, SoundTxs, TouchedAccounts, Calls, TxCalls,
               AccountCalls
        <2>4. QED
            BY <1>2, <2>1, <2>2, <2>3 DEF EventOps, J!Legal, J!Opened, Opened
    <1>3. CASE c.op = "settle"
        <2>1. c.id \in TxIDs /\ status[c.id] = "pending"
            BY <1>3 DEF Allowed, transition, Calls, TxCalls, AccountCalls
        <2>2. QED
            BY <1>3, <2>1 DEF LogInv, ProjectionOK, EventOps, EventOf, J!Legal,
               J!Posted, Posted
    <1>4. CASE c.op = "finalize"
        <2>1. c.id \in TxIDs /\ status[c.id] = "settled"
            BY <1>4 DEF Allowed, transition, Calls, TxCalls, AccountCalls
        <2>2. QED
            BY <1>4, <2>1 DEF LogInv, ProjectionOK, EventOps, EventOf, J!Legal,
               J!Settled, Settled
    <1>5. QED
        BY <1>1, <1>2, <1>3, <1>4 DEF Allowed, transition

LEMMA CheckPassStep ==
    ASSUME LogInv, NEW p \in Threads, CheckPass(p)
    PROVE  LogInv'
    <1>1. /\ calls[p] # << >> /\ UNCHANGED <<log, accounts, status, seq, calls, phase>>
          /\ CheckFrame /\ Allowed(Head(calls[p]))
        BY DEF CheckPass, CheckFrame, LogInv, ThreadOK, store, proj
    <1>2. /\ pc'[p] = "append"
          /\ \A q \in Threads \ {p} : pc'[q] = pc[q]
          /\ pc' \in [Threads -> {"idle", "refresh", "folding", "check", "append",
                                  "commit", "apply"}]
        BY DEF CheckPass, LogInv, TypeOK
    <1>3. /\ Head(calls[p]).op \in EventOps
          /\ J!Legal(EventOf(Head(calls[p])), Logged)
        BY <1>1, HeadCall, AllowedIsLegal DEF LogInv
    <1>4. ThreadOK(p)'
        BY <1>1, <1>2, <1>3 DEF ThreadOK, Logged
    <1>5. TypeOK'
        BY <1>1, <1>2 DEF CheckFrame, LogInv, TypeOK, store, proj
    <1>6. QED
        BY <1>1, <1>2, <1>4, <1>5, QuietStep

-----------------------------------------------------------------------------
(* The row becomes visible: a legal event is added to the log at a number  *)
(* that no row has.                                                        *)
LEMMA CommitEffect ==
    ASSUME LogInv, NEW p \in Threads, NEW s \in Nat \ {0}, s \notin DOMAIN log,
           Commit(p, s), calls[p] # << >>, Head(calls[p]).op \in EventOps,
           J!Legal(EventOf(Head(calls[p])), J!EventsBefore(log, s))
    PROVE  /\ DOMAIN log' = DOMAIN log \cup {s}
           /\ log' \in [DOMAIN log' -> Event]
           /\ applied' \in [DOMAIN log' -> Nat]
           /\ applied'[s] = 0 /\ \A r \in DOMAIN log : applied'[r] = applied[r]
           /\ LogGrows /\ LegalLog' /\ ProjectionOK'
           /\ J!Next
    <1> DEFINE e == EventOf(Head(calls[p]))
    <1>1. e \in Event
        BY HeadCall, EventTyped DEF LogInv
    <1>2. DOMAIN log \subseteq Nat /\ DOMAIN applied = DOMAIN log
        BY DEF LogInv, TypeOK
    <1>3. /\ log' = Extend(log, s, e) /\ applied' = Extend(applied, s, 0)
          /\ UNCHANGED <<accounts, status>>
        BY DEF Commit
    <1> HIDE DEF e
    <1>4. /\ DOMAIN log' = DOMAIN log \cup {s} /\ log'[s] = e
          /\ \A r \in DOMAIN log : log'[r] = log[r]
        BY <1>3 DEF Extend
    <1>5. /\ DOMAIN applied' = DOMAIN applied \cup {s} /\ applied'[s] = 0
          /\ \A r \in DOMAIN applied : applied'[r] = applied[r]
        BY <1>2, <1>3 DEF Extend
    <1>6. log' \in [DOMAIN log' -> Event]
        BY <1>1, <1>3, <1>4 DEF Extend, LogInv, TypeOK
    <1>7. applied' \in [DOMAIN log' -> Nat]
        BY <1>2, <1>3, <1>4, <1>5 DEF Extend, LogInv, TypeOK
    <1>8. LogGrows
        BY <1>4 DEF LogGrows
    <1>9. ProjectionOK'
        BY <1>3, <1>8, ProjectionKept
    <1>10. \A r : J!EventsBefore(log, r) \subseteq J!EventsBefore(log', r)
        BY <1>8, GrowthKeeps
    <1>11. LegalLog'
        <2> SUFFICES ASSUME NEW r \in DOMAIN log'
                     PROVE  J!Legal(log'[r], J!EventsBefore(log', r))
            BY DEF LegalLog, J!LegalLog
        <2>1. CASE r = s
            BY <2>1, <1>4, <1>10, LegalMonotone DEF e
        <2>2. CASE r # s
            <3>1. J!Legal(log[r], J!EventsBefore(log, r))
                BY <2>2, <1>4 DEF LogInv, LegalLog, J!LegalLog
            <3>2. QED
                BY <2>2, <3>1, <1>4, <1>10, LegalMonotone
        <2>3. QED
            BY <2>1, <2>2
    <1>12. J!Next
        <2>1. s \in DOMAIN log' \ DOMAIN log /\ s \in Nat \ {0} /\ log'[s] \in Event
            BY <1>1, <1>4
        <2>2. J!Record(s, log'[s])
            BY <1>3, <1>4 DEF J!Record, J!Extend, Extend, e
        <2>3. QED
            BY <2>1, <2>2 DEF J!Next, J!Event, Event
    <1>13. QED
        BY <1>2, <1>4, <1>5, <1>6, <1>7, <1>8, <1>9, <1>11, <1>12

(* memstore.Append, with the number after all the others.                  *)
LEMMA MemAppendStep ==
    ASSUME LogInv, NEW p \in Threads, MemAppend(p)
    PROVE  LogInv' /\ J!Next
    <1> DEFINE s == nextSeq + 1
    <1>1. /\ s \in Nat \ {0} /\ s \notin DOMAIN log /\ nextSeq \in Nat
          /\ calls[p] # << >> /\ Head(calls[p]).op \in EventOps
          /\ J!Legal(EventOf(Head(calls[p])), Logged)
        BY DEF MemAppend, LogInv, TypeOK, ThreadOK
    <1>2. Logged \subseteq J!EventsBefore(log, s)
        BY DEF Logged, J!EventsBefore, LogInv, TypeOK
    <1>3. J!Legal(EventOf(Head(calls[p])), J!EventsBefore(log, s))
        BY <1>1, <1>2, LegalMonotone
    <1>4. Commit(p, s)
        BY DEF MemAppend
    <1>5. /\ DOMAIN log' = DOMAIN log \cup {s}
          /\ log' \in [DOMAIN log' -> Event]
          /\ applied' \in [DOMAIN log' -> Nat]
          /\ LogGrows /\ LegalLog' /\ ProjectionOK'
          /\ J!Next
        BY <1>1, <1>3, <1>4, CommitEffect
    <1>6. /\ pc'[p] = "apply" /\ seq'[p] = s /\ calls'[p] = calls[p]
          /\ \A q \in Threads \ {p} : /\ pc'[q] = pc[q] /\ calls'[q] = calls[q]
                                      /\ seq'[q] = seq[q]
        BY DEF MemAppend, LogInv, TypeOK
    <1>7. \A q \in Threads \ {p} :
            /\ pc[q] = "commit" => seq[q] \notin DOMAIN log'
            /\ seq'[p] # seq[q]
        BY <1>1, <1>5, <1>6 DEF LogInv, TypeOK, ThreadOK
    <1>8. ThreadOK(p)'
        BY <1>1, <1>5, <1>6 DEF ThreadOK
    <1>9. TypeOK'
        BY <1>1, <1>4, <1>5 DEF MemAppend, Commit, LogInv, TypeOK
    <1>10. QED
        BY <1>5, <1>6, <1>7, <1>8, <1>9, LogInvStep

(* pgstore.Append, the INSERT: the number is above all in use, so the      *)
(* event may stand there.                                                  *)
LEMMA PgInsertStep ==
    ASSUME LogInv, NEW p \in Threads, PgInsert(p)
    PROVE  LogInv'
    <1> DEFINE s == nextSeq + 1
    <1>1. /\ s \in Nat \ {0} /\ s \notin DOMAIN log /\ nextSeq \in Nat
          /\ calls[p] # << >> /\ Head(calls[p]).op \in EventOps
          /\ J!Legal(EventOf(Head(calls[p])), Logged)
        BY DEF PgInsert, LogInv, TypeOK, ThreadOK
    <1>2. Logged \subseteq J!EventsBefore(log, s)
        BY DEF Logged, J!EventsBefore, LogInv, TypeOK
    <1>3. J!Legal(EventOf(Head(calls[p])), J!EventsBefore(log, s))
        BY <1>1, <1>2, LegalMonotone
    <1>4. UNCHANGED <<log, accounts, status>>
        BY DEF PgInsert, proj
    <1>5. LogGrows /\ LegalLog' /\ ProjectionOK'
        BY <1>4, LogKept, ProjectionKept
    <1>6. /\ pc'[p] = "commit" /\ seq'[p] = s /\ calls'[p] = calls[p]
          /\ \A q \in Threads \ {p} : /\ pc'[q] = pc[q] /\ calls'[q] = calls[q]
                                      /\ seq'[q] = seq[q]
        BY DEF PgInsert, LogInv, TypeOK
    <1>7. \A q \in Threads \ {p} :
            /\ pc[q] = "commit" => seq[q] \notin DOMAIN log'
            /\ seq'[p] # seq[q]
        BY <1>1, <1>4, <1>6 DEF LogInv, TypeOK, ThreadOK
    <1>8. ThreadOK(p)'
        BY <1>1, <1>3, <1>4, <1>6 DEF ThreadOK
    <1>9. TypeOK'
        BY <1>1 DEF PgInsert, LogInv, TypeOK, proj
    <1>10. QED
        BY <1>5, <1>6, <1>7, <1>8, <1>9, LogInvStep

(* The COMMIT, whether or not its answer arrives.                          *)
LEMMA PgCommitStep ==
    ASSUME LogInv, NEW p \in Threads, PgCommit(p) \/ PgCommitLost(p)
    PROVE  LogInv' /\ J!Next
    <1> DEFINE s == seq[p]
    <1>1. /\ s \in Nat \ {0} /\ s \notin DOMAIN log /\ s <= nextSeq /\ nextSeq \in Nat
          /\ calls[p] # << >> /\ Head(calls[p]).op \in EventOps
          /\ J!Legal(EventOf(Head(calls[p])), J!EventsBefore(log, s))
          /\ pc[p] = "commit"
        BY DEF PgCommit, PgCommitLost, LogInv, TypeOK, ThreadOK
    <1>2. Commit(p, s) /\ UNCHANGED nextSeq
        BY DEF PgCommit, PgCommitLost
    <1>3. /\ DOMAIN log' = DOMAIN log \cup {s}
          /\ log' \in [DOMAIN log' -> Event]
          /\ applied' \in [DOMAIN log' -> Nat]
          /\ LogGrows /\ LegalLog' /\ ProjectionOK'
          /\ J!Next
        BY <1>1, <1>2, CommitEffect
    <1>4. \A q \in Threads \ {p} :
            pc[q] \in {"commit", "apply"} => seq[q] # s
        BY <1>1 DEF LogInv, SeqsDiffer
    <1>5. \A q \in Threads \ {p} : pc[q] = "commit" => seq[q] \notin DOMAIN log'
        BY <1>3, <1>4 DEF LogInv, ThreadOK
    <1>6. CASE PgCommit(p)
        <2>1. /\ pc'[p] = "apply" /\ seq'[p] = s /\ calls'[p] = calls[p]
              /\ \A q \in Threads \ {p} : /\ pc'[q] = pc[q] /\ calls'[q] = calls[q]
                                          /\ seq'[q] = seq[q]
            BY <1>6 DEF PgCommit, LogInv, TypeOK
        <2>2. ThreadOK(p)'
            BY <2>1, <1>1, <1>3 DEF ThreadOK
        <2>3. TypeOK'
            BY <1>1, <1>2, <1>3, <1>6 DEF PgCommit, Commit, LogInv, TypeOK
        <2>4. QED
            BY <2>1, <2>2, <2>3, <1>3, <1>4, <1>5, LogInvStep
    <1>7. CASE PgCommitLost(p)
        <2>1. Abort(p)
            BY <1>7 DEF PgCommitLost
        <2>2. /\ calls' \in [Threads -> Seq(Calls)]
              /\ pc' \in [Threads -> {"idle", "refresh", "folding", "check", "append",
                                      "commit", "apply"}]
              /\ phase' \in {"starting", "up", "down"}
              /\ pc'[p] = "idle"
              /\ \A q \in Threads \ {p} : pc'[q] = pc[q] /\ calls'[q] = calls[q]
            BY <2>1, AbortTyped DEF LogInv
        <2>3. \A q \in Threads \ {p} : seq'[q] = seq[q]
            BY <1>7 DEF PgCommitLost, LogInv, TypeOK
        <2>4. ThreadOK(p)'
            BY <2>2, PlainThread
        <2>5. faults' \in 0..MaxFaults
            BY <1>7, LedgerAssumption DEF PgCommitLost, LogInv, TypeOK
        <2>6. TypeOK'
            <3>1. lost' \subseteq DOMAIN log' /\ batch' \subseteq DOMAIN log'
                BY <1>3, <1>7 DEF PgCommitLost, LogInv, TypeOK
            <3>2. seq' \in [Threads -> 0..nextSeq] /\ DOMAIN log' \subseteq 1..nextSeq
                BY <1>1, <1>3, <1>7 DEF PgCommitLost, LogInv, TypeOK
            <3>3. UNCHANGED <<nextSeq, mu, issued, manual, accounts, status, debit,
                              credit, lastSeq>>
                BY <1>2, <1>7 DEF PgCommitLost, Commit
            <3>4. QED
                BY <1>3, <2>2, <2>5, <3>1, <3>2, <3>3 DEF LogInv, TypeOK
        <2>7. QED
            BY <2>2, <2>3, <2>4, <2>6, <1>3, <1>5, LogInvStep
    <1>8. QED
        BY <1>6, <1>7

LEMMA StoreErrorStep ==
    ASSUME LogInv, NEW p \in Threads, StoreError(p)
    PROVE  LogInv'
    <1>1. Abort(p) /\ UNCHANGED <<log, accounts, status>>
        BY DEF StoreError, store, proj
    <1>2. /\ calls' \in [Threads -> Seq(Calls)]
          /\ pc' \in [Threads -> {"idle", "refresh", "folding", "check", "append",
                                  "commit", "apply"}]
          /\ phase' \in {"starting", "up", "down"}
          /\ pc'[p] = "idle"
          /\ \A q \in Threads \ {p} : pc'[q] = pc[q] /\ calls'[q] = calls[q]
        BY <1>1, AbortTyped DEF LogInv
    <1>3. /\ \A q \in Threads \ {p} : seq'[q] = seq[q]
          /\ seq' \in [Threads -> 0..nextSeq]
        BY DEF StoreError, LogInv, TypeOK
    <1>4. ThreadOK(p)'
        BY <1>2, PlainThread
    <1>5. faults' \in 0..MaxFaults
        BY LedgerAssumption DEF StoreError, LogInv, TypeOK
    <1>6. TypeOK'
        BY <1>2, <1>3, <1>5 DEF StoreError, LogInv, TypeOK, store, proj
    <1>7. QED
        BY <1>1, <1>2, <1>3, <1>4, <1>6, QuietStep

LEMMA ApplyAppendedStep ==
    ASSUME LogInv, NEW p \in Threads, ApplyAppended(p)
    PROVE  LogInv'
    <1>1. /\ seq[p] \in DOMAIN log /\ ApplyEvent(seq[p]) /\ calls[p] # << >>
          /\ UNCHANGED <<log, nextSeq>> /\ Continue(p, Tail(calls[p]))
        BY DEF ApplyAppended, LogInv, ThreadOK, store
    <1>2. /\ accounts' \subseteq Accounts
          /\ status' \in [TxIDs -> Statuses]
          /\ debit' \in [Accounts -> Nat] /\ credit' \in [Accounts -> Nat]
          /\ lastSeq' \in 0..nextSeq
          /\ applied' \in [DOMAIN log -> Nat]
          /\ ProjectionOK'
        BY <1>1, ApplyKeeps
    <1>3. Tail(calls[p]) \in Seq(Calls)
        BY <1>1, HeadCall DEF LogInv
    <1>4. /\ calls' \in [Threads -> Seq(Calls)]
          /\ pc' \in [Threads -> {"idle", "refresh", "folding", "check", "append",
                                  "commit", "apply"}]
          /\ phase' \in {"starting", "up", "down"}
          /\ calls'[p] = Tail(calls[p])
          /\ pc'[p] = IF Tail(calls[p]) = << >> THEN "idle" ELSE "refresh"
          /\ \A q \in Threads \ {p} : pc'[q] = pc[q] /\ calls'[q] = calls[q]
        BY <1>1, <1>3, ContinueTyped DEF LogInv
    <1>5. /\ \A q \in Threads \ {p} : seq'[q] = seq[q]
          /\ seq' \in [Threads -> 0..nextSeq]
        BY DEF ApplyAppended, LogInv, TypeOK
    <1>6. ThreadOK(p)'
        BY <1>4, PlainThread
    <1>7. TypeOK'
        BY <1>1, <1>2, <1>4, <1>5 DEF ApplyAppended, LogInv, TypeOK, store
    <1>8. LogGrows /\ LegalLog'
        BY <1>1, LogKept
    <1>9. \A q \in Threads \ {p} : pc[q] = "commit" => seq[q] \notin DOMAIN log'
        BY <1>1 DEF LogInv, ThreadOK
    <1>10. QED
        BY <1>2, <1>4, <1>5, <1>6, <1>7, <1>8, <1>9, LogInvStep

-----------------------------------------------------------------------------
(* The calls of main() are calls, and there is at least one.               *)
LEMMA StartupTyped ==
    ASSUME NEW t \in TxIDs
    PROVE  StartupCalls(t) \in Seq(Calls) /\ StartupCalls(t) # << >>
    <1> DEFINE open == [i \in 1..Len(SystemAccounts) |-> Call("ensure", SystemAccounts[i])]
               post == <<Call("seed", t), Call("settle", t), Call("finalize", t)>>
    <1>1. open \in Seq(Calls)
        BY LedgerAssumption, CallTyped
    <1>2. post \in Seq(Calls) /\ Len(post) = 3
        BY CallTyped
    <1>3. Len(open \o post) = Len(open) + Len(post) /\ open \o post \in Seq(Calls)
        BY <1>1, <1>2, ConcatProperties
    <1>4. Len(open \o post) # 0
        BY <1>1, <1>2, <1>3, LenProperties
    <1>5. open \o post # << >>
        BY <1>4
    <1>6. QED
        BY <1>3, <1>5 DEF StartupCalls

LEMMA InitLogInv == Init => LogInv
    <1> SUFFICES ASSUME Init PROVE LogInv
        OBVIOUS
    <1>1. PICK t \in SeedTxs : /\ calls = [p \in Threads |->
                                      IF p = Main THEN StartupCalls(t) ELSE << >>]
                               /\ issued = {t}
        BY DEF Init
    <1>2. t \in TxIDs /\ Main \in Threads
        BY DEF SeedTxs, Threads
    <1>3. StartupCalls(t) \in Seq(Calls) /\ StartupCalls(t) # << >>
        BY <1>2, StartupTyped
    <1>4. calls \in [Threads -> Seq(Calls)] /\ calls[Main] # << >>
        BY <1>1, <1>2, <1>3, EmptySeq
    <1>5. TypeOK
        <2>1. /\ DOMAIN log = {} /\ log \in [DOMAIN log -> Event]
              /\ applied \in [DOMAIN log -> Nat]
            BY DEF Init
        <2>2. /\ status \in [TxIDs -> Statuses]
              /\ debit \in [Accounts -> Nat] /\ credit \in [Accounts -> Nat]
            BY DEF Init, Statuses
        <2>3. /\ pc \in [Threads -> {"idle", "refresh", "folding", "check", "append",
                                     "commit", "apply"}]
              /\ seq \in [Threads -> 0..nextSeq]
            BY DEF Init
        <2>4. manual \in 0..MaxManual /\ faults \in 0..MaxFaults
            BY LedgerAssumption DEF Init
        <2>5. QED
            BY <1>1, <1>2, <1>4, <2>1, <2>2, <2>3, <2>4 DEF Init, TypeOK
    <1>6. \A p \in Threads : ThreadOK(p)
        BY <1>4 DEF Init, ThreadOK
    <1>7. SeqsDiffer /\ ProjectionOK /\ LegalLog
        BY DEF Init, SeqsDiffer, ProjectionOK, LegalLog, J!LegalLog
    <1>8. QED
        BY <1>5, <1>6, <1>7 DEF LogInv

LEMMA RestartStep ==
    ASSUME LogInv, Restart, faults' \in 0..MaxFaults
    PROVE  LogInv'
    <1>1. PICK t \in SeedTxs : /\ calls' = [p \in Threads |->
                                      IF p = Main THEN StartupCalls(t) ELSE << >>]
                               /\ issued' = issued \cup {t}
        BY DEF Restart
    <1>2. t \in TxIDs /\ Main \in Threads
        BY DEF SeedTxs, Threads
    <1>3. StartupCalls(t) \in Seq(Calls) /\ StartupCalls(t) # << >>
        BY <1>2, StartupTyped
    <1>4. calls' \in [Threads -> Seq(Calls)] /\ calls'[Main] # << >>
        BY <1>1, <1>2, <1>3, EmptySeq
    <1>5. UNCHANGED <<log, nextSeq, manual>>
        BY DEF Restart, store
    <1>6. TypeOK'
        BY <1>1, <1>2, <1>4, <1>5 DEF Restart, EmptyProjection, LogInv, TypeOK, Statuses
    <1>7. \A p \in Threads : ThreadOK(p)'
        BY <1>4 DEF Restart, ThreadOK
    <1>8. SeqsDiffer' /\ ProjectionOK'
        BY DEF Restart, EmptyProjection, SeqsDiffer, ProjectionOK
    <1>9. LegalLog'
        BY <1>5, LogKept
    <1>10. QED
        BY <1>6, <1>7, <1>8, <1>9 DEF LogInv

(* Every step of the ledger preserves the invariant, and either leaves the *)
(* log alone or records one event in the journal.                          *)
LEMMA LogStep ==
    ASSUME LogInv, [Next]_vars
    PROVE  LogInv' /\ [J!Next]_log
    <1>1. ASSUME NEW p \in Procs, Request(p)
          PROVE  LogInv' /\ UNCHANGED log
        BY <1>1, RequestStep DEF Request, OpenAccount, PostAndFinalize, Convert,
           Settle, Finalize, Manual, Read, Begin, store
    <1>2. ASSUME NEW p \in Threads, LockStep(p)
          PROVE  LogInv' /\ UNCHANGED log
        <2>1. CASE Refresh(p)
            BY <2>1, RefreshStep DEF Refresh, Unseen, store
        <2>2. CASE CheckSilent(p) \/ CheckReject(p)
            BY <2>2, CheckEndStep DEF CheckSilent, CheckReject, CheckFrame, store
        <2>3. CASE CheckPass(p)
            BY <2>3, CheckPassStep DEF CheckPass, CheckFrame, store
        <2>4. CASE ApplyAppended(p)
            BY <2>4, ApplyAppendedStep DEF ApplyAppended, store
        <2>5. QED
            BY <1>2, <2>1, <2>2, <2>3, <2>4 DEF LockStep
    <1>3. ASSUME NEW p \in Threads, FreeStep(p) \/ PgCommitLost(p) \/ StoreError(p)
          PROVE  LogInv' /\ [J!Next]_log
        <2>1. CASE RefreshApply(p)
            BY <2>1, RefreshApplyStep DEF RefreshApply, Earliest, store
        <2>2. CASE RefreshDone(p)
            BY <2>2, RefreshDoneStep DEF RefreshDone, store
        <2>3. CASE MemAppend(p)
            BY <2>3, MemAppendStep
        <2>4. CASE PgInsert(p)
            BY <2>4, PgInsertStep DEF PgInsert
        <2>5. CASE PgCommit(p) \/ PgCommitLost(p)
            BY <2>5, PgCommitStep
        <2>6. CASE StoreError(p)
            BY <2>6, StoreErrorStep DEF StoreError, store
        <2>7. QED
            BY <1>3, <2>1, <2>2, <2>3, <2>4, <2>5, <2>6 DEF FreeStep, AppendEvent
    <1>4. CASE Crash \/ StartAgain
        <2>1. faults' \in 0..MaxFaults
            BY <1>4, LedgerAssumption DEF Crash, StartAgain, LogInv, TypeOK
        <2>2. Restart
            BY <1>4 DEF Crash, StartAgain
        <2>3. QED
            BY <2>1, <2>2, RestartStep DEF Restart, store
    <1>5. CASE UNCHANGED vars
        BY <1>5 DEF vars, store, proj, threads, LogInv, TypeOK, ThreadOK, SeqsDiffer,
           ProjectionOK, Logged, LegalLog, J!LegalLog
    <1>6. QED
        BY <1>1, <1>2, <1>3, <1>4, <1>5 DEF Next, Step

(* Every variable of the ledger keeps its type.                            *)
THEOREM TypeCorrect == Spec => []TypeOK
    <1>1. Init => LogInv
        BY InitLogInv
    <1>2. LogInv /\ [Next]_vars => LogInv'
        BY LogStep
    <1>3. LogInv => TypeOK
        BY DEF LogInv
    <1>4. QED
        BY <1>1, <1>2, <1>3, PTL DEF Spec

(* Whatever Posts, Settles and Finalizes race, crash or are cut off, every *)
(* event of the log is preceded by those it depends on.                    *)
THEOREM LogIsLegal == Spec => []LegalLog
    <1>1. Init => LogInv
        BY InitLogInv
    <1>2. LogInv /\ [Next]_vars => LogInv'
        BY LogStep
    <1>3. LogInv => LegalLog
        BY DEF LogInv
    <1>4. QED
        BY <1>1, <1>2, <1>3, PTL DEF Spec

(* The ledger implements the journal.                                      *)
THEOREM ImplementsJournal == Spec => JournalSpec
    <1>1. Init => LogInv /\ J!Init
        BY InitLogInv DEF Init, J!Init
    <1>2. LogInv /\ [Next]_vars => LogInv' /\ [J!Next]_log
        BY LogStep
    <1>3. QED
        BY <1>1, <1>2, PTL DEF Spec, JournalSpec, J!Spec

-----------------------------------------------------------------------------
Balanced == \A c \in Currencies : SumOver(debit, Of(c)) = SumOver(credit, Of(c))

LEMMA BalancedIs == Balanced <=> TrialBalance
    BY DEF Balanced, TrialBalance, SumOver, Of

LEMMA ApplyBalances ==
    ASSUME LogInv, Balanced, NEW s \in DOMAIN log, ApplyEvent(s)
    PROVE  Balanced'
    <1> DEFINE e == log[s]
    <1>1. CASE e.type = "posted"
        <2>1. J!Legal(e, J!EventsBefore(log, s))
            BY DEF LogInv, LegalLog, J!LegalLog
        <2>2. e.id \in SoundTxs
            BY <1>1, <2>1 DEF J!Legal
        <2>3. /\ debit' = AddEntries(debit, e.id, "debit")
              /\ credit' = AddEntries(credit, e.id, "credit")
            BY <1>1 DEF ApplyEvent
        <2>4. debit \in [Accounts -> Nat] /\ credit \in [Accounts -> Nat]
            BY DEF LogInv, TypeOK
        <2> HIDE DEF e
        <2>5. \A c \in Currencies : SumOver(debit', Of(c)) = SumOver(credit', Of(c))
            BY <2>2, <2>3, <2>4, EntriesBalance DEF Balanced
        <2>6. QED
            BY <2>5 DEF Balanced
    <1>2. CASE e.type # "posted"
        <2>1. debit' = debit /\ credit' = credit
            BY <1>2 DEF ApplyEvent
        <2>2. QED
            BY <2>1 DEF Balanced
    <1>3. QED
        BY <1>1, <1>2

LEMMA NoMoney ==
    ASSUME debit = [a \in Accounts |-> 0], credit = [a \in Accounts |-> 0]
    PROVE  Balanced
    BY DEF Balanced

LEMMA BalancedStep ==
    ASSUME LogInv, Balanced, [Next]_vars
    PROVE  Balanced'
    <1>1. CASE UNCHANGED <<debit, credit>>
        BY <1>1 DEF Balanced
    <1>2. CASE \E s \in DOMAIN log : ApplyEvent(s)
        BY <1>2, ApplyBalances
    <1>3. CASE EmptyProjection
        <2>1. debit' = credit'
            BY <1>3 DEF EmptyProjection
        <2>2. QED
            BY <2>1 DEF Balanced
    <1>4. ASSUME NEW p \in Threads, RefreshApply(p)
          PROVE  \E s \in DOMAIN log : ApplyEvent(s)
        BY <1>4 DEF RefreshApply, LogInv, TypeOK
    <1>5. ASSUME NEW p \in Threads, ApplyAppended(p)
          PROVE  \E s \in DOMAIN log : ApplyEvent(s)
        BY <1>5 DEF ApplyAppended, LogInv, ThreadOK
    <1>6. ASSUME NEW p \in Threads, Refresh(p) \/ CheckSilent(p) \/ CheckPass(p)
                   \/ CheckReject(p) \/ RefreshDone(p) \/ AppendEvent(p)
                   \/ PgCommit(p) \/ PgCommitLost(p) \/ StoreError(p)
          PROVE  UNCHANGED <<debit, credit>>
        BY <1>6 DEF Refresh, CheckSilent, CheckPass, CheckReject, CheckFrame,
           RefreshDone, AppendEvent, MemAppend, PgInsert, PgCommit, PgCommitLost,
           Commit, StoreError, proj
    <1>7. ASSUME NEW p \in Procs, Request(p)
          PROVE  UNCHANGED <<debit, credit>>
        BY <1>7 DEF Request, OpenAccount, PostAndFinalize, Convert, Settle, Finalize,
           Manual, Read, Begin, proj
    <1>8. CASE Crash \/ StartAgain
        BY <1>3, <1>8 DEF Crash, StartAgain, Restart
    <1>9. CASE UNCHANGED vars
        BY <1>1, <1>9 DEF vars, proj
    <1>10. QED
        BY <1>1, <1>2, <1>4, <1>5, <1>6, <1>7, <1>8, <1>9
           DEF Next, Step, LockStep, FreeStep

(* Double entry survives the threads: over the accounts of every currency  *)
(* debits equal credits in every state of the projection, in the middle of *)
(* a refresh, after an event was folded in twice and after a restart, for  *)
(* any transactions and any number of their entries (Post, apply).         *)
THEOREM BooksBalance == Spec => []TrialBalance
    <1>1. Init => LogInv
        BY InitLogInv
    <1>2. Init => Balanced
        BY NoMoney DEF Init
    <1>3. LogInv /\ [Next]_vars => LogInv'
        BY LogStep
    <1>4. LogInv /\ Balanced /\ [Next]_vars => Balanced'
        BY BalancedStep
    <1>5. Balanced => TrialBalance
        BY BalancedIs
    <1>6. QED
        BY <1>1, <1>2, <1>3, <1>4, <1>5, PTL DEF Spec

-----------------------------------------------------------------------------
(* How events reach the projection.  refresh and applyAppended both fold   *)
(* events in, under the same mutex but without telling each other: every   *)
(* event is folded at least once before its request is answered, at most   *)
(* twice, and no settlement is folded before the posting it belongs to.    *)
(* From this follows what the checks under the mutex can rely on, and with *)
(* it that no event is written twice although check and append are two     *)
(* steps, and that a conversion's credit comes after its debit.            *)

(* The mutex is held by the goroutine that is folding, and only then does  *)
(* the batch hold events.                                                  *)
LockOK ==
    /\ mu # Nobody => pc[mu] = "folding"
    /\ \A p \in Threads : pc[p] = "folding" => mu = p
    /\ mu = Nobody => batch = {}

(* Requests run only while the server is up, main() only while it starts.  *)
PhaseOK ==
    /\ phase # "up" => \A p \in Procs : pc[p] = "idle"
    /\ phase # "starting" => pc[Main] = "idle"

Owned(s) == \E p \in Threads : pc[p] = "apply" /\ seq[p] = s

(* How often each event has been folded: never if it is beyond lastSeq,    *)
(* at most once while its own goroutine has still to do so.                *)
FoldOK ==
    /\ \A s \in DOMAIN log : /\ s > lastSeq => applied[s] = 0
                             /\ Owned(s) => applied[s] <= 1
                             /\ applied[s] <= 2
    /\ \A s \in batch : s > lastSeq

(* No refresh of this process has begun yet.                               *)
Fresh == phase = "starting" /\ pc[Main] = "refresh" /\ lastSeq = 0

(* An event not yet folded will be: by its goroutine, by the refresh that  *)
(* is running or by the first refresh of a process that is starting.       *)
Covered ==
    \A s \in DOMAIN log :
        s \in lost \/ applied[s] >= 1 \/ Owned(s) \/ s \in batch
          \/ Fresh \/ phase = "down"

PostedFolded(t) == \E s \in DOMAIN log : log[s] = Posted(t) /\ applied[s] >= 1

(* What follows a posting is folded after it.                              *)
FollowersOK ==
    /\ \A s \in DOMAIN log : log[s].type \in {"settled", "finalized"} =>
         \/ PostedFolded(log[s].id)
         \/ Fresh \/ phase = "down"
         \/ \E r \in batch : log[r] = Posted(log[s].id) /\ r < s
    /\ \A p \in Threads : pc[p] \in {"append", "commit"} /\
                          Head(calls[p]).op \in {"settle", "finalize"} =>
                             PostedFolded(Head(calls[p]).id)

FoldInv == LockOK /\ PhaseOK /\ FoldOK /\ Covered /\ ListedIsCounted /\ FollowersOK

Inv == LogInv /\ FoldInv

-----------------------------------------------------------------------------
(* While a goroutine works, the process has not failed; once one is past   *)
(* its refresh, the first refresh is over.                                 *)
LEMMA Working ==
    ASSUME Inv, NEW p \in Threads, pc[p] # "idle"
    PROVE  /\ phase # "down"
           /\ p = Main => phase = "starting"
           /\ p # Main => phase = "up" /\ p \in Procs
           /\ pc[p] # "refresh" => ~Fresh
    BY DEF Inv, FoldInv, PhaseOK, Fresh, LogInv, TypeOK, Threads

LEMMA ReturnPhase ==
    ASSUME Inv, NEW p \in Threads, pc[p] # "idle",
           (\E rest \in Seq(Calls) : Continue(p, rest)) \/ Abort(p)
    PROVE  PhaseOK'
    <1>1. /\ p = Main => phase = "starting"
          /\ p # Main => phase = "up" /\ p \in Procs
        BY Working
    <1>2. /\ pc \in [Threads -> {"idle", "refresh", "folding", "check", "append",
                                 "commit", "apply"}]
          /\ Main \in Threads /\ Procs \subseteq Threads /\ Main \notin Procs
        BY LedgerAssumption DEF Threads, Inv, LogInv, TypeOK
    <1>3. CASE Abort(p)
        BY <1>1, <1>2, <1>3 DEF Abort, Inv, FoldInv, PhaseOK
    <1>4. ASSUME NEW rest \in Seq(Calls), Continue(p, rest)
          PROVE  PhaseOK'
        BY <1>1, <1>2, <1>4 DEF Continue, Inv, FoldInv, PhaseOK
    <1>5. QED
        BY <1>3, <1>4

LEMMA SamePhase ==
    ASSUME Inv, NEW p \in Threads, pc[p] # "idle", UNCHANGED phase,
           \A q \in Threads \ {p} : pc'[q] = pc[q]
    PROVE  PhaseOK'
    <1>1. /\ p = Main => phase = "starting"
          /\ p # Main => phase = "up" /\ p \in Procs
        BY Working
    <1>2. Main \in Threads /\ Procs \subseteq Threads /\ Main \notin Procs
        BY LedgerAssumption DEF Threads
    <1>3. QED
        BY <1>1, <1>2 DEF Inv, FoldInv, PhaseOK

(* Folded postings stay folded.                                            *)
LEMMA PostedKept ==
    ASSUME Inv, LogGrows, NEW t, PostedFolded(t),
           \A s \in DOMAIN log : applied'[s] \in Nat /\ applied'[s] >= applied[s]
    PROVE  PostedFolded(t)'
    <1>1. PICK s \in DOMAIN log : log[s] = Posted(t) /\ applied[s] >= 1
        BY DEF PostedFolded
    <1>2. applied[s] \in Nat
        BY DEF Inv, LogInv, TypeOK
    <1>3. s \in DOMAIN log' /\ log'[s] = Posted(t) /\ applied'[s] >= 1
        BY <1>1, <1>2 DEF LogGrows
    <1>4. QED
        BY <1>3 DEF PostedFolded, Posted

(* A step of p that touches neither the log nor the projection nor the     *)
(* mutex.                                                                  *)
LEMMA QuietFold ==
    ASSUME Inv, NEW p \in Threads,
           UNCHANGED <<log, status, lastSeq, applied, mu, batch, lost>>,
           \A q \in Threads \ {p} :
             pc'[q] = pc[q] /\ calls'[q] = calls[q] /\ seq'[q] = seq[q],
           pc[p] \notin {"folding", "apply"},
           pc'[p] \notin {"folding", "apply"},
           PhaseOK',
           Fresh \/ phase = "down" => Fresh' \/ phase' = "down",
           pc'[p] \in {"append", "commit"} /\ Head(calls'[p]).op \in {"settle", "finalize"}
             => PostedFolded(Head(calls'[p]).id)
    PROVE  FoldInv'
    <1>1. LockOK'
        BY DEF Inv, FoldInv, LockOK, LogInv, TypeOK
    <1>2. \A s : Owned(s)' <=> Owned(s)
        BY DEF Owned
    <1>3. FoldOK'
        BY <1>2 DEF Inv, FoldInv, FoldOK
    <1>4. Covered'
        BY <1>2 DEF Inv, FoldInv, Covered
    <1>5. ListedIsCounted'
        BY DEF Inv, FoldInv, ListedIsCounted
    <1>6. \A t : PostedFolded(t)' <=> PostedFolded(t)
        BY DEF PostedFolded
    <1>7. FollowersOK'
        BY <1>6 DEF Inv, FoldInv, FollowersOK
    <1>8. QED
        BY <1>1, <1>3, <1>4, <1>5, <1>7 DEF FoldInv

-----------------------------------------------------------------------------
LEMMA RequestFold ==
    ASSUME Inv, NEW p \in Procs, Request(p)
    PROVE  FoldInv'
    <1>1. /\ phase = "up" /\ phase' = "up" /\ pc[p] = "idle" /\ pc'[p] = "refresh"
          /\ UNCHANGED <<log, status, lastSeq, applied, mu, batch, lost, seq>>
          /\ \A q \in Threads \ {p} : pc'[q] = pc[q] /\ calls'[q] = calls[q]
        BY DEF Request, OpenAccount, PostAndFinalize, Convert, Settle, Finalize,
           Manual, Read, Begin, store, proj, Inv, LogInv, TypeOK, Threads
    <1>2. p \in Threads /\ p # Main /\ Main \in Threads
        BY LedgerAssumption DEF Threads
    <1>3. PhaseOK'
        BY <1>1, <1>2 DEF Inv, FoldInv, PhaseOK
    <1>4. ~Fresh
        BY <1>1 DEF Fresh
    <1>5. QED
        BY <1>1, <1>2, <1>3, <1>4, QuietFold

(* The events an event of the log depends on, down to its posting.         *)
LEMMA PostedBefore ==
    ASSUME LogInv, NEW s \in DOMAIN log, log[s].type \in {"settled", "finalized"}
    PROVE  \E r \in DOMAIN log : log[r] = Posted(log[s].id) /\ r < s
    <1>1. \A u \in DOMAIN log : log[u].type = "settled" =>
            \E r \in DOMAIN log : log[r] = Posted(log[u].id) /\ r < u
        BY DEF LogInv, LegalLog, J!LegalLog, J!Legal, J!EventsBefore, J!Posted, Posted
    <1>2. CASE log[s].type = "settled"
        BY <1>1, <1>2
    <1>3. CASE log[s].type = "finalized"
        <2>1. PICK u \in DOMAIN log : log[u] = Settled(log[s].id) /\ u < s
            BY <1>3 DEF LogInv, LegalLog, J!LegalLog, J!Legal, J!EventsBefore,
               J!Settled, Settled
        <2>2. log[u].type = "settled" /\ log[u].id = log[s].id
            BY <2>1 DEF Settled
        <2>3. PICK r \in DOMAIN log : log[r] = Posted(log[s].id) /\ r < u
            BY <1>1, <2>2
        <2>4. r < s
            BY <2>1, <2>3 DEF LogInv, TypeOK
        <2>5. QED
            BY <2>3, <2>4
    <1>4. QED
        BY <1>2, <1>3

(* The first refresh of a process lists the whole log.                     *)
LEMMA RefreshFold ==
    ASSUME Inv, NEW p \in Threads, Refresh(p)
    PROVE  FoldInv'
    <1>1. /\ pc[p] = "refresh" /\ mu = Nobody /\ mu' = p /\ batch = {}
          /\ batch' = {s \in DOMAIN log : s > lastSeq}
          /\ pc'[p] = "folding" /\ \A q \in Threads \ {p} : pc'[q] = pc[q]
          /\ UNCHANGED <<log, status, lastSeq, applied, calls, seq, phase, lost>>
        BY DEF Refresh, Unseen, Inv, FoldInv, LockOK, LogInv, TypeOK, store, proj
    <1>2. phase # "down" /\ Nobody \notin Threads
        BY <1>1, Working, LedgerAssumption
    <1>3. LockOK'
        <2>1. \A q \in Threads \ {p} : pc[q] # "folding"
            BY <1>1, <1>2 DEF Inv, FoldInv, LockOK
        <2>2. QED
            BY <1>1, <1>2, <2>1 DEF LockOK
    <1>4. PhaseOK'
        BY <1>1, SamePhase
    <1>5. \A s : Owned(s)' <=> Owned(s)
        BY <1>1 DEF Owned
    <1>6. FoldOK'
        BY <1>1, <1>5 DEF Inv, FoldInv, FoldOK
    <1>7. Fresh => batch' = DOMAIN log
        <2>1. \A s \in DOMAIN log : s > 0
            BY DEF Inv, LogInv, TypeOK
        <2>2. QED
            BY <1>1, <2>1 DEF Fresh
    <1>8. Covered'
        BY <1>1, <1>2, <1>5, <1>7 DEF Inv, FoldInv, Covered
    <1>9. ListedIsCounted'
        BY <1>1 DEF Inv, FoldInv, ListedIsCounted
    <1>10. \A t : PostedFolded(t)' <=> PostedFolded(t)
        BY <1>1 DEF PostedFolded
    <1>11. ASSUME NEW s \in DOMAIN log, log[s].type \in {"settled", "finalized"}
           PROVE  \/ PostedFolded(log[s].id)
                  \/ \E r \in batch' : log[r] = Posted(log[s].id) /\ r < s
        <2>1. CASE Fresh
            BY <2>1, <1>7, <1>11, PostedBefore DEF Inv
        <2>2. CASE ~Fresh
            BY <2>2, <1>1, <1>2, <1>11 DEF Inv, FoldInv, FollowersOK
        <2>3. QED
            BY <2>1, <2>2
    <1>12. FollowersOK'
        BY <1>1, <1>10, <1>11 DEF Inv, FoldInv, FollowersOK
    <1>13. QED
        BY <1>3, <1>4, <1>6, <1>8, <1>9, <1>12 DEF FoldInv

LEMMA RefreshDoneFold ==
    ASSUME Inv, NEW p \in Threads, RefreshDone(p)
    PROVE  FoldInv'
    <1>1. /\ pc[p] = "folding" /\ mu = p /\ mu' = Nobody /\ batch = {} /\ batch' = {}
          /\ pc'[p] = "check" /\ \A q \in Threads \ {p} : pc'[q] = pc[q]
          /\ UNCHANGED <<log, status, lastSeq, applied, calls, seq, phase, lost>>
        BY DEF RefreshDone, Inv, FoldInv, LockOK, LogInv, TypeOK, store, proj
    <1>2. phase # "down" /\ ~Fresh
        BY <1>1, Working
    <1>3. LockOK'
        BY <1>1 DEF Inv, FoldInv, LockOK
    <1>4. PhaseOK'
        BY <1>1, SamePhase
    <1>5. \A s : Owned(s)' <=> Owned(s)
        BY <1>1 DEF Owned
    <1>6. FoldOK' /\ Covered'
        BY <1>1, <1>2, <1>5 DEF Inv, FoldInv, FoldOK, Covered
    <1>7. ListedIsCounted'
        BY <1>1 DEF Inv, FoldInv, ListedIsCounted
    <1>8. \A t : PostedFolded(t)' <=> PostedFolded(t)
        BY <1>1 DEF PostedFolded
    <1>9. FollowersOK'
        BY <1>1, <1>2, <1>8 DEF Inv, FoldInv, FollowersOK
    <1>10. QED
        BY <1>3, <1>4, <1>6, <1>7, <1>9 DEF FoldInv

(* projection.apply, as far as the number of folds goes.                   *)
LEMMA ApplyCounts ==
    ASSUME Inv, NEW s \in DOMAIN log, ApplyEvent(s)
    PROVE  /\ applied'[s] = applied[s] + 1
           /\ \A r \in DOMAIN log \ {s} : applied'[r] = applied[r]
           /\ \A r \in DOMAIN log : applied'[r] \in Nat /\ applied'[r] >= applied[r]
           /\ lastSeq' = IF s > lastSeq THEN s ELSE lastSeq
           /\ \A t \in TxIDs : status'[t] # "none" => status[t] # "none" \/ t = log[s].id
           /\ log[s].type = "opened" => status' = status
    <1>1. applied \in [DOMAIN log -> Nat] /\ log[s] \in Event /\ status \in [TxIDs -> Statuses]
        BY DEF Inv, LogInv, TypeOK
    <1>2. applied' = [applied EXCEPT ![s] = @ + 1]
        BY DEF ApplyEvent, NoteSeq, AddEntries
    <1>3. lastSeq' = IF s > lastSeq THEN s ELSE lastSeq
        BY DEF ApplyEvent, NoteSeq, AddEntries
    <1>4. \/ status' = status
          \/ /\ log[s].type # "opened"
             /\ \E st : status' = [status EXCEPT ![log[s].id] = st]
        BY DEF ApplyEvent, NoteSeq, AddEntries
    <1>5. log[s].type = "opened" => status' = status
        BY DEF ApplyEvent, NoteSeq, AddEntries
    <1>6. QED
        BY <1>1, <1>2, <1>3, <1>4, <1>5

(* An event is folded after the posting it belongs to.                     *)
LEMMA FoldKeepsListed ==
    ASSUME Inv, NEW s \in DOMAIN log, ApplyEvent(s), UNCHANGED log,
           log[s].type \in {"settled", "finalized"} => PostedFolded(log[s].id)
    PROVE  ListedIsCounted'
    <1>1. /\ applied'[s] = applied[s] + 1 /\ applied[s] \in Nat
          /\ \A r \in DOMAIN log : applied'[r] \in Nat /\ applied'[r] >= applied[r]
          /\ \A t \in TxIDs : status'[t] # "none" => status[t] # "none" \/ t = log[s].id
          /\ log[s].type = "opened" => status' = status
        BY ApplyCounts DEF Inv, LogInv, TypeOK
    <1>2. LogGrows
        BY DEF LogGrows
    <1>3. \A t : PostedFolded(t) => PostedFolded(t)'
        BY <1>1, <1>2, PostedKept
    <1>4. log[s].type = "posted" => PostedFolded(log[s].id)'
        <2> SUFFICES ASSUME log[s].type = "posted" PROVE PostedFolded(log[s].id)'
            OBVIOUS
        <2>1. log[s] = Posted(log[s].id)
            BY DEF Inv, LogInv, TypeOK, Event, Posted
        <2>2. QED
            BY <1>1, <2>1 DEF PostedFolded, Posted
    <1>5. log[s].type \in {"opened", "posted", "settled", "finalized"}
        BY DEF Inv, LogInv, TypeOK, Event
    <1>6. ASSUME NEW t \in TxIDs, status'[t] # "none"
          PROVE  PostedFolded(t)'
        <2>1. CASE status[t] # "none"
            <3>1. PostedFolded(t)
                BY <2>1 DEF Inv, FoldInv, ListedIsCounted, PostedFolded
            <3>2. QED
                BY <3>1, <1>3
        <2>2. CASE status[t] = "none"
            BY <1>1, <1>3, <1>4, <1>5, <1>6, <2>2
        <2>3. QED
            BY <2>1, <2>2
    <1>7. QED
        BY <1>6 DEF ListedIsCounted, PostedFolded

LEMMA RefreshApplyFold ==
    ASSUME Inv, NEW p \in Threads, RefreshApply(p)
    PROVE  FoldInv'
    <1>1. PICK s \in batch : /\ \A r \in batch : s <= r
                             /\ ApplyEvent(s) /\ batch' = batch \ {s}
        BY DEF RefreshApply, Earliest
    <1>2. /\ pc[p] = "folding" /\ s \in DOMAIN log
          /\ UNCHANGED <<log, mu, pc, calls, seq, phase, lost>>
        BY DEF RefreshApply, Earliest, Inv, LogInv, TypeOK, store, threads
    <1>3. /\ DOMAIN log \subseteq Nat /\ lastSeq \in Nat /\ batch \subseteq DOMAIN log
          /\ applied \in [DOMAIN log -> Nat]
        BY DEF Inv, LogInv, TypeOK
    <1>4. phase # "down" /\ ~Fresh
        BY <1>2, Working
    <1>5. s > lastSeq /\ applied[s] = 0
        BY <1>2 DEF Inv, FoldInv, FoldOK
    <1>6. /\ applied'[s] = 1 /\ lastSeq' = s
          /\ \A r \in DOMAIN log \ {s} : applied'[r] = applied[r]
          /\ \A r \in DOMAIN log : applied'[r] \in Nat /\ applied'[r] >= applied[r]
        BY <1>1, <1>2, <1>5, ApplyCounts
    <1>7. \A r \in batch' : r > s
        BY <1>1, <1>3
    <1>8. LockOK'
        BY <1>1, <1>2 DEF Inv, FoldInv, LockOK
    <1>9. PhaseOK'
        BY <1>2 DEF Inv, FoldInv, PhaseOK
    <1>10. \A r : Owned(r)' <=> Owned(r)
        BY <1>2 DEF Owned
    <1>11. FoldOK'
        <2>1. ASSUME NEW r \in DOMAIN log
              PROVE  /\ r > s => applied'[r] = 0
                     /\ Owned(r) => applied'[r] <= 1
                     /\ applied'[r] <= 2
            <3>1. CASE r = s
                BY <3>1, <1>3, <1>6
            <3>2. CASE r # s
                <4>1. r > s => r > lastSeq
                    BY <1>2, <1>3, <1>5
                <4>2. QED
                    BY <3>2, <4>1, <1>6 DEF Inv, FoldInv, FoldOK
            <3>3. QED
                BY <3>1, <3>2
        <2>2. QED
            BY <2>1, <1>2, <1>6, <1>7, <1>10 DEF FoldOK
    <1>12. Covered'
        <2>1. ASSUME NEW r \in DOMAIN log
              PROVE  r \in lost \/ applied'[r] >= 1 \/ Owned(r) \/ r \in batch'
            BY <1>1, <1>3, <1>4, <1>6 DEF Inv, FoldInv, Covered
        <2>2. QED
            BY <2>1, <1>2, <1>10 DEF Covered
    <1>13. LogGrows
        BY <1>2 DEF LogGrows
    <1>14. \A t : PostedFolded(t) => PostedFolded(t)'
        BY <1>6, <1>13, PostedKept
    <1>15. ListedIsCounted'
        <2>1. log[s].type \in {"settled", "finalized"} => PostedFolded(log[s].id)
            BY <1>1, <1>2, <1>3, <1>4 DEF Inv, FoldInv, FollowersOK
        <2>2. QED
            BY <2>1, <1>1, <1>2, FoldKeepsListed
    <1>16. FollowersOK'
        <2>1. ASSUME NEW r \in DOMAIN log, log[r].type \in {"settled", "finalized"}
              PROVE  \/ PostedFolded(log[r].id)'
                     \/ \E u \in batch' : log[u] = Posted(log[r].id) /\ u < r
            <3>1. CASE PostedFolded(log[r].id)
                BY <3>1, <1>14, <1>2
            <3>2. CASE \E u \in batch : log[u] = Posted(log[r].id) /\ u < r
                <4>1. PICK u \in batch : log[u] = Posted(log[r].id) /\ u < r
                    BY <3>2
                <4>2. CASE u = s
                    BY <4>1, <4>2, <1>2, <1>6 DEF PostedFolded, Posted
                <4>3. CASE u # s
                    BY <4>1, <4>3, <1>1
                <4>4. QED
                    BY <4>2, <4>3
            <3>3. QED
                BY <2>1, <3>1, <3>2, <1>4 DEF Inv, FoldInv, FollowersOK
        <2>2. QED
            BY <2>1, <1>2, <1>14 DEF Inv, FoldInv, FollowersOK
    <1>17. QED
        BY <1>8, <1>9, <1>11, <1>12, <1>15, <1>16 DEF FoldInv

-----------------------------------------------------------------------------
LEMMA CheckFold ==
    ASSUME Inv, NEW p \in Threads, CheckSilent(p) \/ CheckPass(p) \/ CheckReject(p)
    PROVE  FoldInv'
    <1>1. /\ pc[p] = "check" /\ calls[p] # << >>
          /\ UNCHANGED <<log, status, lastSeq, applied, mu, batch, lost, seq>>
        BY DEF CheckSilent, CheckPass, CheckReject, CheckFrame, store, proj, Inv,
           LogInv, ThreadOK
    <1>2. phase # "down" /\ ~Fresh
        BY <1>1, Working
    <1>3. Head(calls[p]) \in Calls /\ AfterSilent(calls[p]) \in Seq(Calls)
        BY <1>1, HeadCall, EmptySeq DEF AfterSilent, Inv, LogInv
    <1>4. CASE CheckPass(p)
        <2>1. /\ pc'[p] = "append" /\ calls' = calls /\ phase' = phase
              /\ \A q \in Threads \ {p} : pc'[q] = pc[q]
              /\ Allowed(Head(calls[p]))
            BY <1>4 DEF CheckPass, Inv, LogInv, TypeOK
        <2>2. PhaseOK'
            BY <1>1, <2>1, SamePhase
        <2>3. Head(calls[p]).op \in {"settle", "finalize"} =>
                PostedFolded(Head(calls[p]).id)
            <3>1. Head(calls[p]).op \in {"settle", "finalize"} =>
                    /\ Head(calls[p]).id \in TxIDs
                    /\ status[Head(calls[p]).id] # "none"
                BY <1>3, <2>1 DEF Allowed, transition, Calls, TxCalls, AccountCalls
            <3>2. QED
                BY <3>1 DEF Inv, FoldInv, ListedIsCounted, PostedFolded
        <2>4. QED
            BY <1>1, <1>2, <2>1, <2>2, <2>3, QuietFold
    <1>5. CASE CheckSilent(p)
        <2>1. Continue(p, AfterSilent(calls[p]))
            BY <1>5 DEF CheckSilent
        <2>2. PhaseOK'
            BY <1>1, <1>3, <2>1, ReturnPhase
        <2>3. /\ pc'[p] \in {"idle", "refresh"}
              /\ \A q \in Threads \ {p} : pc'[q] = pc[q] /\ calls'[q] = calls[q]
            BY <2>1 DEF Continue, Inv, LogInv, TypeOK
        <2>4. QED
            BY <1>1, <1>2, <2>2, <2>3, QuietFold
    <1>6. CASE CheckReject(p)
        <2>1. Abort(p)
            BY <1>6 DEF CheckReject
        <2>2. PhaseOK'
            BY <1>1, <2>1, ReturnPhase
        <2>3. /\ pc'[p] = "idle"
              /\ \A q \in Threads \ {p} : pc'[q] = pc[q] /\ calls'[q] = calls[q]
            BY <2>1 DEF Abort, Inv, LogInv, TypeOK
        <2>4. QED
            BY <1>1, <1>2, <2>2, <2>3, QuietFold
    <1>7. QED
        BY <1>4, <1>5, <1>6

LEMMA PgInsertFold ==
    ASSUME Inv, NEW p \in Threads, PgInsert(p)
    PROVE  FoldInv'
    <1>1. /\ pc[p] = "append" /\ pc'[p] = "commit"
          /\ UNCHANGED <<log, status, lastSeq, applied, mu, batch, lost, calls, phase>>
          /\ \A q \in Threads \ {p} : pc'[q] = pc[q] /\ seq'[q] = seq[q]
        BY DEF PgInsert, proj, Inv, LogInv, TypeOK
    <1>2. phase # "down" /\ ~Fresh
        BY <1>1, Working
    <1>3. PhaseOK'
        BY <1>1, SamePhase
    <1>4. Head(calls[p]).op \in {"settle", "finalize"} => PostedFolded(Head(calls[p]).id)
        BY <1>1 DEF Inv, FoldInv, FollowersOK
    <1>5. QED
        BY <1>1, <1>2, <1>3, <1>4, QuietFold

LEMMA StoreErrorFold ==
    ASSUME Inv, NEW p \in Threads, StoreError(p)
    PROVE  FoldInv'
    <1>1. /\ pc[p] \in {"append", "commit", "refresh"} /\ pc'[p] = "idle" /\ Abort(p)
          /\ UNCHANGED <<log, status, lastSeq, applied, mu, batch, lost>>
          /\ \A q \in Threads \ {p} : /\ pc'[q] = pc[q] /\ calls'[q] = calls[q]
                                      /\ seq'[q] = seq[q]
        BY DEF StoreError, Abort, store, proj, Inv, LogInv, TypeOK
    <1>2. PhaseOK'
        BY <1>1, ReturnPhase
    <1>3. phase # "down" /\ (p # Main => phase = "up")
        BY <1>1, Working
    <1>4. Fresh => phase' = "down"
        BY <1>1, <1>3 DEF Fresh, Abort
    <1>5. QED
        BY <1>1, <1>2, <1>3, <1>4, QuietFold

(* An event enters the log: its goroutine owns it, or its Append failed.   *)
LEMMA CommitFold ==
    ASSUME Inv, NEW p \in Threads, NEW s, s \notin DOMAIN log,
           pc[p] \in {"append", "commit"},
           DOMAIN log' = DOMAIN log \cup {s}, LogGrows,
           log'[s] = EventOf(Head(calls[p])),
           applied'[s] = 0, \A r \in DOMAIN log : applied'[r] = applied[r],
           \/ pc'[p] = "apply" /\ seq'[p] = s /\ lost' = lost
           \/ pc'[p] = "idle" /\ lost' = lost \cup {s},
           \A q \in Threads \ {p} :
             pc'[q] = pc[q] /\ calls'[q] = calls[q] /\ seq'[q] = seq[q],
           UNCHANGED <<status, lastSeq, mu, batch>>, PhaseOK'
    PROVE  FoldInv'
    <1>1. phase # "down" /\ ~Fresh
        BY Working
    <1>2. applied \in [DOMAIN log -> Nat] /\ batch \subseteq DOMAIN log
        BY DEF Inv, LogInv, TypeOK
    <1>3. LockOK'
        BY DEF Inv, FoldInv, LockOK, LogInv, TypeOK
    <1>4. \A r \in DOMAIN log : Owned(r)' <=> Owned(r)
        BY DEF Owned
    <1>5. FoldOK'
        BY <1>4 DEF Inv, FoldInv, FoldOK
    <1>6. pc'[p] = "apply" => Owned(s)'
        BY DEF Owned
    <1>7. Covered'
        <2>1. ASSUME NEW r \in DOMAIN log
              PROVE  r \in lost \/ applied'[r] >= 1 \/ Owned(r)' \/ r \in batch'
            BY <1>1, <1>4 DEF Inv, FoldInv, Covered
        <2>2. QED
            BY <1>6, <2>1 DEF Covered
    <1>8. \A t : PostedFolded(t) => PostedFolded(t)'
        BY <1>2, PostedKept
    <1>9. ListedIsCounted'
        <2>1. \A t \in TxIDs : status[t] # "none" => PostedFolded(t)'
            BY <1>8 DEF Inv, FoldInv, ListedIsCounted, PostedFolded
        <2>2. QED
            BY <2>1 DEF ListedIsCounted, PostedFolded
    <1>10. FollowersOK'
        <2>1. ASSUME NEW r \in DOMAIN log', log'[r].type \in {"settled", "finalized"}
              PROVE  \/ PostedFolded(log[r].id)'
                     \/ \E u \in batch : log'[u] = Posted(log'[r].id) /\ u < r
            <3>1. CASE r \in DOMAIN log
                <4>1. log'[r] = log[r] /\ \A u \in batch : log'[u] = log[u]
                    BY <3>1, <1>2 DEF LogGrows
                <4>2. \/ PostedFolded(log[r].id)
                      \/ \E u \in batch : log[u] = Posted(log[r].id) /\ u < r
                    BY <2>1, <3>1, <4>1, <1>1 DEF Inv, FoldInv, FollowersOK
                <4>3. CASE \E u \in batch : log[u] = Posted(log[r].id) /\ u < r
                    BY <4>1, <4>3 DEF Posted
                <4>4. CASE PostedFolded(log[r].id)
                    <5> DEFINE t == log[r].id
                    <5>1. PICK u \in DOMAIN log : log[u] = Posted(t) /\ applied[u] >= 1
                        BY <4>4 DEF PostedFolded
                    <5>2. u \in DOMAIN log' /\ log'[u] = log[u] /\ applied'[u] >= 1
                        BY <5>1 DEF LogGrows
                    <5>3. QED
                        BY <4>1, <5>1, <5>2 DEF PostedFolded, Posted
                <4>5. QED
                    BY <4>2, <4>3, <4>4
            <3>2. CASE r = s
                <4> DEFINE c == Head(calls[p])
                <4>1. c.op \in EventOps
                    BY DEF Inv, LogInv, ThreadOK
                <4>2. c.op \in {"settle", "finalize"} /\ c.id = log'[r].id
                    BY <2>1, <3>2, <4>1 DEF EventOf, EventOps
                <4>3. PostedFolded(c.id)
                    BY <4>2 DEF Inv, FoldInv, FollowersOK
                <4>4. PICK u \in DOMAIN log : log[u] = Posted(c.id) /\ applied[u] >= 1
                    BY <4>3 DEF PostedFolded
                <4>5. u \in DOMAIN log' /\ log'[u] = log[u] /\ applied'[u] >= 1
                    BY <4>4 DEF LogGrows
                <4>6. QED
                    BY <4>2, <4>4, <4>5 DEF PostedFolded, Posted
            <3>3. QED
                BY <3>1, <3>2
        <2>2. ASSUME NEW q \in Threads, pc'[q] \in {"append", "commit"},
                     Head(calls'[q]).op \in {"settle", "finalize"}
              PROVE  PostedFolded(Head(calls[q]).id)'
            <3>1. q # p /\ pc[q] = pc'[q] /\ calls'[q] = calls[q]
                BY <2>2
            <3>2. PICK u \in DOMAIN log : /\ log[u] = Posted(Head(calls[q]).id)
                                          /\ applied[u] >= 1
                BY <2>2, <3>1 DEF Inv, FoldInv, FollowersOK, PostedFolded
            <3>3. u \in DOMAIN log' /\ log'[u] = log[u] /\ applied'[u] >= 1
                BY <3>2 DEF LogGrows
            <3>4. QED
                BY <3>1, <3>2, <3>3 DEF PostedFolded, Posted
        <2>3. QED
            BY <2>1, <2>2 DEF FollowersOK
    <1>11. QED
        BY <1>3, <1>5, <1>7, <1>9, <1>10 DEF FoldInv

LEMMA MemAppendFold ==
    ASSUME Inv, NEW p \in Threads, MemAppend(p)
    PROVE  FoldInv'
    <1> DEFINE s == nextSeq + 1
    <1>1. s \notin DOMAIN log
        BY DEF Inv, LogInv, TypeOK
    <1>2. /\ pc[p] = "append" /\ Commit(p, s)
          /\ pc'[p] = "apply" /\ seq'[p] = s
          /\ \A q \in Threads \ {p} : /\ pc'[q] = pc[q] /\ calls'[q] = calls[q]
                                      /\ seq'[q] = seq[q]
          /\ UNCHANGED <<mu, batch, phase, lost>>
        BY DEF MemAppend, Inv, LogInv, TypeOK
    <1> HIDE DEF s
    <1>3. DOMAIN applied = DOMAIN log
        BY DEF Inv, LogInv, TypeOK
    <1>4. /\ DOMAIN log' = DOMAIN log \cup {s} /\ LogGrows
          /\ log'[s] = EventOf(Head(calls[p]))
          /\ applied'[s] = 0 /\ \A r \in DOMAIN log : applied'[r] = applied[r]
          /\ UNCHANGED <<status, lastSeq>>
        BY <1>1, <1>2, <1>3 DEF Commit, Extend, LogGrows
    <1>5. PhaseOK'
        BY <1>2, SamePhase
    <1>6. QED
        BY <1>1, <1>2, <1>4, <1>5, CommitFold

LEMMA PgCommitFold ==
    ASSUME Inv, NEW p \in Threads, PgCommit(p) \/ PgCommitLost(p)
    PROVE  FoldInv'
    <1> DEFINE s == seq[p]
    <1>1. /\ pc[p] = "commit" /\ s \notin DOMAIN log /\ Commit(p, s)
          /\ UNCHANGED <<mu, batch>>
        BY DEF PgCommit, PgCommitLost, Inv, LogInv, ThreadOK
    <1>2. DOMAIN applied = DOMAIN log
        BY DEF Inv, LogInv, TypeOK
    <1>3. /\ DOMAIN log' = DOMAIN log \cup {s} /\ LogGrows
          /\ log'[s] = EventOf(Head(calls[p]))
          /\ applied'[s] = 0 /\ \A r \in DOMAIN log : applied'[r] = applied[r]
          /\ UNCHANGED <<status, lastSeq>>
        BY <1>1, <1>2 DEF Commit, Extend, LogGrows
    <1>4. CASE PgCommit(p)
        <2>1. /\ pc'[p] = "apply" /\ seq'[p] = s
              /\ \A q \in Threads \ {p} : /\ pc'[q] = pc[q] /\ calls'[q] = calls[q]
                                          /\ seq'[q] = seq[q]
              /\ UNCHANGED <<phase, lost>>
            BY <1>4 DEF PgCommit, Inv, LogInv, TypeOK
        <2>2. PhaseOK'
            BY <1>1, <2>1, SamePhase
        <2>3. QED
            BY <1>1, <1>3, <2>1, <2>2, CommitFold
    <1>5. CASE PgCommitLost(p)
        <2>1. /\ pc'[p] = "idle" /\ lost' = lost \cup {s} /\ Abort(p)
              /\ \A q \in Threads \ {p} : /\ pc'[q] = pc[q] /\ calls'[q] = calls[q]
                                          /\ seq'[q] = seq[q]
            BY <1>5 DEF PgCommitLost, Abort, Inv, LogInv, TypeOK
        <2>2. PhaseOK'
            BY <1>1, <2>1, ReturnPhase
        <2>3. QED
            BY <1>1, <1>3, <2>1, <2>2, CommitFold
    <1>6. QED
        BY <1>4, <1>5

(* applyAppended: the second fold at most, and the last, because no other  *)
(* goroutine owns the event and refresh lists only what is beyond lastSeq. *)
LEMMA ApplyAppendedFold ==
    ASSUME Inv, NEW p \in Threads, ApplyAppended(p)
    PROVE  FoldInv'
    <1>0. PICK s : s = seq[p]
        OBVIOUS
    <1>1. /\ pc[p] = "apply" /\ mu = Nobody /\ ApplyEvent(s) /\ calls[p] # << >>
          /\ s \in DOMAIN log /\ Continue(p, Tail(calls[p])) /\ batch = {}
          /\ UNCHANGED <<log, mu, batch, lost>>
        BY <1>0 DEF ApplyAppended, Inv, LogInv, ThreadOK, FoldInv, LockOK, store
    <1>2. /\ DOMAIN log \subseteq Nat /\ lastSeq \in Nat
          /\ applied \in [DOMAIN log -> Nat]
        BY DEF Inv, LogInv, TypeOK
    <1>3. phase # "down" /\ ~Fresh
        BY <1>1, Working
    <1>4. /\ pc'[p] \in {"idle", "refresh"}
          /\ \A q \in Threads \ {p} : /\ pc'[q] = pc[q] /\ calls'[q] = calls[q]
                                      /\ seq'[q] = seq[q]
        BY <1>1 DEF ApplyAppended, Continue, Inv, LogInv, TypeOK
    <1>5. PhaseOK'
        <2>1. Tail(calls[p]) \in Seq(Calls)
            BY <1>1, HeadCall DEF Inv, LogInv
        <2>2. QED
            BY <1>1, <2>1, ReturnPhase
    <1>6. LockOK'
        BY <1>1, <1>4 DEF Inv, FoldInv, LockOK
    <1>7. /\ applied'[s] = applied[s] + 1
          /\ lastSeq' = IF s > lastSeq THEN s ELSE lastSeq
          /\ \A r \in DOMAIN log \ {s} : applied'[r] = applied[r]
          /\ \A r \in DOMAIN log : applied'[r] \in Nat /\ applied'[r] >= applied[r]
        BY <1>1, ApplyCounts
    <1>8. applied[s] <= 1
        BY <1>0, <1>1 DEF Inv, FoldInv, FoldOK, Owned
    <1>9. ~Owned(s)'
        <2>1. \A q \in Threads \ {p} : pc[q] = "apply" => seq[q] # s
            BY <1>0, <1>1 DEF Inv, LogInv, SeqsDiffer
        <2>2. \A q \in Threads : ~(pc'[q] = "apply" /\ seq'[q] = s)
            BY <1>4, <2>1
        <2>3. QED
            BY <2>2 DEF Owned
    <1>10. \A r \in DOMAIN log \ {s} : Owned(r)' <=> Owned(r)
        BY <1>0, <1>1, <1>4 DEF Owned
    <1>11. FoldOK'
        <2>1. ASSUME NEW r \in DOMAIN log
              PROVE  /\ r > lastSeq' => applied'[r] = 0
                     /\ Owned(r)' => applied'[r] <= 1
                     /\ applied'[r] <= 2
            <3>1. CASE r = s
                <4>1. ~(r > lastSeq')
                    BY <3>1, <1>1, <1>2, <1>7
                <4>2. applied'[r] <= 2
                    BY <3>1, <1>1, <1>2, <1>7, <1>8
                <4>3. QED
                    BY <3>1, <4>1, <4>2, <1>9
            <3>2. CASE r # s
                <4>1. r > lastSeq' => r > lastSeq
                    BY <1>1, <1>2, <1>7
                <4>2. QED
                    BY <3>2, <4>1, <1>7, <1>10 DEF Inv, FoldInv, FoldOK
            <3>3. QED
                BY <3>1, <3>2
        <2>2. QED
            BY <2>1, <1>1 DEF FoldOK
    <1>12. Covered'
        <2>1. ASSUME NEW r \in DOMAIN log
              PROVE  r \in lost \/ applied'[r] >= 1 \/ Owned(r)'
            <3>1. CASE r = s
                BY <3>1, <1>1, <1>2, <1>7
            <3>2. CASE r # s
                BY <3>2, <1>1, <1>3, <1>7, <1>10 DEF Inv, FoldInv, Covered
            <3>3. QED
                BY <3>1, <3>2
        <2>2. QED
            BY <2>1, <1>1 DEF Covered
    <1>13. LogGrows
        BY <1>1 DEF LogGrows
    <1>14. \A t : PostedFolded(t) => PostedFolded(t)'
        BY <1>7, <1>13, PostedKept
    <1>15. \A r \in DOMAIN log : log[r].type \in {"settled", "finalized"} =>
             PostedFolded(log[r].id)
        BY <1>1, <1>3 DEF Inv, FoldInv, FollowersOK
    <1>16. ListedIsCounted'
        BY <1>1, <1>15, FoldKeepsListed
    <1>17. FollowersOK'
        <2>1. \A r \in DOMAIN log : log[r].type \in {"settled", "finalized"} =>
                PostedFolded(log[r].id)'
            BY <1>1, <1>14, <1>15
        <2>2. ASSUME NEW q \in Threads, pc'[q] \in {"append", "commit"},
                     Head(calls'[q]).op \in {"settle", "finalize"}
              PROVE  PostedFolded(Head(calls[q]).id)'
            <3>1. q # p /\ pc[q] = pc'[q] /\ calls'[q] = calls[q]
                BY <2>2, <1>4
            <3>2. PICK u \in DOMAIN log : /\ log[u] = Posted(Head(calls[q]).id)
                                          /\ applied[u] >= 1
                BY <2>2, <3>1 DEF Inv, FoldInv, FollowersOK, PostedFolded
            <3>3. applied'[u] >= 1
                BY <3>2, <1>2, <1>7
            <3>4. QED
                BY <3>1, <3>2, <3>3, <1>1 DEF PostedFolded, Posted
        <2>3. QED
            BY <2>1, <2>2, <1>1 DEF FollowersOK
    <1>18. QED
        BY <1>5, <1>6, <1>11, <1>12, <1>16, <1>17 DEF FoldInv

(* A new process: nothing folded, and the first refresh still to come.     *)
LEMMA RestartFold ==
    ASSUME Inv, Restart
    PROVE  FoldInv'
    <1>1. /\ phase' = "starting" /\ lastSeq' = 0 /\ mu' = Nobody /\ batch' = {}
          /\ applied' = [s \in DOMAIN log |-> 0] /\ log' = log
          /\ status' = [t \in TxIDs |-> "none"]
          /\ pc' = [p \in Threads |-> IF p = Main THEN "refresh" ELSE "idle"]
        BY DEF Restart, EmptyProjection, store
    <1>2. Main \in Threads /\ Procs \subseteq Threads /\ Main \notin Procs
        BY LedgerAssumption DEF Threads
    <1>3. Fresh'
        BY <1>1, <1>2 DEF Fresh
    <1>4. LockOK' /\ PhaseOK' /\ FoldOK'
        BY <1>1, <1>2 DEF LockOK, PhaseOK, FoldOK, Owned
    <1>5. Covered' /\ ListedIsCounted' /\ FollowersOK'
        BY <1>1, <1>3 DEF Covered, ListedIsCounted, FollowersOK
    <1>6. QED
        BY <1>4, <1>5 DEF FoldInv

LEMMA InitInv == Init => Inv
    <1> SUFFICES ASSUME Init PROVE Inv
        OBVIOUS
    <1>1. Main \in Threads /\ Procs \subseteq Threads /\ Main \notin Procs
        BY LedgerAssumption DEF Threads
    <1>2. LockOK /\ PhaseOK /\ FoldOK
        BY <1>1 DEF Init, LockOK, PhaseOK, FoldOK, Owned
    <1>3. Covered /\ ListedIsCounted /\ FollowersOK
        BY DEF Init, Covered, ListedIsCounted, FollowersOK
    <1>4. QED
        BY <1>2, <1>3, InitLogInv DEF Inv, FoldInv

LEMMA InvStep ==
    ASSUME Inv, [Next]_vars
    PROVE  Inv'
    <1>1. LogInv'
        BY LogStep DEF Inv
    <1>2. ASSUME NEW p \in Procs, Request(p)
          PROVE  FoldInv'
        BY <1>2, RequestFold
    <1>3. ASSUME NEW p \in Threads, Step(p) \/ PgCommitLost(p) \/ StoreError(p)
          PROVE  FoldInv'
        BY <1>3, RefreshFold, RefreshApplyFold, RefreshDoneFold, CheckFold,
           MemAppendFold, PgInsertFold, PgCommitFold, StoreErrorFold,
           ApplyAppendedFold DEF Step, LockStep, FreeStep, AppendEvent
    <1>4. CASE Crash \/ StartAgain
        BY <1>1, <1>4, RestartFold DEF Crash, StartAgain, Inv
    <1>5. CASE UNCHANGED vars
        <2>1. UNCHANGED <<log, status, lastSeq, applied, mu, batch, pc, calls, seq,
                          phase, lost>>
            BY <1>5 DEF vars, store, proj, threads
        <2>2. LockOK' /\ PhaseOK' /\ ListedIsCounted'
            BY <2>1 DEF Inv, FoldInv, LockOK, PhaseOK, ListedIsCounted
        <2>3. FoldOK' /\ Covered'
            BY <2>1 DEF Inv, FoldInv, FoldOK, Covered, Owned, Fresh
        <2>4. FollowersOK'
            BY <2>1 DEF Inv, FoldInv, FollowersOK, PostedFolded, Fresh
        <2>5. QED
            BY <1>1, <2>2, <2>3, <2>4 DEF Inv, FoldInv
    <1>6. QED
        BY <1>1, <1>2, <1>3, <1>4, <1>5 DEF Inv, Next

-----------------------------------------------------------------------------
(* The strengthened invariant holds in every reachable state.              *)
THEOREM FoldInvariant == Spec => []Inv
    <1>1. Init => Inv
        BY InitInv
    <1>2. Inv /\ [Next]_vars => Inv'
        BY InvStep
    <1>3. QED
        BY <1>1, <1>2, PTL DEF Spec

(* refresh and applyAppended together fold no event more than twice.       *)
THEOREM FoldedAtMostTwice == Spec => []AppliedAtMostTwice
    <1>1. Inv => AppliedAtMostTwice
        BY DEF Inv, FoldInv, FoldOK, AppliedAtMostTwice
    <1>2. QED
        BY <1>1, FoldInvariant, PTL

(* No committed event is skipped, although lastSeq can run ahead of events *)
(* that Postgres has numbered and not yet committed.                       *)
THEOREM AnsweredMeansFolded == Spec => []AnsweredIsApplied
    <1>1. ASSUME Inv, phase = "up", \A p \in Threads : pc[p] = "idle"
          PROVE  \A s \in DOMAIN log \ lost : applied[s] >= 1
        <2>1. mu = Nobody
            BY <1>1 DEF Inv, LogInv, TypeOK, FoldInv, LockOK
        <2>2. QED
            BY <1>1, <2>1 DEF Inv, FoldInv, LockOK, Covered, Owned, Fresh
    <1>2. Inv => AnsweredIsApplied
        BY <1>1 DEF AnsweredIsApplied
    <1>3. QED
        BY <1>2, FoldInvariant, PTL

(* A transaction that is listed has its entries in the balances.           *)
THEOREM ListedMeansCounted == Spec => []ListedIsCounted
    <1>1. Inv => ListedIsCounted
        BY DEF Inv, FoldInv
    <1>2. QED
        BY <1>1, FoldInvariant, PTL
-----------------------------------------------------------------------------
(* Which events can be written twice, and in which order.  A call that     *)
(* creates something bears an identifier that newID drew for it alone; the *)
(* calls of main() do not, and rest on what its refresh has shown.         *)
Creating == {"open", "post", "seed"}

SystemSet == {SystemAccounts[i] : i \in 1..Len(SystemAccounts)}

(* Call i of goroutine p has its event still before it.                    *)
Pending(p, i) == ~ (i = 1 /\ pc[p] = "apply")

CallOK(p, i) ==
    LET c == calls[p][i] IN
    /\ c.op \in Creating => /\ c.id \in issued
                            /\ Pending(p, i) => EventOf(c) \notin Logged
    /\ c.op = "seed" => p = Main /\ c.id \in SeedTxs
    /\ c.op = "post" => c.id \notin SeedTxs
    /\ c.op = "ensure" => p = Main /\ c.id \in SystemSet
    /\ c.op = "open" => c.id \notin SystemSet
    /\ c.op = "post" => \A t \in DOMAIN Linked : c.id = Linked[t] =>
         Posted(t) \in Logged \/ \E j \in 1..i - 1 : calls[p][j] = Call("post", t)

CallsOK == \A p \in Threads : \A i \in 1..Len(calls[p]) : CallOK(p, i)

CallsDiffer ==
    \A p, q \in Threads : \A i \in 1..Len(calls[p]), j \in 1..Len(calls[q]) :
        (calls[p][i].op \in Creating /\ calls[q][j].op \in Creating
            /\ calls[p][i].id = calls[q][j].id) => p = q /\ i = j

(* A goroutine about to write knows what its event must not find, and what *)
(* it must find, in the log.                                               *)
WriterOK(p) ==
    LET c == Head(calls[p]) IN
    /\ pc[p] \in {"append", "commit"} =>
         /\ c.op = "ensure" => Opened(c.id) \notin Logged
         /\ c.op = "seed" => \A t \in SeedTxs : Posted(t) \notin Logged
    /\ (pc[p] = "commit" /\ c.op = "post") =>
         \A t \in DOMAIN Linked : c.id = Linked[t] =>
             Posted(t) \in J!EventsBefore(log, seq[p])
    /\ pc[p] = "apply" => log[seq[p]] = EventOf(c)

(* Identifiers in the log were drawn; what has been folded in shows.       *)
LogKnown ==
    \A s \in DOMAIN log :
        /\ log[s].type = "opened" => log[s].id \in issued \cup SystemSet
        /\ log[s].type = "posted" => log[s].id \in issued
        /\ applied[s] >= 1 => /\ log[s].type = "opened" => log[s].id \in accounts
                              /\ log[s].type = "posted" => status[log[s].id] # "none"

OnceInv == /\ CallsOK
           /\ CallsDiffer
           /\ \A p \in Threads : WriterOK(p)
           /\ LogKnown
           /\ phase = "starting" => lost = {}
           /\ StartupIdempotent
           /\ ConversionOrder

-----------------------------------------------------------------------------
LEMMA ListFacts ==
    ASSUME NEW cs \in Seq(Calls)
    PROVE  /\ Len(cs) \in Nat
           /\ \A i \in 1..Len(cs) : cs[i] \in Calls
           /\ cs # << >> =>
                /\ Head(cs) = cs[1] /\ 1 \in 1..Len(cs)
                /\ Tail(cs) \in Seq(Calls)
                /\ Len(Tail(cs)) = Len(cs) - 1
                /\ \A i \in 1..Len(Tail(cs)) : Tail(cs)[i] = cs[i + 1]
    <1>1. Len(cs) \in Nat
        BY LenProperties
    <1>2. \A i \in 1..Len(cs) : cs[i] \in Calls
        BY ElementOfSeq
    <1>3. ASSUME cs # << >>
          PROVE  /\ Head(cs) = cs[1] /\ Tail(cs) \in Seq(Calls)
                 /\ Len(Tail(cs)) = Len(cs) - 1
                 /\ \A i \in 1..Len(Tail(cs)) : Tail(cs)[i] = cs[i + 1]
        BY <1>3, HeadTailProperties
    <1>4. cs # << >> => 1 \in 1..Len(cs)
        BY <1>1, EmptySeq
    <1>5. QED
        BY <1>1, <1>2, <1>3, <1>4

(* What p may do to its list of calls in a step: keep it, give it up, or   *)
(* leave its first call behind.                                            *)
ListStep(p) ==
    \/ calls'[p] = calls[p] /\ (pc[p] = "apply" => pc'[p] = "apply")
    \/ calls'[p] = << >>
    \/ /\ calls[p] # << >> /\ calls'[p] = Tail(calls[p]) /\ pc'[p] # "apply"
       /\ \A t : calls[p][1] = Call("post", t) => Posted(t) \in Logged'

(* What p's list holds after such a step, k says where it was before.      *)
Shifted(p, k) ==
    /\ \A i \in 1..Len(calls'[p]) : /\ i + k \in 1..Len(calls[p])
                                    /\ calls'[p][i] = calls[p][i + k]
                                    /\ Pending(p, i)' => Pending(p, i + k)
    /\ k = 1 => \A t : calls[p][1] = Call("post", t) => Posted(t) \in Logged'

LEMMA ListShift ==
    ASSUME TypeOK, TypeOK', NEW p \in Threads, ListStep(p)
    PROVE  \E k \in {0, 1} : Shifted(p, k)
    <1>1. calls[p] \in Seq(Calls) /\ calls'[p] \in Seq(Calls)
        BY DEF TypeOK
    <1>2. Len(calls[p]) \in Nat /\ Len(calls'[p]) \in Nat
        BY <1>1, ListFacts
    <1>3. CASE calls'[p] = calls[p] /\ (pc[p] = "apply" => pc'[p] = "apply")
        <2>1. Shifted(p, 0)
            BY <1>2, <1>3 DEF Shifted, Pending
        <2>2. QED
            BY <2>1
    <1>4. CASE calls'[p] = << >>
        <2>1. Shifted(p, 0)
            BY <1>4 DEF Shifted
        <2>2. QED
            BY <2>1
    <1>5. CASE /\ calls[p] # << >> /\ calls'[p] = Tail(calls[p]) /\ pc'[p] # "apply"
               /\ \A t : calls[p][1] = Call("post", t) => Posted(t) \in Logged'
        <2>1. /\ Len(calls'[p]) = Len(calls[p]) - 1
              /\ \A i \in 1..Len(calls'[p]) : calls'[p][i] = calls[p][i + 1]
            BY <1>1, <1>5, ListFacts
        <2>2. \A i \in 1..Len(calls'[p]) : i + 1 \in 1..Len(calls[p]) /\ Pending(p, i + 1)
            BY <1>2, <2>1 DEF Pending
        <2>3. Shifted(p, 1)
            BY <1>5, <2>1, <2>2 DEF Shifted
        <2>4. QED
            BY <2>3
    <1>6. QED
        BY <1>3, <1>4, <1>5 DEF ListStep

(* The calls after a step of p that finds nothing new in the log that one  *)
(* of them is still to write.                                              *)
LEMMA CallsKept ==
    ASSUME TypeOK, TypeOK', CallsOK, CallsDiffer, NEW p \in Threads,
           Logged \subseteq Logged', issued \subseteq issued',
           \A q \in Threads \ {p} : pc'[q] = pc[q] /\ calls'[q] = calls[q],
           ListStep(p),
           \A q \in Threads : \A i \in 1..Len(calls'[q]) :
             (calls'[q][i].op \in Creating /\ Pending(q, i)'
                /\ EventOf(calls'[q][i]) \in Logged')
                   => EventOf(calls'[q][i]) \in Logged
    PROVE  CallsOK' /\ CallsDiffer'
    <1>1. \A q \in Threads : Len(calls[q]) \in Nat /\ Len(calls'[q]) \in Nat
        BY ListFacts DEF TypeOK
    <1>2. ASSUME NEW q \in Threads PROVE \E k \in {0, 1} : Shifted(q, k)
        <2>1. CASE q = p
            BY <2>1, ListShift
        <2>2. CASE q # p
            BY <2>2, ListShift DEF ListStep
        <2>3. QED
            BY <2>1, <2>2
    <1>3. ASSUME NEW q \in Threads, NEW i \in 1..Len(calls'[q])
          PROVE  CallOK(q, i)'
        <2>1. PICK k \in {0, 1} : Shifted(q, k)
            BY <1>2
        <2>2. PICK c : c = calls'[q][i]
            OBVIOUS
        <2>3. /\ i + k \in 1..Len(calls[q]) /\ c = calls[q][i + k]
              /\ Pending(q, i)' => Pending(q, i + k)
            BY <2>1, <2>2 DEF Shifted
        <2>4. CallOK(q, i + k)
            BY <2>3 DEF CallsOK
        <2>5. c.op \in Creating => /\ c.id \in issued'
                                   /\ Pending(q, i)' => EventOf(c) \notin Logged'
            BY <2>2, <2>3, <2>4 DEF CallOK
        <2>6. /\ c.op = "seed" => q = Main /\ c.id \in SeedTxs
              /\ c.op = "post" => c.id \notin SeedTxs
              /\ c.op = "ensure" => q = Main /\ c.id \in SystemSet
              /\ c.op = "open" => c.id \notin SystemSet
            BY <2>3, <2>4 DEF CallOK
        <2>7. ASSUME c.op = "post", NEW t \in DOMAIN Linked, c.id = Linked[t]
              PROVE  \/ Posted(t) \in Logged'
                     \/ \E j \in 1..i - 1 : calls'[q][j] = Call("post", t)
            <3>1. CASE Posted(t) \in Logged
                BY <3>1
            <3>2. ASSUME NEW j \in 1..(i + k) - 1, calls[q][j] = Call("post", t)
                  PROVE  \/ Posted(t) \in Logged'
                         \/ \E n \in 1..i - 1 : calls'[q][n] = Call("post", t)
                <4>1. CASE k = 1 /\ j = 1
                    BY <2>1, <3>2, <4>1 DEF Shifted
                <4>2. CASE ~ (k = 1 /\ j = 1)
                    <5>1. j - k \in 1..i - 1 /\ j - k \in 1..Len(calls'[q]) /\ (j - k) + k = j
                        BY <1>1, <1>3, <2>1, <4>2
                    <5>2. calls'[q][j - k] = calls[q][j]
                        BY <2>1, <5>1 DEF Shifted
                    <5>3. QED
                        BY <3>2, <5>1, <5>2
                <4>3. QED
                    BY <4>1, <4>2
            <3>3. QED
                BY <2>3, <2>4, <2>7, <3>1, <3>2 DEF CallOK
        <2>8. QED
            BY <2>2, <2>5, <2>6, <2>7 DEF CallOK
    <1>4. ASSUME NEW q \in Threads, NEW r \in Threads,
                 NEW i \in 1..Len(calls'[q]), NEW j \in 1..Len(calls'[r]),
                 calls'[q][i].op \in Creating, calls'[r][j].op \in Creating,
                 calls'[q][i].id = calls'[r][j].id
          PROVE  q = r /\ i = j
        <2>1. PICK k \in {0, 1} : Shifted(q, k)
            BY <1>2
        <2>2. PICK n \in {0, 1} : Shifted(r, n)
            BY <1>2
        <2>3. PICK a \in 1..Len(calls[q]) : a = i + k /\ calls'[q][i] = calls[q][a]
            BY <2>1 DEF Shifted
        <2>4. PICK b \in 1..Len(calls[r]) : b = j + n /\ calls'[r][j] = calls[r][b]
            BY <2>2 DEF Shifted
        <2>5. q = r
            BY <1>4, <2>3, <2>4 DEF CallsDiffer
        <2>6. PICK d \in 1..Len(calls[q]) : d = j + k /\ calls'[q][j] = calls[q][d]
            BY <2>1, <2>5 DEF Shifted
        <2>7. a = d
            BY <1>4, <2>3, <2>5, <2>6 DEF CallsDiffer
        <2>8. i \in Int /\ j \in Int /\ k \in Int
            BY <1>1
        <2>9. QED
            BY <2>3, <2>5, <2>6, <2>7, <2>8
    <1>5. QED
        BY <1>3, <1>4 DEF CallsOK, CallsDiffer

-----------------------------------------------------------------------------
(* A goroutine that takes no step still knows what it needs to know.       *)
LEMMA WriterKept ==
    ASSUME Inv, OnceInv, LogGrows, NEW q \in Threads,
           pc'[q] = pc[q], calls'[q] = calls[q], seq'[q] = seq[q],
           log' = log \/ q # Main \/ pc[q] = "idle"
    PROVE  WriterOK(q)'
    <1>1. PICK c : c = Head(calls[q])
        OBVIOUS
    <1>2. WriterOK(q) /\ ThreadOK(q)
        BY DEF OnceInv, Inv, LogInv
    <1>3. ASSUME pc[q] \in {"append", "commit"}, c.op \in {"ensure", "seed"}
          PROVE  Logged' = Logged
        <2>1. calls[q] # << >> /\ calls[q] \in Seq(Calls)
            BY <1>2, <1>3 DEF ThreadOK, Inv, LogInv, TypeOK
        <2>2. c = calls[q][1] /\ 1 \in 1..Len(calls[q])
            BY <1>1, <2>1, ListFacts
        <2>3. CallOK(q, 1)
            BY <2>2 DEF OnceInv, CallsOK
        <2>4. q = Main
            BY <1>3, <2>2, <2>3 DEF CallOK
        <2>5. log' = log
            BY <1>3, <2>4
        <2>6. QED
            BY <2>5 DEF Logged
    <1>4. pc[q] \in {"append", "commit"} =>
            /\ c.op = "ensure" => Opened(c.id) \notin Logged'
            /\ c.op = "seed" => \A t \in SeedTxs : Posted(t) \notin Logged'
        BY <1>1, <1>2, <1>3 DEF WriterOK
    <1>5. (pc[q] = "commit" /\ c.op = "post") =>
            \A t \in DOMAIN Linked : c.id = Linked[t] =>
                Posted(t) \in J!EventsBefore(log', seq[q])
        BY <1>1, <1>2, GrowthKeeps DEF WriterOK
    <1>6. pc[q] = "apply" => log'[seq[q]] = EventOf(c)
        BY <1>1, <1>2 DEF WriterOK, ThreadOK, LogGrows
    <1>7. QED
        BY <1>1, <1>4, <1>5, <1>6 DEF WriterOK

LEMMA IdleWriter ==
    ASSUME NEW p, pc'[p] \notin {"append", "commit", "apply"}
    PROVE  WriterOK(p)'
    BY DEF WriterOK

(* A step of p that appends nothing.                                       *)
LEMMA QuietOnce ==
    ASSUME Inv, Inv', OnceInv, NEW p \in Threads,
           UNCHANGED <<log, issued, lost>>,
           \A q \in Threads \ {p} :
             pc'[q] = pc[q] /\ calls'[q] = calls[q] /\ seq'[q] = seq[q],
           ListStep(p), WriterOK(p)', LogKnown',
           phase' = "starting" => phase = "starting"
    PROVE  OnceInv'
    <1>1. TypeOK /\ TypeOK' /\ CallsOK /\ CallsDiffer
        BY DEF Inv, LogInv, OnceInv
    <1>2. Logged' = Logged /\ LogGrows
        BY DEF Logged, LogGrows
    <1>3. CallsOK' /\ CallsDiffer'
        BY <1>1, <1>2, CallsKept
    <1>4. \A q \in Threads : WriterOK(q)'
        BY <1>2, WriterKept
    <1>5. StartupIdempotent' /\ ConversionOrder'
        BY DEF OnceInv, StartupIdempotent, ConversionOrder
    <1>6. QED
        BY <1>3, <1>4, <1>5 DEF OnceInv

LEMMA KnownKept ==
    ASSUME LogKnown, UNCHANGED <<log, applied, accounts, status>>,
           issued \subseteq issued'
    PROVE  LogKnown'
    BY DEF LogKnown

(* projection.apply makes an event's account or transaction show.          *)
LEMMA ApplyKnown ==
    ASSUME Inv, LogKnown, NEW s \in DOMAIN log, ApplyEvent(s), UNCHANGED <<log, issued>>
    PROVE  LogKnown'
    <1>1. /\ \A r \in DOMAIN log \ {s} : applied'[r] = applied[r]
        BY ApplyCounts
    <1>2. log[s] \in Event /\ status \in [TxIDs -> Statuses]
        BY DEF Inv, LogInv, TypeOK
    <1>3. accounts \subseteq accounts'
        BY DEF ApplyEvent
    <1>4. CASE log[s].type = "opened"
        <2>1. log[s].id \in accounts' /\ status' = status
            BY <1>4 DEF ApplyEvent
        <2>2. QED
            BY <1>1, <1>3, <1>4, <2>1 DEF LogKnown
    <1>5. CASE log[s].type # "opened"
        <2>1. log[s].id \in TxIDs /\ log[s].type \in {"posted", "settled", "finalized"}
            BY <1>2, <1>5 DEF Event
        <2>2. \E v \in {"pending", "settled", "final"} :
                status' = [status EXCEPT ![log[s].id] = v]
            <3> DEFINE after == [posted |-> "pending", settled |-> "settled",
                                 finalized |-> "final"]
            <3>1. status' = [status EXCEPT ![log[s].id] = after[log[s].type]]
                BY <1>5 DEF ApplyEvent
            <3>2. after[log[s].type] \in {"pending", "settled", "final"}
                BY <2>1
            <3> HIDE DEF after
            <3>3. QED
                BY <3>1, <3>2
        <2>3. /\ status'[log[s].id] # "none"
              /\ \A t : status[t] # "none" => status'[t] # "none"
            <3>1. PICK v \in {"pending", "settled", "final"} :
                    status' = [status EXCEPT ![log[s].id] = v]
                BY <2>2
            <3>2. DOMAIN status = TxIDs /\ DOMAIN status' = TxIDs
                BY <1>2, <3>1
            <3>3. QED
                BY <1>2, <2>1, <3>1, <3>2
        <2>4. QED
            BY <1>1, <1>3, <1>5, <2>3 DEF LogKnown
    <1>6. QED
        BY <1>4, <1>5

LEMMA RefreshOnce ==
    ASSUME Inv, Inv', OnceInv, NEW p \in Threads, Refresh(p) \/ RefreshDone(p)
    PROVE  OnceInv'
    <1>1. /\ pc[p] \in {"refresh", "folding"} /\ pc'[p] \in {"folding", "check"}
          /\ UNCHANGED <<log, issued, lost, applied, accounts, status, calls, phase>>
          /\ \A q \in Threads \ {p} : pc'[q] = pc[q] /\ seq'[q] = seq[q]
        BY DEF Refresh, RefreshDone, store, proj, Inv, LogInv, TypeOK
    <1>2. ListStep(p) /\ WriterOK(p)'
        BY <1>1, IdleWriter DEF ListStep
    <1>3. LogKnown'
        BY <1>1, KnownKept DEF OnceInv
    <1>4. QED
        BY <1>1, <1>2, <1>3, QuietOnce

LEMMA RefreshApplyOnce ==
    ASSUME Inv, Inv', OnceInv, NEW p \in Threads, RefreshApply(p)
    PROVE  OnceInv'
    <1>1. PICK s \in DOMAIN log : ApplyEvent(s)
        BY DEF RefreshApply, Inv, LogInv, TypeOK
    <1>2. pc[p] = "folding" /\ UNCHANGED <<log, issued, lost, pc, calls, seq, phase>>
        BY DEF RefreshApply, store, threads
    <1>3. ListStep(p) /\ WriterOK(p)'
        BY <1>2, IdleWriter DEF ListStep
    <1>4. LogKnown'
        BY <1>1, <1>2, ApplyKnown DEF OnceInv
    <1>5. QED
        BY <1>2, <1>3, <1>4, QuietOnce

LEMMA CheckEndOnce ==
    ASSUME Inv, Inv', OnceInv, NEW p \in Threads,
           CheckSilent(p) \/ CheckReject(p) \/ StoreError(p)
    PROVE  OnceInv'
    <1>1. /\ pc[p] \in {"check", "append", "commit", "refresh"}
          /\ UNCHANGED <<log, issued, lost, applied, accounts, status>>
        BY DEF CheckSilent, CheckReject, StoreError, CheckFrame, store, proj
    <1>2. calls[p] # << >> /\ calls[p] \in Seq(Calls)
        BY <1>1 DEF Inv, LogInv, ThreadOK, TypeOK
    <1>3. PICK rest : \/ CheckSilent(p) /\ rest = AfterSilent(calls[p]) /\ Continue(p, rest)
                      \/ rest = << >> /\ Abort(p)
        <2>1. CASE CheckSilent(p)
            BY <2>1 DEF CheckSilent
        <2>2. CASE ~CheckSilent(p)
            BY <2>2 DEF CheckReject, StoreError
        <2>3. QED
            BY <2>1, <2>2
    <1>4. /\ calls'[p] = rest /\ pc'[p] \in {"idle", "refresh"}
          /\ \A q \in Threads \ {p} : pc'[q] = pc[q] /\ calls'[q] = calls[q]
          /\ phase' = "starting" => phase = "starting"
        BY <1>3 DEF Continue, Abort, Inv, LogInv, TypeOK
    <1>5. \A q \in Threads \ {p} : seq'[q] = seq[q]
        BY DEF CheckSilent, CheckReject, StoreError, CheckFrame, Inv, LogInv, TypeOK
    <1>6. ListStep(p)
        <2>1. CASE rest = << >>
            BY <1>4, <2>1 DEF ListStep
        <2>2. CASE CheckSilent(p) /\ rest = AfterSilent(calls[p])
            <3>1. Silent(calls[p][1]) /\ Head(calls[p]) = calls[p][1]
                BY <1>2, <2>2, ListFacts DEF CheckSilent
            <3>2. \A t : calls[p][1] # Call("post", t)
                BY <3>1 DEF Silent, Call
            <3>3. rest = << >> \/ rest = Tail(calls[p])
                BY <2>2 DEF AfterSilent
            <3>4. QED
                BY <1>2, <1>4, <3>2, <3>3 DEF ListStep
        <2>3. QED
            BY <1>3, <2>1, <2>2
    <1>7. WriterOK(p)' /\ LogKnown'
        BY <1>1, <1>4, IdleWriter, KnownKept DEF OnceInv
    <1>8. QED
        BY <1>1, <1>4, <1>5, <1>6, <1>7, QuietOnce

(* applyAppended: what the call had to write is in the log.                *)
LEMMA ApplyAppendedOnce ==
    ASSUME Inv, Inv', OnceInv, NEW p \in Threads, ApplyAppended(p)
    PROVE  OnceInv'
    <1>1. /\ pc[p] = "apply" /\ seq[p] \in DOMAIN log /\ calls[p] # << >>
          /\ ApplyEvent(seq[p]) /\ UNCHANGED <<log, issued, lost>>
          /\ Continue(p, Tail(calls[p])) /\ calls[p] \in Seq(Calls)
        BY DEF ApplyAppended, store, Inv, LogInv, ThreadOK, TypeOK
    <1>2. /\ calls'[p] = Tail(calls[p]) /\ pc'[p] \in {"idle", "refresh"}
          /\ \A q \in Threads \ {p} : pc'[q] = pc[q] /\ calls'[q] = calls[q]
          /\ phase' = "starting" => phase = "starting"
        BY <1>1 DEF Continue, Inv, LogInv, TypeOK
    <1>3. \A q \in Threads \ {p} : seq'[q] = seq[q]
        BY DEF ApplyAppended, Inv, LogInv, TypeOK
    <1>4. \A t : calls[p][1] = Call("post", t) => Posted(t) \in Logged'
        <2>1. log[seq[p]] = EventOf(calls[p][1])
            BY <1>1, ListFacts DEF OnceInv, WriterOK
        <2>2. \A t : EventOf(Call("post", t)) = Posted(t)
            BY DEF EventOf, Call, Posted
        <2>3. log[seq[p]] \in Logged'
            BY <1>1 DEF Logged
        <2>4. QED
            BY <2>1, <2>2, <2>3
    <1>5. ListStep(p)
        BY <1>1, <1>2, <1>4 DEF ListStep
    <1>6. WriterOK(p)' /\ LogKnown'
        BY <1>1, <1>2, IdleWriter, ApplyKnown DEF OnceInv
    <1>7. QED
        BY <1>1, <1>2, <1>3, <1>5, <1>6, QuietOnce

-----------------------------------------------------------------------------
(* The check of a call of main(), made when its refresh is over: nothing   *)
(* in the log has been left out of the projection.                         *)
LEMMA MainSeesAll ==
    ASSUME Inv, OnceInv, pc[Main] = "check", mu = Nobody
    PROVE  \A s \in DOMAIN log : applied[s] >= 1
    <1>1. Main \in Threads
        BY DEF Threads
    <1>2. phase = "starting" /\ ~Fresh
        BY <1>1, Working
    <1>3. lost = {} /\ batch = {}
        BY <1>2 DEF OnceInv, Inv, FoldInv, LockOK
    <1>4. \A q \in Threads : pc[q] \in {"idle", "check"}
        BY <1>2 DEF Inv, FoldInv, PhaseOK, Threads
    <1>5. QED
        BY <1>2, <1>3, <1>4 DEF Inv, FoldInv, Covered, Owned

LEMMA CheckPassOnce ==
    ASSUME Inv, Inv', OnceInv, NEW p \in Threads, CheckPass(p)
    PROVE  OnceInv'
    <1>1. PICK c : c = Head(calls[p])
        OBVIOUS
    <1>2. /\ pc[p] = "check" /\ mu = Nobody /\ pc'[p] = "append"
          /\ ~Silent(c) /\ Allowed(c)
          /\ UNCHANGED <<log, issued, lost, applied, accounts, status, calls, seq, phase>>
          /\ \A q \in Threads \ {p} : pc'[q] = pc[q]
        BY <1>1 DEF CheckPass, CheckFrame, store, proj, Inv, LogInv, TypeOK
    <1>3. calls[p] # << >> /\ calls[p] \in Seq(Calls)
        BY <1>2 DEF Inv, LogInv, ThreadOK, TypeOK
    <1>4. CallOK(p, 1) /\ c = calls[p][1]
        BY <1>1, <1>3, ListFacts DEF OnceInv, CallsOK
    <1>5. c.op \in {"ensure", "seed"} => \A s \in DOMAIN log : applied[s] >= 1
        BY <1>2, <1>4, MainSeesAll DEF CallOK
    <1>6. c.op = "ensure" => Opened(c.id) \notin Logged
        <2>1. c.op = "ensure" => c.id \notin accounts
            BY <1>2 DEF Allowed, transition
        <2>2. \A s \in DOMAIN log : log[s] = Opened(c.id) /\ applied[s] >= 1 =>
                c.id \in accounts
            BY DEF OnceInv, LogKnown, Opened
        <2>3. QED
            BY <1>5, <2>1, <2>2 DEF Logged
    <1>7. c.op = "seed" => \A t \in SeedTxs : Posted(t) \notin Logged
        <2>1. c.op = "seed" => \A t \in SeedTxs : status[t] = "none"
            BY <1>2 DEF Silent, Seeded
        <2>2. \A t \in SeedTxs, s \in DOMAIN log : log[s] = Posted(t) /\ applied[s] >= 1 =>
                status[t] # "none"
            BY DEF OnceInv, LogKnown, Posted
        <2>3. QED
            BY <1>5, <2>1, <2>2 DEF Logged
    <1>8. WriterOK(p)'
        BY <1>1, <1>2, <1>6, <1>7 DEF WriterOK, Logged
    <1>9. ListStep(p) /\ LogKnown'
        BY <1>2, KnownKept DEF ListStep, OnceInv
    <1>10. QED
        BY <1>2, <1>8, <1>9, QuietOnce

(* The first transaction of a conversion is in the log when the second is  *)
(* about to be written.                                                    *)
LEMMA FirstPosted ==
    ASSUME Inv, OnceInv, NEW p \in Threads, pc[p] \in {"append", "commit"},
           NEW t \in DOMAIN Linked, EventOf(Head(calls[p])) = Posted(Linked[t])
    PROVE  /\ Posted(t) \in Logged
           /\ Head(calls[p]).op = "post" /\ Head(calls[p]).id = Linked[t]
    <1>1. PICK c : c = Head(calls[p])
        OBVIOUS
    <1>2. /\ calls[p] # << >> /\ calls[p] \in Seq(Calls) /\ c.op \in EventOps
        BY <1>1 DEF Inv, LogInv, ThreadOK, TypeOK
    <1>3. CallOK(p, 1) /\ c = calls[p][1]
        BY <1>1, <1>2, ListFacts DEF OnceInv, CallsOK
    <1>4. c.id = Linked[t] /\ c.op \in {"post", "seed"}
        BY <1>1, <1>2 DEF EventOf, Posted, EventOps
    <1>5. Linked[t] \in FXTxs /\ FXTxs \cap SeedTxs = {}
        BY LedgerAssumption DEF FXTxs
    <1>6. c.op = "post"
        BY <1>3, <1>4, <1>5 DEF CallOK
    <1>7. Posted(t) \in Logged
        BY <1>3, <1>4, <1>6 DEF CallOK
    <1>8. QED
        BY <1>1, <1>4, <1>6, <1>7

LEMMA PgInsertOnce ==
    ASSUME Inv, Inv', OnceInv, NEW p \in Threads, PgInsert(p)
    PROVE  OnceInv'
    <1>1. PICK c : c = Head(calls[p])
        OBVIOUS
    <1>2. /\ pc[p] = "append" /\ pc'[p] = "commit" /\ seq'[p] = nextSeq + 1
          /\ UNCHANGED <<log, issued, lost, applied, accounts, status, calls, phase>>
          /\ \A q \in Threads \ {p} : pc'[q] = pc[q] /\ seq'[q] = seq[q]
        BY DEF PgInsert, proj, Inv, LogInv, TypeOK
    <1>3. WriterOK(p)
        BY DEF OnceInv
    <1>4. Logged \subseteq J!EventsBefore(log, nextSeq + 1)
        BY DEF Logged, J!EventsBefore, Inv, LogInv, TypeOK
    <1>5. ASSUME c.op = "post", NEW t \in DOMAIN Linked, c.id = Linked[t]
          PROVE  Posted(t) \in J!EventsBefore(log, nextSeq + 1)
        <2>1. EventOf(c) = Posted(Linked[t])
            BY <1>5 DEF EventOf, Posted
        <2>2. QED
            BY <1>1, <1>2, <1>4, <2>1, FirstPosted
    <1>6. WriterOK(p)'
        BY <1>1, <1>2, <1>3, <1>5 DEF WriterOK, Logged
    <1>7. ListStep(p) /\ LogKnown'
        BY <1>2, KnownKept DEF ListStep, OnceInv
    <1>8. QED
        BY <1>2, <1>6, <1>7, QuietOnce

(* The event that goroutine p writes is new in the log: no other call is   *)
(* still to write it, and it is not a second capital transaction.          *)
LEMMA WrittenOnce ==
    ASSUME Inv, OnceInv, NEW p \in Threads, pc[p] \in {"append", "commit"},
           NEW e, e = EventOf(Head(calls[p]))
    PROVE  /\ e.type \in {"opened", "posted"} => e \notin Logged
           /\ e.type = "opened" => e.id \in issued \cup SystemSet
           /\ e.type = "posted" => e.id \in issued
           /\ (\E t \in SeedTxs : e = Posted(t)) => \A t \in SeedTxs : Posted(t) \notin Logged
           /\ \A q \in Threads : \A i \in 1..Len(calls[q]) :
                (calls[q][i].op \in Creating /\ EventOf(calls[q][i]) = e) => q = p /\ i = 1
    <1>1. PICK c : c = Head(calls[p])
        OBVIOUS
    <1>2. /\ calls[p] # << >> /\ calls[p] \in Seq(Calls) /\ c.op \in EventOps
          /\ \A q \in Threads : calls[q] \in Seq(Calls)
        BY <1>1 DEF Inv, LogInv, ThreadOK, TypeOK
    <1>3. CallOK(p, 1) /\ c = calls[p][1] /\ 1 \in 1..Len(calls[p]) /\ WriterOK(p)
        BY <1>1, <1>2, ListFacts DEF OnceInv, CallsOK
    <1>4. Pending(p, 1)
        BY DEF Pending
    <1>5. /\ e.id = c.id
          /\ c.op \in {"open", "ensure"} => e = Opened(c.id) /\ e.type = "opened"
          /\ c.op \in {"post", "seed"} => e = Posted(c.id) /\ e.type = "posted"
          /\ c.op \in {"settle", "finalize"} => e.type \in {"settled", "finalized"}
        BY <1>1, <1>2 DEF EventOf, EventOps, Opened, Posted
    <1>6. c.op \in Creating \cup {"ensure", "settle", "finalize"}
        BY <1>2 DEF EventOps, Creating
    <1>7. /\ c.op \in Creating => c.id \in issued /\ e \notin Logged
          /\ c.op = "seed" => c.id \in SeedTxs
          /\ c.op = "post" => c.id \notin SeedTxs
          /\ c.op = "ensure" => c.id \in SystemSet
          /\ c.op = "open" => c.id \notin SystemSet
        BY <1>1, <1>3, <1>4 DEF CallOK
    <1>8. /\ c.op = "ensure" => Opened(c.id) \notin Logged
          /\ c.op = "seed" => \A t \in SeedTxs : Posted(t) \notin Logged
        BY <1>1, <1>3 DEF WriterOK
    <1>9. /\ e.type \in {"opened", "posted"} => e \notin Logged
          /\ e.type = "opened" => e.id \in issued \cup SystemSet
          /\ e.type = "posted" => e.id \in issued
        BY <1>5, <1>6, <1>7, <1>8 DEF Creating
    <1>10. ASSUME NEW t \in SeedTxs, e = Posted(t)
           PROVE  \A u \in SeedTxs : Posted(u) \notin Logged
        <2>1. e.type = "posted" /\ c.id = t
            BY <1>5, <1>10 DEF Posted
        <2>2. c.op = "seed"
            BY <1>5, <1>6, <1>7, <1>10, <2>1 DEF Creating
        <2>3. QED
            BY <1>8, <2>2
    <1>11. ASSUME NEW q \in Threads, NEW i \in 1..Len(calls[q]),
                  calls[q][i].op \in Creating, EventOf(calls[q][i]) = e
           PROVE  q = p /\ i = 1
        <2>1. PICK d : d = calls[q][i]
            OBVIOUS
        <2>2. /\ e.id = d.id
              /\ d.op = "open" => e.type = "opened"
              /\ d.op \in {"post", "seed"} => e.type = "posted"
            <3>1. e = EventOf(d) /\ d.op \in Creating
                BY <1>11, <2>1
            <3>2. QED
                BY <3>1 DEF EventOf, Creating
        <2>3. CallOK(q, i)
            BY DEF OnceInv, CallsOK
        <2>4. c.op # "ensure"
            <3>1. d.op = "open" => d.id \notin SystemSet
                BY <2>1, <2>3 DEF CallOK
            <3>2. QED
                BY <1>5, <1>7, <1>11, <2>1, <2>2, <3>1 DEF Creating
        <2>5. c.op \in Creating
            BY <1>5, <1>6, <1>11, <2>1, <2>2, <2>4 DEF Creating
        <2>6. /\ calls[p][1].op \in Creating /\ calls[q][i].op \in Creating
              /\ calls[p][1].id = calls[q][i].id
            BY <1>3, <1>5, <1>11, <2>1, <2>2, <2>5
        <2>7. CallsDiffer
            BY DEF OnceInv
        <2>8. QED
            BY <1>3, <2>6, <2>7 DEF CallsDiffer
    <1>12. QED
        BY <1>9, <1>10, <1>11

(* A commit: the new event with number s, written by goroutine p.          *)
LEMMA CommitOnce ==
    ASSUME Inv, Inv', OnceInv, NEW p \in Threads, NEW s, s \notin DOMAIN log,
           pc[p] \in {"append", "commit"},
           DOMAIN log' = DOMAIN log \cup {s}, LogGrows,
           log'[s] = EventOf(Head(calls[p])),
           applied'[s] = 0, \A r \in DOMAIN log : applied'[r] = applied[r],
           \A t \in DOMAIN Linked : log'[s] = Posted(Linked[t]) =>
             Posted(t) \in J!EventsBefore(log, s),
           \/ pc'[p] = "apply" /\ seq'[p] = s /\ calls'[p] = calls[p]
           \/ pc'[p] = "idle" /\ calls'[p] = << >>,
           \A q \in Threads \ {p} :
             pc'[q] = pc[q] /\ calls'[q] = calls[q] /\ seq'[q] = seq[q],
           UNCHANGED <<issued, accounts, status>>,
           phase' = "starting" => phase = "starting" /\ lost' = lost
    PROVE  OnceInv'
    <1>1. TypeOK /\ TypeOK' /\ CallsOK /\ CallsDiffer
        BY DEF Inv, LogInv, OnceInv
    <1>2. PICK e : e = EventOf(Head(calls[p])) /\ e = log'[s]
        OBVIOUS
    <1>3. Logged' = Logged \cup {e} /\ Logged \subseteq Logged'
        BY <1>2 DEF Logged, LogGrows
    <1>4. /\ e.type \in {"opened", "posted"} => e \notin Logged
          /\ e.type = "opened" => e.id \in issued \cup SystemSet
          /\ e.type = "posted" => e.id \in issued
          /\ (\E t \in SeedTxs : e = Posted(t)) => \A t \in SeedTxs : Posted(t) \notin Logged
          /\ \A q \in Threads : \A i \in 1..Len(calls[q]) :
               (calls[q][i].op \in Creating /\ EventOf(calls[q][i]) = e) => q = p /\ i = 1
        BY <1>2, WrittenOnce
    <1>5. CallsOK' /\ CallsDiffer'
        <2>1. ListStep(p)
            BY DEF ListStep
        <2>2. ASSUME NEW q \in Threads, NEW i \in 1..Len(calls'[q]),
                     calls'[q][i].op \in Creating, Pending(q, i)',
                     EventOf(calls'[q][i]) \in Logged'
              PROVE  EventOf(calls'[q][i]) \in Logged
            <3>1. calls'[q] = calls[q] \/ calls'[q] = << >>
                OBVIOUS
            <3>2. calls'[q] = calls[q]
                BY <2>2, <3>1
            <3>3. ~ (q = p /\ i = 1)
                BY <2>2, <3>2 DEF Pending
            <3>4. EventOf(calls'[q][i]) # e
                BY <1>4, <2>2, <3>2, <3>3
            <3>5. QED
                BY <1>3, <2>2, <3>4
        <2>3. QED
            BY <1>1, <1>3, <2>1, <2>2, CallsKept
    <1>6. \A q \in Threads : WriterOK(q)'
        <2>1. WriterOK(p)'
            BY <1>2 DEF WriterOK
        <2>2. ASSUME NEW q \in Threads \ {p} PROVE WriterOK(q)'
            <3>1. q # Main \/ pc[q] = "idle"
                BY Working DEF Inv, FoldInv, PhaseOK
            <3>2. QED
                BY <3>1, WriterKept
        <2>3. QED
            BY <2>1, <2>2
    <1>7. LogKnown'
        BY <1>2, <1>4 DEF OnceInv, LogKnown, LogGrows
    <1>8. StartupIdempotent'
        <2>1. \A r \in DOMAIN log : log'[r] = log[r] /\ log[r] \in Logged
            BY DEF LogGrows, Logged
        <2> DEFINE capital == {Posted(t) : t \in SeedTxs}
        <2>2. StartupIdempotent
            BY DEF OnceInv
        <2>3. e \in capital => \A r \in DOMAIN log : log[r] \notin capital
            BY <1>4, <2>1
        <2>4. e.type \in {"opened", "posted"} => \A r \in DOMAIN log : log[r] # e
            BY <1>4, <2>1
        <2>5. ASSUME NEW r \in DOMAIN log', NEW u \in DOMAIN log', r # u,
                     log'[r].type \in {"opened", "posted"}
              PROVE  log'[r] # log'[u] /\ ~ ({log'[r], log'[u]} \subseteq capital)
            <3> HIDE DEF capital
            <3>1. CASE r = s
                BY <1>2, <2>1, <2>3, <2>4, <2>5, <3>1
            <3>2. CASE u = s
                BY <1>2, <2>1, <2>3, <2>4, <2>5, <3>2
            <3>3. CASE r # s /\ u # s
                BY <2>1, <2>2, <2>5, <3>3 DEF StartupIdempotent, capital
            <3>4. QED
                BY <3>1, <3>2, <3>3
        <2>6. QED
            BY <2>5 DEF StartupIdempotent
    <1>9. ConversionOrder'
        <2>1. ASSUME NEW t \in DOMAIN Linked, NEW r \in DOMAIN log',
                     log'[r] = Posted(Linked[t])
              PROVE  Posted(t) \in J!EventsBefore(log', r)
            <3>1. J!EventsBefore(log, r) \subseteq J!EventsBefore(log', r)
                BY GrowthKeeps
            <3>2. CASE r = s
                BY <2>1, <3>1, <3>2
            <3>3. CASE r # s
                <4>1. r \in DOMAIN log /\ log[r] = Posted(Linked[t])
                    BY <2>1, <3>3 DEF LogGrows
                <4>2. Posted(t) \in J!EventsBefore(log, r)
                    BY <4>1 DEF OnceInv, ConversionOrder
                <4>3. QED
                    BY <3>1, <4>2
            <3>4. QED
                BY <3>2, <3>3
        <2>2. QED
            BY <2>1 DEF ConversionOrder
    <1>10. phase' = "starting" => lost' = {}
        BY DEF OnceInv
    <1>11. QED
        BY <1>5, <1>6, <1>7, <1>8, <1>9, <1>10 DEF OnceInv

LEMMA MemAppendOnce ==
    ASSUME Inv, Inv', OnceInv, NEW p \in Threads, MemAppend(p)
    PROVE  OnceInv'
    <1> DEFINE s == nextSeq + 1
    <1>1. s \notin DOMAIN log /\ DOMAIN applied = DOMAIN log
        BY DEF Inv, LogInv, TypeOK
    <1>2. Logged \subseteq J!EventsBefore(log, s)
        BY DEF Logged, J!EventsBefore, Inv, LogInv, TypeOK
    <1>3. /\ pc[p] = "append" /\ Commit(p, s)
          /\ pc'[p] = "apply" /\ seq'[p] = s /\ calls'[p] = calls[p]
          /\ \A q \in Threads \ {p} : /\ pc'[q] = pc[q] /\ calls'[q] = calls[q]
                                      /\ seq'[q] = seq[q]
          /\ UNCHANGED <<issued, phase, lost>>
        BY DEF MemAppend, Inv, LogInv, TypeOK
    <1> HIDE DEF s
    <1>4. /\ DOMAIN log' = DOMAIN log \cup {s} /\ LogGrows
          /\ log'[s] = EventOf(Head(calls[p]))
          /\ applied'[s] = 0 /\ \A r \in DOMAIN log : applied'[r] = applied[r]
          /\ UNCHANGED <<accounts, status>>
        BY <1>1, <1>3 DEF Commit, Extend, LogGrows
    <1>5. \A t \in DOMAIN Linked : log'[s] = Posted(Linked[t]) =>
            Posted(t) \in J!EventsBefore(log, s)
        BY <1>2, <1>3, <1>4, FirstPosted
    <1>6. QED
        BY <1>1, <1>3, <1>4, <1>5, CommitOnce

LEMMA PgCommitOnce ==
    ASSUME Inv, Inv', OnceInv, NEW p \in Threads, PgCommit(p) \/ PgCommitLost(p)
    PROVE  OnceInv'
    <1> DEFINE s == seq[p]
    <1>1. /\ pc[p] = "commit" /\ s \notin DOMAIN log /\ Commit(p, s)
          /\ UNCHANGED issued /\ DOMAIN applied = DOMAIN log
        BY DEF PgCommit, PgCommitLost, Inv, LogInv, ThreadOK, TypeOK
    <1>2. /\ DOMAIN log' = DOMAIN log \cup {s} /\ LogGrows
          /\ log'[s] = EventOf(Head(calls[p]))
          /\ applied'[s] = 0 /\ \A r \in DOMAIN log : applied'[r] = applied[r]
          /\ UNCHANGED <<accounts, status>>
        BY <1>1 DEF Commit, Extend, LogGrows
    <1>3. \A t \in DOMAIN Linked : log'[s] = Posted(Linked[t]) =>
            Posted(t) \in J!EventsBefore(log, s)
        <2>1. SUFFICES ASSUME NEW t \in DOMAIN Linked,
                              EventOf(Head(calls[p])) = Posted(Linked[t])
                       PROVE  Posted(t) \in J!EventsBefore(log, s)
            BY <1>2
        <2>2. Head(calls[p]).op = "post" /\ Head(calls[p]).id = Linked[t]
            BY <1>1, <2>1, FirstPosted
        <2>3. QED
            BY <1>1, <2>2 DEF OnceInv, WriterOK
    <1>4. CASE PgCommit(p)
        <2>1. /\ pc'[p] = "apply" /\ seq'[p] = s /\ calls'[p] = calls[p]
              /\ \A q \in Threads \ {p} : /\ pc'[q] = pc[q] /\ calls'[q] = calls[q]
                                          /\ seq'[q] = seq[q]
              /\ UNCHANGED <<phase, lost>>
            BY <1>4 DEF PgCommit, Inv, LogInv, TypeOK
        <2> HIDE DEF s
        <2>2. QED
            BY <1>1, <1>2, <1>3, <2>1, CommitOnce
    <1>5. CASE PgCommitLost(p)
        <2>1. /\ pc'[p] = "idle" /\ calls'[p] = << >>
              /\ \A q \in Threads \ {p} : /\ pc'[q] = pc[q] /\ calls'[q] = calls[q]
                                          /\ seq'[q] = seq[q]
              /\ phase' = IF p = Main THEN "down" ELSE phase
            BY <1>5 DEF PgCommitLost, Abort, Inv, LogInv, TypeOK
        <2>2. p # Main => phase = "up"
            BY <1>1, Working
        <2> HIDE DEF s
        <2>3. QED
            BY <1>1, <1>2, <1>3, <2>1, <2>2, CommitOnce
    <1>6. QED
        BY <1>4, <1>5

-----------------------------------------------------------------------------
(* A call with a fresh identifier creates what is not in the log.          *)
LEMMA FreshEvent ==
    ASSUME OnceInv, NEW c, c.op \in Creating, c.id \notin issued,
           c.op = "open" => c.id \notin SystemSet
    PROVE  EventOf(c) \notin Logged
    <1>1. /\ EventOf(c).id = c.id
          /\ c.op = "open" => EventOf(c).type = "opened"
          /\ c.op # "open" => EventOf(c).type = "posted"
        BY DEF EventOf, Creating
    <1>2. QED
        BY <1>1 DEF OnceInv, LogKnown, Logged

(* A request begins: its calls, cs, bear identifiers of their own.         *)
LEMMA BeginOnce ==
    ASSUME Inv, Inv', OnceInv, NEW p \in Procs, NEW cs \in Seq(Calls), Begin(p, cs),
           issued \subseteq issued',
           \A i \in 1..Len(cs) :
             /\ cs[i].op \notin {"seed", "ensure"}
             /\ cs[i].op \in Creating => cs[i].id \in issued' \ issued
             /\ cs[i].op = "open" => cs[i].id \notin SystemSet
             /\ cs[i].op = "post" => cs[i].id \notin SeedTxs
             /\ cs[i].op = "post" => \A t \in DOMAIN Linked : cs[i].id = Linked[t] =>
                  \E j \in 1..i - 1 : cs[j] = Call("post", t),
           \A i, j \in 1..Len(cs) :
             (cs[i].op \in Creating /\ cs[j].op \in Creating /\ cs[i].id = cs[j].id)
               => i = j
    PROVE  OnceInv'
    <1>1. p \in Threads
        BY DEF Threads
    <1>2. /\ pc'[p] = "refresh" /\ calls'[p] = cs
          /\ UNCHANGED <<log, lost, applied, accounts, status, seq, phase>>
          /\ \A q \in Threads \ {p} : pc'[q] = pc[q] /\ calls'[q] = calls[q]
        BY <1>1 DEF Begin, Inv, LogInv, TypeOK, store, proj
    <1>3. Logged' = Logged /\ LogGrows
        BY <1>2 DEF Logged, LogGrows
    <1>4. ASSUME NEW i \in 1..Len(cs) PROVE CallOK(p, i)'
        <2>1. PICK c : c = cs[i]
            OBVIOUS
        <2>2. /\ c.op \notin {"seed", "ensure"}
              /\ c.op \in Creating => c.id \in issued' \ issued
              /\ c.op = "open" => c.id \notin SystemSet
              /\ c.op = "post" => c.id \notin SeedTxs
              /\ c.op = "post" => \A t \in DOMAIN Linked : c.id = Linked[t] =>
                   \E j \in 1..i - 1 : cs[j] = Call("post", t)
            BY <2>1
        <2>3. c.op \in Creating => EventOf(c) \notin Logged
            BY <2>2, FreshEvent
        <2>4. QED
            BY <1>2, <1>3, <2>1, <2>2, <2>3 DEF CallOK
    <1>5. ASSUME NEW q \in Threads \ {p}, NEW i \in 1..Len(calls[q])
          PROVE  /\ CallOK(q, i)'
                 /\ calls[q][i].op \in Creating => calls[q][i].id \in issued
        <2>1. CallOK(q, i)
            BY DEF OnceInv, CallsOK
        <2>2. pc'[q] = pc[q] /\ calls'[q] = calls[q]
            BY <1>2
        <2>3. QED
            BY <1>3, <2>1, <2>2 DEF CallOK, Pending
    <1>6. CallsOK'
        BY <1>1, <1>2, <1>4, <1>5 DEF CallsOK
    <1>7. CallsDiffer'
        <2>1. ASSUME NEW q \in Threads, NEW r \in Threads,
                     NEW i \in 1..Len(calls'[q]), NEW j \in 1..Len(calls'[r]),
                     calls'[q][i].op \in Creating, calls'[r][j].op \in Creating,
                     calls'[q][i].id = calls'[r][j].id
              PROVE  q = r /\ i = j
            <3>1. CASE q = p /\ r = p
                BY <1>2, <2>1, <3>1
            <3>2. CASE q = p /\ r # p
                BY <1>2, <1>5, <2>1, <3>2
            <3>3. CASE q # p /\ r = p
                BY <1>2, <1>5, <2>1, <3>3
            <3>4. CASE q # p /\ r # p
                <4>1. calls'[q] = calls[q] /\ calls'[r] = calls[r]
                    BY <1>2, <3>4
                <4>2. CallsDiffer
                    BY DEF OnceInv
                <4>3. QED
                    BY <2>1, <4>1, <4>2 DEF CallsDiffer
            <3>5. QED
                BY <3>1, <3>2, <3>3, <3>4
        <2>2. QED
            BY <2>1 DEF CallsDiffer
    <1>8. \A q \in Threads : WriterOK(q)'
        <2>1. WriterOK(p)'
            BY <1>2, IdleWriter
        <2>2. ASSUME NEW q \in Threads \ {p} PROVE WriterOK(q)'
            BY <1>2, <1>3, WriterKept
        <2>3. QED
            BY <2>1, <2>2
    <1>9. StartupIdempotent' /\ ConversionOrder' /\ LogKnown'
        BY <1>2, KnownKept DEF OnceInv, StartupIdempotent, ConversionOrder
    <1>10. QED
        BY <1>2, <1>6, <1>7, <1>8, <1>9 DEF OnceInv

LEMMA RequestOnce ==
    ASSUME Inv, Inv', OnceInv, NEW p \in Procs, Request(p)
    PROVE  OnceInv'
    <1>1. CASE OpenAccount(p)
        <2>1. PICK a \in Accounts : /\ a \notin issued /\ a \notin SystemSet
                                    /\ Begin(p, <<Call("open", a)>>)
                                    /\ issued' = issued \cup {a}
            BY <1>1 DEF OpenAccount, SystemSet
        <2> DEFINE cs == <<Call("open", a)>>
        <2>2. cs \in Seq(Calls) /\ Len(cs) = 1 /\ cs[1].op = "open" /\ cs[1].id = a
            <3>1. cs \in Seq(Calls)
                BY CallTyped
            <3>2. Len(cs) = 1 /\ cs[1].op = "open" /\ cs[1].id = a
                BY DEF Call
            <3>3. QED
                BY <3>1, <3>2
        <2>3. \A i \in 1..Len(cs) : i = 1
            BY <2>2
        <2>4. Begin(p, cs)
            BY <2>1
        <2> HIDE DEF cs
        <2>5. QED
            BY <2>1, <2>2, <2>3, <2>4, BeginOnce DEF Creating
    <1>2. CASE PostAndFinalize(p)
        <2>1. PICK t \in TxIDs :
                /\ t \notin issued /\ t \notin SeedTxs /\ t \notin FXTxs
                /\ Begin(p, <<Call("post", t), Call("settle", t), Call("finalize", t)>>)
                /\ issued' = issued \cup {t}
            BY <1>2 DEF PostAndFinalize
        <2> DEFINE cs == <<Call("post", t), Call("settle", t), Call("finalize", t)>>
        <2>2. /\ cs \in Seq(Calls) /\ Len(cs) = 3 /\ cs[1].op = "post" /\ cs[1].id = t
              /\ cs[2].op = "settle" /\ cs[3].op = "finalize"
            <3>1. cs \in Seq(Calls)
                BY CallTyped
            <3>2. /\ Len(cs) = 3 /\ cs[1].op = "post" /\ cs[1].id = t
                  /\ cs[2].op = "settle" /\ cs[3].op = "finalize"
                BY DEF Call
            <3>3. QED
                BY <3>1, <3>2
        <2>3. \A i \in 1..Len(cs) : i \in {1, 2, 3}
            BY <2>2
        <2>4. Begin(p, cs) /\ \A u \in DOMAIN Linked : Linked[u] # t
            BY <2>1 DEF FXTxs
        <2> HIDE DEF cs
        <2>5. \A i \in 1..Len(cs) :
                 /\ cs[i].op \notin {"seed", "ensure"}
                 /\ cs[i].op \in Creating => cs[i].id \in issued' \ issued
                 /\ cs[i].op = "open" => cs[i].id \notin SystemSet
                 /\ cs[i].op = "post" => cs[i].id \notin SeedTxs
                 /\ cs[i].op = "post" => \A u \in DOMAIN Linked : cs[i].id # Linked[u]
                 /\ cs[i].op \in Creating => i = 1
            BY <2>1, <2>2, <2>3, <2>4 DEF Creating
        <2>6. QED
            BY <2>1, <2>2, <2>4, <2>5, BeginOnce
    <1>3. CASE Convert(p)
        <2>1. PICK t \in DOMAIN Linked :
                /\ t \notin issued /\ Linked[t] \notin issued
                /\ Begin(p, <<Call("convert", t), Call("post", t), Call("post", Linked[t]),
                              Call("settle", t), Call("finalize", t),
                              Call("settle", Linked[t]), Call("finalize", Linked[t])>>)
                /\ issued' = issued \cup {t, Linked[t]}
            BY <1>3 DEF Convert
        <2>2. PICK u : u = Linked[t]
            OBVIOUS
        <2> DEFINE cs == <<Call("convert", t), Call("post", t), Call("post", u),
                           Call("settle", t), Call("finalize", t),
                           Call("settle", u), Call("finalize", u)>>
        <2>3. /\ t \in TxIDs /\ u \in TxIDs /\ t # u
              /\ t \notin SeedTxs /\ u \notin SeedTxs
              /\ \A v \in DOMAIN Linked : Linked[v] # t
              /\ \A v \in DOMAIN Linked : Linked[v] = u => v = t
            BY <2>2, LedgerAssumption DEF FXTxs
        <2>4. /\ cs \in Seq(Calls) /\ Len(cs) = 7
              /\ cs[1].op = "convert" /\ cs[2] = Call("post", t)
              /\ cs[2].op = "post" /\ cs[2].id = t /\ cs[3].op = "post" /\ cs[3].id = u
              /\ cs[4].op = "settle" /\ cs[5].op = "finalize"
              /\ cs[6].op = "settle" /\ cs[7].op = "finalize"
            <3>1. cs \in Seq(Calls)
                BY <2>3, CallTyped
            <3>2. Len(cs) = 7 /\ cs[2] = Call("post", t)
                OBVIOUS
            <3>3. /\ cs[1].op = "convert" /\ cs[2].op = "post" /\ cs[2].id = t
                  /\ cs[3].op = "post" /\ cs[3].id = u
                BY DEF Call
            <3>4. /\ cs[4].op = "settle" /\ cs[5].op = "finalize"
                  /\ cs[6].op = "settle" /\ cs[7].op = "finalize"
                BY DEF Call
            <3>5. QED
                BY <3>1, <3>2, <3>3, <3>4
        <2>5. \A i \in 1..Len(cs) : i \in {1, 2, 3, 4, 5, 6, 7}
            BY <2>4
        <2>6. Begin(p, cs) /\ issued' = issued \cup {t, u} /\ u \notin issued
            BY <2>1, <2>2
        <2> HIDE DEF cs
        <2>7. \A i \in 1..Len(cs) :
                 /\ cs[i].op \notin {"seed", "ensure", "open"}
                 /\ cs[i].op \in Creating => i \in {2, 3}
                 /\ cs[i].op = "post" => i \in {2, 3}
            BY <2>4, <2>5 DEF Creating
        <2>8. \A i \in 1..Len(cs) : cs[i].op = "post" => cs[i].id \notin SeedTxs
            BY <2>3, <2>4, <2>7
        <2>9. \A i \in 1..Len(cs) : cs[i].op \in Creating => cs[i].id \in issued' \ issued
            BY <2>1, <2>4, <2>6, <2>7
        <2>10. \A i \in 1..Len(cs) : cs[i].op = "post" =>
                 \A v \in DOMAIN Linked : cs[i].id = Linked[v] =>
                   \E j \in 1..i - 1 : cs[j] = Call("post", v)
            <3>1. SUFFICES ASSUME NEW i \in 1..Len(cs), cs[i].op = "post",
                                  NEW v \in DOMAIN Linked, cs[i].id = Linked[v]
                           PROVE  \E j \in 1..i - 1 : cs[j] = Call("post", v)
                OBVIOUS
            <3>2. i = 3 /\ v = t
                BY <2>3, <2>4, <2>7, <3>1
            <3>3. 2 \in 1..i - 1
                BY <3>2
            <3>4. QED
                BY <2>4, <3>2, <3>3
        <2>11. \A i, j \in 1..Len(cs) :
                 (cs[i].op \in Creating /\ cs[j].op \in Creating /\ cs[i].id = cs[j].id)
                   => i = j
            BY <2>3, <2>4, <2>7
        <2>12. QED
            BY <2>4, <2>6, <2>7, <2>8, <2>9, <2>10, <2>11, BeginOnce
    <1>4. ASSUME NEW c \in Calls, c.op \in {"settle", "finalize", "read"},
                 Begin(p, <<c>>), UNCHANGED issued
          PROVE  OnceInv'
        <2> DEFINE cs == <<c>>
        <2>1. cs \in Seq(Calls) /\ Len(cs) = 1 /\ cs[1] = c /\ Begin(p, cs)
            BY <1>4
        <2>2. \A i \in 1..Len(cs) : cs[i] = c
            OBVIOUS
        <2> HIDE DEF cs
        <2>3. \A i \in 1..Len(cs) : cs[i].op \notin Creating \cup {"seed", "ensure"}
            BY <1>4, <2>2 DEF Creating
        <2>4. QED
            BY <1>4, <2>1, <2>3, BeginOnce DEF Creating
    <1>5. ASSUME NEW op \in {"settle", "finalize"}, Manual(p, op)
          PROVE  OnceInv'
        <2>1. PICK t \in TxIDs : Begin(p, <<Call(op, t)>>)
            BY <1>5 DEF Manual
        <2>2. Call(op, t) \in Calls /\ Call(op, t).op = op
            BY CallTyped DEF Call
        <2>3. UNCHANGED issued
            BY <1>5 DEF Manual
        <2>4. QED
            BY <1>4, <2>1, <2>2, <2>3
    <1>6. CASE Read(p)
        <2>1. Call("read", Nobody) \in Calls /\ Call("read", Nobody).op = "read"
            BY CallTyped DEF Call
        <2>2. Begin(p, <<Call("read", Nobody)>>) /\ UNCHANGED issued
            BY <1>6 DEF Read
        <2>3. QED
            BY <1>4, <2>1, <2>2
    <1>7. QED
        BY <1>1, <1>2, <1>3, <1>5, <1>6 DEF Request, Settle, Finalize

-----------------------------------------------------------------------------
(* The calls of main(): each system account, then the capital transaction. *)
LEMMA StartupList ==
    ASSUME NEW t \in SeedTxs, NEW i \in 1..Len(StartupCalls(t))
    PROVE  \/ StartupCalls(t)[i].op = "ensure" /\ StartupCalls(t)[i].id \in SystemSet
           \/ i = Len(SystemAccounts) + 1 /\ StartupCalls(t)[i] = Call("seed", t)
           \/ StartupCalls(t)[i].op \in {"settle", "finalize"}
    <1> DEFINE open == [k \in 1..Len(SystemAccounts) |-> Call("ensure", SystemAccounts[k])]
               post == <<Call("seed", t), Call("settle", t), Call("finalize", t)>>
               n == Len(SystemAccounts)
    <1>1. t \in TxIDs /\ n \in Nat
        BY LedgerAssumption, LenProperties DEF SeedTxs
    <1>2. open \in Seq(Calls) /\ Len(open) = n
        <2>1. open \in Seq(Calls)
            BY LedgerAssumption, CallTyped
        <2>2. Len(open) = n
            BY <1>1
        <2>3. QED
            BY <2>1, <2>2
    <1>3. post \in Seq(Calls) /\ Len(post) = 3
        BY <1>1, CallTyped
    <1>4. StartupCalls(t) = open \o post
        BY DEF StartupCalls
    <1>5. \A k \in 1..n : open[k].op = "ensure" /\ open[k].id \in SystemSet
        BY DEF Call, SystemSet
    <1>6. post[1] = Call("seed", t) /\ post[2].op = "settle" /\ post[3].op = "finalize"
        BY DEF Call
    <1> HIDE DEF open, post, n
    <1>7. /\ Len(open \o post) = n + 3
          /\ \A k \in 1..n + 3 : (open \o post)[k] = IF k <= n THEN open[k] ELSE post[k - n]
        <2>1. /\ Len(open \o post) = Len(open) + Len(post)
              /\ \A k \in 1..Len(open) + Len(post) :
                   (open \o post)[k] = IF k <= Len(open) THEN open[k]
                                                        ELSE post[k - Len(open)]
            BY <1>2, <1>3, ConcatProperties
        <2>2. QED
            BY <1>2, <1>3, <2>1
    <1>8. i \in 1..n + 3
        BY <1>4, <1>7
    <1>9. CASE i <= n
        BY <1>1, <1>4, <1>5, <1>7, <1>8, <1>9
    <1>10. CASE i > n
        <2>1. StartupCalls(t)[i] = post[i - n] /\ i - n \in {1, 2, 3}
            BY <1>1, <1>4, <1>7, <1>8, <1>10
        <2>2. CASE i - n = 1
            BY <1>1, <1>6, <1>8, <2>1, <2>2 DEF n
        <2>3. CASE i - n \in {2, 3}
            BY <1>6, <2>1, <2>3
        <2>4. QED
            BY <2>1, <2>2, <2>3
    <1>11. QED
        BY <1>1, <1>8, <1>9, <1>10

(* A process starts: main() has its calls, with a fresh identifier for the *)
(* capital transaction, and nobody else has any.                           *)
Starting(t) ==
    /\ calls = [p \in Threads |-> IF p = Main THEN StartupCalls(t) ELSE << >>]
    /\ pc = [p \in Threads |-> IF p = Main THEN "refresh" ELSE "idle"]
    /\ t \in issued /\ Posted(t) \notin Logged

LEMMA StartingCalls ==
    ASSUME NEW t \in SeedTxs, Starting(t)
    PROVE  CallsOK /\ CallsDiffer /\ \A p \in Threads : WriterOK(p)
    <1>1. ASSUME NEW p \in Threads, NEW i \in 1..Len(calls[p])
          PROVE  /\ p = Main /\ CallOK(p, i)
                 /\ calls[p][i].op \in Creating => i = Len(SystemAccounts) + 1
        <2>1. p = Main /\ calls[p] = StartupCalls(t)
            BY <1>1 DEF Starting
        <2>2. PICK c : c = StartupCalls(t)[i] /\ c = calls[p][i]
            BY <2>1
        <2>3. \/ c.op = "ensure" /\ c.id \in SystemSet
              \/ i = Len(SystemAccounts) + 1 /\ c = Call("seed", t)
              \/ c.op \in {"settle", "finalize"}
            BY <1>1, <2>1, <2>2, StartupList
        <2>4. CASE c.op = "ensure" /\ c.id \in SystemSet
            BY <2>1, <2>2, <2>4 DEF CallOK, Creating
        <2>5. CASE i = Len(SystemAccounts) + 1 /\ c = Call("seed", t)
            <3>1. c.op = "seed" /\ c.id = t /\ EventOf(c) = Posted(t)
                BY <2>5 DEF Call, EventOf, Posted
            <3>2. QED
                BY <2>1, <2>2, <2>5, <3>1 DEF CallOK, Starting
        <2>6. CASE c.op \in {"settle", "finalize"}
            BY <2>1, <2>2, <2>6 DEF CallOK, Creating
        <2>7. QED
            BY <2>3, <2>4, <2>5, <2>6
    <1>2. CallsOK
        BY <1>1 DEF CallsOK
    <1>3. CallsDiffer
        BY <1>1 DEF CallsDiffer
    <1>4. \A p \in Threads : WriterOK(p)
        BY DEF WriterOK, Starting
    <1>5. QED
        BY <1>2, <1>3, <1>4

LEMMA StartingNext ==
    ASSUME NEW t \in SeedTxs, Starting(t)'
    PROVE  (CallsOK /\ CallsDiffer /\ \A p \in Threads : WriterOK(p))'
    <1>1. ASSUME NEW p \in Threads, NEW i \in 1..Len(calls'[p])
          PROVE  /\ p = Main /\ CallOK(p, i)'
                 /\ calls'[p][i].op \in Creating => i = Len(SystemAccounts) + 1
        <2>1. p = Main /\ calls'[p] = StartupCalls(t)
            BY <1>1 DEF Starting
        <2>2. PICK c : c = StartupCalls(t)[i] /\ c = calls'[p][i]
            BY <2>1
        <2>3. \/ c.op = "ensure" /\ c.id \in SystemSet
              \/ i = Len(SystemAccounts) + 1 /\ c = Call("seed", t)
              \/ c.op \in {"settle", "finalize"}
            BY <1>1, <2>1, <2>2, StartupList
        <2>4. CASE c.op = "ensure" /\ c.id \in SystemSet
            BY <2>1, <2>2, <2>4 DEF CallOK, Creating
        <2>5. CASE i = Len(SystemAccounts) + 1 /\ c = Call("seed", t)
            <3>1. c.op = "seed" /\ c.id = t /\ EventOf(c) = Posted(t)
                BY <2>5 DEF Call, EventOf, Posted
            <3>2. QED
                BY <2>1, <2>2, <2>5, <3>1 DEF CallOK, Starting
        <2>6. CASE c.op \in {"settle", "finalize"}
            BY <2>1, <2>2, <2>6 DEF CallOK, Creating
        <2>7. QED
            BY <2>3, <2>4, <2>5, <2>6
    <1>2. CallsOK'
        BY <1>1 DEF CallsOK
    <1>3. CallsDiffer'
        BY <1>1 DEF CallsDiffer
    <1>4. \A p \in Threads : WriterOK(p)'
        BY DEF WriterOK, Starting
    <1>5. QED
        BY <1>2, <1>3, <1>4

LEMMA InitOnce == Init => OnceInv
    <1>1. SUFFICES ASSUME Init PROVE OnceInv
        OBVIOUS
    <1>2. PICK t \in SeedTxs : Starting(t)
        BY <1>1 DEF Init, Starting, Logged
    <1>3. CallsOK /\ CallsDiffer /\ \A p \in Threads : WriterOK(p)
        BY <1>2, StartingCalls
    <1>4. LogKnown /\ StartupIdempotent /\ ConversionOrder /\ lost = {}
        BY <1>1 DEF Init, LogKnown, StartupIdempotent, ConversionOrder
    <1>5. QED
        BY <1>3, <1>4 DEF OnceInv

LEMMA RestartOnce ==
    ASSUME Inv, OnceInv, Restart
    PROVE  OnceInv'
    <1>1. /\ log' = log /\ applied' = [s \in DOMAIN log |-> 0] /\ lost' = {}
          /\ issued \subseteq issued'
        BY DEF Restart, EmptyProjection, store
    <1>2. PICK t \in SeedTxs \ issued :
            /\ calls' = [p \in Threads |-> IF p = Main THEN StartupCalls(t) ELSE << >>]
            /\ pc' = [p \in Threads |-> IF p = Main THEN "refresh" ELSE "idle"]
            /\ t \in issued'
        BY DEF Restart
    <1>3. Posted(t) \notin Logged'
        BY <1>1, <1>2 DEF OnceInv, LogKnown, Logged, Posted
    <1>4. (CallsOK /\ CallsDiffer /\ \A p \in Threads : WriterOK(p))'
        BY <1>2, <1>3, StartingNext DEF Starting
    <1>5. LogKnown' /\ StartupIdempotent' /\ ConversionOrder'
        BY <1>1 DEF OnceInv, LogKnown, StartupIdempotent, ConversionOrder
    <1>6. QED
        BY <1>1, <1>4, <1>5 DEF OnceInv

LEMMA SameOnce ==
    ASSUME OnceInv, UNCHANGED vars
    PROVE  OnceInv'
    <1>1. UNCHANGED <<log, issued, lost, applied, accounts, status, pc, calls, seq, phase>>
        BY DEF vars, store, proj, threads
    <1>2. Logged' = Logged
        BY <1>1 DEF Logged
    <1>3. CallsOK'
        BY <1>1, <1>2 DEF OnceInv, CallsOK, CallOK, Pending
    <1>4. CallsDiffer'
        BY <1>1 DEF OnceInv, CallsDiffer
    <1>5. \A p \in Threads : WriterOK(p)'
        BY <1>1, <1>2 DEF OnceInv, WriterOK
    <1>6. LogKnown'
        BY <1>1 DEF OnceInv, LogKnown
    <1>7. StartupIdempotent' /\ ConversionOrder'
        BY <1>1 DEF OnceInv, StartupIdempotent, ConversionOrder
    <1>8. QED
        BY <1>1, <1>3, <1>4, <1>5, <1>6, <1>7 DEF OnceInv

LEMMA OnceStep ==
    ASSUME Inv, Inv', OnceInv, [Next]_vars
    PROVE  OnceInv'
    <1>1. ASSUME NEW p \in Procs, Request(p)
          PROVE  OnceInv'
        BY <1>1, RequestOnce
    <1>2. ASSUME NEW p \in Threads, LockStep(p)
          PROVE  OnceInv'
        BY <1>2, RefreshOnce, CheckEndOnce, CheckPassOnce, ApplyAppendedOnce DEF LockStep
    <1>3. ASSUME NEW p \in Threads, FreeStep(p)
          PROVE  OnceInv'
        BY <1>3, RefreshOnce, RefreshApplyOnce, MemAppendOnce, PgInsertOnce,
           PgCommitOnce DEF FreeStep, AppendEvent
    <1>4. ASSUME NEW p \in Threads, PgCommitLost(p) \/ StoreError(p)
          PROVE  OnceInv'
        BY <1>4, PgCommitOnce, CheckEndOnce
    <1>5. CASE Crash \/ StartAgain
        BY <1>5, RestartOnce DEF Crash, StartAgain
    <1>6. CASE UNCHANGED vars
        BY <1>6, SameOnce
    <1>7. QED
        BY <1>1, <1>2, <1>3, <1>4, <1>5, <1>6 DEF Next, Step

(* What the calls under way will write, and what the log already holds,    *)
(* together stay free of duplicates: the invariant behind the two below.   *)
THEOREM WrittenOnceInvariant == Spec => [](Inv /\ OnceInv)
    <1>1. Init => Inv /\ OnceInv
        BY InitInv, InitOnce
    <1>2. Inv /\ OnceInv /\ [Next]_vars => (Inv /\ OnceInv)'
        BY InvStep, OnceStep
    <1>3. QED
        BY <1>1, <1>2, PTL DEF Spec

(* However often the process crashes between the calls of main() and is    *)
(* started again, EnsureSystemAccounts opens no system account twice and   *)
(* SeedCapital posts the capital once.                                     *)
THEOREM StartupIsIdempotent == Spec => []StartupIdempotent
    <1>1. Inv /\ OnceInv => StartupIdempotent
        BY DEF OnceInv
    <1>2. QED
        BY <1>1, WrittenOnceInvariant, PTL

(* Convert's credit to the customer is never in the log without the debit  *)
(* before it, whatever crashes, failed appends or other requests come      *)
(* between the two.                                                        *)
THEOREM ConversionsInOrder == Spec => []ConversionOrder
    <1>1. Inv /\ OnceInv => ConversionOrder
        BY DEF OnceInv
    <1>2. QED
        BY <1>1, WrittenOnceInvariant, PTL
=============================================================================
