-------------------------- MODULE MCEvolution_proofs --------------------------
(***************************************************************************)
(* What holds of the parts of the evolution system: of the proposal table  *)
(* for every set of engines and jobs, of the tag tree for any merges,      *)
(* reverts and taggers, of a skill file and of a shadow case for any       *)
(* updates, chunks and number of failures.                                 *)
(***************************************************************************)
EXTENDS MCEvolution, FiniteSetTheorems, SequenceTheorems, TLAPS

-----------------------------------------------------------------------------
(***************************************************************************)
(* The proposal table.  The argument: ids have no gap, so a run's next     *)
(* number is free only if nobody filed on that day since it counted; the   *)
(* primary key is an optimistic lock, and what the run read before its     *)
(* insert still holds.                                                     *)
(***************************************************************************)

(* Rows whose numbers are those from 1 to m.                               *)
Dense(S, m) ==
    /\ {r.seq : r \in S} = 1..m
    /\ \A r, q \in S : r.seq = q.seq => r = q

LEMMA DenseCount ==
    ASSUME NEW S, NEW m \in Nat, Dense(S, m)
    PROVE  IsFiniteSet(S) /\ Cardinality(S) = m
<1> DEFINE f == [n \in 1..m |-> CHOOSE r \in S : r.seq = n]
<1>1. \A n \in 1..m : f[n] \in S /\ f[n].seq = n
  BY DEF Dense
<1>2. f \in [1..m -> S]
  BY <1>1
<1>3. \A r \in S : r.seq \in 1..m /\ f[r.seq] = r
  BY <1>1 DEF Dense
<1>4. f \in Injection(1..m, S)
  BY <1>1, <1>2 DEF Injection, IsInjective
<1>5. f \in Surjection(1..m, S)
  BY <1>2, <1>3 DEF Surjection
<1>6. ExistsBijection(1..m, S)
  BY <1>4, <1>5 DEF ExistsBijection, Bijection
<1>7. IsFiniteSet(1..m)
  BY FS_Interval
<1>8. QED BY <1>6, <1>7, FS_Bijection, FS_CountingElements

Filed(d) == Cardinality(RowsOn(d))
AllDense == \A d \in 1..Days : \E m \in Nat : Dense(RowsOn(d), m)

LEMMA FiledType ==
    ASSUME AllDense
    PROVE  \A d \in 1..Days : Filed(d) \in Nat /\ Dense(RowsOn(d), Filed(d))
BY DenseCount DEF AllDense, Filed

LEMMA StopTyped ==
    ASSUME TypeOK, NEW w \in Writers, Stop(w), 1 \in 1..Days,
           proposals' \subseteq Rows, exceeded' \subseteq Engines,
           UNCHANGED <<resets, today, runs>>
    PROVE  TypeOK'
<1> USE WriterAssumption, TargetAssumption DEF TypeOK, Writers
<1>1. pc' \in [Writers -> Steps] /\ \A e \in Engines : pc'[e] \in {"check_kind", "persist"} => pc[e] = pc'[e] /\ e # w
  BY DEF Stop, Goto, Steps
<1>2. /\ day' \in [Writers -> 1..Days] /\ offset' \in [Writers -> Nat]
      /\ written' \in [Writers -> Nat]
  BY DEF Stop
<1>3. /\ existing' \in [Writers -> SUBSET (Targets \cup Chunks)]
      /\ todo' \in [Writers -> SUBSET (Targets \cup Chunks)]
      /\ \A e \in Engines : todo'[e] \subseteq Targets
      /\ \A j \in Jobs : todo'[j] \subseteq Chunks
  BY DEF Stop
<1>4. /\ kinds' \in [Engines -> SUBSET Kinds]
      /\ cand' \in [Engines -> Targets \cup {None}]
      /\ skipped' \in [Engines -> BOOLEAN]
      /\ \A e \in Engines : e # w => cand'[e] = cand[e]
  BY DEF Stop
<1>5. resets' \in 0..MaxResets /\ runs' \in 0..MaxRuns /\ today' \in 1..Days
  OBVIOUS
<1>6. \A e \in Engines : pc'[e] \in {"check_kind", "persist"} => cand'[e] \in Targets
  BY <1>1, <1>4
<1> HIDE DEF Stop, Steps, Writers
<1>7. QED BY <1>1, <1>2, <1>3, <1>4, <1>5, <1>6

LEMMA SkipTyped ==
    ASSUME TypeOK, NEW e \in Engines, NEW t, Skip(e, t),
           UNCHANGED <<tableVars, day, offset, written, existing, kinds>>
    PROVE  TypeOK'
<1>1. Engines \subseteq Writers
  BY DEF Writers
<1>2. pc' \in [Writers -> Steps]
  BY <1>1 DEF TypeOK, Skip, Goto, Steps, EngineSteps
<1>3. /\ cand' \in [Engines -> Targets \cup {None}]
      /\ \A x \in Engines : pc'[x] \in {"check_kind", "persist"} => cand'[x] \in Targets
  BY <1>1 DEF TypeOK, Skip, Goto
<1>4. /\ todo' \in [Writers -> SUBSET (Targets \cup Chunks)]
      /\ \A x \in Engines : todo'[x] \subseteq Targets
      /\ \A j \in Jobs : todo'[j] \subseteq Chunks
  BY <1>1 DEF TypeOK, Skip
<1>5. skipped' \in [Engines -> BOOLEAN]
  BY DEF TypeOK, Skip
<1>6. QED BY <1>2, <1>3, <1>4, <1>5 DEF TypeOK, tableVars

(* Every column keeps its domain and every run stays on its steps.         *)

LEMMA TypeStep ==
    ASSUME TypeOK, AllDense, [Next]_vars
    PROVE  TypeOK'
<1> USE WriterAssumption, TargetAssumption, BoundAssumption
<1>0. Engines \subseteq Writers /\ Jobs \subseteq Writers /\ 1 \in 1..Days
  BY DEF Writers, TypeOK
<1>1. ASSUME NEW e \in Engines, EngineStep(e) PROVE TypeOK'
  <2>1. CASE StartEngine(e)
    BY <1>0, <2>1 DEF StartEngine, BeginRun, TypeOK, Goto, Steps, EngineSteps
  <2>2. CASE CountForEngine(e)
    <3>1. Filed(day[e]) \in Nat
      BY <1>0, FiledType DEF TypeOK
    <3>2. QED
      BY <1>0, <2>2, <3>1
      DEF CountForEngine, count_proposals_on_day, Filed, TypeOK, Goto, Steps,
          EngineSteps, tableVars, engineVars
  <2>3. ASSUME NEW k \in Kinds, NEW C \in SUBSET Targets, Propose(e, k, C)
        PROVE  TypeOK'
    <3>1. {r.target : r \in RowsOfKind(k)} \subseteq Targets \cup Chunks
      BY DEF TypeOK, Rows, RowsOfKind
    <3>2. QED
      BY <1>0, <2>3, <3>1 DEF Propose, TypeOK, Goto, Steps, EngineSteps, tableVars
  <2>4. ASSUME NEW t \in todo[e], CheckTotal(e, t) PROVE TypeOK'
    <3>1. t \in Targets
      BY DEF TypeOK
    <3>2. CASE Skip(e, t)
      BY <1>0, <2>4, <3>2, SkipTyped DEF CheckTotal
    <3>3. CASE /\ cand' = [cand EXCEPT ![e] = t]
               /\ Goto(e, "check_kind")
               /\ UNCHANGED <<todo, skipped>>
      <4>1. pc' \in [Writers -> Steps]
        BY <1>0, <3>3 DEF TypeOK, Goto, Steps, EngineSteps
      <4>2. /\ cand' \in [Engines -> Targets \cup {None}]
            /\ \A x \in Engines : pc'[x] \in {"check_kind", "persist"} => cand'[x] \in Targets
        BY <1>0, <3>1, <3>3 DEF TypeOK, Goto
      <4>3. QED BY <2>4, <3>3, <4>1, <4>2 DEF CheckTotal, TypeOK, tableVars
    <3>4. QED BY <2>4, <3>2, <3>3 DEF CheckTotal
  <2>5. CASE CheckKind(e)
    <3>1. CASE Skip(e, cand[e])
      BY <1>0, <2>5, <3>1, SkipTyped DEF CheckKind
    <3>2. CASE Goto(e, "persist") /\ UNCHANGED <<todo, skipped, cand>>
      <4>1. pc' \in [Writers -> Steps]
        BY <1>0, <3>2 DEF TypeOK, Goto, Steps, EngineSteps
      <4>2. \A x \in Engines : pc'[x] \in {"check_kind", "persist"} => cand'[x] \in Targets
        BY <1>0, <2>5, <3>2 DEF TypeOK, Goto, CheckKind
      <4>3. QED BY <2>5, <3>2, <4>1, <4>2 DEF CheckKind, TypeOK, tableVars
    <3>3. QED BY <2>5, <3>1, <3>2 DEF CheckKind
  <2>6. CASE Persist(e)
    <3>1. CASE Stop(e) /\ UNCHANGED proposals
      BY <1>0, <2>6, <3>1, StopTyped DEF Persist, TypeOK
    <3>2. CASE /\ NextSeq(e) <= MaxSeq
               /\ proposals' = proposals \cup {Row(day[e], NextSeq(e), cand[e])}
               /\ existing' = [existing EXCEPT ![e] = @ \cup {cand[e]}]
               /\ written' = [written EXCEPT ![e] = @ + 1]
               /\ todo' = [todo EXCEPT ![e] = @ \ {cand[e]}]
               /\ cand' = [cand EXCEPT ![e] = None]
               /\ Goto(e, "candidates")
               /\ UNCHANGED <<day, offset, kinds, skipped>>
      <4>1. cand[e] \in Targets
        BY <2>6 DEF TypeOK, Persist
      <4>2. Row(day[e], NextSeq(e), cand[e]) \in Rows
        BY <1>0, <3>2, <4>1 DEF Row, Rows, NextSeq, TypeOK, Statuses
      <4>3. UNCHANGED <<resets, exceeded, today, runs>>
        BY <2>6 DEF Persist
      <4>4. pc' \in [Writers -> Steps]
        BY <1>0, <3>2 DEF TypeOK, Goto, Steps, EngineSteps
      <4>5. \A x \in Engines : pc'[x] \in {"check_kind", "persist"} => cand'[x] \in Targets
        BY <1>0, <3>2 DEF TypeOK, Goto
      <4>6. /\ existing' \in [Writers -> SUBSET (Targets \cup Chunks)]
            /\ todo' \in [Writers -> SUBSET (Targets \cup Chunks)]
            /\ \A x \in Engines : todo'[x] \subseteq Targets
            /\ \A j \in Jobs : todo'[j] \subseteq Chunks
        BY <1>0, <3>2, <4>1 DEF TypeOK
      <4>7. written' \in [Writers -> Nat] /\ cand' \in [Engines -> Targets \cup {None}]
        BY <1>0, <3>2 DEF TypeOK
      <4>8. QED BY <3>2, <4>2, <4>3, <4>4, <4>5, <4>6, <4>7 DEF TypeOK
    <3>3. QED BY <2>6, <3>1, <3>2 DEF Persist
  <2>7. CASE EndKind(e)
    BY <1>0, <2>7 DEF EndKind, TypeOK, Goto, Steps, EngineSteps, tableVars, runVars, engineVars
  <2>8. CASE _emit_budget_signal(e)
    BY <1>0, <2>8, StopTyped DEF _emit_budget_signal, TypeOK
  <2>9. QED BY <1>1, <2>1, <2>2, <2>3, <2>4, <2>5, <2>6, <2>7, <2>8 DEF EngineStep
<1>2. ASSUME NEW j \in Jobs, JobStep(j) PROVE TypeOK'
  <2>1. ASSUME NEW C \in SUBSET Chunks, StartJob(j, C) PROVE TypeOK'
    BY <1>0, <2>1 DEF StartJob, BeginRun, TypeOK, Goto, Steps, JobSteps, engineVars
  <2>2. CASE _existing_consolidate_targets(j)
    <3>1. {r.target : r \in {q \in proposals : q.target \in Chunks /\ q.status \in Blocking}}
            \subseteq Targets \cup Chunks
      OBVIOUS
    <3>2. QED
      BY <1>0, <2>2, <3>1
      DEF _existing_consolidate_targets, TypeOK, Goto, Steps, JobSteps, EngineSteps,
          tableVars, engineVars
  <2>3. CASE CountForJob(j)
    <3>1. Filed(day[j]) \in Nat
      BY <1>0, FiledType DEF TypeOK
    <3>2. QED
      BY <1>0, <2>3, <3>1
      DEF CountForJob, count_proposals_on_day, Filed, TypeOK, Goto, Steps,
          JobSteps, tableVars, engineVars
  <2>4. CASE InsertBatch(j)
    <3> DEFINE fresh == todo[j] \ existing[j]
               seqs == offset[j] + 1 .. offset[j] + Cardinality(fresh)
    <3>1. fresh \subseteq Chunks /\ offset[j] \in Nat /\ Cardinality(fresh) \in Nat
      BY <1>0, FS_Subset, FS_CardinalityType DEF TypeOK
    <3>2. ASSUME NEW order \in Bijection(seqs, fresh), \A n \in seqs : n <= MaxSeq
          PROVE  {Row(day[j], n, order[n]) : n \in seqs} \subseteq Rows
      <4>1. \A n \in seqs : n \in 1..MaxSeq
        <5>1. \A n \in seqs : n \in Nat /\ n >= 1
          BY <3>1
        <5>2. MaxSeq \in Nat
          OBVIOUS
        <5> HIDE DEF seqs
        <5>3. QED BY <3>2, <5>1, <5>2
      <4>2. order \in [seqs -> fresh]
        BY <3>2 DEF Bijection, Injection
      <4>3. \A n \in seqs : order[n] \in Chunks
        BY <3>1, <4>2
      <4>4. ASSUME NEW n \in seqs PROVE Row(day[j], n, order[n]) \in Rows
        BY <1>0, <4>1, <4>3 DEF Row, Rows, TypeOK, Statuses
      <4>5. QED BY <4>4
    <3>3. proposals' \subseteq Rows
      BY <2>4, <3>2 DEF InsertBatch, TypeOK
    <3>4. QED BY <1>0, <2>4, <3>3, StopTyped DEF InsertBatch, TypeOK
  <2>5. QED BY <1>2, <2>1, <2>2, <2>3, <2>4 DEF JobStep
<1>3. ASSUME NEW w \in Writers, Abandon(w) PROVE TypeOK'
  BY <1>0, <1>3, StopTyped DEF Abandon, TypeOK, tableVars
<1>4. ASSUME NEW r \in proposals, NEW st \in Statuses, Settle(r, st) PROVE TypeOK'
  <2>1. [r EXCEPT !.status = st] \in Rows
    BY DEF TypeOK, Rows
  <2>2. QED BY <1>4, <2>1 DEF Settle, TypeOK, runVars, engineVars
<1>5. CASE reset_decay \/ Midnight
  BY <1>5 DEF reset_decay, Midnight, TypeOK, runVars, engineVars
<1>6. CASE UNCHANGED vars
  BY <1>6 DEF vars, TypeOK, tableVars, runVars, engineVars
<1>7. QED BY <1>1, <1>2, <1>3, <1>4, <1>5, <1>6 DEF Next

-----------------------------------------------------------------------------
(* What a step does to the rows of a day.                                  *)

LEMMA DenseExtends ==
    ASSUME NEW S, NEW T, NEW m \in Nat, NEW k \in Nat, Dense(S, m),
           {r.seq : r \in T} = m + 1 .. m + k,
           \A r, q \in T : r.seq = q.seq => r = q
    PROVE  Dense(S \cup T, m + k)
<1>1. {r.seq : r \in S \cup T} = 1..m \cup (m + 1 .. m + k)
  BY DEF Dense
<1>2. 1..m \cup (m + 1 .. m + k) = 1..(m + k)
  OBVIOUS
<1>3. \A r \in S, q \in T : r.seq # q.seq
  <2>1. ASSUME NEW r \in S, NEW q \in T PROVE r.seq # q.seq
    <3>1. r.seq \in 1..m /\ q.seq \in m + 1 .. m + k
      BY DEF Dense
    <3>2. QED BY <3>1
  <2>2. QED BY <2>1
<1>4. \A r, q \in S \cup T : r.seq = q.seq => r = q
  BY <1>3 DEF Dense
<1>5. QED BY <1>1, <1>2, <1>4 DEF Dense

\* New rows continue the numbers of their day and leave the other days alone.
LEMMA FileRows ==
    ASSUME AllDense, NEW d \in 1..Days, NEW k \in Nat, NEW T,
           \A r \in T : r.day = d,
           {r.seq : r \in T} = Filed(d) + 1 .. Filed(d) + k,
           \A r, q \in T : r.seq = q.seq => r = q,
           proposals' = proposals \cup T
    PROVE  /\ AllDense'
           /\ Filed(d)' = Filed(d) + k
           /\ RowsOn(d)' = RowsOn(d) \cup T
           /\ \A c \in 1..Days : c # d => RowsOn(c)' = RowsOn(c)
<1>1. RowsOn(d)' = RowsOn(d) \cup T
  BY DEF RowsOn
<1>2. \A c \in 1..Days : c # d => RowsOn(c)' = RowsOn(c)
  BY DEF RowsOn
<1>3. Filed(d) \in Nat /\ Dense(RowsOn(d), Filed(d))
  BY FiledType
<1>4. Dense(RowsOn(d) \cup T, Filed(d) + k)
  BY <1>3, DenseExtends
<1>5. Filed(d)' = Filed(d) + k
  BY <1>1, <1>3, <1>4, DenseCount DEF Filed
<1>6. AllDense'
  <2>1. ASSUME NEW c \in 1..Days PROVE \E m \in Nat : Dense(RowsOn(c)', m)
    <3>1. CASE c = d
      <4>1. Filed(d) + k \in Nat
        BY <1>3
      <4>2. QED BY <1>1, <1>4, <3>1, <4>1
    <3>2. CASE c # d
      BY <1>2, <3>2 DEF AllDense
    <3>3. QED BY <3>1, <3>2
  <2>2. QED BY <2>1 DEF AllDense
<1>7. QED BY <1>1, <1>2, <1>5, <1>6

\* A row that is settled keeps its number and its target.
SameContent(d) ==
    /\ Filed(d)' = Filed(d)
    /\ \A r \in RowsOn(d)' : \E q \in RowsOn(d) : q.seq = r.seq /\ q.target = r.target
    /\ \A q \in RowsOn(d) : \E r \in RowsOn(d)' : q.seq = r.seq /\ q.target = r.target

LEMMA SettleRows ==
    ASSUME TypeOK, AllDense, NEW r \in proposals, NEW st, Settle(r, st)
    PROVE  AllDense' /\ \A d \in 1..Days : SameContent(d)
<1> DEFINE t == [r EXCEPT !.status = st]
<1>1. r \in Rows
  BY DEF TypeOK
<1>2. t.seq = r.seq /\ t.target = r.target /\ t.day = r.day
  BY <1>1 DEF Rows
<1>3. proposals' = (proposals \ {r}) \cup {t}
  BY DEF Settle
<1> HIDE DEF t
<1>4. ASSUME NEW d \in 1..Days
      PROVE  Dense(RowsOn(d)', Filed(d)) /\ SameContent(d)
  <2>1. Filed(d) \in Nat /\ Dense(RowsOn(d), Filed(d))
    BY FiledType
  <2>2. \A x \in RowsOn(d)' : \E q \in RowsOn(d) : q.seq = x.seq /\ q.target = x.target
    BY <1>2, <1>3 DEF RowsOn
  <2>3. \A q \in RowsOn(d) : \E x \in RowsOn(d)' : q.seq = x.seq /\ q.target = x.target
    BY <1>2, <1>3 DEF RowsOn
  <2>4. {x.seq : x \in RowsOn(d)'} = 1..Filed(d)
    BY <2>1, <2>2, <2>3 DEF Dense
  <2>5. \A x, y \in RowsOn(d)' : x.seq = y.seq => x = y
    BY <1>2, <1>3, <2>1 DEF Dense, RowsOn
  <2>6. Dense(RowsOn(d)', Filed(d))
    BY <2>4, <2>5 DEF Dense
  <2>7. Filed(d)' = Filed(d)
    BY <2>1, <2>6, DenseCount DEF Filed
  <2>8. QED BY <2>2, <2>3, <2>6, <2>7 DEF SameContent
<1>5. QED BY <1>4, FiledType DEF AllDense

\* A run counts no more rows on its day than there are; the count starts at 0.
Counted ==
    \A w \in Writers :
        /\ \A d \in 1..Days : d = day[w] => offset[w] + written[w] <= Filed(d)
        /\ pc[w] \in {"idle", "existing", "count"} => offset[w] = 0 /\ written[w] = 0

\* A number that is free is the next one of its day.
LEMMA FreeIsNext ==
    ASSUME AllDense, NEW d \in 1..Days, NEW n \in Nat, n <= Filed(d), ~ Taken(d, n + 1)
    PROVE  n = Filed(d)
<1>1. Filed(d) \in Nat /\ {r.seq : r \in RowsOn(d)} = 1..Filed(d)
  BY FiledType DEF Dense
<1>2. n + 1 \notin {r.seq : r \in RowsOn(d)}
  BY DEF Taken, RowsOn
<1>3. n + 1 \notin 1..Filed(d)
  BY Zenon, <1>1, <1>2
<1>4. QED BY <1>1, <1>3

Persisted(e) ==
    /\ offset[e] + written[e] = Filed(day[e])
    /\ proposals' = proposals \cup {Row(day[e], NextSeq(e), cand[e])}
    /\ existing' = [existing EXCEPT ![e] = @ \cup {cand[e]}]
    /\ written' = [written EXCEPT ![e] = @ + 1]
    /\ todo' = [todo EXCEPT ![e] = @ \ {cand[e]}]
    /\ cand' = [cand EXCEPT ![e] = None]
    /\ Goto(e, "candidates")
    /\ UNCHANGED <<day, offset, kinds, skipped>>

\* The primary key as an optimistic lock: an insert that succeeds is of a run
\* that counted every row of its day.
LEMMA PersistRows ==
    ASSUME TypeOK, AllDense, Counted, NEW e \in Engines, Persist(e)
    PROVE  \/ Stop(e) /\ UNCHANGED proposals
           \/ /\ Persisted(e)
              /\ AllDense'
              /\ Filed(day[e])' = Filed(day[e]) + 1
              /\ RowsOn(day[e])' = RowsOn(day[e]) \cup {Row(day[e], NextSeq(e), cand[e])}
              /\ \A c \in 1..Days : c # day[e] => RowsOn(c)' = RowsOn(c)
<1>1. SUFFICES ASSUME ~ (Stop(e) /\ UNCHANGED proposals)
               PROVE  /\ Persisted(e)
                      /\ AllDense'
                      /\ Filed(day[e])' = Filed(day[e]) + 1
                      /\ RowsOn(day[e])' = RowsOn(day[e]) \cup {Row(day[e], NextSeq(e), cand[e])}
                      /\ \A c \in 1..Days : c # day[e] => RowsOn(c)' = RowsOn(c)
  OBVIOUS
<1>2. e \in Writers /\ day[e] \in 1..Days /\ offset[e] \in Nat /\ written[e] \in Nat
  BY DEF Writers, TypeOK
<1>3. offset[e] + written[e] <= Filed(day[e]) /\ Filed(day[e]) \in Nat
  BY <1>2, FiledType DEF Counted
<1>4. ~ Taken(day[e], (offset[e] + written[e]) + 1)
  BY <1>1 DEF Persist, NextSeq
<1>5. offset[e] + written[e] = Filed(day[e])
  BY <1>2, <1>3, <1>4, FreeIsNext
<1>6. Persisted(e)
  BY <1>1, <1>5 DEF Persist, Persisted
<1> DEFINE T == {Row(day[e], NextSeq(e), cand[e])}
<1>7. \A r \in T : r.day = day[e] /\ r.seq = Filed(day[e]) + 1
  BY <1>2, <1>5 DEF Row, NextSeq
<1>8. {r.seq : r \in T} = Filed(day[e]) + 1 .. Filed(day[e]) + 1
  BY <1>3, <1>7
<1>9. proposals' = proposals \cup T /\ \A r, q \in T : r.seq = q.seq => r = q
  BY <1>6 DEF Persisted
<1> HIDE DEF T
<1>10. /\ AllDense'
       /\ Filed(day[e])' = Filed(day[e]) + 1
       /\ RowsOn(day[e])' = RowsOn(day[e]) \cup T
       /\ \A c \in 1..Days : c # day[e] => RowsOn(c)' = RowsOn(c)
  <2>1. day'[e] = day[e]
    BY <1>6 DEF Persisted
  <2>2. 1 \in Nat /\ \A r \in T : r.day = day[e]
    BY <1>7
  <2>3. PICK d \in 1..Days : d = day[e]
    BY <1>2
  <2>4. /\ AllDense'
        /\ Filed(d)' = Filed(d) + 1
        /\ RowsOn(d)' = RowsOn(d) \cup T
        /\ \A c \in 1..Days : c # d => RowsOn(c)' = RowsOn(c)
    <3>1. \A r \in T : r.day = d
      BY <2>2, <2>3
    <3>2. {r.seq : r \in T} = Filed(d) + 1 .. Filed(d) + 1
      BY <1>8, <2>3
    <3> HIDE <2>3
    <3>3. QED BY <1>9, <2>2, <3>1, <3>2, FileRows
  <2>5. QED BY <2>1, <2>3, <2>4 DEF Filed, RowsOn
<1>11. QED BY <1>6, <1>10 DEF T

\* A batch files its candidates under the next numbers of the day, or nothing.
Batch(j, d, T) ==
    /\ proposals' = proposals \cup T
    /\ \A r \in T : r.day = d /\ r.target \in todo[j] \ existing[j]
    /\ \A r, q \in T : r.target = q.target => r = q

LEMMA BatchRows ==
    ASSUME TypeOK, AllDense, Counted, NEW j \in Jobs, InsertBatch(j), NEW d \in 1..Days, d = day[j]
    PROVE  \/ UNCHANGED proposals
           \/ \E T : /\ Batch(j, d, T)
                     /\ AllDense'
                     /\ Filed(d)' > Filed(d)
                     /\ RowsOn(d)' = RowsOn(d) \cup T
                     /\ \A c \in 1..Days : c # d => RowsOn(c)' = RowsOn(c)
<1> DEFINE fresh == todo[j] \ existing[j]
           k == Cardinality(fresh)
           seqs == offset[j] + 1 .. offset[j] + k
<1>1. SUFFICES ASSUME proposals' # proposals
               PROVE  \E T : /\ Batch(j, d, T)
                             /\ AllDense'
                             /\ Filed(d)' > Filed(d)
                             /\ RowsOn(d)' = RowsOn(d) \cup T
                             /\ \A c \in 1..Days : c # d => RowsOn(c)' = RowsOn(c)
  OBVIOUS
<1>2. /\ \A n \in seqs : ~ Taken(d, n)
      /\ \E order \in Bijection(seqs, fresh) :
            proposals' = proposals \cup {Row(d, n, order[n]) : n \in seqs}
  BY <1>1 DEF InsertBatch
<1>3. PICK order \in Bijection(seqs, fresh) :
         proposals' = proposals \cup {Row(d, n, order[n]) : n \in seqs}
  BY <1>2
<1>4. j \in Writers /\ offset[j] \in Nat /\ k \in Nat
  BY TargetAssumption, FS_Subset, FS_CardinalityType DEF TypeOK, Writers
<1> DEFINE T == {Row(d, n, order[n]) : n \in seqs}
<1>5. k > 0
  <2>1. seqs # {}
    BY <1>1, <1>3
  <2>2. k = 0 => seqs = {}
    BY <1>4
  <2>3. k \in Nat
    BY <1>4
  <2> HIDE DEF seqs, k
  <2>4. QED BY <2>1, <2>2, <2>3
<1>6. offset[j] = Filed(d) /\ Filed(d) \in Nat
  <2>1. offset[j] <= Filed(d) /\ Filed(d) \in Nat
    <3>1. offset[j] + written[j] <= Filed(d) /\ written[j] \in Nat
      <4> HIDE DEF fresh, k
      <4>1. QED BY <1>4 DEF Counted, TypeOK
    <3>2. QED BY <1>4, <3>1, FiledType
  <2>2. ~ Taken(d, offset[j] + 1)
    <3>1. offset[j] + 1 \in seqs
      BY <1>4, <1>5
    <3> HIDE DEF seqs
    <3>2. QED BY <1>2, <3>1
  <2>3. QED BY <1>4, <2>1, <2>2, FreeIsNext
<1>7. /\ order \in [seqs -> fresh]
      /\ \A n, m \in seqs : order[n] = order[m] => n = m
  BY <1>3 DEF Bijection, Injection, IsInjective
<1>8. /\ \A r \in T : r.day = d /\ r.target \in fresh
      /\ \A r, q \in T : r.target = q.target => r = q
      /\ \A r, q \in T : r.seq = q.seq => r = q
      /\ {r.seq : r \in T} = seqs
  <2> HIDE DEF seqs, fresh
  <2>1. \A n \in seqs : /\ Row(d, n, order[n]).day = d
                        /\ Row(d, n, order[n]).seq = n
                        /\ Row(d, n, order[n]).target = order[n]
    BY DEF Row
  <2>2. \A r \in T : \E n \in seqs : r = Row(d, n, order[n])
    OBVIOUS
  <2>3. \A n \in seqs : Row(d, n, order[n]) \in T
    OBVIOUS
  <2> HIDE DEF T
  <2>4. \A r \in T : r.day = d /\ r.target \in fresh
    BY <1>7, <2>1, <2>2
  <2>5. \A r, q \in T : r.target = q.target => r = q
    BY <1>7, <2>1, <2>2
  <2>6. \A r, q \in T : r.seq = q.seq => r = q
    BY <2>1, <2>2
  <2>7. {r.seq : r \in T} = seqs
    BY <2>1, <2>2, <2>3
  <2>8. QED BY <2>4, <2>5, <2>6, <2>7
<1>9. {r.seq : r \in T} = Filed(d) + 1 .. Filed(d) + k
  BY <1>6, <1>8
<1>10. proposals' = proposals \cup T
  BY <1>3
<1>11. Batch(j, d, T)
  BY <1>8, <1>10 DEF Batch
<1>12. \A r \in T : r.day = d
  BY <1>8
<1>13. \A r, q \in T : r.seq = q.seq => r = q
  BY <1>8
<1> HIDE DEF T, k
<1>14. /\ AllDense'
       /\ Filed(d)' = Filed(d) + k
       /\ RowsOn(d)' = RowsOn(d) \cup T
       /\ \A c \in 1..Days : c # d => RowsOn(c)' = RowsOn(c)
  BY <1>4, <1>9, <1>10, <1>12, <1>13, FileRows
<1>15. Filed(d)' > Filed(d)
  BY <1>4, <1>5, <1>6, <1>14
<1>16. QED BY <1>11, <1>14, <1>15

LEMMA StopCounted ==
    ASSUME TypeOK, AllDense, Counted, NEW w \in Writers, Stop(w), AllDense',
           \A d \in 1..Days : Filed(d) <= Filed(d)'
    PROVE  Counted'
<1>1. ASSUME NEW x \in Writers
      PROVE  /\ \A d \in 1..Days : d = day'[x] => offset'[x] + written'[x] <= Filed(d)'
             /\ pc'[x] \in {"idle", "existing", "count"} => offset'[x] = 0 /\ written'[x] = 0
  <2>1. CASE x = w
    <3>1. offset'[x] = 0 /\ written'[x] = 0
      BY <2>1 DEF Stop, TypeOK
    <3>2. \A d \in 1..Days : Filed(d)' \in Nat
      BY DenseCount DEF AllDense, Filed
    <3>3. QED BY <3>1, <3>2
  <2>2. CASE x # w
    <3>1. /\ day'[x] = day[x] /\ offset'[x] = offset[x] /\ written'[x] = written[x]
          /\ pc'[x] = pc[x] /\ offset[x] \in Nat /\ written[x] \in Nat
      BY <2>2 DEF Stop, Goto, TypeOK
    <3>2. \A d \in 1..Days : Filed(d) \in Nat /\ Filed(d)' \in Nat
      BY DenseCount, FiledType DEF AllDense, Filed
    <3>3. QED BY <3>1, <3>2 DEF Counted
  <2>3. QED BY <2>1, <2>2
<1>2. QED BY <1>1 DEF Counted

LEMMA SameRows ==
    ASSUME AllDense, UNCHANGED proposals
    PROVE  AllDense' /\ \A d \in 1..Days : SameContent(d)
<1>1. \A d \in 1..Days : RowsOn(d)' = RowsOn(d)
  BY DEF RowsOn
<1>2. QED BY <1>1 DEF AllDense, SameContent, Filed

\* Runs whose counts stay as they are keep counting no more than there are.
LEMMA OthersCounted ==
    ASSUME TypeOK, AllDense, Counted, \A d \in 1..Days : Filed(d) <= Filed(d)', AllDense',
           NEW x \in Writers, UNCHANGED <<day[x], offset[x], written[x]>>
    PROVE  \A d \in 1..Days : d = day'[x] => offset'[x] + written'[x] <= Filed(d)'
<1>1. /\ day'[x] = day[x] /\ offset'[x] = offset[x] /\ written'[x] = written[x]
      /\ offset[x] \in Nat /\ written[x] \in Nat
  BY DEF TypeOK
<1>2. \A d \in 1..Days : Filed(d) \in Nat /\ Filed(d)' \in Nat
  BY DenseCount, FiledType DEF AllDense, Filed
<1>3. QED BY <1>1, <1>2 DEF Counted

Grown(d) == SameContent(d) \/ Filed(d)' > Filed(d)

\* Who changes the rows.
LEMMA WhoFiles ==
    ASSUME [Next]_vars
    PROVE  \/ UNCHANGED proposals
           \/ \E e \in Engines : Persist(e)
           \/ \E j \in Jobs : InsertBatch(j)
           \/ \E r \in proposals, st \in Statuses : Settle(r, st)
BY DEF Next, EngineStep, JobStep, StartEngine, BeginRun, CountForEngine,
   count_proposals_on_day, Propose, CheckTotal, CheckKind, EndKind,
   _emit_budget_signal, StartJob, _existing_consolidate_targets, CountForJob,
   Abandon, reset_decay, Midnight, tableVars, vars

LEMMA DenseStep ==
    ASSUME TypeOK, AllDense, Counted, [Next]_vars
    PROVE  AllDense' /\ \A d \in 1..Days : Grown(d)
<1>1. CASE UNCHANGED proposals
  BY <1>1, SameRows DEF Grown
<1>2. ASSUME NEW e \in Engines, Persist(e) PROVE AllDense' /\ \A d \in 1..Days : Grown(d)
  <2>1. CASE UNCHANGED proposals
    BY <2>1, SameRows DEF Grown
  <2>2. CASE /\ Persisted(e)
             /\ AllDense'
             /\ Filed(day[e])' = Filed(day[e]) + 1
             /\ RowsOn(day[e])' = RowsOn(day[e]) \cup {Row(day[e], NextSeq(e), cand[e])}
             /\ \A c \in 1..Days : c # day[e] => RowsOn(c)' = RowsOn(c)
    <3>1. PICK d \in 1..Days : d = day[e] /\ d = day'[e]
      BY <2>2 DEF Persisted, TypeOK, Writers
    <3>2. Filed(d)' > Filed(d)
      <4>1. Filed(d)' = Filed(d) + 1 /\ Filed(d) \in Nat
        BY <2>2, <3>1, FiledType DEF Filed, RowsOn
      <4>2. QED BY <4>1
    <3>3. \A c \in 1..Days : c # d => RowsOn(c)' = RowsOn(c)
      BY <2>2, <3>1
    <3>4. \A c \in 1..Days : c # d => SameContent(c)
      BY <3>3 DEF SameContent, Filed
    <3>5. QED BY <2>2, <3>2, <3>4 DEF Grown
  <2>3. QED BY <1>2, <2>1, <2>2, PersistRows
<1>3. ASSUME NEW j \in Jobs, InsertBatch(j) PROVE AllDense' /\ \A d \in 1..Days : Grown(d)
  <2>1. PICK d \in 1..Days : d = day[j]
    BY DEF TypeOK, Writers
  <2>2. CASE UNCHANGED proposals
    BY <2>2, SameRows DEF Grown
  <2>3. CASE /\ AllDense'
             /\ Filed(d)' > Filed(d)
             /\ \A c \in 1..Days : c # d => RowsOn(c)' = RowsOn(c)
    <3>1. \A c \in 1..Days : c # d => SameContent(c)
      BY <2>3 DEF SameContent, Filed
    <3>2. QED BY <2>3, <3>1 DEF Grown
  <2>4. QED BY <1>3, <2>1, <2>2, <2>3, BatchRows
<1>4. ASSUME NEW r \in proposals, NEW st \in Statuses, Settle(r, st)
      PROVE  AllDense' /\ \A d \in 1..Days : Grown(d)
  BY <1>4, SettleRows DEF Grown
<1>5. QED BY <1>1, <1>2, <1>3, <1>4, WhoFiles

\* Rows are settled and added, never taken away.
LEMMA RowsStay ==
    ASSUME AllDense, AllDense', NEW d \in 1..Days, Grown(d)
    PROVE  Filed(d) \in Nat /\ Filed(d)' \in Nat /\ Filed(d) <= Filed(d)'
<1>1. Filed(d) \in Nat /\ Filed(d)' \in Nat
  BY DenseCount DEF AllDense, Filed
<1>2. QED BY <1>1 DEF Grown, SameContent

\* A step that leaves every run's count alone keeps the counts right.
LEMMA CountsStay ==
    ASSUME TypeOK, AllDense, Counted, AllDense', \A d \in 1..Days : Filed(d) <= Filed(d)',
           UNCHANGED <<day, offset, written>>,
           \A x \in Writers : pc'[x] \in {"idle", "existing", "count"} => pc[x] \in {"idle", "existing", "count"}
    PROVE  Counted'
<1>1. \A x \in Writers : \A d \in 1..Days : d = day'[x] => offset'[x] + written'[x] <= Filed(d)'
  BY OthersCounted
<1>2. \A x \in Writers : pc'[x] \in {"idle", "existing", "count"} => offset'[x] = 0 /\ written'[x] = 0
  BY DEF Counted
<1>3. QED BY <1>1, <1>2 DEF Counted

\* A run that begins has counted nothing, one that counts counts every row.
LEMMA BeginCounted ==
    ASSUME TypeOK, AllDense, Counted, AllDense', \A d \in 1..Days : Filed(d) <= Filed(d)',
           NEW w \in Writers, BeginRun(w), NEW step, Goto(w, step)
    PROVE  Counted'
<1>1. pc[w] = "idle" /\ offset' = offset /\ written' = written
  BY DEF BeginRun
<1>2. offset'[w] = 0 /\ written'[w] = 0
  BY <1>1 DEF Counted
<1>3. \A d \in 1..Days : d = day'[w] => offset'[w] + written'[w] <= Filed(d)'
  <2>1. \A d \in 1..Days : Filed(d)' \in Nat
    BY DenseCount DEF AllDense, Filed
  <2>2. QED BY <1>2, <2>1
<1>4. ASSUME NEW x \in Writers, x # w
      PROVE  /\ \A d \in 1..Days : d = day'[x] => offset'[x] + written'[x] <= Filed(d)'
             /\ pc'[x] = pc[x] /\ offset'[x] = offset[x] /\ written'[x] = written[x]
  <2>1. day'[x] = day[x] /\ pc'[x] = pc[x]
    BY <1>4 DEF BeginRun, Goto, TypeOK
  <2>2. QED BY <1>1, <2>1, OthersCounted
<1>5. QED BY <1>2, <1>3, <1>4 DEF Counted

LEMMA CountingCounted ==
    ASSUME TypeOK, AllDense, Counted, AllDense', \A d \in 1..Days : Filed(d) <= Filed(d)',
           NEW w \in Writers, count_proposals_on_day(w), NEW step, Goto(w, step),
           step \notin {"idle", "existing", "count"}
    PROVE  Counted'
<1>1. PICK d \in 1..Days : d = day[w]
  BY DEF TypeOK
<1>2. UNCHANGED <<proposals, day, written>> /\ offset' = [offset EXCEPT ![w] = Filed(d)]
  BY <1>1 DEF count_proposals_on_day, tableVars, Filed
<1>3. written[w] = 0
  BY DEF count_proposals_on_day, Counted
<1>4. Filed(d) \in Nat /\ Filed(d)' = Filed(d)
  BY <1>2, FiledType DEF Filed, RowsOn
<1>5. \A c \in 1..Days : c = day'[w] => offset'[w] + written'[w] <= Filed(c)'
  <2>1. offset'[w] = Filed(d) /\ written'[w] = 0 /\ day'[w] = d
    BY <1>1, <1>2, <1>3 DEF TypeOK
  <2>2. QED BY <1>4, <2>1
<1>6. pc'[w] = step
  BY DEF Goto, TypeOK
<1>7. ASSUME NEW x \in Writers, x # w
      PROVE  /\ \A c \in 1..Days : c = day'[x] => offset'[x] + written'[x] <= Filed(c)'
             /\ pc'[x] = pc[x] /\ offset'[x] = offset[x] /\ written'[x] = written[x]
  <2>1. pc'[x] = pc[x] /\ offset'[x] = offset[x] /\ written'[x] = written[x] /\ day'[x] = day[x]
    BY <1>2, <1>7 DEF Goto, TypeOK
  <2>2. QED BY <2>1, OthersCounted
<1>8. QED BY <1>5, <1>6, <1>7 DEF Counted

LEMMA PersistedCounted ==
    ASSUME TypeOK, AllDense, Counted, AllDense', \A d \in 1..Days : Filed(d) <= Filed(d)',
           NEW e \in Engines, Persisted(e), NEW d \in 1..Days, d = day[e], Filed(d)' = Filed(d) + 1
    PROVE  Counted'
<1>1. e \in Writers /\ Filed(d) \in Nat
  BY FiledType DEF Writers
<1>2. \A c \in 1..Days : c = day'[e] => offset'[e] + written'[e] <= Filed(c)'
  <2>1. /\ offset'[e] = offset[e] /\ written'[e] = written[e] + 1 /\ day'[e] = d
        /\ offset[e] \in Nat /\ written[e] \in Nat
    BY <1>1 DEF Persisted, TypeOK
  <2>2. offset[e] + written[e] = Filed(d)
    BY DEF Persisted
  <2>3. QED BY <1>1, <2>1, <2>2
<1>3. pc'[e] = "candidates"
  BY <1>1 DEF Persisted, Goto, TypeOK
<1>4. ASSUME NEW x \in Writers, x # e
      PROVE  /\ \A c \in 1..Days : c = day'[x] => offset'[x] + written'[x] <= Filed(c)'
             /\ pc'[x] = pc[x] /\ offset'[x] = offset[x] /\ written'[x] = written[x]
  <2>1. pc'[x] = pc[x] /\ offset'[x] = offset[x] /\ written'[x] = written[x] /\ day'[x] = day[x]
    BY <1>4 DEF Persisted, Goto, TypeOK
  <2>2. QED BY <2>1, OthersCounted
<1>5. QED BY <1>2, <1>3, <1>4 DEF Counted

LEMMA CountedStep ==
    ASSUME TypeOK, AllDense, Counted, [Next]_vars
    PROVE  Counted'
<1>1. AllDense' /\ \A d \in 1..Days : Filed(d) <= Filed(d)'
  BY DenseStep, RowsStay
<1>2. Engines \subseteq Writers /\ Jobs \subseteq Writers
  BY DEF Writers
<1>3. ASSUME NEW e \in Engines, EngineStep(e) PROVE Counted'
  <2>1. CASE StartEngine(e)
    BY <1>1, <1>2, <2>1, BeginCounted DEF StartEngine
  <2>2. CASE CountForEngine(e)
    BY <1>1, <1>2, <2>2, CountingCounted DEF CountForEngine
  <2>3. ASSUME NEW k \in Kinds, NEW C \in SUBSET Targets, Propose(e, k, C)
        PROVE  Counted'
    BY <1>1, <1>2, <2>3, CountsStay DEF Propose, Goto, TypeOK
  <2>4. ASSUME NEW t \in todo[e], CheckTotal(e, t) PROVE Counted'
    BY <1>1, <1>2, <2>4, CountsStay DEF CheckTotal, Skip, Goto, TypeOK
  <2>5. CASE CheckKind(e)
    BY <1>1, <1>2, <2>5, CountsStay DEF CheckKind, Skip, Goto, TypeOK
  <2>6. CASE Persist(e)
    <3>1. PICK d \in 1..Days : d = day[e]
      BY <1>2 DEF TypeOK
    <3>2. CASE Stop(e)
      BY <1>1, <1>2, <3>2, StopCounted
    <3>3. CASE Persisted(e) /\ Filed(day[e])' = Filed(day[e]) + 1
      <4>1. Filed(d)' = Filed(d) + 1
        <5>1. day'[e] = day[e]
          BY <3>3 DEF Persisted
        <5>2. QED BY <3>1, <3>3, <5>1 DEF Filed, RowsOn
      <4>2. QED BY <1>1, <3>1, <3>3, <4>1, PersistedCounted
    <3>4. QED BY <2>6, <3>2, <3>3, PersistRows
  <2>7. CASE EndKind(e)
    BY <1>1, <1>2, <2>7, CountsStay DEF EndKind, Goto, TypeOK, runVars
  <2>8. CASE _emit_budget_signal(e)
    BY <1>1, <1>2, <2>8, StopCounted DEF _emit_budget_signal
  <2>9. QED BY <1>3, <2>1, <2>2, <2>3, <2>4, <2>5, <2>6, <2>7, <2>8 DEF EngineStep
<1>4. ASSUME NEW j \in Jobs, JobStep(j) PROVE Counted'
  <2>1. ASSUME NEW C \in SUBSET Chunks, StartJob(j, C) PROVE Counted'
    BY <1>1, <1>2, <2>1, BeginCounted DEF StartJob
  <2>2. CASE _existing_consolidate_targets(j)
    BY <1>1, <1>2, <2>2, CountsStay DEF _existing_consolidate_targets, Goto, TypeOK
  <2>3. CASE CountForJob(j)
    BY <1>1, <1>2, <2>3, CountingCounted DEF CountForJob
  <2>4. CASE InsertBatch(j)
    BY <1>1, <1>2, <2>4, StopCounted DEF InsertBatch
  <2>5. QED BY <1>4, <2>1, <2>2, <2>3, <2>4 DEF JobStep
<1>5. ASSUME NEW w \in Writers, Abandon(w) PROVE Counted'
  BY <1>1, <1>5, StopCounted DEF Abandon
<1>6. ASSUME NEW r \in proposals, NEW st \in Statuses, Settle(r, st) PROVE Counted'
  BY <1>1, <1>6, CountsStay DEF Settle, runVars
<1>7. CASE reset_decay \/ Midnight
  BY <1>1, <1>7, CountsStay DEF reset_decay, Midnight, runVars
<1>8. CASE UNCHANGED vars
  BY <1>1, <1>8, CountsStay DEF vars, runVars
<1>9. QED BY <1>3, <1>4, <1>5, <1>6, <1>7, <1>8 DEF Next

-----------------------------------------------------------------------------
(* The first invariant.                                                    *)

IdsInv == TypeOK /\ AllDense /\ Counted

LEMMA IdsInit == Init => IdsInv
<1> SUFFICES ASSUME Init PROVE IdsInv
  OBVIOUS
<1> USE WriterAssumption, TargetAssumption, BoundAssumption
<1>1. 1 \in 1..Days /\ 0 \in 0..MaxResets /\ 0 \in 0..MaxRuns
  BY DEF Init
<1>2. TypeOK
  <2>1. /\ proposals \subseteq Rows /\ exceeded \subseteq Engines /\ today \in 1..Days
        /\ resets \in 0..MaxResets /\ runs \in 0..MaxRuns
    BY <1>1 DEF Init
  <2>2. pc \in [Writers -> Steps] /\ \A e \in Engines : pc[e] = "idle"
    BY DEF Init, Steps, Writers
  <2>3. /\ day \in [Writers -> 1..Days] /\ offset \in [Writers -> Nat]
        /\ written \in [Writers -> Nat]
    BY <1>1 DEF Init
  <2>4. /\ existing \in [Writers -> SUBSET (Targets \cup Chunks)]
        /\ todo \in [Writers -> SUBSET (Targets \cup Chunks)]
        /\ \A e \in Engines : todo[e] \subseteq Targets
        /\ \A j \in Jobs : todo[j] \subseteq Chunks
    BY DEF Init, Writers
  <2>5. /\ kinds \in [Engines -> SUBSET Kinds]
        /\ cand \in [Engines -> Targets \cup {None}]
        /\ skipped \in [Engines -> BOOLEAN]
    BY DEF Init
  <2>6. QED BY <2>1, <2>2, <2>3, <2>4, <2>5 DEF TypeOK
<1>3. \A d \in 1..Days : Dense(RowsOn(d), 0)
  <2>1. \A d \in 1..Days : RowsOn(d) = {}
    BY DEF Init, RowsOn
  <2>2. 1..0 = {}
    OBVIOUS
  <2>3. QED BY <2>1, <2>2 DEF Dense
<1>4. AllDense
  BY <1>3 DEF AllDense
<1>5. \A d \in 1..Days : Filed(d) \in Nat
  BY <1>4, FiledType
<1>6. Counted
  <2>1. \A w \in Writers : offset[w] = 0 /\ written[w] = 0
    BY DEF Init
  <2>2. QED BY <1>5, <2>1 DEF Counted
<1>7. QED BY <1>2, <1>4, <1>6 DEF IdsInv

LEMMA IdsStep == IdsInv /\ [Next]_vars => IdsInv'
BY TypeStep, DenseStep, CountedStep DEF IdsInv

\* No run of run_once or consolidation_run_once counts more rows on its day than
\* there are, and the rows of a day are numbered without a gap.
THEOREM IdsInvariant == Spec => []IdsInv
BY IdsInit, IdsStep, PTL DEF Spec

\* Type correctness of evolution_proposals and of the locals of every run of
\* run_once and consolidation_run_once.
THEOREM TypeCorrect == Spec => []TypeOK
<1>1. IdsInv => TypeOK
  BY DEF IdsInv
<1>2. QED BY <1>1, IdsInvariant, PTL

\* The numbers of a day have no gap and no double, for any number of engines,
\* jobs, collisions and runs cut short (count_proposals_on_day, mint_proposal_id).
THEOREM IdsAreDense == Spec => []DayIdsDense
<1>1. IdsInv => DayIdsDense
  BY FiledType DEF IdsInv, DayIdsDense, Dense, Filed
<1>2. QED BY <1>1, IdsInvariant, PTL

-----------------------------------------------------------------------------
(* What a run read before its insert still holds when the insert succeeds. *)

Reading == {"candidates", "check_kind", "persist"}

\* The engine run would get the next number of its day.
UpToDate(e, d) == d = day[e] /\ offset[e] + written[e] = Filed(d)

CandOK == \A e \in Engines : pc[e] \in {"check_kind", "persist"} => cand[e] \in todo[e] \ existing[e]
Seen ==
    \A e \in Engines, d \in 1..Days :
        pc[e] \in Reading /\ UpToDate(e, d) =>
            \A t \in todo[e] \ existing[e], r \in RowsOn(d) : r.target # t

\* Rows that others file put the run behind; rows that are settled keep what it saw.
LEMMA StillUpToDate ==
    ASSUME TypeOK, Counted, AllDense, AllDense', NEW e \in Engines, NEW d \in 1..Days, Grown(d),
           UNCHANGED <<day[e], offset[e], written[e]>>, UpToDate(e, d)'
    PROVE  UpToDate(e, d) /\ SameContent(d)
<1>1. e \in Writers
  BY DEF Writers
<1>2. /\ d = day[e] /\ offset[e] + written[e] = Filed(d)'
      /\ offset[e] \in Nat /\ written[e] \in Nat
  BY <1>1 DEF UpToDate, TypeOK
<1>3. offset[e] + written[e] <= Filed(d)
  BY <1>1, <1>2 DEF Counted
<1>4. Filed(d) \in Nat /\ Filed(d)' \in Nat /\ Filed(d) <= Filed(d)'
  BY RowsStay
<1>5. Filed(d)' = Filed(d)
  BY <1>2, <1>3, <1>4
<1>6. ~ (Filed(d)' > Filed(d))
  BY <1>4, <1>5
<1>7. SameContent(d)
  BY <1>6 DEF Grown
<1>8. QED BY <1>2, <1>5, <1>7 DEF UpToDate

LEMMA SeenKept ==
    ASSUME TypeOK, Counted, AllDense, AllDense', Seen, NEW e \in Engines, NEW d \in 1..Days, Grown(d),
           UNCHANGED <<day[e], offset[e], written[e]>>,
           todo'[e] \ existing'[e] \subseteq todo[e] \ existing[e],
           pc'[e] \in Reading => pc[e] \in Reading
    PROVE  pc'[e] \in Reading /\ UpToDate(e, d)' =>
               \A t \in todo'[e] \ existing'[e], r \in RowsOn(d)' : r.target # t
<1> SUFFICES ASSUME pc'[e] \in Reading, UpToDate(e, d)',
                    NEW t \in todo'[e] \ existing'[e], NEW r \in RowsOn(d)'
             PROVE  r.target # t
  OBVIOUS
<1>1. UpToDate(e, d) /\ SameContent(d)
  BY StillUpToDate
<1>2. PICK q \in RowsOn(d) : q.target = r.target
  BY <1>1 DEF SameContent
<1>3. QED BY <1>1, <1>2 DEF Seen

\* Nobody but the engine itself touches its locals.
LEMMA OthersApart ==
    ASSUME TypeOK, [Next]_vars, NEW e \in Engines, ~ EngineStep(e), ~ Abandon(e)
    PROVE  /\ UNCHANGED <<pc[e], day[e], offset[e], written[e], existing[e], todo[e], cand[e]>>
<1>1. Engines \subseteq Writers /\ Jobs \subseteq Writers
  BY DEF Writers
<1>2. ASSUME NEW w \in Writers, w # e, Stop(w)
      PROVE  UNCHANGED <<pc[e], day[e], offset[e], written[e], existing[e], todo[e], cand[e]>>
  BY <1>1, <1>2 DEF Stop, Goto, TypeOK
<1>3. ASSUME NEW f \in Engines, EngineStep(f)
      PROVE  UNCHANGED <<pc[e], day[e], offset[e], written[e], existing[e], todo[e], cand[e]>>
  <2>1. f # e /\ f \in Writers /\ e \in Writers
    BY <1>1, <1>3
  <2>2. CASE StartEngine(f)
    BY <2>1, <2>2 DEF StartEngine, BeginRun, Goto, TypeOK
  <2>3. CASE CountForEngine(f)
    BY <2>1, <2>3 DEF CountForEngine, count_proposals_on_day, Goto, TypeOK, engineVars
  <2>4. ASSUME NEW k \in Kinds, NEW C \in SUBSET Targets, Propose(f, k, C)
        PROVE  UNCHANGED <<pc[e], day[e], offset[e], written[e], existing[e], todo[e], cand[e]>>
    BY <2>1, <2>4 DEF Propose, Goto, TypeOK
  <2>5. ASSUME NEW t \in todo[f], CheckTotal(f, t)
        PROVE  UNCHANGED <<pc[e], day[e], offset[e], written[e], existing[e], todo[e], cand[e]>>
    BY <2>1, <2>5 DEF CheckTotal, Skip, Goto, TypeOK
  <2>6. CASE CheckKind(f)
    BY <2>1, <2>6 DEF CheckKind, Skip, Goto, TypeOK
  <2>7. CASE Persist(f)
    <3>1. CASE Stop(f)
      BY <1>2, <2>1, <3>1
    <3>2. CASE ~ Stop(f)
      BY <2>1, <2>7, <3>2 DEF Persist, Goto, TypeOK
    <3>3. QED BY <3>1, <3>2
  <2>8. CASE EndKind(f)
    BY <2>1, <2>8 DEF EndKind, Goto, TypeOK, runVars, engineVars
  <2>9. CASE _emit_budget_signal(f)
    BY <1>2, <2>1, <2>9 DEF _emit_budget_signal
  <2>10. QED BY <1>3, <2>2, <2>3, <2>4, <2>5, <2>6, <2>7, <2>8, <2>9 DEF EngineStep
<1>4. ASSUME NEW j \in Jobs, JobStep(j)
      PROVE  UNCHANGED <<pc[e], day[e], offset[e], written[e], existing[e], todo[e], cand[e]>>
  <2>1. j # e /\ j \in Writers /\ e \in Writers
    BY <1>1, WriterAssumption
  <2>2. ASSUME NEW C \in SUBSET Chunks, StartJob(j, C)
        PROVE  UNCHANGED <<pc[e], day[e], offset[e], written[e], existing[e], todo[e], cand[e]>>
    BY <2>1, <2>2 DEF StartJob, BeginRun, Goto, TypeOK, engineVars
  <2>3. CASE _existing_consolidate_targets(j)
    BY <2>1, <2>3 DEF _existing_consolidate_targets, Goto, TypeOK, engineVars
  <2>4. CASE CountForJob(j)
    BY <2>1, <2>4 DEF CountForJob, count_proposals_on_day, Goto, TypeOK, engineVars
  <2>5. CASE InsertBatch(j)
    BY <1>2, <2>1, <2>5 DEF InsertBatch
  <2>6. QED BY <1>4, <2>2, <2>3, <2>4, <2>5 DEF JobStep
<1>5. ASSUME NEW w \in Writers, Abandon(w)
      PROVE  UNCHANGED <<pc[e], day[e], offset[e], written[e], existing[e], todo[e], cand[e]>>
  BY <1>2, <1>5 DEF Abandon
<1>6. CASE UNCHANGED <<pc, runVars, engineVars>>
  BY <1>6 DEF runVars, engineVars
<1>7. QED
  BY <1>3, <1>4, <1>5, <1>6 DEF Next, Settle, reset_decay, Midnight, vars

\* The candidate a run is at is one it has not filed.
LEMMA CandStep ==
    ASSUME TypeOK, CandOK, [Next]_vars
    PROVE  CandOK'
<1>0. Engines \subseteq Writers
  BY DEF Writers
<1>1. SUFFICES ASSUME NEW e \in Engines
               PROVE  pc'[e] \in {"check_kind", "persist"} => cand'[e] \in todo'[e] \ existing'[e]
  BY DEF CandOK
<1>2. CASE Stop(e)
  BY <1>0, <1>2 DEF Stop, Goto, TypeOK
<1>3. CASE EngineStep(e)
  <2>1. CASE StartEngine(e)
    BY <1>0, <2>1 DEF StartEngine, Goto, TypeOK
  <2>2. CASE CountForEngine(e)
    BY <1>0, <2>2 DEF CountForEngine, Goto, TypeOK
  <2>3. ASSUME NEW k \in Kinds, NEW C \in SUBSET Targets, Propose(e, k, C)
        PROVE  pc'[e] \notin {"check_kind", "persist"}
    BY <1>0, <2>3 DEF Propose, Goto, TypeOK
  <2>4. ASSUME NEW t \in todo[e], CheckTotal(e, t)
        PROVE  pc'[e] \in {"check_kind", "persist"} => cand'[e] \in todo'[e] \ existing'[e]
    <3>1. CASE Skip(e, t)
      BY <1>0, <3>1 DEF Skip, Goto, TypeOK
    <3>2. CASE ~ Skip(e, t)
      BY <1>0, <2>4, <3>2 DEF CheckTotal, TypeOK
    <3>3. QED BY <3>1, <3>2
  <2>5. CASE CheckKind(e)
    <3>1. CASE Skip(e, cand[e])
      BY <1>0, <3>1 DEF Skip, Goto, TypeOK
    <3>2. CASE ~ Skip(e, cand[e])
      BY <1>0, <2>5, <3>2 DEF CheckKind, TypeOK, CandOK
    <3>3. QED BY <3>1, <3>2
  <2>6. CASE Persist(e)
    BY <1>0, <1>2, <2>6 DEF Persist, Goto, TypeOK
  <2>7. CASE EndKind(e)
    BY <1>0, <2>7 DEF EndKind, Goto, TypeOK
  <2>8. CASE _emit_budget_signal(e)
    BY <1>2, <2>8 DEF _emit_budget_signal
  <2>9. QED BY <1>3, <2>1, <2>2, <2>3, <2>4, <2>5, <2>6, <2>7, <2>8 DEF EngineStep
<1>4. CASE Abandon(e)
  BY <1>2, <1>4 DEF Abandon
<1>5. CASE ~ EngineStep(e) /\ ~ Abandon(e)
  BY <1>5, OthersApart DEF CandOK
<1>6. QED BY <1>3, <1>4, <1>5

\* existing_targets read at Propose: no row of the kind is about a new candidate.
LEMMA ProposeSeen ==
    ASSUME TypeOK, NEW e \in Engines, NEW k \in Kinds, NEW C \in SUBSET Targets,
           \A t \in C : KindOf[t] = k, Propose(e, k, C), NEW d \in 1..Days
    PROVE  \A t \in todo'[e] \ existing'[e], r \in RowsOn(d)' : r.target # t
<1>1. todo'[e] = C /\ existing'[e] = {r.target : r \in RowsOfKind(k)} /\ proposals' = proposals
  BY DEF Propose, TypeOK, Writers, tableVars
<1>2. ASSUME NEW t \in todo'[e] \ existing'[e], NEW r \in RowsOn(d)', r.target = t PROVE FALSE
  <2>1. t \in C /\ r \in proposals
    BY <1>1 DEF RowsOn
  <2>2. KindOfRow(r) = k
    BY <1>2, <2>1, TargetAssumption DEF KindOfRow
  <2>3. r.target \in existing'[e]
    BY <1>1, <2>1, <2>2 DEF RowsOfKind
  <2>4. QED BY <1>2, <2>3
<1>3. QED BY <1>2

\* A run that filed a row has seen it.
LEMMA PersistSeen ==
    ASSUME TypeOK, AllDense, Counted, CandOK, Seen, NEW e \in Engines, Persist(e), NEW d \in 1..Days
    PROVE  pc'[e] \in Reading /\ UpToDate(e, d)' =>
               \A t \in todo'[e] \ existing'[e], r \in RowsOn(d)' : r.target # t
<1> SUFFICES ASSUME pc'[e] \in Reading, UpToDate(e, d)',
                    NEW t \in todo'[e] \ existing'[e], NEW r \in RowsOn(d)'
             PROVE  r.target # t
  OBVIOUS
<1>0. e \in Writers
  BY DEF Writers
<1>1. CASE Stop(e)
  BY <1>0, <1>1 DEF Stop, Goto, TypeOK, Reading
<1>2. CASE Persisted(e) /\ RowsOn(day[e])' = RowsOn(day[e]) \cup {Row(day[e], NextSeq(e), cand[e])}
  <2>1. /\ d = day[e] /\ d = day'[e] /\ UpToDate(e, d)
        /\ t \in todo[e] \ existing[e] /\ t # cand[e]
    BY <1>0, <1>2 DEF Persisted, UpToDate, TypeOK
  <2>2. RowsOn(d)' = RowsOn(d) \cup {Row(d, NextSeq(e), cand[e])}
    BY <1>2, <2>1 DEF RowsOn
  <2>3. pc[e] \in Reading
    BY DEF Persist, Reading
  <2>4. CASE r \in RowsOn(d)
    BY <2>1, <2>3, <2>4 DEF Seen
  <2>5. CASE r = Row(d, NextSeq(e), cand[e])
    BY <2>1, <2>5 DEF Row
  <2>6. QED BY <2>2, <2>4, <2>5
<1>3. QED BY <1>1, <1>2, PersistRows

LEMMA SeenStep ==
    ASSUME TypeOK, AllDense, Counted, CandOK, Seen, [Next]_vars
    PROVE  Seen'
<1>0. Engines \subseteq Writers
  BY DEF Writers
<1>1. AllDense' /\ \A d \in 1..Days : Grown(d)
  BY DenseStep
<1> DEFINE SeenBy(e, d) ==
        pc'[e] \in Reading /\ UpToDate(e, d)' =>
            \A t \in todo'[e] \ existing'[e], r \in RowsOn(d)' : r.target # t
<1>2. ASSUME NEW e \in Engines, NEW d \in 1..Days PROVE SeenBy(e, d)
  <2>1. CASE Stop(e)
    BY <1>0, <2>1 DEF Stop, Goto, TypeOK, Reading
  <2>2. CASE EngineStep(e)
    <3>1. CASE StartEngine(e)
      BY <1>0, <3>1 DEF StartEngine, Goto, TypeOK, Reading
    <3>2. CASE CountForEngine(e)
      BY <1>0, <3>2 DEF CountForEngine, Goto, TypeOK, Reading
    <3>3. ASSUME NEW k \in Kinds, NEW C \in SUBSET Targets,
                 \A t \in C : KindOf[t] = k, Propose(e, k, C)
          PROVE  SeenBy(e, d)
      BY <3>3, ProposeSeen
    <3>4. ASSUME NEW t \in todo[e], CheckTotal(e, t) PROVE SeenBy(e, d)
      <4>1. /\ UNCHANGED <<day[e], offset[e], written[e]>>
            /\ todo'[e] \ existing'[e] \subseteq todo[e] \ existing[e]
            /\ pc[e] \in Reading
        BY <1>0, <3>4 DEF CheckTotal, Skip, Reading, TypeOK
      <4>2. QED BY <1>1, <4>1, SeenKept
    <3>5. CASE CheckKind(e)
      <4>1. /\ UNCHANGED <<day[e], offset[e], written[e]>>
            /\ todo'[e] \ existing'[e] \subseteq todo[e] \ existing[e]
            /\ pc[e] \in Reading
        BY <1>0, <3>5 DEF CheckKind, Skip, Reading, TypeOK
      <4>2. QED BY <1>1, <4>1, SeenKept
    <3>6. CASE Persist(e)
      BY <3>6, PersistSeen
    <3>7. CASE EndKind(e)
      BY <1>0, <3>7 DEF EndKind, Goto, TypeOK, Reading
    <3>8. CASE _emit_budget_signal(e)
      BY <2>1, <3>8 DEF _emit_budget_signal
    <3>9. QED BY <2>2, <3>1, <3>2, <3>3, <3>4, <3>5, <3>6, <3>7, <3>8 DEF EngineStep
  <2>3. CASE Abandon(e)
    BY <2>1, <2>3 DEF Abandon
  <2>4. CASE ~ EngineStep(e) /\ ~ Abandon(e)
    BY <1>1, <2>4, OthersApart, SeenKept
  <2>5. QED BY <2>2, <2>3, <2>4
<1>3. QED BY <1>2 DEF Seen

LEMMA SettledRow ==
    ASSUME TypeOK, NEW r \in proposals, NEW st \in Statuses, Settle(r, st)
    PROVE  \E t : /\ proposals' = (proposals \ {r}) \cup {t}
                  /\ t.day = r.day /\ t.seq = r.seq /\ t.target = r.target
                  /\ t.status = st
<1>1. r \in Rows
  BY DEF TypeOK
<1>2. LET t == [r EXCEPT !.status = st]
      IN  t.day = r.day /\ t.seq = r.seq /\ t.target = r.target /\ t.status = st
  BY <1>1 DEF Rows
<1>3. QED BY <1>2 DEF Settle

LEMMA FilesOnceStep ==
    ASSUME TypeOK, AllDense, Counted, CandOK, Seen, EngineFilesOnce, [Next]_vars
    PROVE  EngineFilesOnce'
<1>1. CASE UNCHANGED proposals
  BY <1>1 DEF EngineFilesOnce
<1>2. ASSUME NEW e \in Engines, Persist(e) PROVE EngineFilesOnce'
  <2>1. CASE Persisted(e)
    <3>1. e \in Writers /\ pc[e] = "persist"
      BY <1>2 DEF Writers, Persist
    <3>2. PICK d \in 1..Days : d = day[e]
      BY <3>1 DEF TypeOK
    <3>3. PICK new : new = Row(d, NextSeq(e), cand[e])
      OBVIOUS
    <3>4. proposals' = proposals \cup {new} /\ new.day = d /\ new.target = cand[e]
      BY <2>1, <3>2, <3>3 DEF Persisted, Row
    <3>5. \A r \in RowsOn(d) : r.target # cand[e]
      <4>1. UpToDate(e, d)
        BY <2>1, <3>2 DEF Persisted, UpToDate
      <4>2. cand[e] \in todo[e] \ existing[e]
        BY <3>1 DEF CandOK
      <4>3. QED BY <3>1, <4>1, <4>2 DEF Seen, Reading
    <3>6. \A r \in proposals : ~ (r.day = new.day /\ r.target = new.target)
      BY <3>4, <3>5 DEF RowsOn
    <3>7. QED BY <3>4, <3>6 DEF EngineFilesOnce
  <2>2. CASE UNCHANGED proposals
    BY <1>1, <2>2
  <2>3. QED BY <1>2, <2>1, <2>2, PersistRows
<1>3. ASSUME NEW j \in Jobs, InsertBatch(j) PROVE EngineFilesOnce'
  <2>1. PICK d \in 1..Days : d = day[j]
    BY DEF TypeOK, Writers
  <2>2. CASE UNCHANGED proposals
    BY <1>1, <2>2
  <2>3. ASSUME NEW T, Batch(j, d, T) PROVE EngineFilesOnce'
    <3>1. proposals' = proposals \cup T /\ \A r \in T : r.target \in Chunks
      BY <2>3 DEF Batch, TypeOK
    <3>2. QED BY <3>1, TargetAssumption DEF EngineFilesOnce
  <2>4. QED BY <1>3, <2>1, <2>2, <2>3, BatchRows
<1>4. ASSUME NEW r \in proposals, NEW st \in Statuses, Settle(r, st) PROVE EngineFilesOnce'
  <2>1. PICK t : /\ proposals' = (proposals \ {r}) \cup {t}
                 /\ t.day = r.day /\ t.target = r.target
    BY <1>4, SettledRow
  <2>2. \A q \in proposals \ {r} :
            ~ (q.target = t.target /\ q.target \in Targets /\ q.day = t.day)
    BY <2>1 DEF EngineFilesOnce
  <2>3. QED BY <2>1, <2>2 DEF EngineFilesOnce
<1>5. QED BY <1>1, <1>2, <1>3, <1>4, WhoFiles

OnceInv == IdsInv /\ CandOK /\ Seen /\ EngineFilesOnce

LEMMA OnceInit == Init => OnceInv
<1> SUFFICES ASSUME Init PROVE OnceInv
  OBVIOUS
<1>1. \A e \in Engines : pc[e] = "idle"
  BY DEF Init, Writers
<1>2. CandOK /\ Seen
  BY <1>1 DEF CandOK, Seen, Reading
<1>3. EngineFilesOnce
  BY DEF Init, EngineFilesOnce
<1>4. QED BY <1>2, <1>3, IdsInit DEF OnceInv

LEMMA OnceStep == OnceInv /\ [Next]_vars => OnceInv'
BY IdsStep, CandStep, SeenStep, FilesOnceStep DEF OnceInv, IdsInv

\* What existing_targets told a run still holds while the run is up to date, that
\* is, while _persist would give it the next number of its day.
THEOREM OnceInvariant == Spec => []OnceInv
BY OnceInit, OnceStep, PTL DEF Spec

\* However many engine runs overlap, none files a target of a day twice
\* (run_once, _persist).
THEOREM FiledOnce == Spec => []EngineFilesOnce
<1>1. OnceInv => EngineFilesOnce
  BY DEF OnceInv
<1>2. QED BY <1>1, OnceInvariant, PTL

-----------------------------------------------------------------------------
(* The consolidation, where one job runs it.                               *)

OneJob == \A i, j \in Jobs : i = j

\* What the job read as free stays free until its insert: rows are only
\* settled, and settled rows never come back to life.
JobSeen ==
    \A j \in Jobs : pc[j] \in {"count", "insert"} =>
        \A r \in proposals : r.target \in todo[j] \ existing[j] => r.status \notin Blocking

LiveInv == IdsInv /\ (OneJob => JobSeen /\ OneLivePromotion)

LEMMA LiveInit == Init => LiveInv
BY IdsInit DEF LiveInv, Init, JobSeen, OneLivePromotion

LEMMA JobsApart ==
    ASSUME TypeOK, OneJob, [Next]_vars, NEW j \in Jobs, ~ JobStep(j), ~ Abandon(j)
    PROVE  UNCHANGED <<pc[j], todo[j], existing[j]>>
<1>1. Engines \subseteq Writers /\ Jobs \subseteq Writers
  BY DEF Writers
<1>2. ASSUME NEW w \in Writers, w # j, Stop(w) PROVE UNCHANGED <<pc[j], todo[j], existing[j]>>
  BY <1>1, <1>2 DEF Stop, Goto, TypeOK
<1>3. ASSUME NEW e \in Engines, EngineStep(e) PROVE UNCHANGED <<pc[j], todo[j], existing[j]>>
  <2>1. e # j /\ e \in Writers /\ j \in Writers
    BY <1>1, WriterAssumption
  <2>2. CASE Stop(e)
    BY <1>2, <2>1, <2>2
  <2>3. CASE ~ Stop(e)
    BY <1>3, <2>1, <2>3
    DEF EngineStep, StartEngine, BeginRun, CountForEngine, count_proposals_on_day, Propose,
        CheckTotal, CheckKind, Skip, Persist, EndKind, _emit_budget_signal, Goto, TypeOK, runVars
  <2>4. QED BY <2>2, <2>3
<1>4. \A i \in Jobs : i = j
  BY DEF OneJob
<1>5. ASSUME NEW w \in Writers, Abandon(w) PROVE UNCHANGED <<pc[j], todo[j], existing[j]>>
  BY <1>2, <1>5 DEF Abandon
<1>6. CASE UNCHANGED <<pc, runVars>>
  BY <1>6 DEF runVars
<1>7. QED BY <1>3, <1>4, <1>5, <1>6 DEF Next, Settle, reset_decay, Midnight, vars

\* Every new row about a chunk is of a batch; no row turns blocking.
LEMMA NoNewBlocking ==
    ASSUME TypeOK, AllDense, Counted, [Next]_vars, \A j \in Jobs : ~ InsertBatch(j),
           NEW r \in proposals', r.target \in Chunks, r.status \in Blocking
    PROVE  \E q \in proposals : q.target = r.target /\ q.status \in Blocking
<1>1. CASE UNCHANGED proposals
  BY <1>1
<1>2. ASSUME NEW e \in Engines, Persist(e), ~ UNCHANGED proposals PROVE r \in proposals
  <2>1. cand[e] \in Targets /\ proposals' = proposals \cup {Row(day[e], NextSeq(e), cand[e])}
    BY <1>2 DEF Persist, TypeOK
  <2>2. QED BY <2>1, TargetAssumption DEF Row
<1>3. ASSUME NEW x \in proposals, NEW st \in Statuses, Settle(x, st)
      PROVE  \E q \in proposals : q.target = r.target /\ q.status \in Blocking
  <2>1. PICK t : proposals' = (proposals \ {x}) \cup {t} /\ t.target = x.target /\ t.status = st
    BY <1>3, SettledRow
  <2>2. st \in Blocking => x.status \in Blocking
    BY <1>3 DEF Settle, Blocking
  <2>3. QED BY <2>1, <2>2
<1>4. QED BY <1>1, <1>2, <1>3, WhoFiles

LEMMA LiveStep == LiveInv /\ [Next]_vars => LiveInv'
<1> SUFFICES ASSUME IdsInv, JobSeen, OneLivePromotion, OneJob, [Next]_vars
             PROVE  JobSeen' /\ OneLivePromotion'
  BY IdsStep DEF LiveInv, OneJob
<1>0. TypeOK /\ AllDense /\ Counted /\ Jobs \subseteq Writers
  BY DEF IdsInv, Writers
<1>1. ASSUME NEW j \in Jobs, InsertBatch(j) PROVE JobSeen' /\ OneLivePromotion'
  <2>1. JobSeen'
    BY <1>0, <1>1 DEF InsertBatch, Stop, Goto, OneJob, JobSeen, TypeOK
  <2>2. PICK d \in 1..Days : d = day[j]
    BY <1>0 DEF TypeOK
  <2>3. CASE UNCHANGED proposals
    BY <2>1, <2>3 DEF OneLivePromotion
  <2>4. ASSUME NEW T, Batch(j, d, T) PROVE OneLivePromotion'
    <3>1. \A r \in proposals : r.target \in todo[j] \ existing[j] => r.status \notin Blocking
      BY <1>1 DEF JobSeen, InsertBatch
    <3>2. QED BY <2>4, <3>1 DEF Batch, OneLivePromotion
  <2>5. QED BY <1>0, <1>1, <2>1, <2>2, <2>3, <2>4, BatchRows
<1>2. ASSUME \A j \in Jobs : ~ InsertBatch(j) PROVE JobSeen' /\ OneLivePromotion'
  <2>1. OneLivePromotion'
    <3>1. CASE UNCHANGED proposals
      BY <3>1 DEF OneLivePromotion
    <3>2. ASSUME NEW e \in Engines, Persist(e), ~ UNCHANGED proposals PROVE OneLivePromotion'
      <4>1. cand[e] \in Targets /\ proposals' = proposals \cup {Row(day[e], NextSeq(e), cand[e])}
        BY <1>0, <3>2 DEF Persist, TypeOK
      <4>2. QED BY <4>1, TargetAssumption DEF Row, OneLivePromotion
    <3>3. ASSUME NEW x \in proposals, NEW st \in Statuses, Settle(x, st) PROVE OneLivePromotion'
      <4>1. PICK t : proposals' = (proposals \ {x}) \cup {t} /\ t.target = x.target /\ t.status = st
        BY <1>0, <3>3, SettledRow
      <4>2. st \in Blocking => x.status \in Blocking
        BY <3>3 DEF Settle, Blocking
      <4>3. ASSUME NEW q \in proposals \ {x}, t.status \in Blocking, q.status \in Blocking,
                   t.target \in Chunks
            PROVE  q.target # t.target
        BY <4>1, <4>2, <4>3 DEF OneLivePromotion
      <4>4. QED BY <4>1, <4>3 DEF OneLivePromotion
    <3>4. QED BY <1>2, <3>1, <3>2, <3>3, WhoFiles
  <2>2. ASSUME NEW j \in Jobs, pc'[j] \in {"count", "insert"}, NEW r \in proposals',
               r.target \in todo'[j] \ existing'[j], r.status \in Blocking
        PROVE  FALSE
    <3>1. r.target \in Chunks
      <4>1. TypeOK'
        BY <1>0, TypeStep
      <4>2. QED BY <2>2, <4>1 DEF TypeOK
    <3>2. PICK q \in proposals : q.target = r.target /\ q.status \in Blocking
      BY <1>0, <1>2, <2>2, <3>1, NoNewBlocking
    <3>3. CASE UNCHANGED <<pc[j], todo[j], existing[j]>>
      BY <2>2, <3>2, <3>3 DEF JobSeen
    <3>4. CASE Abandon(j)
      BY <1>0, <2>2, <3>4 DEF Abandon, Stop, Goto, TypeOK
    <3>5. CASE JobStep(j)
      <4>1. ASSUME NEW C \in SUBSET Chunks, StartJob(j, C) PROVE FALSE
        BY <1>0, <2>2, <4>1 DEF StartJob, Goto, TypeOK
      <4>2. CASE _existing_consolidate_targets(j)
        <5>1. existing'[j] = {x.target : x \in {y \in proposals : y.target \in Chunks /\ y.status \in Blocking}}
          BY <1>0, <4>2 DEF _existing_consolidate_targets, TypeOK
        <5>2. r.target \in existing'[j]
          BY <3>1, <3>2, <5>1
        <5>3. QED BY <2>2, <5>2
      <4>3. CASE CountForJob(j)
        BY <1>0, <2>2, <3>2, <4>3 DEF CountForJob, count_proposals_on_day, JobSeen, TypeOK
      <4>4. QED BY <1>2, <3>5, <4>1, <4>2, <4>3 DEF JobStep
    <3>6. QED BY <1>0, <3>3, <3>4, <3>5, JobsApart
  <2>3. QED BY <2>1, <2>2 DEF JobSeen
<1>3. QED BY <1>1, <1>2

\* What _existing_consolidate_targets told the only job holds until its commit.
THEOREM LiveInvariant == Spec => []LiveInv
BY LiveInit, LiveStep, PTL DEF Spec

\* With one job, a chunk has one live consolidation proposal at a time
\* (consolidation_run_once).
THEOREM OneLive == Spec => [](OneJob => OneLivePromotion)
<1>1. LiveInv => (OneJob => OneLivePromotion)
  BY DEF LiveInv
<1>2. QED BY <1>1, LiveInvariant, PTL

-----------------------------------------------------------------------------
(* The budget.                                                             *)

LEMMA RowsFinite ==
    ASSUME TypeOK, AllDense
    PROVE  /\ IsFiniteSet(proposals)
           /\ \A d \in 1..Days : Filed(d) <= Cardinality(proposals)
           /\ \A k \in Kinds : IsFiniteSet(RowsOfKind(k))
<1> DEFINE f == [d \in 1..Days |-> RowsOn(d)]
           D == {RowsOn(d) : d \in 1..Days}
<1>1. f \in Surjection(1..Days, D)
  BY DEF Surjection
<1>2. IsFiniteSet(1..Days)
  <2>1. Days \in Int
    BY BoundAssumption
  <2>2. QED BY <2>1, FS_Interval
<1>3. IsFiniteSet(D)
  BY <1>1, <1>2, FS_Surjection
<1>4. \A T \in D : IsFiniteSet(T)
  BY DenseCount DEF AllDense
<1>5. IsFiniteSet(UNION D)
  BY <1>3, <1>4, FS_UNION
<1>6. proposals \subseteq UNION D
  BY DEF TypeOK, Rows, RowsOn
<1>7. IsFiniteSet(proposals)
  BY <1>5, <1>6, FS_Subset
<1>8. \A d \in 1..Days : RowsOn(d) \subseteq proposals
  BY DEF RowsOn
<1>9. \A k \in Kinds : RowsOfKind(k) \subseteq proposals
  BY DEF RowsOfKind
<1>10. QED BY <1>7, <1>8, <1>9, FS_Subset DEF Filed

\* The engine's numbers of a kind on a day are no more than the kind's rows.
LEMMA NumbersBound ==
    ASSUME TypeOK, AllDense, NEW d \in 1..Days, NEW k \in Kinds
    PROVE  /\ IsFiniteSet(EngineNumbers(d, k))
           /\ Cardinality(EngineNumbers(d, k)) \in Nat
           /\ Cardinality(EngineNumbers(d, k)) <= Cardinality(RowsOfKind(k))
<1> DEFINE f == [r \in EngineRows(d, k) |-> r.seq]
<1>1. EngineRows(d, k) \subseteq RowsOfKind(k)
  BY TargetAssumption DEF EngineRows, RowsOn, RowsOfKind, KindOfRow
<1>2. /\ IsFiniteSet(EngineRows(d, k))
      /\ Cardinality(EngineRows(d, k)) <= Cardinality(RowsOfKind(k))
  BY <1>1, RowsFinite, FS_Subset
<1>3. f \in Surjection(EngineRows(d, k), EngineNumbers(d, k))
  BY DEF Surjection, EngineNumbers
<1>4. /\ IsFiniteSet(EngineNumbers(d, k))
      /\ Cardinality(EngineNumbers(d, k)) <= Cardinality(EngineRows(d, k))
  BY <1>2, <1>3, FS_Surjection
<1>5. /\ Cardinality(EngineNumbers(d, k)) \in Nat /\ Cardinality(EngineRows(d, k)) \in Nat
      /\ Cardinality(RowsOfKind(k)) \in Nat
  BY <1>2, <1>4, RowsFinite, FS_CardinalityType
<1>6. QED BY <1>2, <1>4, <1>5

LEMMA NumbersSettled ==
    ASSUME NEW d, SameContent(d), NEW k
    PROVE  EngineNumbers(d, k)' = EngineNumbers(d, k)
<1>1. \A n : n \in EngineNumbers(d, k)' => n \in EngineNumbers(d, k)
  BY DEF SameContent, EngineNumbers, EngineRows
<1>2. \A n : n \in EngineNumbers(d, k) => n \in EngineNumbers(d, k)'
  BY DEF SameContent, EngineNumbers, EngineRows
<1>3. QED BY <1>1, <1>2

\* What _check_budget found holds while the run is up to date.
RunRoom ==
    \A e \in Engines, d \in 1..Days :
        pc[e] \in {"check_kind", "persist"} /\ UpToDate(e, d) => Filed(d) < WeeklyTotal

RoomOfKind(e, d) ==
    Cardinality(EngineNumbers(d, KindOf[cand[e]])) < Cap[KindOf[cand[e]]]
KindRoom ==
    \A e \in Engines, d \in 1..Days :
        pc[e] = "persist" /\ UpToDate(e, d) => RoomOfKind(e, d)

LEMMA RoomStep ==
    ASSUME TypeOK, AllDense, Counted, CandOK, RunRoom, KindRoom, [Next]_vars
    PROVE  RunRoom' /\ KindRoom'
<1>0. Engines \subseteq Writers
  BY DEF Writers
<1>1. AllDense' /\ \A d \in 1..Days : Grown(d)
  BY DenseStep
<1> DEFINE RoomBy(e, d) ==
        /\ pc'[e] \in {"check_kind", "persist"} /\ UpToDate(e, d)' => Filed(d)' < WeeklyTotal
        /\ pc'[e] = "persist" /\ UpToDate(e, d)' => RoomOfKind(e, d)'
<1>2. ASSUME NEW e \in Engines, NEW d \in 1..Days PROVE RoomBy(e, d)
  <2>1. CASE pc'[e] \notin {"check_kind", "persist"}
    BY <2>1
  <2>2. CASE EngineStep(e) /\ ~ UNCHANGED proposals
    BY <1>0, <2>1, <2>2
    DEF EngineStep, StartEngine, BeginRun, CountForEngine, count_proposals_on_day, Propose,
        CheckTotal, CheckKind, Persist, EndKind, _emit_budget_signal, Goto, TypeOK, tableVars
  <2>3. CASE EngineStep(e) /\ UNCHANGED proposals /\ pc'[e] \in {"check_kind", "persist"}
    <3>1. \/ \E t \in todo[e] : CheckTotal(e, t) /\ ~ Skip(e, t)
          \/ CheckKind(e) /\ ~ Skip(e, cand[e])
      BY <1>0, <2>3
      DEF EngineStep, StartEngine, BeginRun, CountForEngine, count_proposals_on_day, Propose,
          CheckTotal, CheckKind, Skip, Persist, EndKind, _emit_budget_signal, Stop, Goto, TypeOK
    <3>2. ASSUME NEW t \in todo[e], CheckTotal(e, t), ~ Skip(e, t) PROVE RoomBy(e, d)
      <4>1. pc'[e] = "check_kind" /\ TotalUsed < WeeklyTotal
        BY <1>0, <3>2 DEF CheckTotal, Goto, TypeOK
      <4>2. Filed(d) <= Cardinality(proposals) /\ Filed(d) \in Nat /\ Cardinality(proposals) \in Nat
        BY RowsFinite, FiledType, FS_CardinalityType
      <4>3. resets \in Nat /\ WeeklyTotal \in Nat
        BY BoundAssumption DEF TypeOK
      <4>4. Filed(d) < WeeklyTotal
        BY <4>1, <4>2, <4>3 DEF TotalUsed
      <4>5. Filed(d)' = Filed(d)
        BY <2>3 DEF Filed, RowsOn
      <4>6. QED BY <4>1, <4>4, <4>5
    <3>3. CASE CheckKind(e) /\ ~ Skip(e, cand[e])
      <4> DEFINE k == KindOf[cand[e]]
      <4>1. /\ KindUsed(k) < Cap[k] /\ pc[e] = "check_kind" /\ cand' = cand
            /\ UNCHANGED <<day, offset, written>>
        BY <3>3 DEF CheckKind
      <4>2. k \in Kinds
        BY <4>1, TargetAssumption DEF TypeOK
      <4> HIDE DEF k
      <4>3. /\ Cardinality(RowsOfKind(k)) \in Nat /\ resets \in Nat /\ Cap[k] \in Nat
        BY <4>2, RowsFinite, FS_CardinalityType, BoundAssumption DEF TypeOK
      <4>4. KindUsed(k) >= Cardinality(RowsOfKind(k)) /\ KindUsed(k) \in Nat
        BY <4>3 DEF KindUsed
      <4>5. Cardinality(EngineNumbers(d, k)) < Cap[k]
        BY <4>1, <4>2, <4>3, <4>4, NumbersBound
      <4>6. UpToDate(e, d)' = UpToDate(e, d) /\ Filed(d)' = Filed(d) /\ RoomOfKind(e, d)' = RoomOfKind(e, d)
        BY <2>3, <4>1 DEF UpToDate, Filed, RowsOn, RoomOfKind, EngineNumbers, EngineRows
      <4>7. UpToDate(e, d) => Filed(d) < WeeklyTotal
        BY <4>1 DEF RunRoom
      <4>8. RoomOfKind(e, d)
        BY <4>5 DEF RoomOfKind, k
      <4>9. QED BY <4>6, <4>7, <4>8
    <3>4. QED BY <3>1, <3>2, <3>3
  <2>4. CASE Abandon(e)
    BY <1>0, <2>1, <2>4 DEF Abandon, Stop, Goto, TypeOK
  <2>5. CASE ~ EngineStep(e) /\ ~ Abandon(e)
    <3>1. UNCHANGED <<pc[e], day[e], offset[e], written[e], cand[e]>>
      BY <2>5, OthersApart
    <3>2. SUFFICES ASSUME UpToDate(e, d)' PROVE RoomBy(e, d)
      OBVIOUS
    <3>3. UpToDate(e, d) /\ SameContent(d)
      BY <1>1, <3>1, <3>2, StillUpToDate
    <3>4. Filed(d)' = Filed(d)
      BY <3>3 DEF SameContent
    <3>5. RoomOfKind(e, d) => RoomOfKind(e, d)'
      <4>1. EngineNumbers(d, KindOf[cand[e]])' = EngineNumbers(d, KindOf[cand[e]])
        <5>1. PICK k : k = KindOf[cand[e]] /\ k = KindOf[cand'[e]]
          BY <3>1
        <5>2. EngineNumbers(d, k)' = EngineNumbers(d, k)
          BY <3>3, NumbersSettled
        <5>3. QED BY <5>1, <5>2 DEF EngineNumbers, EngineRows
      <4>2. QED BY <3>1, <4>1 DEF RoomOfKind
    <3>6. QED BY <3>1, <3>3, <3>4, <3>5 DEF RunRoom, KindRoom
  <2>6. QED BY <2>1, <2>2, <2>3, <2>4, <2>5
<1>3. QED BY <1>2 DEF RunRoom, KindRoom

\* A row that an engine files is within the week's total and its kind's cap.
LEMMA PersistWithin ==
    ASSUME TypeOK, AllDense, Counted, CandOK, RunRoom, KindRoom, EngineWithinBudget,
           NEW e \in Engines, Persist(e), Persisted(e)
    PROVE  EngineWithinBudget'
<1>1. e \in Writers /\ pc[e] = "persist" /\ cand[e] \in Targets
  BY DEF Writers, Persist, TypeOK
<1>2. PICK d \in 1..Days : d = day[e]
  BY <1>1 DEF TypeOK
<1>3. PICK n : n = NextSeq(e)
  OBVIOUS
<1>4. PICK kind \in Kinds : kind = KindOf[cand[e]]
  BY <1>1, TargetAssumption
<1>5. PICK new : new = Row(d, n, cand[e])
  OBVIOUS
<1>6. /\ proposals' = proposals \cup {new}
      /\ new.day = d /\ new.seq = n /\ new.target \in Targets /\ KindOf[new.target] = kind
  BY <1>1, <1>2, <1>3, <1>4, <1>5 DEF Persisted, Row
<1>7. UpToDate(e, d)
  BY <1>2 DEF Persisted, UpToDate
<1>8. n <= WeeklyTotal
  <2>1. Filed(d) < WeeklyTotal
    BY <1>1, <1>7 DEF RunRoom
  <2>2. n = Filed(d) + 1 /\ Filed(d) \in Nat /\ WeeklyTotal \in Nat
    BY <1>3, <1>7, FiledType, BoundAssumption DEF UpToDate, NextSeq
  <2>3. QED BY <2>1, <2>2
<1>9. \A r \in proposals' : r.target \in Targets => r.seq <= WeeklyTotal
  BY <1>6, <1>8 DEF EngineWithinBudget
<1>10. ASSUME NEW c \in 1..Days, NEW k \in Kinds
       PROVE  Cardinality(EngineNumbers(c, k)') <= Cap[k]
  <2>1. CASE c = d /\ k = kind
    <3>1. EngineNumbers(c, k)' = EngineNumbers(c, k) \cup {n}
      BY <1>6, <2>1 DEF EngineNumbers, EngineRows, RowsOn
    <3>2. Cardinality(EngineNumbers(c, k)) < Cap[k]
      BY <1>1, <1>4, <1>7, <2>1 DEF KindRoom, RoomOfKind
    <3>3. IsFiniteSet(EngineNumbers(c, k)) /\ Cardinality(EngineNumbers(c, k)) \in Nat
      BY NumbersBound
    <3>4. Cap[k] \in Nat
      BY BoundAssumption
    <3>5. \/ Cardinality(EngineNumbers(c, k) \cup {n}) = Cardinality(EngineNumbers(c, k))
          \/ Cardinality(EngineNumbers(c, k) \cup {n}) = Cardinality(EngineNumbers(c, k)) + 1
      BY <3>3, FS_AddElement
    <3>6. QED BY <3>1, <3>2, <3>3, <3>4, <3>5
  <2>2. CASE ~ (c = d /\ k = kind)
    <3>1. EngineNumbers(c, k)' = EngineNumbers(c, k)
      BY <1>6, <2>2 DEF EngineNumbers, EngineRows, RowsOn
    <3>2. QED BY <3>1 DEF EngineWithinBudget
  <2>3. QED BY <2>1, <2>2
<1>11. QED BY <1>9, <1>10 DEF EngineWithinBudget

LEMMA WithinStep ==
    ASSUME TypeOK, AllDense, Counted, CandOK, RunRoom, KindRoom, EngineWithinBudget, [Next]_vars
    PROVE  EngineWithinBudget'
<1>1. CASE UNCHANGED proposals
  BY <1>1 DEF EngineWithinBudget, EngineNumbers, EngineRows, RowsOn
<1>2. ASSUME NEW e \in Engines, Persist(e) PROVE EngineWithinBudget'
  BY <1>1, <1>2, PersistRows, PersistWithin
<1>3. ASSUME NEW j \in Jobs, InsertBatch(j) PROVE EngineWithinBudget'
  <2>1. PICK d \in 1..Days : d = day[j]
    BY DEF TypeOK, Writers
  <2>2. ASSUME NEW T, Batch(j, d, T) PROVE EngineWithinBudget'
    <3>1. proposals' = proposals \cup T /\ \A r \in T : r.target \notin Targets
      BY <2>2, TargetAssumption DEF Batch, TypeOK
    <3>2. \A c \in 1..Days, k \in Kinds : EngineNumbers(c, k)' = EngineNumbers(c, k)
      BY <3>1 DEF EngineNumbers, EngineRows, RowsOn
    <3>3. QED BY <3>1, <3>2 DEF EngineWithinBudget
  <2>3. QED BY <1>1, <1>3, <2>1, <2>2, BatchRows
<1>4. ASSUME NEW r \in proposals, NEW st \in Statuses, Settle(r, st) PROVE EngineWithinBudget'
  <2>1. \A d \in 1..Days, k \in Kinds : EngineNumbers(d, k)' = EngineNumbers(d, k)
    BY <1>4, SettleRows, NumbersSettled
  <2>2. PICK t : proposals' = (proposals \ {r}) \cup {t} /\ t.seq = r.seq /\ t.target = r.target
    BY <1>4, SettledRow
  <2>3. \A q \in proposals' : q.target \in Targets => q.seq <= WeeklyTotal
    BY <2>2 DEF EngineWithinBudget
  <2>4. QED BY <2>1, <2>3 DEF EngineWithinBudget
<1>5. QED BY <1>1, <1>2, <1>3, <1>4, WhoFiles

BudgetInv == IdsInv /\ CandOK /\ RunRoom /\ KindRoom /\ EngineWithinBudget

LEMMA BudgetInit == Init => BudgetInv
<1> SUFFICES ASSUME Init PROVE BudgetInv
  OBVIOUS
<1>1. \A e \in Engines : pc[e] = "idle"
  BY DEF Init, Writers
<1>2. CandOK /\ RunRoom /\ KindRoom
  BY <1>1 DEF CandOK, RunRoom, KindRoom
<1>3. \A d \in 1..Days, k \in Kinds : EngineNumbers(d, k) = {}
  BY DEF Init, EngineNumbers, EngineRows, RowsOn
<1>4. Cardinality({}) = 0 /\ \A k \in Kinds : 0 <= Cap[k]
  BY FS_EmptySet, BoundAssumption
<1>5. EngineWithinBudget
  BY <1>3, <1>4 DEF Init, EngineWithinBudget
<1>6. QED BY <1>2, <1>5, IdsInit DEF BudgetInv

LEMMA BudgetStep == BudgetInv /\ [Next]_vars => BudgetInv'
BY IdsStep, CandStep, RoomStep, WithinStep DEF BudgetInv, IdsInv

\* What _check_budget found holds while the run is up to date.
THEOREM BudgetInvariant == Spec => []BudgetInv
BY BudgetInit, BudgetStep, PTL DEF Spec

\* However many engine runs overlap, no day gets an engine proposal past the
\* weekly total or its kind's cap (_check_budget).
THEOREM WithinBudget == Spec => []EngineWithinBudget
<1>1. BudgetInv => EngineWithinBudget
  BY DEF BudgetInv
<1>2. QED BY <1>1, BudgetInvariant, PTL

-----------------------------------------------------------------------------
(***************************************************************************)
(* The tag tree.  The foreign key only asks for some parent.  That it is   *)
(* the right one rests on ids: whoever remembers an id, a merge in the row *)
(* it recorded or a tagger in the parent it found, remembers it with one   *)
(* path, because no id is given twice and no row changes its path.         *)
(***************************************************************************)

\* The rows that are in the table or that a revert may put there.
Known == nodes \cup {n \in Node : \E m \in Merges : merge[m].src = n}

OneIdentity == \A m, n \in Known : m.id = n.id => m = n

\* The parent of a row, where it is known, has the path above.
Rooted ==
    \A n \in Known :
        /\ n.id <= lastId
        /\ Len(n.path) = 1 => n.parent = Null
        /\ Len(n.path) # 1 =>
             /\ n.parent \in Ids /\ n.parent <= lastId
             /\ \A p \in Known : p.id = n.parent => p.path = Above(n.path)

\* The id a tagger carries is that of the path it has come to.
TaggersFollow ==
    \A t \in Taggers :
        /\ tagger[t].at \in {"segment", "insert"} => tagger[t].depth < Len(TagPath[t])
        /\ tagger[t].depth = 0 => tagger[t].parent = Null
        /\ tagger[t].depth # 0 =>
             /\ tagger[t].parent \in Ids /\ tagger[t].parent <= lastId
             /\ \A p \in Known : p.id = tagger[t].parent =>
                    p.path = Prefix(TagPath[t], tagger[t].depth)

Remembered ==
    \A m \in Merges : merge[m].at # "approved" =>
        merge[m].src \in Node /\ merge[m].src.parent # Null

OnePerPath == \A m, n \in nodes : m.path = n.path => m = n
NoOrphans == Closed(nodes) /\ \A t \in tags : HasId(t[2])

Inv ==
    /\ TagTypeOK /\ OneIdentity /\ Rooted /\ TaggersFollow /\ Remembered
    /\ OnePerPath /\ NoOrphans

-----------------------------------------------------------------------------
(* Paths.                                                                  *)

LEMMA PathTyped ==
    ASSUME NEW p \in Paths
    PROVE  p \in Seq(STRING) /\ Len(p) \in Nat \ {0} /\ \A n \in 1..Len(p) : p[n] \in STRING
BY PathsAssumption

LEMMA PrefixOfPath ==
    ASSUME NEW p \in Paths, NEW n \in 1..Len(p)
    PROVE  /\ Prefix(p, n) \in Paths /\ Len(Prefix(p, n)) = n
           /\ n # 1 => Above(Prefix(p, n)) = Prefix(p, n - 1)
<1>1. Prefix(p, n) \in Paths
  BY PathsAssumption
<1>2. Len(Prefix(p, n)) = n
  <2>1. \A i \in 1..n : p[i] \in STRING
    BY PathTyped
  <2>2. QED BY <2>1, SubSeqProperties DEF Prefix
<1>3. ASSUME n # 1
      PROVE  SubSeq(SubSeq(p, 1, n), 1, n - 1) = SubSeq(p, 1, n - 1)
  <2>1. p \in Seq(STRING) /\ Len(p) \in Nat /\ n - 1 \in 1..(n - 1 + 1)
    BY PathTyped, <1>3
  <2>2. 1 \in 1..Len(p) /\ 1 \in 1..(n - 1 + 1)
    BY <2>1
  <2>3. SubSeq(SubSeq(p, 1, n), 1, n - 1) = SubSeq(p, 1 + 1 - 1, 1 + (n - 1) - 1)
    BY <2>1, <2>2, SubSeqOfSubSeq
  <2>4. QED BY <2>3
<1>4. QED BY <1>1, <1>2, <1>3 DEF Above, Prefix

\* What a cascade leaves is closed and does not have the node.
LEMMA WithoutIsClosed ==
    ASSUME NEW n
    PROVE  Without(n) \subseteq nodes \ {n} /\ Closed(Without(n))
BY DEF Without, Closed

-----------------------------------------------------------------------------
(* The steps.                                                              *)

\* A step that brings no row from outside keeps what is known of ids.
LEMMA NothingNew ==
    ASSUME Inv, Known' \subseteq Known, lastId' = lastId
    PROVE  OneIdentity' /\ Rooted' /\ (tagger' = tagger => TaggersFollow')
BY DEF Inv, OneIdentity, Rooted, TaggersFollow

LEMMA InitHolds == TagInit => Inv
<1> SUFFICES ASSUME TagInit PROVE Inv
  OBVIOUS
<1> USE InitialAssumption, PathsAssumption, RequestsAssumption DEF TagInit
<1>1. TagTypeOK
  BY DEF TagTypeOK, MergeRow, TaggerRow, Node, Phase
<1>2. Known = nodes
  <2>1. \A m \in Merges : merge[m].src \notin Node
    BY DEF TagInit
  <2>2. QED BY <2>1 DEF Known
<1>3. OneIdentity /\ OnePerPath
  BY <1>2 DEF OneIdentity, OnePerPath, Consistent
<1>4. Rooted
  BY <1>2 DEF Rooted, Consistent, Node
<1>5. TaggersFollow
  BY PathTyped DEF TaggersFollow
<1>6. Remembered
  BY DEF Remembered
<1>7. NoOrphans
  BY DEF NoOrphans, Closed, Consistent, HasId
<1>8. QED BY <1>1, <1>3, <1>4, <1>5, <1>6, <1>7 DEF Inv

LEMMA MergeStep ==
    ASSUME Inv, NEW m \in Merges,
           \/ SelectNode(m) \/ ListChunks(m) \/ CommitApply(m) \/ ApplyEnds(m)
           \/ RevertDone(m) \/ RevertEnds(m)
    PROVE  Inv'
<1> USE DEF Goes
<1>1. nodes' = nodes /\ tags' = tags /\ lastId' = lastId /\ tagger' = tagger
  BY DEF SelectNode, ListChunks, CommitApply, ApplyEnds, RevertDone, RevertEnds
<1>2. HasPath(MergePath[m]) => NodeAt(MergePath[m]) \in nodes
  BY DEF HasPath, NodeAt
<1>3. TagTypeOK'
  BY <1>1, <1>2 DEF Inv, TagTypeOK, MergeRow, Phase, TaggedWith,
     SelectNode, ListChunks, CommitApply, ApplyEnds, RevertDone, RevertEnds
<1>4. \A o \in Merges : merge'[o].src \in {merge[o].src, Null} \cup nodes
  BY <1>2 DEF Inv, TagTypeOK, MergeRow,
     SelectNode, ListChunks, CommitApply, ApplyEnds, RevertDone, RevertEnds
<1>5. Known' \subseteq Known
  BY <1>1, <1>4, PathsAssumption DEF Known
<1>6. Remembered'
  BY <1>2 DEF Inv, Remembered, TagTypeOK, MergeRow,
     SelectNode, ListChunks, CommitApply, ApplyEnds, RevertDone, RevertEnds
<1>7. OnePerPath' /\ NoOrphans'
  BY <1>1 DEF Inv, OnePerPath, NoOrphans, Closed, HasId
<1>8. QED BY <1>1, <1>3, <1>5, <1>6, <1>7, NothingNew DEF Inv

\* The steps that rewrite chunk_tags.
LEMMA TagStep ==
    ASSUME Inv, NEW m \in Merges,
           \/ ClearConflicts(m) \/ MoveTags(m) \/ RelinkChunk(m)
           \/ \E c \in Tagged : UnlinkChunk(m, c)
    PROVE  Inv'
<1> USE DEF Goes
<1>1. nodes' = nodes /\ lastId' = lastId /\ tagger' = tagger
  BY DEF ClearConflicts, MoveTags, UnlinkChunk, RelinkChunk
<1>2. \A o \in Merges : merge'[o].src = merge[o].src
  BY DEF Inv, TagTypeOK, MergeRow, ClearConflicts, MoveTags, UnlinkChunk, RelinkChunk
<1>3. Known' \subseteq Known
  BY <1>1, <1>2 DEF Known
<1>4. merge[m].src \in Node /\ merge[m].src.parent \in Ids
  BY DEF Inv, Remembered, Node, ClearConflicts, MoveTags, UnlinkChunk, RelinkChunk
<1>5. Remembered'
  BY <1>2, <1>4 DEF Inv, Remembered, TagTypeOK, MergeRow, Node,
     ClearConflicts, MoveTags, UnlinkChunk, RelinkChunk
<1>6. tags' \in SUBSET (Tagged \X Ids) /\ \A t \in tags' : HasId(t[2])
  <2>1. CASE ClearConflicts(m) \/ \E c \in Tagged : UnlinkChunk(m, c)
    BY <2>1 DEF Inv, TagTypeOK, NoOrphans, ClearConflicts, UnlinkChunk
  <2>2. CASE MoveTags(m)
    BY <2>2, <1>4 DEF Inv, TagTypeOK, NoOrphans, MoveTags, MoveFails, TaggedWith
  <2>3. CASE RelinkChunk(m)
    BY <2>3, <1>4 DEF Inv, TagTypeOK, NoOrphans, RelinkChunk, Retagged, Node
  <2>4. QED BY <2>1, <2>2, <2>3
<1>7. merge' \in [Merges -> MergeRow]
  <2>1. merge \in [Merges -> MergeRow]
    BY DEF Inv, TagTypeOK
  <2>2. CASE ClearConflicts(m) \/ MoveTags(m)
    BY <2>1, <2>2 DEF MergeRow, Phase, ClearConflicts, MoveTags
  <2>3. ASSUME NEW c \in Tagged, UnlinkChunk(m, c) PROVE merge' \in [Merges -> MergeRow]
    <3>1. merge' = [merge EXCEPT ![m].at = "relink", ![m].chunk = c]
      BY <2>3 DEF UnlinkChunk
    <3>2. merge[m] \in MergeRow /\ "relink" \in Phase /\ c \in Tagged \cup {Null}
      BY <2>1 DEF Phase
    <3>3. [merge[m] EXCEPT !.at = "relink", !.chunk = c] \in MergeRow
      BY <3>2 DEF MergeRow
    <3>4. merge' = [merge EXCEPT ![m] = [merge[m] EXCEPT !.at = "relink", !.chunk = c]]
      BY <2>1, <3>1
    <3>5. QED BY <2>1, <3>3, <3>4
  <2>4. CASE RelinkChunk(m)
    <3>1. merge' = [merge EXCEPT ![m].at = "unlink", ![m].todo = @ \ {merge[m].chunk},
                                 ![m].chunk = Null]
      BY <2>4 DEF RelinkChunk
    <3> DEFINE row == [merge[m] EXCEPT !.at = "unlink", !.todo = @ \ {merge[m].chunk},
                                       !.chunk = Null]
    <3>2. merge[m] \in MergeRow /\ "unlink" \in Phase
      BY <2>1 DEF Phase
    <3>3. row \in MergeRow
      BY <3>2 DEF MergeRow
    <3>4. merge' = [merge EXCEPT ![m] = row]
      BY <2>1, <3>1
    <3>5. QED BY <2>1, <3>3, <3>4
  <2>5. QED BY <2>2, <2>3, <2>4
<1>8. TagTypeOK'
  BY <1>1, <1>6, <1>7 DEF Inv, TagTypeOK
<1>9. OnePerPath' /\ NoOrphans'
  BY <1>1, <1>6 DEF Inv, OnePerPath, NoOrphans, Closed, HasId
<1>10. QED BY <1>1, <1>3, <1>5, <1>8, <1>9, NothingNew DEF Inv

\* The steps that delete a row and put it back.
LEMMA NodeStep ==
    ASSUME Inv, NEW m \in Merges, DeleteNode(m) \/ ReinsertNode(m)
    PROVE  Inv'
<1> USE DEF Goes
<1>1. lastId' = lastId /\ tagger' = tagger
  BY DEF DeleteNode, ReinsertNode
<1>2. merge[m].src \in Node /\ merge[m].src \in Known
  BY DEF Inv, Remembered, DeleteNode, ReinsertNode, Known
<1>3. merge' \in [Merges -> MergeRow] /\ \A o \in Merges : merge'[o].src = merge[o].src
  <2>1. merge \in [Merges -> MergeRow]
    BY DEF Inv, TagTypeOK
  <2>2. CASE DeleteNode(m)
    BY <2>1, <2>2 DEF MergeRow, Phase, DeleteNode
  <2>3. CASE ReinsertNode(m)
    <3>1. merge' = [merge EXCEPT ![m].at = "unlink", ![m].todo = merge[m].moved,
                                 ![m].reverts = @ + 1]
      BY <2>3 DEF ReinsertNode
    <3>2. merge[m].reverts + 1 \in 0..MaxTagReverts
      BY <2>1, <2>3, RequestsAssumption DEF MergeRow, ReinsertNode
    <3>3. QED BY <2>1, <3>1, <3>2 DEF MergeRow, Phase
  <2>4. QED BY <2>2, <2>3
<1>4. nodes' \subseteq nodes \cup {merge[m].src} /\ Closed(nodes') /\ OnePerPath'
  <2>1. CASE DeleteNode(m)
    BY <2>1, WithoutIsClosed DEF DeleteNode, Inv, OnePerPath
  <2>2. CASE ReinsertNode(m)
    BY <2>2 DEF ReinsertNode, Inv, OnePerPath, NoOrphans, Closed, HasId, HasPath
  <2>3. QED BY <2>1, <2>2
<1>5. Known' \subseteq Known
  BY <1>2, <1>3, <1>4 DEF Known
<1>6. tags' \subseteq tags /\ \A t \in tags' : HasId(t[2])'
  BY DEF DeleteNode, ReinsertNode, HasId, Inv, NoOrphans
<1>7. TagTypeOK'
  <2>1. nodes' \in SUBSET Node /\ tags' \in SUBSET (Tagged \X Ids)
    BY <1>2, <1>4, <1>6 DEF Inv, TagTypeOK
  <2>2. QED BY <1>1, <1>3, <2>1 DEF Inv, TagTypeOK
<1>8. Remembered'
  BY <1>3 DEF Inv, Remembered, TagTypeOK, MergeRow, DeleteNode, ReinsertNode
<1>9. NoOrphans'
  BY <1>4, <1>6 DEF NoOrphans
<1>10. QED BY <1>1, <1>4, <1>5, <1>7, <1>8, <1>9, NothingNew DEF Inv

\* The tagger's next segment.
LEMMA SegmentTyped ==
    ASSUME Inv, NEW t \in Taggers, tagger[t].at \in {"segment", "insert"}
    PROVE  /\ TagPath[t] \in Paths /\ tagger[t].depth + 1 \in 1..Len(TagPath[t])
           /\ Segment(t) \in Paths /\ Len(Segment(t)) = tagger[t].depth + 1
           /\ tagger[t].depth # 0 =>
                Above(Segment(t)) = Prefix(TagPath[t], tagger[t].depth)
<1>1. TagPath[t] \in Paths /\ tagger[t].depth \in Nat /\ tagger[t].depth < Len(TagPath[t])
  BY RequestsAssumption DEF Inv, TaggersFollow, TagTypeOK, TaggerRow
<1>2. tagger[t].depth + 1 \in 1..Len(TagPath[t])
  BY <1>1, PathTyped
<1>3. QED BY <1>1, <1>2, PrefixOfPath DEF Segment

LEMMA DescendTyped ==
    ASSUME Inv, NEW t \in Taggers, tagger[t].at \in {"segment", "insert"},
           NEW id \in Ids, Descend(t, id)
    PROVE  /\ tagger' \in [Taggers -> TaggerRow]
           /\ tagger'[t].depth = tagger[t].depth + 1 /\ tagger'[t].parent = id
           /\ tagger'[t].at \in {"segment", "insert"} =>
                tagger'[t].depth < Len(TagPath[t])
           /\ \A u \in Taggers \ {t} : tagger'[u] = tagger[u]
<1>1. /\ tagger[t].depth \in Nat /\ Len(TagPath[t]) \in Nat
      /\ tagger[t].depth + 1 \in 1..Len(TagPath[t])
  BY SegmentTyped, PathTyped DEF Inv, TagTypeOK, TaggerRow
<1>2. QED BY <1>1 DEF Inv, TagTypeOK, TaggerRow, Descend

LEMMA TaggerStep ==
    ASSUME Inv, NEW t \in Taggers,
           FindSegment(t) \/ MissSegment(t) \/ AttachChunk(t) \/ TaggerEnds(t)
    PROVE  Inv'
<1>1. nodes' = nodes /\ lastId' = lastId /\ merge' = merge
  BY DEF FindSegment, MissSegment, AttachChunk, TaggerEnds
<1>2. Known' = Known
  BY <1>1 DEF Known
<1>3. TagTypeOK' /\ TaggersFollow' /\ \A x \in tags' : HasId(x[2])
  <2>1. CASE FindSegment(t)
    <3> DEFINE n == NodeAt(Segment(t))
    <3>1. n \in nodes /\ n.path = Segment(t) /\ n \in Known
      BY <2>1 DEF FindSegment, HasPath, NodeAt, Known
    <3>2. n \in Node /\ n.id \in Ids /\ n.id <= lastId
      BY <3>1 DEF Inv, TagTypeOK, Node, Rooted
    <3>3. /\ tagger' \in [Taggers -> TaggerRow]
          /\ tagger'[t].depth = tagger[t].depth + 1 /\ tagger'[t].parent = n.id
          /\ tagger'[t].at \in {"segment", "insert"} =>
                tagger'[t].depth < Len(TagPath[t])
          /\ \A u \in Taggers \ {t} : tagger'[u] = tagger[u]
      BY <2>1, <3>2, DescendTyped DEF FindSegment
    <3>4. \A p \in Known : p.id = n.id => p.path = Prefix(TagPath[t], tagger'[t].depth)
      BY <3>1, <3>3 DEF Inv, OneIdentity, Segment
    <3>5. tagger[t].depth \in Nat
      BY DEF Inv, TagTypeOK, TaggerRow
    <3>6. TaggersFollow'
      BY <1>1, <1>2, <3>2, <3>3, <3>4, <3>5 DEF Inv, TaggersFollow
    <3>7. QED BY <1>1, <2>1, <3>3, <3>6 DEF Inv, TagTypeOK, NoOrphans, FindSegment
  <2>2. CASE MissSegment(t) \/ TaggerEnds(t)
    <3>1. tagger \in [Taggers -> TaggerRow]
      BY DEF Inv, TagTypeOK
    <3>2. tagger' \in [Taggers -> TaggerRow]
      BY <2>2, <3>1 DEF MissSegment, TaggerEnds, TaggerRow
    <3>3. \A u \in Taggers :
            /\ tagger'[u].depth = tagger[u].depth /\ tagger'[u].parent = tagger[u].parent
            /\ tagger'[u].at \in {"segment", "insert"} => tagger[u].at \in {"segment", "insert"}
      BY <2>2, <3>1 DEF MissSegment, TaggerEnds, TaggerRow
    <3>4. TaggersFollow'
      BY <1>1, <1>2, <3>3 DEF Inv, TaggersFollow
    <3>5. tags' = tags
      BY <2>2 DEF MissSegment, TaggerEnds
    <3>6. QED BY <1>1, <3>2, <3>4, <3>5 DEF Inv, TagTypeOK, NoOrphans
  <2>3. CASE AttachChunk(t)
    <3>1. tagger[t].parent \in Ids
      BY <2>3 DEF Inv, TagTypeOK, AttachChunk, HasId, Node
    <3>2. tagger \in [Taggers -> TaggerRow]
      BY DEF Inv, TagTypeOK
    <3>3. tagger' \in [Taggers -> TaggerRow]
      BY <2>3, <3>2 DEF AttachChunk, TaggerRow
    <3>4. \A u \in Taggers :
            /\ tagger'[u].depth = tagger[u].depth /\ tagger'[u].parent = tagger[u].parent
            /\ tagger'[u].at \in {"segment", "insert"} => tagger[u].at \in {"segment", "insert"}
      BY <2>3, <3>2 DEF AttachChunk, TaggerRow
    <3>5. TaggersFollow'
      BY <1>1, <1>2, <3>4 DEF Inv, TaggersFollow
    <3>6. tags' \in SUBSET (Tagged \X Ids) /\ \A x \in tags' : HasId(x[2])
      <4>1. HasId(tagger[t].parent) /\ tags' = tags \cup {<<TagChunk[t], tagger[t].parent>>}
        BY <2>3 DEF AttachChunk
      <4>2. TagChunk[t] \in Tagged
        BY RequestsAssumption
      <4>3. tags \in SUBSET (Tagged \X Ids) /\ \A x \in tags : HasId(x[2])
        BY DEF Inv, TagTypeOK, NoOrphans
      <4>4. QED BY <3>1, <4>1, <4>2, <4>3
    <3>7. QED BY <1>1, <3>3, <3>5, <3>6 DEF Inv, TagTypeOK
  <2>4. QED BY <2>1, <2>2, <2>3
<1>4. OneIdentity' /\ Rooted' /\ Remembered' /\ OnePerPath'
  BY <1>1, <1>2 DEF Inv, OneIdentity, Rooted, Remembered, OnePerPath
<1>5. NoOrphans'
  BY <1>1, <1>3 DEF Inv, NoOrphans, Closed, HasId
<1>6. QED BY <1>3, <1>4, <1>5 DEF Inv

\* A new row: nobody remembers its id, and the path of its parent is the one above.
LEMMA InsertStep ==
    ASSUME Inv, NEW t \in Taggers, InsertSegment(t)
    PROVE  Inv'
<1> DEFINE new == [id |-> lastId', parent |-> tagger[t].parent, path |-> Segment(t)]
<1>1. /\ lastId' = lastId + 1 /\ nodes' = nodes \cup {new}
      /\ tags' = tags /\ merge' = merge /\ Descend(t, lastId')
      /\ ~HasPath(Segment(t)) /\ tagger[t].at = "insert"
      /\ tagger[t].parent = Null \/ HasId(tagger[t].parent)
  BY DEF InsertSegment
<1>2. lastId \in Nat /\ lastId' \in Ids /\ tagger[t].depth \in Nat
  BY <1>1 DEF Inv, TagTypeOK, TaggerRow, Ids
<1>3. /\ Segment(t) \in Paths /\ Len(Segment(t)) = tagger[t].depth + 1
      /\ tagger[t].depth # 0 => Above(Segment(t)) = Prefix(TagPath[t], tagger[t].depth)
      /\ Segment(t) = Prefix(TagPath[t], tagger[t].depth + 1)
  BY <1>1, SegmentTyped DEF Segment
<1>4. new \in Node
  BY <1>2, <1>3 DEF Inv, TagTypeOK, TaggerRow, Node
<1>5. Known' = Known \cup {new}
  BY <1>1, <1>4 DEF Known
<1>6. \A n \in Known : n.id \in Ids /\ n.id <= lastId /\ n \in Node
  BY DEF Inv, Rooted, Known, TagTypeOK, Node
<1>7. OneIdentity'
  BY <1>1, <1>2, <1>5, <1>6 DEF Inv, OneIdentity, Ids
<1>8. /\ tagger' \in [Taggers -> TaggerRow]
      /\ tagger'[t].depth = tagger[t].depth + 1 /\ tagger'[t].parent = lastId'
      /\ tagger'[t].at \in {"segment", "insert"} => tagger'[t].depth < Len(TagPath[t])
      /\ \A u \in Taggers \ {t} : tagger'[u] = tagger[u]
  BY <1>1, <1>2, DescendTyped
<1>9. Rooted'
  <2>1. ASSUME NEW n \in Known
        PROVE  /\ n.id <= lastId'
               /\ Len(n.path) = 1 => n.parent = Null
               /\ Len(n.path) # 1 =>
                    /\ n.parent \in Ids /\ n.parent <= lastId'
                    /\ \A p \in Known \cup {new} : p.id = n.parent => p.path = Above(n.path)
    BY <1>1, <1>2, <1>6 DEF Inv, Rooted, Ids
  <2>2. /\ new.id <= lastId'
        /\ Len(new.path) = 1 => new.parent = Null
        /\ Len(new.path) # 1 =>
             /\ new.parent \in Ids /\ new.parent <= lastId'
             /\ \A p \in Known \cup {new} : p.id = new.parent => p.path = Above(new.path)
    <3>1. new.id = lastId' /\ new.parent = tagger[t].parent /\ new.path = Segment(t)
      OBVIOUS
    <3>2. CASE tagger[t].depth = 0
      BY <1>1, <1>2, <1>3, <3>1, <3>2 DEF Inv, TaggersFollow, Ids
    <3>3. CASE tagger[t].depth # 0
      <4>1. /\ tagger[t].parent \in Ids /\ tagger[t].parent <= lastId
            /\ \A p \in Known : p.id = tagger[t].parent =>
                   p.path = Prefix(TagPath[t], tagger[t].depth)
        BY <3>3 DEF Inv, TaggersFollow
      <4>2. tagger[t].parent # lastId' /\ tagger[t].parent <= lastId'
        BY <1>1, <1>2, <4>1 DEF Ids
      <4>3. Len(Segment(t)) # 1
        BY <1>2, <1>3, <3>3
      <4>4. \A p \in Known \cup {new} : p.id = new.parent => p.path = Above(new.path)
        BY <1>3, <3>1, <3>3, <4>1, <4>2
      <4>5. QED BY <1>1, <3>1, <4>1, <4>2, <4>3, <4>4
    <3>4. QED BY <3>2, <3>3
  <2>3. QED BY <1>5, <2>1, <2>2 DEF Rooted
<1>10. TaggersFollow'
  <2>1. ASSUME NEW u \in Taggers \ {t} PROVE
          /\ tagger'[u].at \in {"segment", "insert"} => tagger'[u].depth < Len(TagPath[u])
          /\ tagger'[u].depth = 0 => tagger'[u].parent = Null
          /\ tagger'[u].depth # 0 =>
               /\ tagger'[u].parent \in Ids /\ tagger'[u].parent <= lastId'
               /\ \A p \in Known \cup {new} : p.id = tagger'[u].parent =>
                      p.path = Prefix(TagPath[u], tagger'[u].depth)
    BY <1>1, <1>2, <1>8 DEF Inv, TaggersFollow, Ids
  <2>2. \A p \in Known \cup {new} : p.id = lastId' =>
            p.path = Prefix(TagPath[t], tagger[t].depth + 1)
    BY <1>1, <1>2, <1>3, <1>6
  <2>3. QED BY <1>2, <1>5, <1>8, <2>1, <2>2 DEF TaggersFollow, Ids
<1>11. TagTypeOK'
  BY <1>1, <1>2, <1>4, <1>8 DEF Inv, TagTypeOK
<1>12. Remembered'
  BY <1>1 DEF Inv, Remembered
<1>13. OnePerPath'
  BY <1>1 DEF Inv, OnePerPath, HasPath
<1>14. NoOrphans'
  BY <1>1 DEF Inv, NoOrphans, Closed, HasId
<1>15. QED BY <1>7, <1>9, <1>10, <1>11, <1>12, <1>13, <1>14 DEF Inv

-----------------------------------------------------------------------------
LEMMA InvHolds == TagSpec => []Inv
<1>1. ASSUME Inv, [TagNext]_tagVars PROVE Inv'
  <2>1. CASE TagNext
    BY <1>1, <2>1, MergeStep, TagStep, NodeStep, TaggerStep, InsertStep DEF TagNext
  <2>2. CASE UNCHANGED tagVars
    BY <1>1, <2>2 DEF tagVars, Inv, TagTypeOK, OneIdentity, Rooted, TaggersFollow, Known,
       Remembered, OnePerPath, NoOrphans, Closed, HasId
  <2>3. QED BY <1>1, <2>1, <2>2
<1>2. QED BY <1>1, InitHolds, PTL DEF TagSpec

\* However many merges, reverts and taggers meet, whichever fail, and whatever ids they
\* still remember: the nodes are one tree and no tag points past it.
THEOREM TreeStaysConsistent == TagSpec => []TreeIsConsistent
<1>1. Inv => TreeIsConsistent
  <2> SUFFICES ASSUME Inv PROVE TreeIsConsistent
    OBVIOUS
  <2>1. nodes \subseteq Known
    BY DEF Known
  <2>2. \A m, n \in nodes : m.id = n.id \/ m.path = n.path => m = n
    BY <2>1 DEF Inv, OneIdentity, OnePerPath
  <2>3. ASSUME NEW n \in nodes
        PROVE  IF Len(n.path) = 1 THEN n.parent = Null
               ELSE \E p \in nodes : p.id = n.parent /\ p.path = Above(n.path)
    BY <2>1, PathsAssumption DEF Inv, Rooted, NoOrphans, Closed
  <2>4. QED BY <2>2, <2>3 DEF Inv, NoOrphans, TreeIsConsistent, Consistent
<1>2. QED BY <1>1, InvHolds, PTL

-----------------------------------------------------------------------------
(* The chunks a merge lists.  Until the merge has moved it a chunk has the  *)
(* tag of the node, and until the revert has put it back that of the        *)
(* parent; both nodes stay, because nobody else deletes a node on the path  *)
(* of the merge, and the tags of both stay, because nobody else moves one   *)
(* from or to them.                                                         *)

Linked(m, c) == <<c, merge[m].src.id>> \in tags
Lifted(m, c) == <<c, merge[m].src.parent>> \in tags

Kept(m) ==
    /\ HasId(merge[m].src.parent)
    /\ merge[m].at \in {"list", "clear", "move", "delete"} => merge[m].src \in nodes
    /\ merge[m].at = "relink" => merge[m].chunk \in merge[m].todo
    /\ merge[m].at \in {"unlink", "relink"} => merge[m].reverts # 0
    /\ \A c \in merge[m].moved :
         /\ merge[m].at = "clear" => Linked(m, c)
         /\ merge[m].at \in {"delete", "commit"} => Lifted(m, c)
         /\ merge[m].at = "applied" /\ merge[m].reverts = 0 => Lifted(m, c)
         /\ merge[m].reverts <= 1 =>
              /\ merge[m].at \in {"unlink", "relink"} /\ c \in merge[m].todo => Lifted(m, c)
              /\ Linked(m, c) \/ Lifted(m, c)

Started(m) == merge[m].at # "approved"
Applying == {"approved", "list", "clear", "move", "delete", "commit"}

KeptInv ==
    \A m \in Merges :
        /\ merge[m].at \in {"approved", "list"} => merge[m].moved = {}
        /\ merge[m].at \in Applying => merge[m].reverts = 0
        /\ Started(m) => merge[m].src.path = MergePath[m]
        /\ Started(m) /\ Alone(m) => Kept(m)

LEMMA PrefixOfPrefix ==
    ASSUME NEW p \in Paths, NEW n \in 1..Len(p), NEW k \in 1..n
    PROVE  Prefix(Prefix(p, n), k) = Prefix(p, k)
<1>1. p \in Seq(STRING) /\ Len(p) \in Nat
  BY PathTyped
<1>2. 1 \in 1..Len(p) /\ 1 \in 1..(n - 1 + 1) /\ k \in 1..(n - 1 + 1)
  BY <1>1
<1>3. SubSeq(SubSeq(p, 1, n), 1, k) = SubSeq(p, 1 + 1 - 1, 1 + k - 1)
  BY <1>1, <1>2, SubSeqOfSubSeq
<1>4. QED BY <1>3 DEF Prefix

\* A path ends with itself, and its parent's prefixes are its own.
LEMMA OverlapFacts ==
    ASSUME NEW p \in Paths
    PROVE  /\ Overlap(p, p)
           /\ Len(p) # 1 =>
                /\ Above(p) \in Paths /\ Len(Above(p)) = Len(p) - 1
                /\ Overlap(p, Above(p))
                /\ \A q : Overlap(Above(p), q) => Overlap(p, q)
                /\ ~ Overlap(Above(p), p)
<1>1. p \in Seq(STRING) /\ Len(p) \in Nat \ {0}
  BY PathTyped
<1>2. Prefix(p, Len(p)) = p
  BY <1>1, SubSeqFull DEF Prefix
<1>3. ASSUME Len(p) # 1
      PROVE  /\ Above(p) \in Paths /\ Len(Above(p)) = Len(p) - 1
             /\ Overlap(p, Above(p))
             /\ \A q : Overlap(Above(p), q) => Overlap(p, q)
             /\ ~ Overlap(Above(p), p)
  <2>1. Len(p) - 1 \in 1..Len(p)
    <3>1. Len(p) \in Nat /\ Len(p) # 0 /\ Len(p) # 1
      BY <1>1, <1>3
    <3>2. \A n \in Nat : n # 0 /\ n # 1 => n - 1 \in 1..n
      OBVIOUS
    <3>3. QED BY <3>1, <3>2
  <2>2. Above(p) = Prefix(p, Len(p) - 1)
    BY DEF Above
  <2>3. Above(p) \in Paths /\ Len(Above(p)) = Len(p) - 1
    BY <2>1, <2>2, PrefixOfPath
  <2>4. \A k \in 1..Len(Above(p)) : k \in 1..Len(p) /\ Prefix(Above(p), k) = Prefix(p, k)
    BY <1>1, <2>1, <2>2, <2>3, PrefixOfPrefix
  <2>5. \A q : Overlap(Above(p), q) => Overlap(p, q)
    BY <2>4 DEF Overlap
  <2>6. \A k \in 1..Len(Above(p)) : Len(Prefix(p, k)) = k /\ k # Len(p)
    BY <1>1, <2>3, <2>4, PrefixOfPath
  <2>7. ~ Overlap(Above(p), p)
    BY <2>4, <2>6 DEF Overlap
  <2>8. QED BY <2>1, <2>2, <2>3, <2>5, <2>7 DEF Overlap
<1>4. Overlap(p, p)
  BY <1>1, <1>2 DEF Overlap
<1>5. QED BY <1>3, <1>4

\* A node that is not below the one deleted is not reached by the cascade.
LEMMA CascadeSpares ==
    ASSUME Inv, NEW n \in Node, NEW p \in nodes, ~ Overlap(p.path, n.path)
    PROVE  p \in Without(n)
<1> DEFINE N == {q \in nodes : Overlap(p.path, q.path)}
<1>1. nodes \subseteq Node /\ nodes \subseteq Known
  BY DEF Inv, TagTypeOK, Known
<1>2. p \in N
  BY <1>1, OverlapFacts DEF Node
<1>3. n \notin N
  OBVIOUS
<1>4. ASSUME NEW q \in N, q.parent # Null
      PROVE  \E r \in N : r.id = q.parent
  <2>1. PICK r \in nodes : r.id = q.parent
    BY <1>4 DEF Inv, NoOrphans, Closed
  <2>2. q \in Known /\ r \in Known /\ q.path \in Paths /\ p.path \in Paths
    BY <1>1 DEF Node
  <2>3. Len(q.path) # 1 /\ r.path = Above(q.path)
    BY <1>4, <2>1, <2>2 DEF Inv, Rooted
  <2>4. PICK k \in 1..Len(p.path) : Prefix(p.path, k) = q.path
    BY DEF Overlap
  <2>5. Len(q.path) = k /\ k # 1 /\ Above(q.path) = Prefix(p.path, k - 1)
    BY <2>2, <2>3, <2>4, PrefixOfPath
  <2>6. k - 1 \in 1..Len(p.path)
    BY <2>4, <2>5, <2>2, PathTyped
  <2>7. Overlap(p.path, r.path)
    BY <2>3, <2>5, <2>6 DEF Overlap
  <2>8. QED BY <2>1, <2>7
<1>5. N \in SUBSET (nodes \ {n}) /\ Closed(N)
  BY <1>3, <1>4 DEF Closed
<1>6. QED BY <1>2, <1>5 DEF Without

\* What is known of the node of a merge that has begun, and of its parent.
LEMMA BegunFacts ==
    ASSUME Inv, KeptInv, NEW m \in Merges, Started(m)
    PROVE  /\ merge[m].src \in Node /\ merge[m].src \in Known
           /\ merge[m].src.parent \in Ids /\ merge[m].src.id # merge[m].src.parent
           /\ merge[m].src.path = MergePath[m] /\ MergePath[m] \in Paths
           /\ Len(MergePath[m]) # 1
           /\ \A p \in Known : p.id = merge[m].src.parent => p.path = Above(MergePath[m])
<1>1. /\ merge[m].src \in Node /\ merge[m].src.parent # Null
      /\ merge[m].src.path = MergePath[m]
  BY DEF Inv, Remembered, KeptInv, Started
<1>2. merge[m].src \in Known
  BY <1>1 DEF Known
<1>3. MergePath[m] \in Paths /\ merge[m].src.parent \in Ids
  BY <1>1, RequestsAssumption DEF Node
<1>4. /\ Len(MergePath[m]) # 1
      /\ \A p \in Known : p.id = merge[m].src.parent => p.path = Above(MergePath[m])
  BY <1>1, <1>2 DEF Inv, Rooted
<1>5. MergePath[m] # Above(MergePath[m])
  <2>1. Len(Above(MergePath[m])) = Len(MergePath[m]) - 1 /\ Len(MergePath[m]) \in Nat
    BY <1>3, <1>4, OverlapFacts, PathTyped
  <2>2. QED BY <2>1
<1>6. merge[m].src.id # merge[m].src.parent
  BY <1>1, <1>2, <1>4, <1>5
<1>7. QED BY <1>1, <1>2, <1>3, <1>4, <1>6

\* Two merges that do not meet have nothing to do with each other's nodes.
LEMMA ApartFacts ==
    ASSUME Inv, KeptInv, NEW m \in Merges, Started(m), Alone(m), Kept(m),
           NEW o \in Merges \ {m}, Started(o)
    PROVE  /\ ~ Overlap(MergePath[m], MergePath[o])
           /\ merge[o].src.id \notin {merge[m].src.id, merge[m].src.parent}
           /\ merge[o].src.parent \notin {merge[m].src.id, merge[m].src.parent}
<1>1. /\ ~ Overlap(MergePath[m], MergePath[o]) /\ ~ Overlap(MergePath[o], MergePath[m])
      /\ Above(MergePath[m]) # Above(MergePath[o])
  BY DEF Alone, Started, Meet
<1>2. PICK p \in nodes : p.id = merge[m].src.parent
  BY DEF Kept, HasId
<1>3. p \in Known /\ p.path = Above(MergePath[m])
  BY <1>2, BegunFacts DEF Known
<1>4. merge[o].src.id # merge[m].src.id
  <2>1. merge[o].src # merge[m].src
    BY <1>1, BegunFacts, OverlapFacts
  <2>2. QED BY <2>1, BegunFacts DEF Inv, OneIdentity
<1>5. merge[o].src.id # merge[m].src.parent
  <2>1. Overlap(MergePath[m], p.path)
    BY <1>3, BegunFacts, OverlapFacts
  <2>2. merge[o].src # p
    BY <2>1, <1>1, BegunFacts
  <2>3. QED BY <2>2, <1>2, <1>3, BegunFacts DEF Inv, OneIdentity
<1>6. merge[o].src.parent # merge[m].src.id
  <2>1. Overlap(MergePath[o], Above(MergePath[o]))
    BY BegunFacts, OverlapFacts
  <2>2. Above(MergePath[o]) # MergePath[m]
    BY <2>1, <1>1
  <2>3. QED BY <2>2, BegunFacts
<1>7. merge[o].src.parent # merge[m].src.parent
  BY <1>1, <1>2, <1>3, BegunFacts
<1>8. QED BY <1>1, <1>4, <1>5, <1>6, <1>7

\* A merge that was begun once is never again as if it had not been.
LEMMA AloneStays ==
    ASSUME Inv, NEW m \in Merges, TagNext, Alone(m)'
    PROVE  Alone(m)
<1>1. ASSUME NEW o \in Merges, merge'[o].at = "approved", merge'[o].failures = 0
      PROVE  merge[o].at = "approved" /\ merge[o].failures = 0
  <2>1. merge \in [Merges -> MergeRow]
    BY DEF Inv, TagTypeOK
  <2>2. ASSUME NEW x \in Merges, ApplyEnds(x)
        PROVE  merge[o].at = "approved" /\ merge[o].failures = 0
    <3>1. merge[x].failures \in Nat
      BY <2>1 DEF MergeRow
    <3>2. merge'[x].failures = merge[x].failures + 1
      BY <2>1, <2>2 DEF ApplyEnds, MergeRow
    <3>3. o # x
      BY <1>1, <3>1, <3>2
    <3>4. QED BY <3>3, <2>2, <1>1, <2>1 DEF ApplyEnds
  <2>3. ASSUME NEW x \in Merges,
               \/ SelectNode(x) \/ ListChunks(x) \/ ClearConflicts(x) \/ MoveTags(x)
               \/ DeleteNode(x) \/ CommitApply(x)
               \/ ReinsertNode(x) \/ RelinkChunk(x) \/ RevertDone(x) \/ RevertEnds(x)
               \/ \E c \in Tagged : UnlinkChunk(x, c)
        PROVE  merge[o].at = "approved" /\ merge[o].failures = 0
    <3>1. merge'[x].at # "approved"
      BY <2>1, <2>3 DEF Goes, MergeRow, SelectNode, ListChunks, ClearConflicts, MoveTags,
            DeleteNode, CommitApply, ReinsertNode, RelinkChunk, RevertDone, RevertEnds,
            UnlinkChunk
    <3>2. o # x
      BY <3>1, <1>1
    <3>3. merge'[o] = merge[o]
      BY <3>2, <2>1, <2>3 DEF Goes, SelectNode, ListChunks, ClearConflicts, MoveTags,
            DeleteNode, CommitApply, ReinsertNode, RelinkChunk, RevertDone, RevertEnds,
            UnlinkChunk
    <3>4. QED BY <3>3, <1>1
  <2>4. ASSUME NEW t \in Taggers,
               \/ FindSegment(t) \/ MissSegment(t) \/ InsertSegment(t) \/ AttachChunk(t)
               \/ TaggerEnds(t)
        PROVE  merge' = merge
    BY <2>4 DEF FindSegment, MissSegment, InsertSegment, AttachChunk, TaggerEnds
  <2>5. QED BY <2>2, <2>3, <2>4, <1>1 DEF TagNext
<1>2. QED BY <1>1 DEF Alone

\* What is kept of a merge stays so while its nodes and their tags do.
LEMMA KeptFrame ==
    ASSUME NEW m \in Merges, Kept(m), merge'[m] = merge[m],
           HasId(merge[m].src.parent)',
           merge[m].src \in nodes => merge[m].src \in nodes',
           \A c \in merge[m].moved : /\ Linked(m, c) => <<c, merge[m].src.id>> \in tags'
                                     /\ Lifted(m, c) => <<c, merge[m].src.parent>> \in tags'
    PROVE  Kept(m)'
BY DEF Kept, Linked, Lifted, HasId

\* A merge is not disturbed by another that it does not meet, or by a tagger.
LEMMA OtherMergeKeeps ==
    ASSUME Inv, KeptInv, NEW m \in Merges, Started(m), Alone(m), Kept(m),
           NEW o \in Merges \ {m}, Started(o) \/ SelectNode(o),
           \/ SelectNode(o) \/ ListChunks(o) \/ ClearConflicts(o) \/ MoveTags(o)
           \/ DeleteNode(o) \/ CommitApply(o) \/ ApplyEnds(o)
           \/ ReinsertNode(o) \/ RelinkChunk(o) \/ RevertDone(o) \/ RevertEnds(o)
           \/ \E c \in Tagged : UnlinkChunk(o, c)
    PROVE  Kept(m)'
<1> DEFINE src == merge[m].src
           from == merge[o].src
<1>1. merge'[m] = merge[m]
  BY DEF Inv, TagTypeOK, Goes, SelectNode, ListChunks, ClearConflicts, MoveTags, DeleteNode,
         CommitApply, ApplyEnds, ReinsertNode, RelinkChunk, RevertDone, RevertEnds,
         UnlinkChunk
<1>2. HasId(src.parent)
  BY DEF Kept
<1>3. CASE nodes' = nodes /\ tags' = tags
  BY <1>1, <1>2, <1>3, KeptFrame DEF HasId, Linked, Lifted
<1>4. CASE SelectNode(o) \/ ListChunks(o) \/ CommitApply(o) \/ ApplyEnds(o)
           \/ RevertDone(o) \/ RevertEnds(o)
  BY <1>3, <1>4 DEF SelectNode, ListChunks, CommitApply, ApplyEnds, RevertDone, RevertEnds
<1>5. CASE ReinsertNode(o)
  <2>1. nodes \subseteq nodes' /\ tags' = tags
    BY <1>5 DEF ReinsertNode
  <2>2. HasId(src.parent)'
    BY <1>1, <1>2, <2>1 DEF HasId
  <2>3. QED BY <1>1, <1>2, <2>1, <2>2, KeptFrame DEF Linked, Lifted
<1>6. ASSUME nodes' = nodes, Started(o),
             \A c \in Tagged, i \in Ids : i \notin {from.id, from.parent} /\ <<c, i>> \in tags
                                            => <<c, i>> \in tags'
      PROVE  Kept(m)'
  <2>1. src.id \in Ids /\ src.parent \in Ids /\ merge[m].moved \subseteq Tagged
    BY BegunFacts DEF Inv, TagTypeOK, MergeRow, Node
  <2>2. \A i \in {src.id, src.parent} : i \notin {from.id, from.parent}
    BY <1>6, ApartFacts
  <2>3. HasId(src.parent)'
    BY <1>1, <1>2, <1>6 DEF HasId
  <2>4. QED BY <1>1, <1>6, <2>1, <2>2, <2>3, KeptFrame DEF Linked, Lifted
<1>7. ASSUME Started(o), ClearConflicts(o) \/ (\E c \in Tagged : UnlinkChunk(o, c))
      PROVE  Kept(m)'
  <2>1. nodes' = nodes /\ \A t \in tags : t[2] # from.id => t \in tags'
    BY <1>7 DEF ClearConflicts, UnlinkChunk
  <2>2. QED BY <2>1, <1>6, <1>7
<1>8. ASSUME Started(o), MoveTags(o) PROVE Kept(m)'
  <2>1. nodes' = nodes /\ \A t \in tags : t[2] # from.id => t \in tags'
    BY <1>8 DEF MoveTags
  <2>2. QED BY <2>1, <1>6, <1>8
<1>9. ASSUME Started(o), RelinkChunk(o) PROVE Kept(m)'
  <2>1. nodes' = nodes /\ \A t \in tags : t[2] # from.parent => t \in tags'
    BY <1>9 DEF RelinkChunk, Retagged
  <2>2. QED BY <2>1, <1>6, <1>9
<1>10. ASSUME Started(o), DeleteNode(o) PROVE Kept(m)'
  <2>1. /\ nodes' = Without(from)
        /\ tags' = {t \in tags : \E n \in Without(from) : n.id = t[2]}
    BY <1>10 DEF DeleteNode
  <2>2. /\ ~ Overlap(src.path, from.path) /\ ~ Overlap(Above(src.path), from.path)
        /\ from \in Node /\ src \in Known
    BY <1>10, ApartFacts, BegunFacts, OverlapFacts
  <2>3. src \in nodes => src \in nodes'
    BY <2>1, <2>2, CascadeSpares
  <2>4. PICK p \in nodes : p.id = src.parent
    BY <1>2 DEF HasId
  <2>5. p.path = Above(src.path)
    BY <2>4, BegunFacts DEF Known
  <2>6. p \in nodes'
    BY <2>1, <2>2, <2>5, CascadeSpares
  <2>7. HasId(src.parent)'
    BY <1>1, <2>4, <2>6 DEF HasId
  <2>8. ASSUME NEW c \in merge[m].moved, Linked(m, c) PROVE <<c, src.id>> \in tags'
    <3>1. PICK n \in nodes : n.id = src.id
      BY <2>8 DEF Linked, Inv, NoOrphans, HasId
    <3>2. n = src
      BY <3>1, <2>2 DEF Inv, OneIdentity, Known
    <3>3. QED BY <3>1, <3>2, <2>1, <2>3, <2>8 DEF Linked
  <2>9. ASSUME NEW c \in merge[m].moved, Lifted(m, c) PROVE <<c, src.parent>> \in tags'
    BY <2>1, <2>4, <2>6, <2>9 DEF Lifted
  <2>10. QED BY <1>1, <2>3, <2>7, <2>8, <2>9, KeptFrame
<1>11. QED BY <1>4, <1>5, <1>7, <1>8, <1>9, <1>10 DEF Started

LEMMA TaggerKeeps ==
    ASSUME NEW m \in Merges, Kept(m), NEW t \in Taggers,
           \/ FindSegment(t) \/ MissSegment(t) \/ InsertSegment(t) \/ AttachChunk(t)
           \/ TaggerEnds(t)
    PROVE  Kept(m)'
<1>1. merge' = merge /\ nodes \subseteq nodes' /\ tags \subseteq tags'
  BY DEF FindSegment, MissSegment, InsertSegment, AttachChunk, TaggerEnds
<1>2. HasId(merge[m].src.parent)'
  BY <1>1 DEF Kept, HasId
<1>3. QED BY <1>1, <1>2, KeptFrame DEF Linked, Lifted

\* The merge's own steps, one after the other.
LEMMA OwnStepKeeps ==
    ASSUME Inv, KeptInv, NEW m \in Merges, Alone(m), Started(m)',
           \/ SelectNode(m) \/ ListChunks(m) \/ ClearConflicts(m) \/ MoveTags(m)
           \/ DeleteNode(m) \/ CommitApply(m) \/ ApplyEnds(m)
           \/ ReinsertNode(m) \/ RelinkChunk(m) \/ RevertDone(m) \/ RevertEnds(m)
           \/ \E c \in Tagged : UnlinkChunk(m, c)
    PROVE  Kept(m)'
<1> DEFINE src == merge[m].src
<1> USE DEF Goes, Started
<1>0. merge[m] \in MergeRow /\ m \in DOMAIN merge /\ merge \in [Merges -> MergeRow]
  BY DEF Inv, TagTypeOK
<1>a. ASSUME merge[m].at # "approved"
      PROVE  /\ Kept(m) /\ HasId(src.parent) /\ src.id # src.parent
             /\ src \in Node /\ src \in Known
  BY <1>a, BegunFacts DEF KeptInv, Kept
<1>b. merge'[m].at # "approved"
  OBVIOUS
<1>1. CASE SelectNode(m)
  <2>1. PICK n \in nodes : n.path = MergePath[m]
    BY <1>1 DEF SelectNode, HasPath
  <2>2. NodeAt(MergePath[m]) \in nodes
    BY <2>1 DEF NodeAt
  <2>3. /\ merge'[m].at = "list" /\ merge'[m].src = NodeAt(MergePath[m])
        /\ merge'[m].moved = merge[m].moved /\ nodes' = nodes
        /\ NodeAt(MergePath[m]).parent # Null
    BY <1>0, <1>1 DEF SelectNode, MergeRow
  <2>4. merge[m].moved = {}
    BY <1>1 DEF SelectNode, KeptInv
  <2>5. HasId(merge[m].src.parent)'
    BY <2>2, <2>3 DEF Inv, NoOrphans, Closed, HasId
  <2>6. QED BY <2>2, <2>3, <2>4, <2>5 DEF Kept
<1>2. CASE ListChunks(m)
  <2>1. /\ merge[m].at = "list" /\ merge'[m].at = "clear" /\ merge'[m].src = src
        /\ merge'[m].moved = TaggedWith(src.id) /\ nodes' = nodes /\ tags' = tags
    BY <1>0, <1>2 DEF ListChunks, MergeRow
  <2>2. QED BY <2>1, <1>a DEF Kept, Linked, Lifted, TaggedWith, HasId
<1>3. CASE ClearConflicts(m)
  <2>1. /\ merge[m].at = "clear" /\ merge'[m].at = "move" /\ merge'[m].src = src
        /\ merge'[m].moved = merge[m].moved /\ nodes' = nodes
    BY <1>0, <1>3 DEF ClearConflicts, MergeRow
  <2>2. tags' = tags \ {<<c, src.id>> : c \in TaggedWith(src.parent)}
    BY <1>3 DEF ClearConflicts
  <2>3. \A c \in merge[m].moved : <<c, src.id>> \in tags
    BY <2>1, <1>a DEF Kept, Linked
  <2>4. \A c \in TaggedWith(src.parent) : <<c, src.parent>> \in tags'
    BY <2>1, <2>2, <1>a DEF TaggedWith
  <2>5. ASSUME NEW c \in merge[m].moved PROVE <<c, src.id>> \in tags' \/ <<c, src.parent>> \in tags'
    <3>1. CASE c \in TaggedWith(src.parent)
      BY <3>1, <2>4
    <3>2. CASE c \notin TaggedWith(src.parent)
      BY <3>2, <2>2, <2>3
    <3>3. QED BY <3>1, <3>2
  <2>6. HasId(src.parent) /\ src \in nodes
    BY <2>1, <1>a DEF Kept
  <2>7. QED BY <2>1, <2>5, <2>6 DEF Kept, Linked, Lifted, HasId
<1>4. CASE MoveTags(m)
  <2>1. /\ merge[m].at = "move" /\ merge'[m].at = "delete" /\ merge'[m].src = src
        /\ merge'[m].moved = merge[m].moved /\ nodes' = nodes
        /\ merge'[m].reverts = merge[m].reverts
    BY <1>0, <1>4 DEF MoveTags, MergeRow
  <2>2. tags' = {IF t[2] = src.id THEN <<t[1], src.parent>> ELSE t : t \in tags}
    BY <1>4 DEF MoveTags
  <2>3. HasId(src.parent) /\ src \in nodes /\ src.id # src.parent
    BY <2>1, <1>a DEF Kept
  <2>4. ASSUME NEW c \in merge[m].moved, <<c, src.id>> \in tags \/ <<c, src.parent>> \in tags
        PROVE  <<c, src.parent>> \in tags'
    <3>1. \A t \in tags : (IF t[2] = src.id THEN <<t[1], src.parent>> ELSE t) \in tags'
      BY <2>2
    <3>2. CASE <<c, src.id>> \in tags
      <4> DEFINE t == <<c, src.id>>
      <4>1. t[1] = c /\ t[2] = src.id
        OBVIOUS
      <4>2. (IF t[2] = src.id THEN <<t[1], src.parent>> ELSE t) \in tags'
        BY <3>1, <3>2
      <4>3. QED BY <4>1, <4>2
    <3>3. CASE <<c, src.parent>> \in tags
      <4> DEFINE t == <<c, src.parent>>
      <4>1. t[2] # src.id
        BY <2>3
      <4>2. (IF t[2] = src.id THEN <<t[1], src.parent>> ELSE t) \in tags'
        BY <3>1, <3>3
      <4>3. QED BY <4>1, <4>2
    <3>4. QED BY <2>4, <3>2, <3>3
  <2>5. merge[m].reverts = 0
    BY <2>1 DEF KeptInv, Applying
  <2>6. \A c \in merge[m].moved : <<c, src.id>> \in tags \/ <<c, src.parent>> \in tags
    <3>1. Kept(m) /\ merge[m].reverts <= 1
      BY <2>1, <2>5, <1>a
    <3>2. QED BY <3>1 DEF Kept, Linked, Lifted
  <2>7. \A c \in merge[m].moved : <<c, src.parent>> \in tags'
    BY <2>4, <2>6
  <2>8. QED BY <2>1, <2>3, <2>7 DEF Kept, Linked, Lifted, HasId
<1>5. CASE DeleteNode(m)
  <2>1. /\ merge[m].at = "delete" /\ merge'[m].at = "commit" /\ merge'[m].src = src
        /\ merge'[m].moved = merge[m].moved
        /\ nodes' = Without(src)
        /\ tags' = {t \in tags : \E n \in Without(src) : n.id = t[2]}
    BY <1>0, <1>5 DEF DeleteNode, MergeRow
  <2>2. PICK p \in nodes : p.id = src.parent
    BY <2>1, <1>a DEF HasId
  <2>3. p.path = Above(MergePath[m]) /\ src.path = MergePath[m]
    BY <2>1, <2>2, BegunFacts DEF Known
  <2>4. ~ Overlap(p.path, src.path)
    BY <2>1, <2>3, BegunFacts, OverlapFacts
  <2>5. p \in Without(src)
    BY <2>1, <2>4, <1>a, CascadeSpares
  <2>6. \A c \in merge[m].moved : <<c, src.parent>> \in tags'
    BY <2>1, <2>2, <2>5, <1>a DEF Kept, Lifted
  <2>7. HasId(merge[m].src.parent)'
    BY <2>1, <2>2, <2>5 DEF HasId
  <2>8. QED BY <2>1, <2>6, <2>7 DEF Kept, Lifted, Linked
<1>6. CASE CommitApply(m)
  <2>1. /\ merge[m].at = "commit" /\ merge'[m].at = "applied" /\ merge'[m].src = src
        /\ merge'[m].moved = merge[m].moved /\ nodes' = nodes /\ tags' = tags
    BY <1>0, <1>6 DEF CommitApply, MergeRow
  <2>2. QED BY <2>1, <1>a DEF Kept, Lifted, Linked, HasId
<1>7. CASE ApplyEnds(m)
  BY <1>0, <1>7 DEF ApplyEnds, MergeRow
<1>8. CASE ReinsertNode(m)
  <2>1. /\ merge[m].at = "applied" /\ merge'[m].at = "unlink" /\ merge'[m].src = src
        /\ merge'[m].moved = merge[m].moved /\ tags' = tags /\ nodes \subseteq nodes'
        /\ merge'[m].reverts = merge[m].reverts + 1
    BY <1>0, <1>8 DEF ReinsertNode, MergeRow
  <2>2. merge[m].reverts \in Nat
    BY <1>0 DEF MergeRow
  <2>3. merge'[m].reverts <= 1 => merge[m].reverts = 0
    BY <2>1, <2>2
  <2>4. \A c \in merge[m].moved : merge'[m].reverts <= 1 => <<c, src.parent>> \in tags'
    BY <2>1, <2>3, <1>a DEF Kept, Lifted
  <2>5. HasId(merge[m].src.parent)'
    BY <2>1, <1>a DEF HasId
  <2>6. merge'[m].reverts # 0
    BY <2>1, <2>2
  <2>7. QED BY <2>1, <2>4, <2>5, <2>6 DEF Kept, Lifted, Linked
<1>9. ASSUME NEW d \in Tagged, UnlinkChunk(m, d) PROVE Kept(m)'
  <2>1. /\ merge[m].at = "unlink" /\ merge'[m].at = "relink" /\ merge'[m].src = src
        /\ merge'[m].moved = merge[m].moved /\ merge'[m].todo = merge[m].todo
        /\ merge'[m].chunk = d /\ d \in merge[m].todo
        /\ merge'[m].reverts = merge[m].reverts /\ nodes' = nodes
        /\ tags' = tags \ {<<d, src.id>>}
    BY <1>0, <1>9 DEF UnlinkChunk, MergeRow
  <2>2. \A c : <<c, src.parent>> \in tags => <<c, src.parent>> \in tags'
    BY <2>1, <1>a
  <2>3. \A c \in merge[m].moved : merge[m].reverts <= 1 =>
            /\ c \in merge[m].todo => <<c, src.parent>> \in tags'
            /\ <<c, src.id>> \in tags' \/ <<c, src.parent>> \in tags'
    BY <2>1, <2>2, <1>a DEF Kept, Lifted, Linked
  <2>4. HasId(merge[m].src.parent)'
    BY <2>1, <1>a DEF HasId
  <2>5. merge'[m].reverts # 0
    BY <2>1, <1>a DEF Kept
  <2>6. QED BY <2>1, <2>3, <2>4, <2>5 DEF Kept, Lifted, Linked
<1>10. CASE RelinkChunk(m)
  <2> DEFINE d == merge[m].chunk
  <2>1. /\ merge[m].at = "relink" /\ merge'[m].at = "unlink" /\ merge'[m].src = src
        /\ merge'[m].moved = merge[m].moved /\ merge'[m].todo = merge[m].todo \ {d}
        /\ merge'[m].reverts = merge[m].reverts /\ nodes' = nodes
    BY <1>0, <1>10 DEF RelinkChunk, MergeRow
  <2>2. tags' = tags \/ tags' = (tags \ {<<d, src.parent>>}) \cup {<<d, src.id>>}
    BY <1>10 DEF RelinkChunk, Retagged
  <2>3. \A c \in merge[m].moved : merge[m].reverts <= 1 =>
            /\ c \in merge[m].todo \ {d} => <<c, src.parent>> \in tags'
            /\ <<c, src.id>> \in tags' \/ <<c, src.parent>> \in tags'
    BY <2>1, <2>2, <1>a DEF Kept, Lifted, Linked
  <2>4. HasId(merge[m].src.parent)'
    BY <2>1, <1>a DEF HasId
  <2>5. merge'[m].reverts # 0
    BY <2>1, <1>a DEF Kept
  <2>6. QED BY <2>1, <2>3, <2>4, <2>5 DEF Kept, Lifted, Linked
<1>11. CASE RevertDone(m) \/ RevertEnds(m)
  <2>1. /\ merge'[m].at \in {"applied", "reverted"} /\ merge'[m].src = src
        /\ merge[m].at \in {"unlink", "relink"}
        /\ merge'[m].moved = merge[m].moved /\ nodes' = nodes /\ tags' = tags
        /\ merge'[m].reverts = merge[m].reverts
    BY <1>0, <1>11 DEF RevertDone, RevertEnds, MergeRow
  <2>2. merge[m].reverts # 0
    BY <2>1, <1>a DEF Kept
  <2>3. QED BY <2>1, <2>2, <1>a DEF Kept, Lifted, Linked, HasId
<1>12. QED BY <1>1, <1>2, <1>3, <1>4, <1>5, <1>6, <1>7, <1>8, <1>9, <1>10, <1>11

\* How a request moves on: what it lists is empty until it has listed it, the node
\* is that of its path, and it is not reverted before it is applied.
LEMMA CourseStep ==
    ASSUME Inv, KeptInv, TagNext, NEW m \in Merges
    PROVE  /\ merge'[m].at \in {"approved", "list"} => merge'[m].moved = {}
           /\ merge'[m].at \in Applying => merge'[m].reverts = 0
           /\ merge'[m].at # "approved" => merge'[m].src.path = MergePath[m]
<1> DEFINE Course ==
        /\ merge'[m].at \in {"approved", "list"} => merge'[m].moved = {}
        /\ merge'[m].at \in Applying => merge'[m].reverts = 0
        /\ merge'[m].at # "approved" => merge'[m].src.path = MergePath[m]
<1>0. /\ merge \in [Merges -> MergeRow] /\ merge[m] \in MergeRow
      /\ merge[m].at \in {"approved", "list"} => merge[m].moved = {}
      /\ merge[m].at \in Applying => merge[m].reverts = 0
      /\ merge[m].at # "approved" => merge[m].src.path = MergePath[m]
  BY DEF Inv, TagTypeOK, KeptInv, Started
<1>1. CASE merge'[m] = merge[m]
  BY <1>0, <1>1
<1>2. CASE SelectNode(m)
  <2>1. NodeAt(MergePath[m]).path = MergePath[m]
    BY <1>2 DEF SelectNode, HasPath, NodeAt
  <2>2. QED BY <1>0, <1>2, <2>1 DEF SelectNode, MergeRow, Applying
<1>3. CASE \/ ListChunks(m) \/ ClearConflicts(m) \/ MoveTags(m)
           \/ DeleteNode(m) \/ CommitApply(m) \/ ApplyEnds(m)
  BY <1>0, <1>3 DEF ListChunks, ClearConflicts, MoveTags, DeleteNode, CommitApply, ApplyEnds,
                    Goes, MergeRow, Applying
<1>4. CASE \/ ReinsertNode(m) \/ RelinkChunk(m) \/ RevertDone(m) \/ RevertEnds(m)
           \/ \E c \in Tagged : UnlinkChunk(m, c)
  BY <1>0, <1>4 DEF ReinsertNode, RelinkChunk, RevertDone, RevertEnds, UnlinkChunk,
                    Goes, MergeRow, Applying
<1>5. ASSUME NEW o \in Merges \ {m},
             \/ SelectNode(o) \/ ListChunks(o) \/ ClearConflicts(o) \/ MoveTags(o)
             \/ DeleteNode(o) \/ CommitApply(o) \/ ApplyEnds(o)
             \/ ReinsertNode(o) \/ RelinkChunk(o) \/ RevertDone(o) \/ RevertEnds(o)
             \/ \E c \in Tagged : UnlinkChunk(o, c)
      PROVE  merge'[m] = merge[m]
  BY <1>0, <1>5 DEF Goes, SelectNode, ListChunks, ClearConflicts, MoveTags, DeleteNode,
         CommitApply, ApplyEnds, ReinsertNode, RelinkChunk, RevertDone, RevertEnds,
         UnlinkChunk
<1>6. ASSUME NEW t \in Taggers,
             \/ FindSegment(t) \/ MissSegment(t) \/ InsertSegment(t) \/ AttachChunk(t)
             \/ TaggerEnds(t)
      PROVE  merge'[m] = merge[m]
  BY <1>6 DEF FindSegment, MissSegment, InsertSegment, AttachChunk, TaggerEnds
<1>7. QED BY <1>1, <1>2, <1>3, <1>4, <1>5, <1>6 DEF TagNext

LEMMA KeptStep ==
    ASSUME Inv, KeptInv, TagNext
    PROVE  KeptInv'
<1> SUFFICES ASSUME NEW m \in Merges, Started(m)', Alone(m)'
             PROVE  Kept(m)'
  BY CourseStep DEF KeptInv, Started
<1>1. Alone(m)
  BY AloneStays
<1>2. ASSUME NEW o \in Merges,
             \/ SelectNode(o) \/ ListChunks(o) \/ ClearConflicts(o) \/ MoveTags(o)
             \/ DeleteNode(o) \/ CommitApply(o) \/ ApplyEnds(o)
             \/ ReinsertNode(o) \/ RelinkChunk(o) \/ RevertDone(o) \/ RevertEnds(o)
             \/ \E c \in Tagged : UnlinkChunk(o, c)
      PROVE  Kept(m)'
  <2>1. CASE o = m
    BY <1>1, <1>2, <2>1, OwnStepKeeps
  <2>2. CASE o # m
    <3>1. Started(o) \/ SelectNode(o)
      BY <1>2 DEF Started, Goes, SelectNode, ListChunks, ClearConflicts, MoveTags, DeleteNode,
         CommitApply, ApplyEnds, ReinsertNode, RelinkChunk, RevertDone, RevertEnds,
         UnlinkChunk
    <3>2. merge'[m] = merge[m]
      BY <1>2, <2>2 DEF Inv, TagTypeOK, Goes, SelectNode, ListChunks, ClearConflicts,
         MoveTags, DeleteNode, CommitApply, ApplyEnds, ReinsertNode, RelinkChunk,
         RevertDone, RevertEnds, UnlinkChunk
    <3>3. Started(m) /\ Kept(m)
      BY <1>1, <3>2 DEF Started, KeptInv
    <3>4. QED BY <1>1, <1>2, <2>2, <3>1, <3>3, OtherMergeKeeps
  <2>3. QED BY <2>1, <2>2
<1>3. ASSUME NEW t \in Taggers,
             \/ FindSegment(t) \/ MissSegment(t) \/ InsertSegment(t) \/ AttachChunk(t)
             \/ TaggerEnds(t)
      PROVE  Kept(m)'
  <2>1. merge' = merge
    BY <1>3 DEF FindSegment, MissSegment, InsertSegment, AttachChunk, TaggerEnds
  <2>2. Kept(m)
    BY <1>1, <2>1 DEF Started, KeptInv
  <2>3. QED BY <1>3, <2>2, TaggerKeeps
<1>4. QED BY <1>2, <1>3 DEF TagNext

\* Wherever a merge or its first revert stops, and however often its apply was tried,
\* no chunk it listed has lost both the tag of the node and that of the parent, for any
\* tree and any number of requests elsewhere (apply_tag_rebalance, revert_tag_rebalance).
THEOREM ListedChunksKeepATag == TagSpec => []ListedStayFindable
<1>1. TagInit => KeptInv
  BY DEF TagInit, KeptInv, Started, Applying
<1>2. Inv /\ KeptInv /\ [TagNext]_tagVars => KeptInv'
  <2>1. UNCHANGED tagVars => (KeptInv => KeptInv')
    BY DEF tagVars, KeptInv, Kept, Started, Alone, Linked, Lifted, HasId
  <2>2. QED BY <2>1, KeptStep
<1>3. KeptInv => ListedStayFindable
  <2> SUFFICES ASSUME KeptInv, NEW m \in Merges, NEW c \in merge[m].moved,
                      Alone(m), merge[m].reverts <= 1
               PROVE  {<<c, merge[m].src.id>>, <<c, merge[m].src.parent>>} \cap tags # {}
    BY DEF ListedStayFindable
  <2>1. Started(m)
    BY DEF KeptInv, Started
  <2>2. Linked(m, c) \/ Lifted(m, c)
    BY <2>1 DEF KeptInv, Kept
  <2>3. QED BY <2>2 DEF Linked, Lifted
<1>4. QED BY <1>1, <1>2, <1>3, InvHolds, PTL DEF TagSpec

-----------------------------------------------------------------------------
(* The skill file.                                                         *)

Hunks == {Skills!Partial} \cup Seq(Updates)
Recorders == {"commit", "applied", "reverted", "unwrite", "unswap", "undone"}
Stations == {"approved", "write", "swap"} \cup Recorders

Requested == [at : Stations, read : Hunks, prior : Hunks, fd : {None} \cup Nat]

SkillTypes ==
    /\ inodes \in Seq(Hunks) /\ file \in DOMAIN inodes
    /\ temp \in {None} \cup DOMAIN inodes /\ met \subseteq DOMAIN inodes
    /\ update \in [Updates -> Requested]
    /\ \A u \in Updates : update[u].fd \in {None} \cup DOMAIN inodes
    /\ fileLog \in Seq({"apply", "revert"} \X Updates)
    /\ collided \in BOOLEAN
    /\ failures \in 0 .. UpdateFailures

Has(s, x) == \E i \in DOMAIN s : s[i] = x
Now == inodes[file]
Ap(u) == Skills!Applies(u)
Re(u) == Skills!Reverts(u)

\* What the apply of `v` found in the file.
Recorded(v) == IF update[v].at = "commit" THEN update[v].read ELSE update[v].prior

\* A revert took the hunk of `w` out after the last apply of `w` ...
Ousted(w) ==
    \E v \in Updates : \E i \in Ap(v), j \in Re(v) :
        (\E k \in Ap(w) : i <= k) /\ (\A k \in Ap(w) : k < j)
\* ... or a revert of another update brought it back.
Back(w) ==
    \E v \in Updates \ {w} : \E i \in Ap(v), j \in Re(v) :
        (\E k \in Ap(w) : k < i) /\ (\E r \in Re(w) : r < j)

Once(w) == \A k, l \in Ap(w) : k = l

\* Where no two requests met, one is in progress at a time, and the temporary file is its own.
TurnsInv ==
    /\ \A u, v \in Updates : update[u].at \notin Skills!Idle /\ update[v].at \notin Skills!Idle => u = v
    /\ met = {} /\ temp # file /\ Now # Skills!Partial
    /\ \A u \in Updates :
         /\ update[u].read # Skills!Partial /\ update[u].prior # Skills!Partial
         /\ update[u].fd # None => update[u].fd = temp /\ update[u].at \in {"write", "unwrite"}
         /\ update[u].at \in {"write", "swap"} => update[u].read = Now
         /\ update[u].at \in {"swap", "unswap"} => temp # None
         /\ update[u].at = "swap" => inodes[temp] = Append(update[u].read, u)
         /\ update[u].at = "unswap" => inodes[temp] = update[u].prior

\* The file, and what each apply found in it, as the log of renames tells it.
LogInv ==
    /\ \A w \in Updates :
         /\ Has(Now, w) => Ap(w) # {}
         /\ Ap(w) # {} => Has(Now, w) \/ Ousted(w)
         /\ Re(w) # {} /\ Once(w) => ~Has(Now, w) \/ Back(w)
         /\ Re(w) # {} => update[w].at \in Recorders \ {"commit"}
         /\ update[w].at \in {"reverted", "undone"} => Re(w) # {}
    /\ \A v \in Updates : update[v].at \in Recorders =>
         \E a \in Ap(v) :
            /\ \A k \in Ap(v) : k <= a
            /\ \A w \in Updates :
                 /\ Has(Recorded(v), w) => \E k \in Ap(w) : k < a
                 /\ Ap(w) # {} /\ (\A k \in Ap(w) : k < a) => Has(Recorded(v), w) \/ Ousted(w)

\* Every request adds one hunk, and a failed one may leave it and come again.
Begun == {u \in Updates : update[u].at # "approved"}
Room == Cardinality(Begun) + failures
LengthInv ==
    /\ \A i \in DOMAIN inodes : inodes[i] # Skills!Partial => Len(inodes[i]) <= Room
    /\ \A u \in Updates :
         /\ update[u].read # Skills!Partial =>
              Len(update[u].read) + (IF update[u].at = "write" THEN 1 ELSE 0) <= Room
         /\ update[u].prior # Skills!Partial => Len(update[u].prior) <= Room

LEMMA HunkAdded ==
    ASSUME NEW S, NEW s \in Seq(S), NEW e \in S
    PROVE  /\ Append(s, e) \in Seq(S) /\ Len(Append(s, e)) = Len(s) + 1 /\ Len(s) \in Nat
           /\ DOMAIN s = 1 .. Len(s) /\ DOMAIN Append(s, e) = 1 .. Len(s) + 1
           /\ Append(s, e)[Len(s) + 1] = e
           /\ \A i \in DOMAIN s : i \in DOMAIN Append(s, e) /\ Append(s, e)[i] = s[i]
           /\ \A i \in DOMAIN Append(s, e) : i \in DOMAIN s \/ i = Len(s) + 1
           /\ \A x : Has(Append(s, e), x) <=> Has(s, x) \/ x = e
<1> DEFINE t == Append(s, e)
<1>1. /\ t \in Seq(S) /\ Len(t) = Len(s) + 1 /\ Len(s) \in Nat
      /\ DOMAIN s = 1 .. Len(s) /\ DOMAIN t = 1 .. Len(s) + 1
      /\ t[Len(s) + 1] = e /\ \A i \in DOMAIN s : i \in DOMAIN t /\ t[i] = s[i]
  OBVIOUS
<1>2. /\ \A i \in DOMAIN t : i \in DOMAIN s \/ i = Len(s) + 1
      /\ Len(s) + 1 \in DOMAIN t
  BY <1>1
<1> HIDE DEF t
<1>3. \A x : Has(t, x) <=> Has(s, x) \/ x = e
  BY <1>1, <1>2 DEF Has
<1>4. QED BY <1>1, <1>2, <1>3 DEF t

\* The mark of a file cut short is no content.
LEMMA PartialIsNoContent ==
    Skills!Partial \notin Seq(Updates) /\ <<>> \in Seq(Updates) /\ Skills!Partial # <<>>
<1>1. Len(<<None>>) = 1 /\ <<None>>[1] = None /\ <<None>> # <<>>
  OBVIOUS
<1>2. \A s \in Seq(Updates) : Len(s) = 1 => s[1] \in Updates
  OBVIOUS
<1>3. QED BY <1>1, <1>2, SkillAssumption DEF Skills!Partial

LEMMA SkillTypesInit == Skills!Init => SkillTypes
<1> SUFFICES ASSUME Skills!Init PROVE SkillTypes
  OBVIOUS
<1>1. inodes = <<(<<>>)>> /\ file = 1 /\ temp = None /\ fileLog = <<>> /\ met = {} /\ collided = FALSE /\ failures = 0
  BY DEF Skills!Init
<1>2. <<>> \in Hunks
  BY PartialIsNoContent DEF Hunks
<1>3. inodes \in Seq(Hunks) /\ DOMAIN inodes = {1}
  BY <1>1, <1>2
<1>4. update \in [Updates -> Requested] /\ \A u \in Updates : update[u].fd = None
  <2>1. [at |-> "approved", read |-> <<>>, prior |-> <<>>, fd |-> None] \in Requested
    BY <1>2 DEF Requested, Stations
  <2>2. QED BY <2>1 DEF Skills!Init
<1>5. 0 \in 0 .. UpdateFailures /\ <<>> \in Seq({"apply", "revert"} \X Updates)
  BY SkillAssumption
<1>6. QED BY <1>1, <1>3, <1>4, <1>5 DEF SkillTypes

LEMMA SkillTypesStep ==
    ASSUME SkillTypes, Skills!Next
    PROVE  SkillTypes'
<1>0. /\ inodes \in Seq(Hunks) /\ DOMAIN inodes = 1 .. Len(inodes) /\ Len(inodes) \in Nat
      /\ file \in DOMAIN inodes /\ temp \in {None} \cup DOMAIN inodes /\ met \subseteq DOMAIN inodes
      /\ update \in [Updates -> Requested] /\ collided \in BOOLEAN /\ failures \in 0 .. UpdateFailures
      /\ \A u \in Updates : update[u].fd \in {None} \cup DOMAIN inodes
      /\ fileLog \in Seq({"apply", "revert"} \X Updates)
  BY DEF SkillTypes
<1>1. PICK u \in Updates :
        \/ Skills!ReadPrior(u) \/ Skills!BeginRevert(u) \/ Skills!OpenTmp(u) \/ Skills!WriteTmp(u)
        \/ Skills!RenameTmp(u) \/ Skills!CommitApply(u) \/ Skills!RevertDone(u) \/ Skills!RequestEnds(u)
  BY DEF Skills!Next
<1>2. PICK r \in Requested : r = update[u]
  BY <1>0
<1>3. /\ r.at \in Stations /\ r.read \in Hunks /\ r.prior \in Hunks /\ r.fd \in {None} \cup Nat
      /\ r.fd \in {None} \cup DOMAIN inodes /\ \A i \in DOMAIN inodes : i \in Nat
  BY <1>0, <1>2 DEF Requested
<1>4. \A q \in Requested : Skills!Goes(u, q) /\ q.fd \in {None} \cup DOMAIN inodes =>
        /\ update' \in [Updates -> Requested] /\ collided' \in BOOLEAN
        /\ \A v \in Updates : update'[v].fd \in {None} \cup DOMAIN inodes
  <2>1. SUFFICES ASSUME NEW q \in Requested, Skills!Goes(u, q), q.fd \in {None} \cup DOMAIN inodes
                 PROVE  /\ update' \in [Updates -> Requested] /\ collided' \in BOOLEAN
                        /\ \A v \in Updates : update'[v].fd \in {None} \cup DOMAIN inodes
    OBVIOUS
  <2>2. update' = [update EXCEPT ![u] = q] /\ collided' \in BOOLEAN
    BY <1>0, <2>1 DEF Skills!Goes
  <2>3. QED BY <1>0, <2>1, <2>2
<1>5. CASE Skills!ReadPrior(u)
  <2>1. PICK q : q = [r EXCEPT !.at = "write", !.read = Now]
    OBVIOUS
  <2>2. Now \in Hunks
    BY <1>0 DEF Now
  <2>3. q \in Requested /\ q.fd = r.fd
    BY <1>2, <2>1, <2>2 DEF Requested, Stations
  <2>4. Skills!Goes(u, q) /\ UNCHANGED <<inodes, file, temp, fileLog, met, failures>>
    BY <1>2, <1>5, <2>1 DEF Skills!ReadPrior, Now
  <2>5. QED BY <1>0, <1>3, <1>4, <2>3, <2>4 DEF SkillTypes
<1>6. CASE Skills!BeginRevert(u) \/ Skills!CommitApply(u) \/ Skills!RevertDone(u)
  <2>1. PICK q : q = IF Skills!BeginRevert(u) THEN [r EXCEPT !.at = "unwrite"]
                     ELSE IF Skills!CommitApply(u) THEN [r EXCEPT !.at = "applied", !.prior = r.read]
                     ELSE [r EXCEPT !.at = "reverted"]
    OBVIOUS
  <2>2. q \in Requested /\ q.fd = r.fd
    BY <1>2, <1>3, <2>1 DEF Requested, Stations, Recorders
  <2>3. Skills!Goes(u, q) /\ UNCHANGED <<inodes, file, temp, fileLog, met, failures>>
    BY <1>2, <1>6, <2>1 DEF Skills!BeginRevert, Skills!CommitApply, Skills!RevertDone
  <2>4. QED BY <1>0, <1>3, <1>4, <2>2, <2>3 DEF SkillTypes
<1>7. CASE Skills!OpenTmp(u)
  <2>1. PICK n : n = IF temp # None THEN temp ELSE Len(inodes) + 1
    OBVIOUS
  <2>2. /\ temp' = n /\ Skills!Goes(u, [r EXCEPT !.fd = n]) /\ UNCHANGED <<file, fileLog, failures>>
        /\ inodes' = IF temp # None THEN [inodes EXCEPT ![n] = Skills!Partial] ELSE Append(inodes, Skills!Partial)
        /\ met' \subseteq met \cup {n}
    BY <1>2, <1>7, <2>1 DEF Skills!OpenTmp
  <2>3. Skills!Partial \in Hunks
    BY DEF Hunks
  <2>4. inodes' \in Seq(Hunks) /\ DOMAIN inodes \subseteq DOMAIN inodes' /\ n \in DOMAIN inodes' /\ n \in Nat
    <3>1. CASE temp # None
      BY <1>0, <2>1, <2>2, <2>3, <3>1
    <3>2. CASE temp = None
      <4>1. inodes' = Append(inodes, Skills!Partial) /\ n = Len(inodes) + 1
        BY <2>1, <2>2, <3>2
      <4>2. QED BY <1>0, <2>3, <4>1, HunkAdded
    <3>3. QED BY <3>1, <3>2
  <2>5. PICK q : q = [r EXCEPT !.fd = n]
    OBVIOUS
  <2>6. q \in Requested /\ q.fd = n
    BY <1>2, <2>4, <2>5 DEF Requested
  <2>7. update' = [update EXCEPT ![u] = q] /\ collided' \in BOOLEAN
    BY <1>0, <2>2, <2>5 DEF Skills!Goes
  <2>8. update' \in [Updates -> Requested] /\ \A v \in Updates : update'[v].fd \in {None} \cup DOMAIN inodes'
    BY <1>0, <2>4, <2>6, <2>7
  <2>9. QED BY <1>0, <2>2, <2>4, <2>7, <2>8 DEF SkillTypes
<1>8. CASE Skills!WriteTmp(u)
  <2>1. PICK n : n = r.fd
    OBVIOUS
  <2>2. PICK c : c = IF n \in met THEN Skills!Partial ELSE Skills!NewContent(u)
    OBVIOUS
  <2>3. /\ n # None /\ inodes' = [inodes EXCEPT ![n] = c] /\ UNCHANGED <<file, temp, fileLog, met, failures>>
        /\ Skills!Goes(u, [r EXCEPT !.fd = None, !.at = IF r.at = "write" THEN "swap" ELSE "unswap"])
    BY <1>2, <1>8, <2>1, <2>2 DEF Skills!WriteTmp
  <2>4. c \in Hunks
    <3>1. r.read # Skills!Partial => Append(r.read, u) \in Seq(Updates)
      BY <1>3, HunkAdded DEF Hunks
    <3>2. QED BY <1>2, <1>3, <2>2, <3>1 DEF Skills!NewContent, Hunks
  <2>5. inodes' \in Seq(Hunks) /\ DOMAIN inodes' = DOMAIN inodes
    BY <1>0, <1>3, <2>1, <2>3, <2>4
  <2>6. PICK q : q = [r EXCEPT !.fd = None, !.at = IF r.at = "write" THEN "swap" ELSE "unswap"]
    OBVIOUS
  <2>7. q \in Requested /\ q.fd = None
    BY <1>2, <2>6 DEF Requested, Stations, Recorders
  <2>8. /\ update' \in [Updates -> Requested] /\ collided' \in BOOLEAN
        /\ \A v \in Updates : update'[v].fd \in {None} \cup DOMAIN inodes
    BY <1>4, <2>3, <2>6, <2>7
  <2>9. QED BY <1>0, <2>3, <2>5, <2>8 DEF SkillTypes
<1>9. CASE Skills!RenameTmp(u)
  <2>1. PICK e : e = <<IF r.at = "swap" THEN "apply" ELSE "revert", u>>
    OBVIOUS
  <2>2. PICK q : q = [r EXCEPT !.at = IF r.at = "swap" THEN "commit" ELSE "undone"]
    OBVIOUS
  <2>3. /\ temp # None /\ file' = temp /\ temp' = None /\ fileLog' = Append(fileLog, e)
        /\ Skills!Goes(u, q) /\ UNCHANGED <<inodes, met, failures>>
    BY <1>2, <1>9, <2>1, <2>2 DEF Skills!RenameTmp
  <2>4. q \in Requested /\ q.fd = r.fd
    BY <1>2, <2>2 DEF Requested, Stations, Recorders
  <2>5. fileLog' \in Seq({"apply", "revert"} \X Updates)
    BY <1>0, <2>1, <2>3, HunkAdded
  <2>6. QED BY <1>0, <1>3, <1>4, <2>3, <2>4, <2>5 DEF SkillTypes
<1>10. CASE Skills!RequestEnds(u)
  <2>1. PICK q : q = [r EXCEPT !.fd = None, !.at = IF r.at \in Skills!Reverting THEN "applied" ELSE "approved"]
    OBVIOUS
  <2>2. /\ failures' = failures + 1 /\ failures < UpdateFailures
        /\ Skills!Goes(u, q) /\ UNCHANGED <<inodes, file, temp, fileLog, met>>
    BY <1>2, <1>10, <2>1 DEF Skills!RequestEnds
  <2>3. q \in Requested /\ q.fd = None
    BY <1>2, <2>1 DEF Requested, Stations, Recorders
  <2>4. failures' \in 0 .. UpdateFailures
    BY <1>0, <2>2, SkillAssumption
  <2>5. QED BY <1>0, <1>4, <2>2, <2>3, <2>4 DEF SkillTypes
<1>11. QED BY <1>1, <1>5, <1>6, <1>7, <1>8, <1>9, <1>10

-----------------------------------------------------------------------------
(* How long a file can grow.                                               *)

LEMMA RoomIsFinite ==
    ASSUME SkillTypes
    PROVE  /\ IsFiniteSet(Begun) /\ Cardinality(Begun) \in Nat /\ Room \in Nat /\ failures \in Nat
           /\ Cardinality(Begun) <= Cardinality(Updates)
<1>1. Begun \subseteq Updates
  BY DEF Begun
<1>2. IsFiniteSet(Begun) /\ Cardinality(Begun) <= Cardinality(Updates)
  BY <1>1, SkillAssumption, FS_Subset
<1>3. Cardinality(Begun) \in Nat /\ failures \in Nat
  BY <1>2, FS_CardinalityType, SkillAssumption DEF SkillTypes
<1>4. QED BY <1>2, <1>3 DEF Room

\* What the room is after the request on `u` went on as `q`.
LEMMA RoomAfter ==
    ASSUME SkillTypes, SkillTypes', NEW u \in Updates, NEW q,
           update' = [update EXCEPT ![u] = q]
    PROVE  /\ q.at # "approved" /\ update[u].at = "approved" => Room' = Room + 1 + (failures' - failures)
           /\ (q.at = "approved" <=> update[u].at = "approved") => Room' = Room + (failures' - failures)
           /\ q.at = "approved" /\ update[u].at # "approved" => Room' = Room - 1 + (failures' - failures)
<1>0. update \in [Updates -> Requested]
  BY DEF SkillTypes
<1>1. /\ q.at # "approved" => Begun' = Begun \cup {u}
      /\ q.at = "approved" => Begun' = Begun \ {u}
      /\ u \in Begun <=> update[u].at # "approved"
  BY <1>0 DEF Begun
<1>2. PICK B : B = Begun
  OBVIOUS
<1>3. IsFiniteSet(B) /\ Cardinality(B) \in Nat /\ failures \in Nat /\ failures' \in Nat
  BY <1>2, RoomIsFinite, SkillAssumption DEF SkillTypes
<1>4. /\ u \notin B => Cardinality(B \cup {u}) = Cardinality(B) + 1
      /\ u \in B => Cardinality(B \ {u}) = Cardinality(B) - 1
      /\ u \in B => B \cup {u} = B
      /\ u \notin B => B \ {u} = B
  <2>1. (u \in B => B \cup {u} = B) /\ (u \notin B => B \ {u} = B)
    OBVIOUS
  <2>2. u \notin B => Cardinality(B \cup {u}) = Cardinality(B) + 1
    BY <1>3, FS_AddElement
  <2>3. u \in B => Cardinality(B \ {u}) = Cardinality(B) - 1
    BY <1>3, FS_RemoveElement
  <2>4. QED BY <2>1, <2>2, <2>3
<1>5. Room = Cardinality(B) + failures
  BY <1>2 DEF Room
<1>6. /\ q.at # "approved" => Room' = Cardinality(B \cup {u}) + failures'
      /\ q.at = "approved" => Room' = Cardinality(B \ {u}) + failures'
  BY <1>1, <1>2 DEF Room
<1>7. CASE q.at # "approved" /\ update[u].at = "approved"
  <2>1. Room' = (Cardinality(B) + 1) + failures'
    BY <1>1, <1>2, <1>4, <1>6, <1>7
  <2>2. QED BY <1>3, <1>5, <1>7, <2>1
<1>8. CASE q.at = "approved" <=> update[u].at = "approved"
  <2>1. Room' = Cardinality(B) + failures'
    BY <1>1, <1>2, <1>4, <1>6, <1>8
  <2>2. QED BY <1>3, <1>5, <1>8, <2>1
<1>9. CASE q.at = "approved" /\ update[u].at # "approved"
  <2>1. Room' = (Cardinality(B) - 1) + failures'
    BY <1>1, <1>2, <1>4, <1>6, <1>9
  <2>2. QED BY <1>3, <1>5, <1>9, <2>1
<1>10. QED BY <1>7, <1>8, <1>9

\* A step that leaves the files as they are.
LEMMA LengthStays ==
    ASSUME SkillTypes, SkillTypes', LengthInv, NEW u \in Updates, NEW q \in Requested,
           update' = [update EXCEPT ![u] = q],
           \A i \in DOMAIN inodes' : \/ inodes'[i] = Skills!Partial
                                     \/ i \in DOMAIN inodes /\ inodes'[i] = inodes[i]
                                     \/ inodes'[i] \in Seq(Updates) /\ Len(inodes'[i]) <= Room',
           Room <= Room',
           q.read # Skills!Partial => Len(q.read) + (IF q.at = "write" THEN 1 ELSE 0) <= Room',
           q.prior # Skills!Partial => Len(q.prior) <= Room'
    PROVE  LengthInv'
<1>0. update \in [Updates -> Requested] /\ inodes \in Seq(Hunks) /\ Room \in Nat /\ Room' \in Nat
  <2>1. Room' \in Nat
    <3>1. (SkillTypes => Room \in Nat)'
      BY RoomIsFinite, SkillAssumption, PTL
    <3>2. QED BY <3>1
  <2>2. QED BY <2>1, RoomIsFinite DEF SkillTypes
<1>1. \A h \in Hunks : h # Skills!Partial => Len(h) \in Nat
  BY DEF Hunks
<1>2. ASSUME NEW i \in DOMAIN inodes', inodes'[i] # Skills!Partial
      PROVE  Len(inodes'[i]) <= Room'
  <2>1. CASE i \in DOMAIN inodes /\ inodes'[i] = inodes[i]
    <3>1. inodes[i] \in Hunks /\ inodes[i] # Skills!Partial
      BY <1>0, <1>2, <2>1
    <3>2. Len(inodes[i]) <= Room /\ Len(inodes[i]) \in Nat
      BY <1>1, <2>1, <3>1 DEF LengthInv
    <3>3. QED BY <1>0, <2>1, <3>2
  <2>2. QED BY <1>2, <2>1
<1>3. ASSUME NEW v \in Updates
      PROVE  /\ update'[v].read # Skills!Partial =>
                  Len(update'[v].read) + (IF update'[v].at = "write" THEN 1 ELSE 0) <= Room'
             /\ update'[v].prior # Skills!Partial => Len(update'[v].prior) <= Room'
  <2>1. CASE v = u
    BY <1>0, <2>1
  <2>2. CASE v # u
    <3>1. PICK o \in Requested : o = update[v]
      BY <1>0
    <3>2. update'[v] = o
      BY <1>0, <2>2, <3>1
    <3>3. o.read \in Hunks /\ o.prior \in Hunks
      BY DEF Requested
    <3>4. PICK n \in 0 .. 1 : n = IF o.at = "write" THEN 1 ELSE 0
      OBVIOUS
    <3>5. o.read # Skills!Partial => Len(o.read) + n <= Room'
      <4>1. o.read # Skills!Partial => Len(o.read) + n <= Room
        BY <3>1, <3>4 DEF LengthInv
      <4>2. o.read # Skills!Partial => Len(o.read) \in Nat
        BY <1>1, <3>3
      <4>3. QED BY <1>0, <4>1, <4>2
    <3>6. o.prior # Skills!Partial => Len(o.prior) <= Room'
      <4>1. o.prior # Skills!Partial => Len(o.prior) <= Room /\ Len(o.prior) \in Nat
        BY <1>1, <3>1, <3>3 DEF LengthInv
      <4>2. QED BY <1>0, <4>1
    <3>7. QED BY <3>2, <3>4, <3>5, <3>6
  <2>3. QED BY <2>1, <2>2
<1>4. QED BY <1>2, <1>3 DEF LengthInv

LEMMA LengthStep ==
    ASSUME SkillTypes, SkillTypes', LengthInv, Skills!Next
    PROVE  LengthInv'
<1>0. /\ inodes \in Seq(Hunks) /\ DOMAIN inodes = 1 .. Len(inodes) /\ Len(inodes) \in Nat
      /\ file \in DOMAIN inodes /\ temp \in {None} \cup DOMAIN inodes
      /\ update \in [Updates -> Requested] /\ failures \in Nat /\ Room \in Nat
  BY RoomIsFinite DEF SkillTypes
<1>1. PICK u \in Updates :
        \/ Skills!ReadPrior(u) \/ Skills!BeginRevert(u) \/ Skills!OpenTmp(u) \/ Skills!WriteTmp(u)
        \/ Skills!RenameTmp(u) \/ Skills!CommitApply(u) \/ Skills!RevertDone(u) \/ Skills!RequestEnds(u)
  BY DEF Skills!Next
<1>2. PICK r \in Requested : r = update[u]
  BY <1>0
<1>3. /\ r.at \in Stations /\ r.read \in Hunks /\ r.prior \in Hunks /\ \A h \in Hunks : h # Skills!Partial => Len(h) \in Nat
  BY <1>2 DEF Requested, Hunks
<1>4. /\ r.read # Skills!Partial => Len(r.read) + (IF r.at = "write" THEN 1 ELSE 0) <= Room /\ Len(r.read) \in Nat
      /\ r.prior # Skills!Partial => Len(r.prior) <= Room /\ Len(r.prior) \in Nat
  BY <1>2, <1>3 DEF LengthInv
<1>a. r.read # Skills!Partial => Len(r.read) <= Room
  <2>1. PICK n \in 0 .. 1 : n = IF r.at = "write" THEN 1 ELSE 0
    OBVIOUS
  <2>2. r.read # Skills!Partial => Len(r.read) + n <= Room /\ Len(r.read) \in Nat
    BY <1>4, <2>1
  <2>3. QED BY <1>0, <2>2
<1>5. CASE Skills!ReadPrior(u)
  <2>1. PICK q : q = [r EXCEPT !.at = "write", !.read = Now]
    OBVIOUS
  <2>2. Now \in Hunks /\ (Now # Skills!Partial => Len(Now) <= Room /\ Len(Now) \in Nat)
    BY <1>0, <1>3 DEF Now, LengthInv
  <2>3. q \in Requested /\ q.read = Now /\ q.prior = r.prior /\ q.at = "write"
    BY <1>2, <2>1, <2>2 DEF Requested, Stations
  <2>4. update' = [update EXCEPT ![u] = q] /\ update[u].at = "approved" /\ UNCHANGED <<inodes, failures>>
    BY <1>2, <1>5, <2>1 DEF Skills!ReadPrior, Skills!Goes, Now
  <2>5. Room' = Room + 1
    <3>1. Room' = Room + 1 + (failures' - failures)
      BY <2>3, <2>4, RoomAfter
    <3>2. QED BY <1>0, <2>4, <3>1
  <2>6. /\ Now # Skills!Partial => Len(Now) + 1 <= Room'
        /\ r.prior # Skills!Partial => Len(r.prior) <= Room'
        /\ Room <= Room'
    BY <1>0, <1>4, <2>2, <2>5
  <2>7. q.read # Skills!Partial => Len(q.read) + (IF q.at = "write" THEN 1 ELSE 0) <= Room'
    BY <2>3, <2>6
  <2>8. QED BY <2>3, <2>4, <2>6, <2>7, LengthStays
<1>6. CASE Skills!BeginRevert(u) \/ Skills!CommitApply(u) \/ Skills!RevertDone(u)
  <2>1. PICK q : q = IF Skills!BeginRevert(u) THEN [r EXCEPT !.at = "unwrite"]
                     ELSE IF Skills!CommitApply(u) THEN [r EXCEPT !.at = "applied", !.prior = r.read]
                     ELSE [r EXCEPT !.at = "reverted"]
    OBVIOUS
  <2>2. q \in Requested /\ q.read = r.read /\ q.prior \in {r.prior, r.read} /\ q.at \notin {"approved", "write"}
    BY <1>2, <1>3, <2>1 DEF Requested, Stations, Recorders
  <2>3. update' = [update EXCEPT ![u] = q] /\ UNCHANGED <<inodes, failures>> /\ update[u].at # "approved"
    BY <1>2, <1>6, <2>1 DEF Skills!BeginRevert, Skills!CommitApply, Skills!RevertDone, Skills!Goes
  <2>4. Room' = Room
    <3>1. Room' = Room + (failures' - failures)
      BY <2>2, <2>3, RoomAfter
    <3>2. QED BY <1>0, <2>3, <3>1
  <2>5. q.read # Skills!Partial => Len(q.read) + (IF q.at = "write" THEN 1 ELSE 0) <= Room'
    <3>1. q.read # Skills!Partial => Len(q.read) + 0 <= Room'
      BY <1>4, <1>a, <2>2, <2>4
    <3>2. QED BY <2>2, <3>1
  <2>6. q.prior # Skills!Partial => Len(q.prior) <= Room'
    BY <1>4, <1>a, <2>2, <2>4
  <2>7. Room <= Room'
    BY <1>0, <2>4
  <2>8. QED BY <2>2, <2>3, <2>5, <2>6, <2>7, LengthStays
<1>7. CASE Skills!OpenTmp(u)
  <2>1. PICK n : n = IF temp # None THEN temp ELSE Len(inodes) + 1
    OBVIOUS
  <2>2. PICK q : q = [r EXCEPT !.fd = n]
    OBVIOUS
  <2>3. /\ update' = [update EXCEPT ![u] = q] /\ UNCHANGED <<failures>>
        /\ inodes' = IF temp # None THEN [inodes EXCEPT ![n] = Skills!Partial] ELSE Append(inodes, Skills!Partial)
    BY <1>2, <1>7, <2>1, <2>2 DEF Skills!OpenTmp, Skills!Goes
  <2>4. q.read = r.read /\ q.prior = r.prior /\ q.at = r.at
    BY <1>2, <2>2 DEF Requested
  <2>5. q \in Requested
    <3>1. update'[u] = q /\ update' \in [Updates -> Requested]
      BY <1>0, <2>3 DEF SkillTypes
    <3>2. QED BY <3>1
  <2>6. Room' = Room
    <3>1. Room' = Room + (failures' - failures)
      BY <1>2, <2>3, <2>4, RoomAfter
    <3>2. QED BY <1>0, <2>3, <3>1
  <2>7. \A i \in DOMAIN inodes' : inodes'[i] = Skills!Partial \/ (i \in DOMAIN inodes /\ inodes'[i] = inodes[i])
    <3>1. CASE temp # None
      BY <1>0, <2>3, <3>1
    <3>2. CASE temp = None
      <4>1. inodes' = Append(inodes, Skills!Partial) /\ Skills!Partial \in Hunks
        BY <2>3, <3>2 DEF Hunks
      <4>2. QED BY <1>0, <4>1, HunkAdded
    <3>3. QED BY <3>1, <3>2
  <2>8. Room <= Room'
    BY <1>0, <2>6
  <2>9. QED BY <1>4, <2>3, <2>4, <2>5, <2>6, <2>7, <2>8, LengthStays
<1>8. CASE Skills!WriteTmp(u)
  <2>1. PICK n : n = r.fd
    OBVIOUS
  <2>2. PICK c : c = IF n \in met THEN Skills!Partial ELSE Skills!NewContent(u)
    OBVIOUS
  <2>3. PICK q : q = [r EXCEPT !.fd = None, !.at = IF r.at = "write" THEN "swap" ELSE "unswap"]
    OBVIOUS
  <2>4. /\ inodes' = [inodes EXCEPT ![n] = c] /\ UNCHANGED failures /\ r.at \in {"write", "unwrite"}
        /\ update' = [update EXCEPT ![u] = q]
    BY <1>2, <1>8, <2>1, <2>2, <2>3 DEF Skills!WriteTmp, Skills!Goes
  <2>5. q.read = r.read /\ q.prior = r.prior /\ q.at \in {"swap", "unswap"} /\ q \in Requested
    BY <1>2, <2>3 DEF Requested, Stations, Recorders
  <2>6. Room' = Room
    <3>1. Room' = Room + (failures' - failures)
      BY <1>2, <2>4, <2>5, RoomAfter
    <3>2. QED BY <1>0, <2>4, <3>1
  <2>7. c = Skills!Partial \/ (c \in Seq(Updates) /\ Len(c) <= Room')
    <3>1. CASE r.at = "write" /\ r.read # Skills!Partial
      <4>1. r.read \in Seq(Updates) /\ Len(r.read) + 1 <= Room
        BY <1>3, <1>4, <3>1 DEF Hunks
      <4>2. Append(r.read, u) \in Seq(Updates) /\ Len(Append(r.read, u)) = Len(r.read) + 1
        BY <4>1, HunkAdded
      <4>3. c = Skills!Partial \/ c = Append(r.read, u)
        BY <1>2, <2>2, <3>1 DEF Skills!NewContent
      <4>4. QED BY <2>6, <4>1, <4>2, <4>3
    <3>2. CASE r.at = "write" /\ r.read = Skills!Partial
      BY <1>2, <2>2, <3>2 DEF Skills!NewContent
    <3>3. CASE r.at = "unwrite"
      BY <1>2, <1>3, <1>4, <2>2, <2>6, <3>3 DEF Skills!NewContent, Hunks
    <3>4. QED BY <2>4, <3>1, <3>2, <3>3
  <2>8. \A i \in DOMAIN inodes' : i \in DOMAIN inodes /\ (inodes'[i] = inodes[i] \/ inodes'[i] = c)
    BY <1>0, <2>4
  <2>9. q.read # Skills!Partial => Len(q.read) + (IF q.at = "write" THEN 1 ELSE 0) <= Room'
    <3>1. q.read # Skills!Partial => Len(q.read) + 0 <= Room'
      BY <1>4, <1>a, <2>5, <2>6
    <3>2. QED BY <2>5, <3>1
  <2>10. Room <= Room'
    BY <1>0, <2>6
  <2>11. \A i \in DOMAIN inodes' : \/ inodes'[i] = Skills!Partial
                                   \/ i \in DOMAIN inodes /\ inodes'[i] = inodes[i]
                                   \/ inodes'[i] \in Seq(Updates) /\ Len(inodes'[i]) <= Room'
    BY <2>7, <2>8
  <2>12. QED BY <1>4, <2>4, <2>5, <2>6, <2>9, <2>10, <2>11, LengthStays
<1>9. CASE Skills!RenameTmp(u)
  <2>1. PICK q : q = [r EXCEPT !.at = IF r.at = "swap" THEN "commit" ELSE "undone"]
    OBVIOUS
  <2>2. update' = [update EXCEPT ![u] = q] /\ UNCHANGED <<inodes, failures>> /\ r.at \in {"swap", "unswap"}
    BY <1>2, <1>9, <2>1 DEF Skills!RenameTmp, Skills!Goes
  <2>3. q \in Requested /\ q.read = r.read /\ q.prior = r.prior /\ q.at \in {"commit", "undone"}
    BY <1>2, <2>1 DEF Requested, Stations, Recorders
  <2>4. Room' = Room
    <3>1. Room' = Room + (failures' - failures)
      BY <1>2, <2>2, <2>3, RoomAfter
    <3>2. QED BY <1>0, <2>2, <3>1
  <2>5. q.read # Skills!Partial => Len(q.read) + (IF q.at = "write" THEN 1 ELSE 0) <= Room'
    <3>1. q.read # Skills!Partial => Len(q.read) + 0 <= Room'
      BY <1>4, <1>a, <2>3, <2>4
    <3>2. QED BY <2>3, <3>1
  <2>6. Room <= Room'
    BY <1>0, <2>4
  <2>7. QED BY <1>4, <2>2, <2>3, <2>4, <2>5, <2>6, LengthStays
<1>10. CASE Skills!RequestEnds(u)
  <2>1. PICK q : q = [r EXCEPT !.fd = None, !.at = IF r.at \in Skills!Reverting THEN "applied" ELSE "approved"]
    OBVIOUS
  <2>2. update' = [update EXCEPT ![u] = q] /\ UNCHANGED inodes /\ failures' = failures + 1 /\ r.at \notin Skills!Idle
    BY <1>2, <1>10, <2>1 DEF Skills!RequestEnds, Skills!Goes
  <2>3. q \in Requested /\ q.read = r.read /\ q.prior = r.prior /\ q.at \in {"applied", "approved"}
    BY <1>2, <2>1 DEF Requested, Stations, Recorders
  <2>4. Room <= Room' /\ Room' \in Nat
    <3>1. \/ Room' = Room + (failures' - failures)
          \/ Room' = Room - 1 + (failures' - failures)
      <4>1. r.at # "approved"
        BY <2>2 DEF Skills!Idle
      <4>2. QED BY <1>2, <2>2, <2>3, <4>1, RoomAfter
    <3>2. QED BY <1>0, <2>2, <3>1
  <2>5. /\ q.read # Skills!Partial => Len(q.read) + 0 <= Room'
        /\ q.prior # Skills!Partial => Len(q.prior) <= Room'
    BY <1>0, <1>4, <1>a, <2>3, <2>4
  <2>6. q.read # Skills!Partial => Len(q.read) + (IF q.at = "write" THEN 1 ELSE 0) <= Room'
    BY <2>3, <2>5
  <2>7. QED BY <2>2, <2>3, <2>4, <2>5, <2>6, LengthStays
<1>11. QED BY <1>1, <1>5, <1>6, <1>7, <1>8, <1>9, <1>10

LEMMA SkillTypesHold == SkillTypes /\ LengthInv => Skills!TypeOK
<1> SUFFICES ASSUME SkillTypes, LengthInv PROVE Skills!TypeOK
  OBVIOUS
<1> DEFINE n == Cardinality(Updates) + UpdateFailures
<1>1. Room <= n /\ n \in Nat /\ Room \in Nat
  <2>1. Cardinality(Updates) \in Nat
    BY SkillAssumption, FS_CardinalityType
  <2>2. failures \in Nat /\ failures <= UpdateFailures /\ UpdateFailures \in Nat
    BY SkillAssumption DEF SkillTypes
  <2>3. Cardinality(Begun) \in Nat /\ Cardinality(Begun) <= Cardinality(Updates)
    BY RoomIsFinite
  <2>4. QED BY <2>1, <2>2, <2>3 DEF Room
<1>2. Skills!Content = {Skills!Partial} \cup UNION {[1 .. m -> Updates] : m \in 0 .. n}
  <2>1. Skills!Cardinality(Updates) = Cardinality(Updates)
    BY DEF Skills!Cardinality, Cardinality
  <2>2. QED BY <2>1 DEF Skills!Content, Skills!SeqOf
<1> HIDE DEF n
<1>3. ASSUME NEW h \in Hunks, h # Skills!Partial => Len(h) <= Room
      PROVE  h \in Skills!Content
  <2>1. CASE h \in Seq(Updates) /\ h # Skills!Partial
    <3>1. PICK m \in Nat : m = Len(h)
      BY <2>1
    <3>2. m \in 0 .. n
      BY <1>1, <1>3, <2>1, <3>1
    <3>3. h \in [1 .. m -> Updates]
      BY <2>1, <3>1
    <3>4. QED BY <1>2, <3>2, <3>3
  <2>2. CASE h = Skills!Partial
    BY <1>2, <2>2
  <2>3. QED BY <2>1, <2>2 DEF Hunks
<1>4. inodes \in Seq(Skills!Content)
  <2>1. inodes \in Seq(Hunks) /\ \A i \in DOMAIN inodes : inodes[i] \in Hunks
    BY DEF SkillTypes
  <2>2. \A i \in DOMAIN inodes : inodes[i] \in Skills!Content
    BY <1>3, <2>1 DEF LengthInv
  <2>3. QED BY <2>1, <2>2
<1>5. ASSUME NEW u \in Updates
      PROVE  /\ update[u].at \in Skills!Idle \cup Skills!Reverting \cup {"write", "swap", "commit"}
             /\ update[u].read \in Skills!Content /\ update[u].prior \in Skills!Content
             /\ update[u].fd \in {None} \cup DOMAIN inodes
  <2>1. PICK r \in Requested : r = update[u]
    BY DEF SkillTypes
  <2>2. r.at \in Stations /\ r.read \in Hunks /\ r.prior \in Hunks
    BY DEF Requested
  <2>3. r.read # Skills!Partial => Len(r.read) <= Room
    <3>1. PICK k \in 0 .. 1 : k = IF r.at = "write" THEN 1 ELSE 0
      OBVIOUS
    <3>2. r.read # Skills!Partial => Len(r.read) + k <= Room
      BY <2>1, <3>1 DEF LengthInv
    <3>3. r.read # Skills!Partial => Len(r.read) \in Nat
      BY <2>2 DEF Hunks
    <3>4. QED BY <1>1, <3>2, <3>3
  <2>4. r.prior # Skills!Partial => Len(r.prior) <= Room
    BY <2>1 DEF LengthInv
  <2>5. QED BY <1>3, <2>1, <2>2, <2>3, <2>4 DEF Stations, Recorders, Skills!Idle, Skills!Reverting, SkillTypes
<1>6. QED BY <1>4, <1>5 DEF Skills!TypeOK, SkillTypes

-----------------------------------------------------------------------------
(* Requests that take turns.                                               *)

LEMMA TurnTaken ==
    ASSUME SkillTypes, TurnsInv, NEW u \in Updates, NEW q, Skills!Goes(u, q), ~collided',
           update[u].at \notin Skills!Idle \/ q.at \notin Skills!Idle
    PROVE  /\ update'[u] = q
           /\ \A v \in Updates \ {u} : /\ update'[v] = update[v] /\ update[v].at \in Skills!Idle
                                      /\ update[v].fd = None
<1>1. update' = [update EXCEPT ![u] = q] /\ (q.at \notin Skills!Idle => \A v \in Updates \ {u} : update[v].at \in Skills!Idle)
  BY DEF Skills!Goes
<1>2. \A v \in Updates \ {u} : update[v].at \in Skills!Idle
  BY <1>1 DEF TurnsInv
<1>3. \A v \in Updates \ {u} : update[v].fd = None
  BY <1>2 DEF TurnsInv, Skills!Idle
<1>4. update \in [Updates -> Requested]
  BY DEF SkillTypes
<1>5. QED BY <1>1, <1>2, <1>3, <1>4

LEMMA TurnsAfter ==
    ASSUME TurnsInv, NEW u \in Updates, NEW q, update'[u] = q,
           \A v \in Updates \ {u} : /\ update'[v] = update[v] /\ update[v].at \in Skills!Idle
                                  /\ update[v].fd = None,
           met' = {}, temp' # file', Now' # Skills!Partial,
           q.read # Skills!Partial, q.prior # Skills!Partial,
           q.fd # None => q.fd = temp' /\ q.at \in {"write", "unwrite"},
           q.at \in {"write", "swap"} => q.read = Now',
           q.at \in {"swap", "unswap"} => temp' # None,
           q.at = "swap" => inodes'[temp'] = Append(q.read, u),
           q.at = "unswap" => inodes'[temp'] = q.prior
    PROVE  TurnsInv'
<1>1. \A v, w \in Updates : update'[v].at \notin Skills!Idle /\ update'[w].at \notin Skills!Idle => v = w
  OBVIOUS
<1>2. ASSUME NEW v \in Updates
      PROVE  /\ update'[v].read # Skills!Partial /\ update'[v].prior # Skills!Partial
             /\ update'[v].fd # None => update'[v].fd = temp' /\ update'[v].at \in {"write", "unwrite"}
             /\ update'[v].at \in {"write", "swap"} => update'[v].read = Now'
             /\ update'[v].at \in {"swap", "unswap"} => temp' # None
             /\ update'[v].at = "swap" => inodes'[temp'] = Append(update'[v].read, v)
             /\ update'[v].at = "unswap" => inodes'[temp'] = update'[v].prior
  <2>1. CASE v = u
    BY <2>1
  <2>2. CASE v # u
    BY <2>2 DEF TurnsInv, Skills!Idle
  <2>3. QED BY <2>1, <2>2
<1>3. Skills!Idle' = Skills!Idle /\ Skills!Partial' = Skills!Partial
  BY DEF Skills!Idle, Skills!Partial
<1>4. QED BY <1>1, <1>2 DEF TurnsInv

\* A step that leaves the file and the log.
LEMMA LogStays ==
    ASSUME SkillTypes, LogInv, NEW u \in Updates, NEW q, update'[u] = q,
           \A v \in Updates \ {u} : update'[v] = update[v],
           UNCHANGED fileLog, Now' = Now,
           q.at \in Recorders =>
                update[u].at \in Recorders /\ (IF q.at = "commit" THEN q.read ELSE q.prior) = Recorded(u),
           Re(u) # {} => q.at \in Recorders \ {"commit"},
           q.at \in {"reverted", "undone"} => Re(u) # {}
    PROVE  LogInv'
<1>1. \A w \in Updates : /\ Ap(w)' = Ap(w) /\ Re(w)' = Re(w) /\ (Ousted(w)' <=> Ousted(w))
                         /\ (Back(w)' <=> Back(w)) /\ (Once(w)' <=> Once(w))
  BY DEF Ap, Re, Skills!Applies, Skills!Reverts, Ousted, Back, Once
<1>2. \A v \in Updates : update'[v].at \in Recorders => update[v].at \in Recorders /\ Recorded(v)' = Recorded(v)
  <2>1. ASSUME NEW v \in Updates, update'[v].at \in Recorders
        PROVE  update[v].at \in Recorders /\ Recorded(v)' = Recorded(v)
    <3>1. CASE v = u
      BY <2>1, <3>1 DEF Recorded
    <3>2. CASE v # u
      BY <2>1, <3>2 DEF Recorded
    <3>3. QED BY <3>1, <3>2
  <2>2. QED BY <2>1
<1>3. \A w \in Updates :
         /\ Re(w) # {} => update'[w].at \in Recorders \ {"commit"}
         /\ update'[w].at \in {"reverted", "undone"} => Re(w) # {}
  BY DEF LogInv
<1>4. ASSUME NEW v \in Updates, update'[v].at \in Recorders
      PROVE  \E a \in Ap(v)' :
                /\ \A k \in Ap(v)' : k <= a
                /\ \A w \in Updates :
                     /\ Has(Recorded(v)', w) => \E k \in Ap(w)' : k < a
                     /\ Ap(w)' # {} /\ (\A k \in Ap(w)' : k < a) => Has(Recorded(v)', w) \/ Ousted(w)'
  BY <1>1, <1>2, <1>4 DEF LogInv
<1>5. \A w \in Updates :
         /\ Has(Now', w) => Ap(w)' # {}
         /\ Ap(w)' # {} => Has(Now', w) \/ Ousted(w)'
         /\ Re(w)' # {} /\ Once(w)' => ~Has(Now', w) \/ Back(w)'
  BY <1>1 DEF LogInv
<1>6. QED BY <1>1, <1>3, <1>4, <1>5 DEF LogInv, Has

\* One rename, in the log.
LEMMA Logged ==
    ASSUME fileLog \in Seq({"apply", "revert"} \X Updates), NEW t \in {"apply", "revert"}, NEW u \in Updates,
           fileLog' = Append(fileLog, <<t, u>>), NEW n, n = Len(fileLog) + 1
    PROVE  /\ n \in Nat
           /\ \A w \in Updates : \A k \in Ap(w) \cup Re(w) : k \in Nat /\ k < n
           /\ \A w \in Updates : Ap(w)' = IF t = "apply" /\ w = u THEN Ap(w) \cup {n} ELSE Ap(w)
           /\ \A w \in Updates : Re(w)' = IF t = "revert" /\ w = u THEN Re(w) \cup {n} ELSE Re(w)
<1>0. \A w \in Updates : /\ Ap(w) = {k \in DOMAIN fileLog : fileLog[k] = <<"apply", w>>}
                         /\ Re(w) = {k \in DOMAIN fileLog : fileLog[k] = <<"revert", w>>}
                         /\ Ap(w)' = {k \in DOMAIN fileLog' : fileLog'[k] = <<"apply", w>>}
                         /\ Re(w)' = {k \in DOMAIN fileLog' : fileLog'[k] = <<"revert", w>>}
  BY DEF Ap, Re, Skills!Applies, Skills!Reverts
<1>1. /\ <<t, u>> \in {"apply", "revert"} \X Updates /\ Len(fileLog) \in Nat
      /\ DOMAIN fileLog = 1 .. Len(fileLog)
  OBVIOUS
<1>2. /\ DOMAIN fileLog' = 1 .. n /\ fileLog'[n] = <<t, u>>
      /\ \A k \in DOMAIN fileLog : k \in DOMAIN fileLog' /\ fileLog'[k] = fileLog[k]
  BY <1>1, HunkAdded
<1>3. DOMAIN fileLog' = DOMAIN fileLog \cup {n} /\ n \in Nat /\ \A k \in DOMAIN fileLog : k \in Nat /\ k < n
  BY <1>1, <1>2
<1>4. \A w \in Updates : /\ <<t, u>> = <<"apply", w>> <=> t = "apply" /\ w = u
                         /\ <<t, u>> = <<"revert", w>> <=> t = "revert" /\ w = u
  OBVIOUS
<1>5. ASSUME NEW w \in Updates
      PROVE  Ap(w)' = IF t = "apply" /\ w = u THEN Ap(w) \cup {n} ELSE Ap(w)
  <2>1. ASSUME NEW k PROVE k \in Ap(w)' <=> k \in Ap(w) \/ (k = n /\ t = "apply" /\ w = u)
    <3>1. CASE k = n
      BY <1>0, <1>2, <1>3, <1>4, <3>1
    <3>2. CASE k # n
      BY <1>0, <1>2, <1>3, <3>2
    <3>3. QED BY <3>1, <3>2
  <2>2. QED BY <2>1
<1>6. ASSUME NEW w \in Updates
      PROVE  Re(w)' = IF t = "revert" /\ w = u THEN Re(w) \cup {n} ELSE Re(w)
  <2>1. ASSUME NEW k PROVE k \in Re(w)' <=> k \in Re(w) \/ (k = n /\ t = "revert" /\ w = u)
    <3>1. CASE k = n
      BY <1>0, <1>2, <1>3, <1>4, <3>1
    <3>2. CASE k # n
      BY <1>0, <1>2, <1>3, <3>2
    <3>3. QED BY <3>1, <3>2
  <2>2. QED BY <2>1
<1>7. \A w \in Updates : \A k \in Ap(w) \cup Re(w) : k \in Nat /\ k < n
  BY <1>0, <1>3
<1>8. QED BY <1>3, <1>5, <1>6, <1>7

\* An apply adds its hunk to what it read, which the file still holds.
LEMMA AppliedIsLogged ==
    ASSUME SkillTypes, LogInv, NEW u \in Updates, NEW q, update'[u] = q, q.at = "commit", q.read = Now,
           \A v \in Updates \ {u} : update'[v] = update[v],
           update[u].at = "swap", Now \in Seq(Updates), Now' = Append(Now, u),
           fileLog' = Append(fileLog, <<"apply", u>>)
    PROVE  LogInv'
<1>1. PICK n : n = Len(fileLog) + 1
  OBVIOUS
<1>2. /\ n \in Nat
      /\ \A w \in Updates : \A k \in Ap(w) \cup Re(w) : k \in Nat /\ k < n
      /\ Ap(u)' = Ap(u) \cup {n} /\ \A w \in Updates \ {u} : Ap(w)' = Ap(w)
      /\ \A w \in Updates : Re(w)' = Re(w)
  BY <1>1, Logged DEF SkillTypes
<1>3. \A x : Has(Now', x) <=> Has(Now, x) \/ x = u
  BY HunkAdded
<1>4. ASSUME NEW w \in Updates \ {u}
      PROVE  /\ Ousted(w) => Ousted(w)'
             /\ Back(w) => Back(w)'
             /\ Once(w)' <=> Once(w)
  <2>1. \A v \in Updates : Ap(v) \subseteq Ap(v)' /\ Re(v)' = Re(v)
    BY <1>2
  <2>2. Ap(w)' = Ap(w)
    BY <1>2
  <2>3. Ousted(w) => Ousted(w)'
    BY <2>1, <2>2 DEF Ousted
  <2>4. Back(w) => Back(w)'
    BY <2>1, <2>2 DEF Back
  <2>5. Once(w)' <=> Once(w)
    BY <2>2 DEF Once
  <2>6. QED BY <2>3, <2>4, <2>5
<1>5. Re(u) = {}
  BY DEF LogInv, Recorders
<1>6. ASSUME NEW w \in Updates
      PROVE  /\ Has(Now', w) => Ap(w)' # {}
             /\ Ap(w)' # {} => Has(Now', w) \/ Ousted(w)'
             /\ Re(w)' # {} /\ Once(w)' => ~Has(Now', w) \/ Back(w)'
             /\ Re(w)' # {} => update'[w].at \in Recorders \ {"commit"}
             /\ update'[w].at \in {"reverted", "undone"} => Re(w)' # {}
  <2>1. CASE w = u
    BY <1>2, <1>3, <1>5, <2>1
  <2>2. CASE w # u
    <3>1. Ap(w)' = Ap(w) /\ Re(w)' = Re(w) /\ (Has(Now', w) <=> Has(Now, w)) /\ update'[w] = update[w]
      BY <1>2, <1>3, <2>2
    <3>2. (Ousted(w) => Ousted(w)') /\ (Back(w) => Back(w)') /\ (Once(w)' <=> Once(w))
      BY <1>4, <2>2
    <3>3. QED BY <3>1, <3>2 DEF LogInv
  <2>3. QED BY <2>1, <2>2
<1>7. ASSUME NEW v \in Updates, update'[v].at \in Recorders
      PROVE  \E a \in Ap(v)' :
                /\ \A k \in Ap(v)' : k <= a
                /\ \A w \in Updates :
                     /\ Has(Recorded(v)', w) => \E k \in Ap(w)' : k < a
                     /\ Ap(w)' # {} /\ (\A k \in Ap(w)' : k < a) => Has(Recorded(v)', w) \/ Ousted(w)'
  <2>1. CASE v = u
    <3>1. Recorded(v)' = Now
      BY <2>1 DEF Recorded
    <3>2. n \in Ap(v)' /\ \A k \in Ap(v)' : k <= n
      BY <1>2, <2>1
    <3>3. ASSUME NEW w \in Updates
          PROVE  /\ Has(Now, w) => \E k \in Ap(w)' : k < n
                 /\ Ap(w)' # {} /\ (\A k \in Ap(w)' : k < n) => Has(Now, w) \/ Ousted(w)'
      <4>1. Has(Now, w) => \E k \in Ap(w)' : k < n
        <5>1. Has(Now, w) => Ap(w) # {}
          BY DEF LogInv
        <5>2. QED BY <1>2, <5>1
      <4>2. ASSUME Ap(w)' # {}, \A k \in Ap(w)' : k < n PROVE Has(Now, w) \/ Ousted(w)'
        <5>1. w # u
          <6>1. n \in Ap(u)' /\ ~(n < n)
            BY <1>2
          <6>2. QED BY <4>2, <6>1
        <5>2. Ap(w)' = Ap(w) /\ (Ousted(w) => Ousted(w)')
          BY <1>2, <1>4, <5>1
        <5>3. QED BY <4>2, <5>2 DEF LogInv
      <4>3. QED BY <4>1, <4>2
    <3>4. QED BY <3>1, <3>2, <3>3
  <2>2. CASE v # u
    <3>1. update[v].at \in Recorders /\ Recorded(v)' = Recorded(v) /\ Ap(v)' = Ap(v)
      BY <1>2, <1>7, <2>2 DEF Recorded
    <3>2. PICK a \in Ap(v) :
                /\ \A k \in Ap(v) : k <= a
                /\ \A w \in Updates :
                     /\ Has(Recorded(v), w) => \E k \in Ap(w) : k < a
                     /\ Ap(w) # {} /\ (\A k \in Ap(w) : k < a) => Has(Recorded(v), w) \/ Ousted(w)
      BY <3>1 DEF LogInv
    <3>3. a \in Nat /\ a < n /\ ~(n < a)
      BY <1>2
    <3>4. ASSUME NEW w \in Updates
          PROVE  /\ Has(Recorded(v), w) => \E k \in Ap(w)' : k < a
                 /\ Ap(w)' # {} /\ (\A k \in Ap(w)' : k < a) => Has(Recorded(v), w) \/ Ousted(w)'
      <4>1. CASE w = u
        <5>1. n \in Ap(w)' /\ Ap(w) \subseteq Ap(w)'
          BY <1>2, <4>1
        <5>2. QED BY <3>2, <3>3, <5>1
      <4>2. CASE w # u
        <5>1. Ap(w)' = Ap(w) /\ (Ousted(w) => Ousted(w)')
          BY <1>2, <1>4, <4>2
        <5>2. QED BY <3>2, <5>1
      <4>3. QED BY <4>1, <4>2
    <3>5. QED BY <3>1, <3>2, <3>4
  <2>3. QED BY <2>1, <2>2
<1>8. QED BY <1>6, <1>7 DEF LogInv, Has

\* A revert brings back what its last apply found.
LEMMA RevertedIsLogged ==
    ASSUME SkillTypes, LogInv, NEW u \in Updates, NEW q, update'[u] = q, q.at = "undone",
           q.prior = update[u].prior, \A v \in Updates \ {u} : update'[v] = update[v],
           update[u].at = "unswap", Now' = update[u].prior,
           fileLog' = Append(fileLog, <<"revert", u>>)
    PROVE  LogInv'
<1>1. PICK n : n = Len(fileLog) + 1
  OBVIOUS
<1>2. /\ n \in Nat
      /\ \A w \in Updates : \A k \in Ap(w) \cup Re(w) : k \in Nat /\ k < n
      /\ \A w \in Updates : Ap(w)' = Ap(w)
      /\ Re(u)' = Re(u) \cup {n} /\ \A w \in Updates \ {u} : Re(w)' = Re(w)
  BY <1>1, Logged DEF SkillTypes
<1>3. \A v \in Updates : Re(v) \subseteq Re(v)' /\ Ap(v)' = Ap(v)
  BY <1>2
<1>4. \A w \in Updates : /\ Ousted(w) => Ousted(w)'
                         /\ Back(w) => Back(w)'
                         /\ Once(w)' <=> Once(w)
  BY <1>3 DEF Ousted, Back, Once
<1>5. update[u].at \in Recorders /\ Recorded(u) = update[u].prior
  BY DEF Recorders, Recorded
<1>6. PICK a \in Ap(u) :
            /\ \A k \in Ap(u) : k <= a
            /\ \A w \in Updates :
                 /\ Has(Now', w) => \E k \in Ap(w) : k < a
                 /\ Ap(w) # {} /\ (\A k \in Ap(w) : k < a) => Has(Now', w) \/ Ousted(w)
  BY <1>5 DEF LogInv
<1>7. n \in Re(u)' /\ a \in Ap(u)' /\ a \in Nat
  BY <1>2
<1>8. ASSUME NEW w \in Updates, Ap(w) # {}, ~Has(Now', w) PROVE Ousted(w)'
  <2>1. CASE \A k \in Ap(w) : k < a
    BY <1>4, <1>6, <1>8, <2>1
  <2>2. CASE \E k \in Ap(w) : ~(k < a)
    <3>1. \E k \in Ap(w)' : a <= k
      BY <1>2, <1>7, <2>2
    <3>2. \A k \in Ap(w)' : k < n
      BY <1>2
    <3>3. QED BY <1>7, <3>1, <3>2 DEF Ousted
  <2>3. QED BY <2>1, <2>2
<1>9. ASSUME NEW w \in Updates, Re(w)' # {}, Once(w), Has(Now', w) PROVE Back(w)'
  <2>1. PICK k \in Ap(w) : k < a
    BY <1>6, <1>9
  <2>2. w # u
    <3>1. k \in Nat
      BY <1>2
    <3>2. QED BY <1>6, <1>7, <1>9, <2>1, <3>1 DEF Once
  <2>3. Re(w)' = Re(w)
    BY <1>2, <2>2
  <2>4. \E r \in Re(w)' : r < n
    BY <1>2, <1>9, <2>3
  <2>5. \E l \in Ap(w)' : l < a
    BY <1>2, <2>1
  <2>6. QED BY <1>7, <2>2, <2>4, <2>5 DEF Back
<1>10. ASSUME NEW w \in Updates
       PROVE  /\ Has(Now', w) => Ap(w)' # {}
              /\ Ap(w)' # {} => Has(Now', w) \/ Ousted(w)'
              /\ Re(w)' # {} /\ Once(w)' => ~Has(Now', w) \/ Back(w)'
              /\ Re(w)' # {} => update'[w].at \in Recorders \ {"commit"}
              /\ update'[w].at \in {"reverted", "undone"} => Re(w)' # {}
  <2>1. Has(Now', w) => Ap(w)' # {}
    BY <1>2, <1>6
  <2>2. (Ap(w)' # {} => Has(Now', w) \/ Ousted(w)') /\ (Re(w)' # {} /\ Once(w)' => ~Has(Now', w) \/ Back(w)')
    BY <1>2, <1>4, <1>8, <1>9
  <2>3. /\ Re(w)' # {} => update'[w].at \in Recorders \ {"commit"}
        /\ update'[w].at \in {"reverted", "undone"} => Re(w)' # {}
    <3>1. CASE w = u
      BY <1>7, <3>1 DEF Recorders
    <3>2. CASE w # u
      BY <1>2, <3>2 DEF LogInv
    <3>3. QED BY <3>1, <3>2
  <2>4. QED BY <2>1, <2>2, <2>3
<1>11. ASSUME NEW v \in Updates, update'[v].at \in Recorders
       PROVE  \E b \in Ap(v)' :
                 /\ \A k \in Ap(v)' : k <= b
                 /\ \A w \in Updates :
                      /\ Has(Recorded(v)', w) => \E k \in Ap(w)' : k < b
                      /\ Ap(w)' # {} /\ (\A k \in Ap(w)' : k < b) => Has(Recorded(v)', w) \/ Ousted(w)'
  <2>1. update[v].at \in Recorders /\ Recorded(v)' = Recorded(v)
    <3>1. CASE v = u
      BY <1>5, <3>1 DEF Recorded
    <3>2. CASE v # u
      BY <1>11, <3>2 DEF Recorded
    <3>3. QED BY <3>1, <3>2
  <2>2. PICK b \in Ap(v) :
              /\ \A k \in Ap(v) : k <= b
              /\ \A w \in Updates :
                   /\ Has(Recorded(v), w) => \E k \in Ap(w) : k < b
                   /\ Ap(w) # {} /\ (\A k \in Ap(w) : k < b) => Has(Recorded(v), w) \/ Ousted(w)
    BY <2>1 DEF LogInv
  <2>3. QED BY <1>2, <1>4, <2>1, <2>2
<1>12. QED BY <1>10, <1>11 DEF LogInv, Has

LEMMA TurnStep ==
    ASSUME SkillTypes, SkillTypes', TurnsInv, LogInv, ~collided', Skills!Next
    PROVE  TurnsInv' /\ LogInv'
<1>0. /\ inodes \in Seq(Hunks) /\ DOMAIN inodes = 1 .. Len(inodes) /\ Len(inodes) \in Nat
      /\ file \in DOMAIN inodes /\ temp \in {None} \cup DOMAIN inodes
      /\ update \in [Updates -> Requested]
  BY DEF SkillTypes
<1>1. PICK u \in Updates :
        \/ Skills!ReadPrior(u) \/ Skills!BeginRevert(u) \/ Skills!OpenTmp(u) \/ Skills!WriteTmp(u)
        \/ Skills!RenameTmp(u) \/ Skills!CommitApply(u) \/ Skills!RevertDone(u) \/ Skills!RequestEnds(u)
  BY DEF Skills!Next
<1>2. PICK r \in Requested : r = update[u]
  BY <1>0
<1>3. /\ r.at \in Stations /\ r.read \in Hunks /\ r.prior \in Hunks
      /\ r.read # Skills!Partial /\ r.prior # Skills!Partial
      /\ r.fd # None => r.fd = temp /\ r.at \in {"write", "unwrite"}
      /\ r.at \in {"write", "swap"} => r.read = Now
      /\ r.at \in {"swap", "unswap"} => temp # None
      /\ r.at = "swap" => inodes[temp] = Append(r.read, u)
      /\ r.at = "unswap" => inodes[temp] = r.prior
      /\ met = {} /\ temp # file /\ Now # Skills!Partial
  BY <1>2 DEF Requested, TurnsInv
<1>4. /\ Re(u) # {} => r.at \in Recorders \ {"commit"}
      /\ r.at \in {"reverted", "undone"} => Re(u) # {}
      /\ Recorded(u) = IF r.at = "commit" THEN r.read ELSE r.prior
  BY <1>2 DEF LogInv, Recorded
<1>5. CASE Skills!ReadPrior(u)
  <2>1. PICK q : q = [r EXCEPT !.at = "write", !.read = Now]
    OBVIOUS
  <2>2. /\ Skills!Goes(u, q) /\ r.at = "approved" /\ UNCHANGED <<inodes, file, temp, fileLog, met, failures>>
    BY <1>2, <1>5, <2>1 DEF Skills!ReadPrior, Now
  <2>3. q.at = "write" /\ q.read = Now /\ q.prior = r.prior /\ q.fd = r.fd
    BY <1>2, <2>1 DEF Requested
  <2>4. /\ update'[u] = q
        /\ \A v \in Updates \ {u} : /\ update'[v] = update[v] /\ update[v].at \in Skills!Idle
                                   /\ update[v].fd = None
    BY <2>2, <2>3, TurnTaken DEF Skills!Idle
  <2>5. Now' = Now /\ q.fd = None
    BY <1>3, <2>2, <2>3 DEF Now
  <2>6. TurnsInv'
    BY <1>3, <2>2, <2>3, <2>4, <2>5, TurnsAfter
  <2>7. LogInv'
    BY <1>4, <2>2, <2>3, <2>4, <2>5, LogStays DEF Recorders
  <2>8. QED BY <2>6, <2>7
<1>6. CASE Skills!BeginRevert(u) \/ Skills!CommitApply(u) \/ Skills!RevertDone(u)
  <2>1. PICK q : q = IF Skills!BeginRevert(u) THEN [r EXCEPT !.at = "unwrite"]
                     ELSE IF Skills!CommitApply(u) THEN [r EXCEPT !.at = "applied", !.prior = r.read]
                     ELSE [r EXCEPT !.at = "reverted"]
    OBVIOUS
  <2>2. /\ Skills!Goes(u, q) /\ UNCHANGED <<inodes, file, temp, fileLog, met, failures>>
        /\ r.at \in {"applied", "commit", "undone"}
    BY <1>2, <1>6, <2>1 DEF Skills!BeginRevert, Skills!CommitApply, Skills!RevertDone
  <2>3. /\ q.read = r.read /\ q.fd = r.fd
        /\ \/ r.at = "applied" /\ q.at = "unwrite" /\ q.prior = r.prior
           \/ r.at = "commit" /\ q.at = "applied" /\ q.prior = r.read
           \/ r.at = "undone" /\ q.at = "reverted" /\ q.prior = r.prior
    BY <1>2, <1>6, <2>1 DEF Requested, Skills!BeginRevert, Skills!CommitApply, Skills!RevertDone
  <2>4. /\ update'[u] = q
        /\ \A v \in Updates \ {u} : /\ update'[v] = update[v] /\ update[v].at \in Skills!Idle
                                   /\ update[v].fd = None
    BY <1>2, <2>2, <2>3, TurnTaken DEF Skills!Idle
  <2>5. Now' = Now /\ q.fd = None
    BY <1>3, <2>2, <2>3 DEF Now
  <2>6. TurnsInv'
    BY <1>3, <2>2, <2>3, <2>4, <2>5, TurnsAfter
  <2>7. LogInv'
    <3>1. /\ r.at \in Recorders /\ q.at \in Recorders \ {"commit"} /\ q.prior = Recorded(u)
          /\ q.at \in {"reverted", "undone"} => Re(u) # {}
      BY <1>4, <2>3 DEF Recorders
    <3>2. QED BY <1>2, <2>2, <2>4, <2>5, <3>1, LogStays
  <2>8. QED BY <2>6, <2>7
<1>7. CASE Skills!OpenTmp(u)
  <2>1. PICK n : n = IF temp # None THEN temp ELSE Len(inodes) + 1
    OBVIOUS
  <2>2. PICK q : q = [r EXCEPT !.fd = n]
    OBVIOUS
  <2>3. /\ Skills!Goes(u, q) /\ r.at \in {"write", "unwrite"} /\ temp' = n /\ UNCHANGED <<file, fileLog, failures>>
        /\ inodes' = IF temp # None THEN [inodes EXCEPT ![n] = Skills!Partial] ELSE Append(inodes, Skills!Partial)
        /\ met' = met \cup {i \in {n} : \E v \in Updates : update[v].fd = i} /\ r.fd = None
    BY <1>2, <1>7, <2>1, <2>2 DEF Skills!OpenTmp
  <2>4. q.at = r.at /\ q.read = r.read /\ q.prior = r.prior /\ q.fd = n
    BY <1>2, <2>2 DEF Requested
  <2>5. /\ update'[u] = q
        /\ \A v \in Updates \ {u} : /\ update'[v] = update[v] /\ update[v].at \in Skills!Idle
                                   /\ update[v].fd = None
    BY <2>3, <2>4, TurnTaken DEF Skills!Idle
  <2>6. n \in Nat /\ n # file
    BY <1>0, <1>3, <2>1
  <2>7. met' = {}
    <3>1. \A v \in Updates : update[v].fd = None
      BY <1>2, <2>3, <2>5
    <3>2. n # None
      BY <2>6, SkillAssumption
    <3>3. QED BY <1>3, <2>3, <3>1, <3>2
  <2>8. Now' = Now
    <3>1. CASE temp # None
      BY <1>0, <2>3, <2>6, <3>1 DEF Now
    <3>2. CASE temp = None
      <4>1. inodes' = Append(inodes, Skills!Partial) /\ Skills!Partial \in Hunks
        BY <2>3, <3>2 DEF Hunks
      <4>2. \A i \in DOMAIN inodes : inodes'[i] = inodes[i]
        BY <1>0, <4>1, HunkAdded
      <4>3. QED BY <1>0, <2>3, <4>2 DEF Now
    <3>3. QED BY <3>1, <3>2
  <2>9. TurnsInv'
    <3>1. /\ temp' # file' /\ temp' # None /\ Now' # Skills!Partial
          /\ q.read # Skills!Partial /\ q.prior # Skills!Partial
          /\ q.fd = temp' /\ q.at \in {"write", "unwrite"}
      BY <1>3, <2>3, <2>4, <2>6, <2>8, SkillAssumption
    <3>2. q.at = "write" => q.read = Now'
      BY <1>3, <2>4, <2>8
    <3>3. q.at # "swap" /\ q.at # "unswap"
      BY <3>1
    <3>4. QED BY <2>5, <2>7, <3>1, <3>2, <3>3, TurnsAfter
  <2>10. LogInv'
    BY <1>2, <1>4, <2>3, <2>4, <2>5, <2>8, LogStays DEF Recorders
  <2>11. QED BY <2>9, <2>10
<1>8. CASE Skills!WriteTmp(u)
  <2>1. PICK n : n = r.fd
    OBVIOUS
  <2>2. PICK q : q = [r EXCEPT !.fd = None, !.at = IF r.at = "write" THEN "swap" ELSE "unswap"]
    OBVIOUS
  <2>3. /\ Skills!Goes(u, q) /\ r.at \in {"write", "unwrite"} /\ n # None /\ UNCHANGED <<file, temp, fileLog, met, failures>>
        /\ inodes' = [inodes EXCEPT ![n] = IF n \in met THEN Skills!Partial ELSE Skills!NewContent(u)]
    BY <1>2, <1>8, <2>1, <2>2 DEF Skills!WriteTmp
  <2>4. /\ q.read = r.read /\ q.prior = r.prior /\ q.fd = None
        /\ q.at = IF r.at = "write" THEN "swap" ELSE "unswap"
    BY <1>2, <2>2 DEF Requested
  <2>5. /\ update'[u] = q
        /\ \A v \in Updates \ {u} : /\ update'[v] = update[v] /\ update[v].at \in Skills!Idle
                                   /\ update[v].fd = None
    BY <1>2, <2>3, <2>4, TurnTaken DEF Skills!Idle
  <2>6. n = temp /\ n \in DOMAIN inodes /\ n # file
    BY <1>0, <1>3, <2>1, <2>3
  <2>7. Now' = Now
    BY <1>0, <2>3, <2>6 DEF Now
  <2>8. inodes'[temp'] = IF r.at = "unwrite" THEN r.prior ELSE Append(r.read, u)
    BY <1>0, <1>2, <1>3, <2>3, <2>6 DEF Skills!NewContent
  <2>9. TurnsInv'
    <3>1. /\ temp' # file' /\ temp' # None /\ Now' # Skills!Partial /\ met' = {}
          /\ q.read # Skills!Partial /\ q.prior # Skills!Partial /\ q.fd = None
      BY <1>3, <2>3, <2>4, <2>6, <2>7, SkillAssumption
    <3>2. q.at \in {"write", "swap"} => q.at = "swap" /\ q.read = Now'
      BY <1>3, <2>4, <2>7
    <3>3. q.at = "swap" => inodes'[temp'] = Append(q.read, u)
      BY <2>3, <2>4, <2>8
    <3>4. q.at = "unswap" => inodes'[temp'] = q.prior
      BY <2>3, <2>4, <2>8
    <3>5. QED BY <2>5, <3>1, <3>2, <3>3, <3>4, TurnsAfter
  <2>10. LogInv'
    <3>1. Re(u) # {} => q.at \in Recorders \ {"commit"}
      BY <1>4, <2>3, <2>4 DEF Recorders
    <3>2. q.at \in Recorders => r.at \in Recorders /\ q.prior = Recorded(u) /\ q.at # "commit"
      BY <1>4, <2>3, <2>4 DEF Recorders
    <3>3. q.at \notin {"reverted", "undone"}
      BY <2>4
    <3>4. QED BY <1>2, <2>3, <2>5, <2>7, <3>1, <3>2, <3>3, LogStays
  <2>11. QED BY <2>9, <2>10
<1>9. CASE Skills!RenameTmp(u)
  <2>1. PICK q : q = [r EXCEPT !.at = IF r.at = "swap" THEN "commit" ELSE "undone"]
    OBVIOUS
  <2>2. /\ Skills!Goes(u, q) /\ r.at \in {"swap", "unswap"} /\ temp # None /\ file' = temp /\ temp' = None
        /\ fileLog' = Append(fileLog, <<IF r.at = "swap" THEN "apply" ELSE "revert", u>>)
        /\ UNCHANGED <<inodes, met, failures>>
    BY <1>2, <1>9, <2>1 DEF Skills!RenameTmp
  <2>3. /\ q.read = r.read /\ q.prior = r.prior /\ q.fd = r.fd
        /\ q.at = IF r.at = "swap" THEN "commit" ELSE "undone"
    BY <1>2, <2>1 DEF Requested
  <2>4. /\ update'[u] = q
        /\ \A v \in Updates \ {u} : /\ update'[v] = update[v] /\ update[v].at \in Skills!Idle
                                   /\ update[v].fd = None
    BY <1>2, <2>2, <2>3, TurnTaken DEF Skills!Idle
  <2>5. Now' = inodes[temp] /\ q.fd = None
    BY <1>3, <2>2, <2>3 DEF Now
  <2>6. r.read \in Seq(Updates) /\ r.prior \in Seq(Updates)
    BY <1>3 DEF Hunks
  <2>7. Now' # Skills!Partial /\ temp' # file'
    <3>1. Append(r.read, u) \in Seq(Updates)
      BY <2>6, HunkAdded
    <3>2. QED BY <1>3, <2>2, <2>5, <2>6, <3>1, PartialIsNoContent
  <2>8. TurnsInv'
    BY <1>3, <2>2, <2>3, <2>4, <2>5, <2>7, TurnsAfter
  <2>9. CASE r.at = "swap"
    <3>1. Now' = Append(Now, u) /\ q.at = "commit" /\ q.read = Now /\ Now \in Seq(Updates)
          /\ fileLog' = Append(fileLog, <<"apply", u>>)
      BY <1>3, <2>2, <2>3, <2>5, <2>6, <2>9
    <3>2. LogInv'
      BY <1>2, <2>4, <2>9, <3>1, AppliedIsLogged
    <3>3. QED BY <2>8, <3>2
  <2>10. CASE r.at = "unswap"
    <3>1. Now' = r.prior /\ q.at = "undone" /\ q.prior = r.prior
          /\ fileLog' = Append(fileLog, <<"revert", u>>)
      BY <1>3, <2>2, <2>3, <2>5, <2>10
    <3>2. LogInv'
      BY <1>2, <2>4, <2>10, <3>1, RevertedIsLogged
    <3>3. QED BY <2>8, <3>2
  <2>11. QED BY <2>2, <2>9, <2>10
<1>10. CASE Skills!RequestEnds(u)
  <2>1. PICK q : q = [r EXCEPT !.fd = None, !.at = IF r.at \in Skills!Reverting THEN "applied" ELSE "approved"]
    OBVIOUS
  <2>2. /\ Skills!Goes(u, q) /\ r.at \notin Skills!Idle /\ UNCHANGED <<inodes, file, temp, fileLog, met>>
    BY <1>2, <1>10, <2>1 DEF Skills!RequestEnds
  <2>3. /\ q.read = r.read /\ q.prior = r.prior /\ q.fd = None
        /\ q.at = IF r.at \in Skills!Reverting THEN "applied" ELSE "approved"
    BY <1>2, <2>1 DEF Requested
  <2>4. /\ update'[u] = q
        /\ \A v \in Updates \ {u} : /\ update'[v] = update[v] /\ update[v].at \in Skills!Idle
                                   /\ update[v].fd = None
    BY <1>2, <2>2, TurnTaken
  <2>5. Now' = Now
    BY <2>2 DEF Now
  <2>6. TurnsInv'
    BY <1>3, <2>2, <2>3, <2>4, <2>5, TurnsAfter
  <2>7. LogInv'
    <3>1. CASE r.at \in Skills!Reverting
      <4>1. q.at = "applied" /\ r.at \in Recorders /\ r.at # "commit" /\ q.prior = Recorded(u)
        BY <1>4, <2>3, <3>1 DEF Skills!Reverting, Recorders
      <4>2. q.at \in Recorders \ {"commit"} /\ q.at \notin {"reverted", "undone"}
        BY <4>1 DEF Recorders
      <4>3. QED BY <1>2, <2>2, <2>4, <2>5, <4>1, <4>2, LogStays
    <3>2. CASE r.at \notin Skills!Reverting
      <4>1. q.at \notin Recorders /\ q.at \notin {"reverted", "undone"}
        BY <2>3, <3>2 DEF Recorders
      <4>2. Re(u) = {}
        BY <1>3, <1>4, <2>2, <3>2 DEF Recorders, Skills!Reverting, Skills!Idle
      <4>3. QED BY <1>2, <2>2, <2>4, <2>5, <4>1, <4>2, LogStays
    <3>3. QED BY <3>1, <3>2
  <2>8. QED BY <2>6, <2>7
<1>11. QED BY <1>1, <1>5, <1>6, <1>7, <1>8, <1>9, <1>10

\* Wherever requests took turns.
SkillInv == SkillTypes /\ LengthInv /\ (~collided => TurnsInv /\ LogInv)

LEMMA SkillInit == Skills!Init => SkillInv
<1> SUFFICES ASSUME Skills!Init PROVE SkillInv
  OBVIOUS
<1>1. SkillTypes
  BY SkillTypesInit
<1>2. /\ inodes = <<(<<>>)>> /\ file = 1 /\ temp = None /\ fileLog = <<>> /\ met = {}
      /\ \A u \in Updates : update[u] = [at |-> "approved", read |-> <<>>, prior |-> <<>>, fd |-> None]
  BY DEF Skills!Init
<1>3. Now = <<>> /\ DOMAIN inodes = {1} /\ inodes[1] = <<>>
  BY <1>2 DEF Now
<1>4. LengthInv
  <2>1. Room \in Nat /\ Len(<<>>) = 0
    BY <1>1, RoomIsFinite
  <2>2. \A i \in DOMAIN inodes : Len(inodes[i]) <= Room
    BY <1>3, <2>1
  <2>3. \A u \in Updates : /\ update[u].read = <<>> /\ update[u].prior = <<>> /\ update[u].at # "write"
    BY <1>2
  <2>4. 0 + 0 <= Room /\ 0 <= Room
    BY <2>1
  <2>5. QED BY <2>1, <2>2, <2>3, <2>4 DEF LengthInv
<1>5. TurnsInv
  BY <1>2, <1>3, PartialIsNoContent, SkillAssumption DEF TurnsInv, Skills!Idle
<1>6. LogInv
  <2>1. (\A x : ~Has(Now, x)) /\ \A u \in Updates : Ap(u) = {} /\ Re(u) = {}
    BY <1>2, <1>3 DEF Has, Ap, Re, Skills!Applies, Skills!Reverts
  <2>2. QED BY <1>2, <2>1 DEF LogInv, Recorders
<1>7. QED BY <1>1, <1>4, <1>5, <1>6 DEF SkillInv

LEMMA SkillStep == SkillInv /\ Skills!Next => SkillInv'
<1> SUFFICES ASSUME SkillInv, Skills!Next PROVE SkillInv'
  OBVIOUS
<1>1. SkillTypes' /\ LengthInv'
  BY SkillTypesStep, LengthStep DEF SkillInv
<1>2. ~collided' => ~collided
  BY DEF Skills!Next, Skills!ReadPrior, Skills!BeginRevert, Skills!OpenTmp, Skills!WriteTmp, Skills!RenameTmp,
     Skills!CommitApply, Skills!RevertDone, Skills!RequestEnds, Skills!Goes
<1>3. QED BY <1>1, <1>2, TurnStep DEF SkillInv

LEMMA SkillStays == SkillInv /\ UNCHANGED skillVars => SkillInv'
<1> SUFFICES ASSUME SkillInv, UNCHANGED skillVars PROVE SkillInv'
  OBVIOUS
<1>1. UNCHANGED <<inodes, file, temp, update, fileLog, met, collided, failures>>
  BY DEF skillVars
<1>2. SkillTypes' /\ LengthInv' /\ (TurnsInv => TurnsInv')
  BY <1>1 DEF SkillInv, SkillTypes, LengthInv, Room, Begun, TurnsInv, Now
<1>3. /\ Now' = Now
      /\ \A w \in Updates : /\ Ap(w)' = Ap(w) /\ Re(w)' = Re(w) /\ Recorded(w)' = Recorded(w)
  BY <1>1 DEF Now, Ap, Re, Skills!Applies, Skills!Reverts, Recorded
<1>4. \A w \in Updates : (Ousted(w)' <=> Ousted(w)) /\ (Back(w)' <=> Back(w)) /\ (Once(w)' <=> Once(w))
  BY <1>3 DEF Ousted, Back, Once
<1>5. LogInv => LogInv'
  BY <1>1, <1>3, <1>4 DEF LogInv, Has
<1>6. QED BY <1>1, <1>2, <1>5 DEF SkillInv

LEMMA SkillsAreWhole == SkillInv => Skills!TypeOK /\ Skills!SkillsHold
<1> SUFFICES ASSUME SkillInv PROVE Skills!TypeOK /\ Skills!SkillsHold
  OBVIOUS
<1>1. Skills!TypeOK
  BY SkillTypesHold DEF SkillInv
<1>2. Skills!CutShortByCollision
  BY DEF SkillInv, TurnsInv, Now, Skills!CutShortByCollision, SkillTypes
<1>3. Skills!HunksFollowReverts
  <2>1. SUFFICES ASSUME ~collided, NEW u \in Updates
                 PROVE  /\ update[u].at = "applied" /\ ~Skills!InFile(u) =>
                             \E v \in Updates : \E i \in Skills!Applies(v), j \in Skills!Reverts(v) :
                               /\ \E k \in Skills!Applies(u) : i <= k
                               /\ \A k \in Skills!Applies(u) : k < j
                        /\ update[u].at = "reverted" /\ Skills!InFile(u) =>
                             \/ Skills!Cardinality(Skills!Applies(u)) > 1
                             \/ \E v \in Updates \ {u} : \E i \in Skills!Applies(v), j \in Skills!Reverts(v) :
                                  /\ \E k \in Skills!Applies(u) : k < i
                                  /\ \E r \in Skills!Reverts(u) : r < j
    BY DEF Skills!HunksFollowReverts
  <2>2. LogInv /\ (Skills!InFile(u) <=> Has(Now, u)) /\ Skills!Applies(u) = Ap(u) /\ Skills!Reverts(u) = Re(u)
    BY <2>1 DEF SkillInv, Skills!InFile, Has, Now, Ap, Re
  <2>3. ASSUME update[u].at = "applied", ~Has(Now, u) PROVE Ousted(u)
    <3>1. Ap(u) # {}
      BY <2>2, <2>3 DEF LogInv, Recorders
    <3>2. QED BY <2>2, <2>3, <3>1 DEF LogInv
  <2>4. ASSUME update[u].at = "reverted", Has(Now, u) PROVE Skills!Cardinality(Ap(u)) > 1 \/ Back(u)
    <3>1. CASE Once(u)
      BY <2>2, <2>4, <3>1 DEF LogInv
    <3>2. CASE ~Once(u)
      <4>1. PICK k, l \in Ap(u) : k # l
        BY <3>2 DEF Once
      <4>2. IsFiniteSet(Ap(u))
        <5>1. Ap(u) \subseteq 1 .. Len(fileLog) /\ Len(fileLog) \in Nat
          BY DEF Ap, Skills!Applies, SkillInv, SkillTypes
        <5>2. PICK n \in Nat : n = Len(fileLog)
          BY <5>1
        <5>3. IsFiniteSet(1 .. n)
          BY FS_Interval
        <5>4. Ap(u) \subseteq 1 .. n
          BY <5>1, <5>2
        <5>5. QED BY <5>3, <5>4, FS_Subset
      <4>3. PICK A : A = Ap(u)
        OBVIOUS
      <4>4. Cardinality({k, l}) = 2 /\ {k, l} \subseteq A
        <5>1. IsFiniteSet({k}) /\ Cardinality({k}) = 1
          BY FS_Singleton
        <5>2. {k, l} = {k} \cup {l} /\ l \notin {k}
          BY <4>1
        <5>3. Cardinality({k} \cup {l}) = Cardinality({k}) + 1
          BY <5>1, <5>2, FS_AddElement
        <5>4. QED BY <4>1, <4>3, <5>1, <5>2, <5>3
      <4>5. Cardinality(A) \in Nat /\ Cardinality({k, l}) <= Cardinality(A)
        BY <4>2, <4>3, <4>4, FS_Subset, FS_CardinalityType
      <4>6. Cardinality(A) > 1
        BY <4>4, <4>5
      <4>7. Skills!Cardinality(A) = Cardinality(A)
        BY DEF Skills!Cardinality, Cardinality
      <4>8. QED BY <4>3, <4>6, <4>7
    <3>3. QED BY <3>1, <3>2
  <2>5. QED BY <2>2, <2>3, <2>4 DEF Ousted, Back, Ap, Re
<1>4. QED BY <1>1, <1>2, <1>3 DEF Skills!SkillsHold

-----------------------------------------------------------------------------
(* A case of a shadow run.                                                 *)

Files == {Null, 0, 2}
Typed(kb) ==
    /\ kb.chunks \subseteq ChunkIds /\ kb.nodes \in Shadow!Branches
    /\ kb.tags \subseteq kb.chunks \X kb.nodes

\* What PassedIsWhatApplies says of the result `r` of a case.
Agrees(c, kb, fl, r) ==
    Shadow!Passes(c, r) =>
        LET applied == Shadow!Apply(c, kb, fl)
            many == c.kind = "merge" /\ Shadow!Cardinality(c.ids) > 2
        IN /\ c.expected = "noop" => applied.kb = kb /\ applied.skills = fl
           /\ c.expected = "merged" /\ ~many =>
                applied.status = "done" /\ applied.kb = r.kb /\ applied.skills = r.skills

LEMMA KindsOfCase ==
    ASSUME NEW c \in Shadow!Cases
    PROVE  /\ c.kind \in {"merge", "delete", "tag", "skill"} /\ c.expected \in {"merged", "noop"}
           /\ c.kind = "merge" => c.ids \subseteq ChunkIds
           /\ c.kind = "delete" => c.expected = "noop"
           /\ c.kind = "tag" => c.node \in {1, 2, 3}
           /\ c.kind = "skill" => c.lines \in {Null, 0, 1}
BY DEF Shadow!Cases

LEMMA BoxesAreTyped == ASSUME NEW kb \in Shadow!Boxes PROVE Typed(kb) /\ kb = [chunks |-> kb.chunks, nodes |-> kb.nodes, tags |-> kb.tags]
<1>1. PICK cs \in SUBSET ChunkIds, ns \in Shadow!Branches :
        kb \in [chunks : {cs}, nodes : {ns}, tags : SUBSET (cs \X ns)]
  <2>1. PICK B \in {[chunks : {cs}, nodes : {ns}, tags : SUBSET (cs \X ns)] :
                     cs \in SUBSET ChunkIds, ns \in Shadow!Branches} : kb \in B
    BY DEF Shadow!Boxes
  <2>2. \E cs \in SUBSET ChunkIds, ns \in Shadow!Branches :
          B = [chunks : {cs}, nodes : {ns}, tags : SUBSET (cs \X ns)]
    BY <2>1
  <2>3. QED BY <2>1, <2>2
<1>2. kb.chunks = cs /\ kb.nodes = ns /\ kb.tags \subseteq cs \X ns
  BY <1>1
<1>3. kb = [chunks |-> kb.chunks, nodes |-> kb.nodes, tags |-> kb.tags]
  BY <1>1
<1>4. QED BY <1>2, <1>3 DEF Typed

LEMMA WithoutChunksIsTyped ==
    ASSUME NEW kb \in Shadow!Boxes, NEW gone
    PROVE  Typed(Shadow!WithoutChunks(kb, gone))
<1>1. PICK cs, ns, ts : /\ kb = [chunks |-> cs, nodes |-> ns, tags |-> ts]
                        /\ cs \subseteq ChunkIds /\ ns \in Shadow!Branches /\ ts \subseteq cs \X ns
  BY BoxesAreTyped DEF Typed
<1> DEFINE w == Shadow!WithoutChunks(kb, gone)
<1>2. w.chunks = cs \ gone /\ w.nodes = ns /\ w.tags = {t \in ts : t[1] \notin gone}
  <2>1. PICK left, rows : left = cs \ gone /\ rows = {t \in ts : t[1] \notin gone}
    OBVIOUS
  <2>2. kb.chunks = cs /\ kb.tags = ts
    BY <1>1
  <2>3. w = [kb EXCEPT !.chunks = left, !.tags = rows]
    BY <2>1, <2>2, Zenon DEF Shadow!WithoutChunks
  <2>4. PICK v : v = [kb EXCEPT !.chunks = left, !.tags = rows]
    OBVIOUS
  <2>5. v.chunks = left /\ v.nodes = ns /\ v.tags = rows
    BY <1>1, <2>4
  <2>6. QED BY <2>1, <2>3, <2>4, <2>5, Zenon
<1>3. {t \in ts : t[1] \notin gone} \subseteq (cs \ gone) \X ns
  BY <1>1
<1>4. QED BY <1>1, <1>2, <1>3 DEF Typed

\* Two chunks are the smaller and the larger one.
LEMMA TheOtherOfTwo ==
    ASSUME NEW ids \in SUBSET ChunkIds, Cardinality(ids) = 2
    PROVE  ids \ {Shadow!Min(ids)} = {Shadow!Max(ids)}
<1>1. IsFiniteSet(ids) /\ ids # {}
  <2>1. IsFiniteSet(ids)
    BY ChunkAssumption, FS_Subset
  <2>2. ids # {}
    BY FS_EmptySet
  <2>3. QED BY <2>1, <2>2
<1>2. PICK a : a \in ids
  BY <1>1
<1>3. IsFiniteSet(ids \ {a}) /\ Cardinality(ids \ {a}) = 1
  BY <1>1, <1>2, FS_RemoveElement
<1>4. PICK b : ids \ {a} = {b}
  BY <1>3, FS_Singleton
<1>5. ids = {a, b} /\ a # b /\ a \in Int /\ b \in Int
  BY <1>2, <1>4, ChunkAssumption
<1>6. PICK x, y \in Int : ids = {x, y} /\ x < y
  BY <1>5
<1>7. Shadow!Min(ids) = x
  <2>1. \A z : z \in ids /\ (\A w \in ids : z <= w) <=> z = x
    BY <1>6
  <2>2. QED BY <2>1 DEF Shadow!Min
<1>8. Shadow!Max(ids) = y
  <2>1. \A z : z \in ids /\ (\A w \in ids : z >= w) <=> z = y
    BY <1>6
  <2>2. QED BY <2>1 DEF Shadow!Max
<1>9. QED BY <1>6, <1>7, <1>8

LEMMA MergesAgree ==
    ASSUME NEW c \in Shadow!Cases, c.kind = "merge", NEW kb \in Shadow!Boxes, NEW fl \in Files,
           NEW r, r = Shadow!Simulate(c, kb, fl)
    PROVE  Typed(r.kb) /\ Agrees(c, kb, fl, r)
<1>1. r = Shadow!SimulateMerge(kb, fl, c.ids) /\ Shadow!Apply(c, kb, fl) = Shadow!ApplyMerge(kb, fl, c.ids)
  BY DEF Shadow!Simulate, Shadow!Apply
<1>2. PICK ids \in SUBSET ChunkIds : ids = c.ids
  BY KindsOfCase
<1>3. PICK n \in Nat : n = Cardinality(ids) /\ n = Shadow!Cardinality(ids)
  <2>1. Cardinality(ids) \in Nat
    BY ChunkAssumption, FS_Subset, FS_CardinalityType
  <2>2. Shadow!Cardinality(ids) = Cardinality(ids)
    BY DEF Shadow!Cardinality, Cardinality
  <2>3. QED BY <2>1, <2>2
<1>4. Typed(r.kb)
  BY <1>1, WithoutChunksIsTyped, BoxesAreTyped DEF Shadow!SimulateMerge, Shadow!Result
<1>5. CASE n < 2
  <2>1. r.status = "error"
    BY <1>1, <1>2, <1>3, <1>5 DEF Shadow!SimulateMerge, Shadow!Result
  <2>2. QED BY <1>4, <2>1 DEF Agrees, Shadow!Passes
<1>6. CASE n >= 2 /\ ~(ids \subseteq kb.chunks)
  <2>1. r.status = "noop" /\ r.count = 0
    BY <1>1, <1>2, <1>3, <1>6 DEF Shadow!SimulateMerge, Shadow!Result
  <2>2. Shadow!Apply(c, kb, fl).kb = kb /\ Shadow!Apply(c, kb, fl).skills = fl
    BY <1>1, <1>2, <1>6 DEF Shadow!ApplyMerge, Shadow!Refused, Shadow!Result
  <2>3. Shadow!Passes(c, r) => c.expected = "noop"
    BY <2>1, KindsOfCase DEF Shadow!Passes
  <2>4. QED BY <1>4, <2>2, <2>3 DEF Agrees
<1>7. CASE n >= 2 /\ ids \subseteq kb.chunks
  <2>1. r = [status |-> "done", kb |-> Shadow!WithoutChunks(kb, ids \ {Shadow!Min(ids)}), skills |-> fl, count |-> n - 1]
    BY <1>1, <1>2, <1>3, <1>7 DEF Shadow!SimulateMerge, Shadow!Result
  <2>2. Shadow!Passes(c, r) => c.expected = "merged"
    BY <1>7, <2>1, KindsOfCase DEF Shadow!Passes
  <2>3. ASSUME n = 2 PROVE LET applied == Shadow!Apply(c, kb, fl) IN
                             applied.status = "done" /\ applied.kb = r.kb /\ applied.skills = r.skills
    <3>1. Shadow!Apply(c, kb, fl) =
            [status |-> "done", kb |-> Shadow!WithoutChunks(kb, {Shadow!Max(ids)}), skills |-> fl, count |-> 1]
      BY <1>1, <1>2, <1>3, <1>7, <2>3 DEF Shadow!ApplyMerge, Shadow!Result
    <3>2. ids \ {Shadow!Min(ids)} = {Shadow!Max(ids)}
      BY <1>3, <2>3, TheOtherOfTwo
    <3>3. QED BY <2>1, <3>1, <3>2
  <2>4. ~(Shadow!Cardinality(c.ids) > 2) => n = 2
    BY <1>2, <1>3, <1>7
  <2>5. QED BY <1>4, <2>2, <2>3, <2>4 DEF Agrees
<1>8. QED BY <1>5, <1>6, <1>7

\* Of the rows of the node, those that its parent does not have go to the parent.
LEMMA TagsAgree ==
    ASSUME NEW c \in Shadow!Cases, c.kind = "tag", NEW kb \in Shadow!Boxes, NEW fl \in Files,
           NEW r, r = Shadow!Simulate(c, kb, fl)
    PROVE  Typed(r.kb) /\ Agrees(c, kb, fl, r)
<1>1. PICK n \in {1, 2, 3} : n = c.node
  BY KindsOfCase
<1>2. r = Shadow!SimulateTag(kb, fl, n) /\ Shadow!Apply(c, kb, fl) = Shadow!ApplyTag(kb, fl, n)
  BY <1>1 DEF Shadow!Simulate, Shadow!Apply
<1>3. CASE n \notin kb.nodes \/ Shadow!Above[n] = Null
  <2>1. r.kb = kb /\ r.skills = fl /\ r.count = 0 /\ r.status \in {"root", "noop"}
    BY <1>2, <1>3 DEF Shadow!SimulateTag, Shadow!Result
  <2>2. Shadow!Apply(c, kb, fl).kb = kb /\ Shadow!Apply(c, kb, fl).skills = fl
    BY <1>2, <1>3 DEF Shadow!ApplyTag, Shadow!Refused, Shadow!Result
  <2>3. Shadow!Passes(c, r) => c.expected = "noop"
    BY <2>1, KindsOfCase DEF Shadow!Passes
  <2>4. QED BY <2>1, <2>2, <2>3, BoxesAreTyped DEF Agrees
<1>4. CASE n \in kb.nodes /\ Shadow!Above[n] # Null
  <2>0. PICK up : up = Shadow!Above[n]
    OBVIOUS
  <2> DEFINE moved == Shadow!Moved(kb, n)
             kept == {t \in kb.tags : t[2] # n} \cup {<<t[1], up>> : t \in moved}
             cleared == {t \in kb.tags : t[2] = n => <<t[1], up>> \notin kb.tags}
             mapped == {IF t[2] = n THEN <<t[1], up>> ELSE t : t \in cleared}
             gone == {m \in kb.nodes : m >= n}
             result == Shadow!WithoutNode([kb EXCEPT !.tags = kept], n)
  <2>1. r = [status |-> "done", kb |-> result, skills |-> fl, count |-> Shadow!Cardinality(moved)]
    BY <1>2, <1>4, <2>0 DEF Shadow!SimulateTag, Shadow!Result
  <2>2. Shadow!Apply(c, kb, fl) =
          [status |-> "done", kb |-> Shadow!WithoutNode([kb EXCEPT !.tags = mapped], n), skills |-> fl,
           count |-> Shadow!Cardinality({t \in kb.tags : t[2] = n})]
    BY <1>2, <1>4, <2>0 DEF Shadow!ApplyTag, Shadow!Result
  <2>3. kept = mapped
    BY <2>0 DEF Shadow!Moved
  <2>4. Shadow!Passes(c, r) => c.expected = "merged"
    BY <2>1, KindsOfCase DEF Shadow!Passes
  <2>5. Typed(r.kb)
    <3>1. PICK cs, ns, ts : /\ kb = [chunks |-> cs, nodes |-> ns, tags |-> ts]
                            /\ cs \subseteq ChunkIds /\ ns \in Shadow!Branches /\ ts \subseteq cs \X ns
      BY BoxesAreTyped DEF Typed
    <3>2. result.chunks = cs /\ result.nodes = ns \ gone /\ result.tags = {t \in kept : t[2] \notin gone}
      <4>1. PICK left, rows : left = ns \ gone /\ rows = {t \in kept : t[2] \notin gone}
        OBVIOUS
      <4>2. PICK all : all = kept
        OBVIOUS
      <4>3. PICK given : given = [kb EXCEPT !.tags = all]
        OBVIOUS
      <4>4. given = [chunks |-> cs, nodes |-> ns, tags |-> all] /\ kb.nodes = ns
        BY <3>1, <4>3
      <4>5. given.nodes = kb.nodes /\ given.tags = kept /\ given.nodes = ns
        BY <4>2, <4>4
      <4>6. result = [given EXCEPT !.nodes = left, !.tags = rows]
        <5>1. result = [given EXCEPT !.nodes = given.nodes \ {m \in given.nodes : m >= n},
                                     !.tags = {t \in given.tags : t[2] \notin {m \in given.nodes : m >= n}}]
          BY <4>2, <4>3, Zenon DEF Shadow!WithoutNode
        <5>2. QED BY <4>1, <4>5, <5>1, Zenon
      <4>7. PICK w : w = [given EXCEPT !.nodes = left, !.tags = rows]
        OBVIOUS
      <4>8. w.chunks = cs /\ w.nodes = left /\ w.tags = rows
        BY <4>4, <4>7
      <4>9. QED BY <4>1, <4>6, <4>7, <4>8, Zenon
    <3>3. up \in ns /\ ns \ gone \in Shadow!Branches
      <4>1. n \in ns /\ n \in {2, 3} /\ up = n - 1
        BY <1>4, <2>0, <3>1 DEF Shadow!Above
      <4>2. ns \ gone = {m \in ns : ~(m >= n)}
        BY <3>1
      <4>3. CASE n = 2
        <5>1. ns \ gone = {1} /\ up = 1
          BY <3>1, <4>1, <4>2, <4>3 DEF Shadow!Branches
        <5>2. 1 \in ns
          BY <3>1, <4>1, <4>3 DEF Shadow!Branches
        <5>3. QED BY <5>1, <5>2 DEF Shadow!Branches
      <4>4. CASE n = 3
        <5>1. ns = {1, 2, 3}
          BY <3>1, <4>1, <4>4 DEF Shadow!Branches
        <5>2. ns \ gone = {1, 2} /\ up = 2
          BY <4>1, <4>2, <4>4, <5>1
        <5>3. QED BY <5>1, <5>2 DEF Shadow!Branches
      <4>5. QED BY <4>1, <4>3, <4>4
    <3>4. kept \subseteq cs \X ns
      <4>1. \A t \in ts : t[1] \in cs /\ t[2] \in ns /\ t = <<t[1], t[2]>>
        BY <3>1
      <4>2. \A t \in moved : t \in ts
        BY <3>1 DEF Shadow!Moved
      <4>3. \A t \in moved : <<t[1], up>> \in cs \X ns
        BY <3>3, <4>1, <4>2
      <4>4. {t \in kb.tags : t[2] # n} \subseteq cs \X ns
        BY <3>1
      <4>5. QED BY <4>3, <4>4
    <3>5. {t \in kept : t[2] \notin gone} \subseteq cs \X (ns \ gone)
      BY <3>4
    <3>6. r.kb = result
      BY <2>1
    <3>7. result.tags \subseteq result.chunks \X result.nodes
      BY <3>2, <3>5, Zenon
    <3>8. result.chunks \subseteq ChunkIds /\ result.nodes \in Shadow!Branches
      BY <3>1, <3>2, <3>3, Zenon
    <3>9. QED BY <3>6, <3>7, <3>8, Zenon DEF Typed
  <2>6. LET applied == Shadow!Apply(c, kb, fl) IN
          applied.status = "done" /\ applied.kb = r.kb /\ applied.skills = r.skills
    <3> HIDE DEF kept, mapped
    <3>1. QED BY <2>1, <2>2, <2>3
  <2>7. QED BY <2>4, <2>5, <2>6 DEF Agrees
<1>5. QED BY <1>3, <1>4

LEMMA CasesAgree ==
    ASSUME NEW c \in Shadow!Cases, NEW kb \in Shadow!Boxes, NEW fl \in Files,
           NEW r, r = Shadow!Simulate(c, kb, fl)
    PROVE  Typed(r.kb) /\ Agrees(c, kb, fl, r)
<1>1. CASE c.kind = "delete"
  <2>1. r.status = "error" /\ r.kb = kb
    BY <1>1 DEF Shadow!Simulate, Shadow!Result
  <2>2. QED BY <2>1, BoxesAreTyped DEF Agrees, Shadow!Passes
<1>2. CASE c.kind = "skill"
  <2>1. /\ r = Shadow!SimulateSkill(kb, fl, c.lines) /\ c.lines \in {Null, 0, 1}
        /\ Shadow!Apply(c, kb, fl) = IF fl = Null \/ c.lines = Null THEN Shadow!Refused(kb, fl)
                                     ELSE Shadow!Result("done", kb, fl + c.lines, c.lines)
    BY <1>2, KindsOfCase DEF Shadow!Simulate, Shadow!Apply
  <2>2. r.kb = kb
    BY <2>1 DEF Shadow!SimulateSkill, Shadow!Result
  <2>3. CASE fl = Null \/ c.lines = Null
    <3>1. r.status = "noop" /\ Shadow!Apply(c, kb, fl).kb = kb /\ Shadow!Apply(c, kb, fl).skills = fl
      BY <2>1, <2>3 DEF Shadow!SimulateSkill, Shadow!Result, Shadow!Refused
    <3>2. Shadow!Passes(c, r) => c.expected = "noop"
      BY <1>2, <3>1, KindsOfCase DEF Shadow!Passes
    <3>3. QED BY <2>2, <3>1, <3>2, BoxesAreTyped DEF Agrees
  <2>4. CASE fl # Null /\ c.lines # Null
    <3>1. /\ r = [status |-> "done", kb |-> kb, skills |-> fl + c.lines, count |-> c.lines]
          /\ Shadow!Apply(c, kb, fl) = r
      BY <2>1, <2>4 DEF Shadow!SimulateSkill, Shadow!Result
    <3>2. fl \in Int /\ c.lines \in Int
      BY <2>1, <2>4 DEF Files
    <3>3. Shadow!Passes(c, r) /\ c.expected = "noop" => c.lines = 0
      BY <1>2, <3>1 DEF Shadow!Passes
    <3>4. c.lines = 0 => fl + c.lines = fl
      BY <3>2
    <3>5. QED BY <2>2, <3>1, <3>3, <3>4, BoxesAreTyped DEF Agrees
  <2>5. QED BY <2>3, <2>4
<1>3. QED BY <1>1, <1>2, MergesAgree, TagsAgree, KindsOfCase

ShadowInv ==
    /\ case \in Shadow!Cases /\ before[1] \in Shadow!Boxes /\ before[2] \in Files
    /\ Shadow!TypeOK /\ Shadow!PassedIsWhatApplies
    /\ runner # "over" => before = <<box, seeded>>

LEMMA ShadowInit == Shadow!Init => ShadowInv
<1> SUFFICES ASSUME Shadow!Init PROVE ShadowInv
  OBVIOUS
<1>1. /\ case \in Shadow!Cases /\ box \in Shadow!Boxes /\ seeded \in Files
      /\ before = <<box, seeded>> /\ runner = "materialize"
  BY DEF Shadow!Init, Files
<1>2. Typed(box)
  BY <1>1, BoxesAreTyped
<1>3. QED BY <1>1, <1>2 DEF ShadowInv, Shadow!TypeOK, Shadow!PassedIsWhatApplies, Typed

LEMMA ShadowStep == ShadowInv /\ Shadow!Next => ShadowInv'
<1> SUFFICES ASSUME ShadowInv, Shadow!Next PROVE ShadowInv'
  OBVIOUS
<1>1. /\ case \in Shadow!Cases /\ before[1] \in Shadow!Boxes /\ before[2] \in Files
      /\ Shadow!TypeOK /\ (runner # "over" => before = <<box, seeded>>)
  BY DEF ShadowInv
<1>2. UNCHANGED <<case, before>>
  BY DEF Shadow!Next, Shadow!Materialize, Shadow!Seed, Shadow!RunSimulator, Shadow!SimulatorFails
<1>3. CASE Shadow!RunSimulator
  <2>1. PICK r : r = Shadow!Simulate(case, before[1], before[2])
    OBVIOUS
  <2>2. before[1] = box /\ before[2] = seeded
    BY <1>1, <1>3 DEF Shadow!RunSimulator
  <2>3. /\ box' = r.kb /\ seeded' = r.skills /\ runner' = "over"
        /\ output' = [passed |-> Shadow!Passes(case, r), result |-> r]
    BY <1>3, <2>1, <2>2 DEF Shadow!RunSimulator
  <2>4. Typed(r.kb) /\ Agrees(case, before[1], before[2], r)
    BY <1>1, <2>1, CasesAgree
  <2>5. Shadow!TypeOK'
    BY <2>3, <2>4 DEF Typed, Shadow!TypeOK
  <2>6. Shadow!PassedIsWhatApplies'
    <3>1. output'.passed <=> Shadow!Passes(case, r)
      BY <2>3
    <3>2. QED BY <1>2, <2>3, <2>4, <3>1 DEF Shadow!PassedIsWhatApplies, Agrees
  <2>7. QED BY <1>1, <1>2, <2>3, <2>5, <2>6 DEF ShadowInv
<1>4. CASE Shadow!Materialize \/ Shadow!Seed \/ Shadow!SimulatorFails
  <2>1. /\ UNCHANGED <<box, seeded>> /\ runner # "over" /\ runner' \in {"seed", "simulate", "over"}
        /\ runner' = "over" => output' = [passed |-> FALSE, result |-> Null]
    BY <1>4 DEF Shadow!Materialize, Shadow!Seed, Shadow!SimulatorFails, Shadow!Fails
  <2>2. Shadow!TypeOK'
    BY <1>1, <2>1 DEF Shadow!TypeOK
  <2>3. Shadow!PassedIsWhatApplies'
    <3>1. ~(runner' = "over" /\ output'.passed)
      BY <2>1
    <3>2. QED BY <3>1 DEF Shadow!PassedIsWhatApplies
  <2>4. QED BY <1>1, <1>2, <2>1, <2>2, <2>3 DEF ShadowInv
<1>5. QED BY <1>3, <1>4 DEF Shadow!Next

LEMMA ShadowStays == ShadowInv /\ UNCHANGED shadowVars => ShadowInv'
<1> SUFFICES ASSUME ShadowInv, UNCHANGED shadowVars PROVE ShadowInv'
  OBVIOUS
<1>1. UNCHANGED <<case, box, seeded, before, runner, output>>
  BY DEF shadowVars
<1>2. QED BY <1>1 DEF ShadowInv, Shadow!TypeOK, Shadow!PassedIsWhatApplies

-----------------------------------------------------------------------------
\* Where requests on skill updates take turns, the file holds the hunk of each applied
\* update and of no reverted one, but for what a revert took along or brought back, and it
\* is cut short only where two met (apply_skill_update, revert_skill_update); a case that
\* passed in the shadow says what the applier does with the same data (simulator.rs).
THEOREM ChangesAreKept == MCSpec => []ChangesHold
<1>1. MCInit => SkillInv /\ ShadowInv
  BY SkillInit, ShadowInit DEF MCInit
<1>2. SkillInv /\ ShadowInv /\ [MCNext]_<<machine, vars, tagVars, skillVars, shadowVars>> => SkillInv' /\ ShadowInv'
  <2>1. SUFFICES ASSUME SkillInv, ShadowInv, [MCNext]_<<machine, vars, tagVars, skillVars, shadowVars>>
                 PROVE  SkillInv' /\ ShadowInv'
    OBVIOUS
  <2>2. /\ Skills!Next \/ UNCHANGED skillVars
        /\ Shadow!Next \/ UNCHANGED shadowVars
    BY <2>1 DEF MCNext, Runs
  <2>3. QED BY <2>1, <2>2, SkillStep, SkillStays, ShadowStep, ShadowStays
<1>3. SkillInv /\ ShadowInv => ChangesHold
  BY SkillsAreWhole DEF ChangesHold, ShadowInv
<1>4. QED BY <1>1, <1>2, <1>3, PTL DEF MCSpec
=============================================================================
