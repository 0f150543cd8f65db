------------------------------ MODULE BulkProofs ------------------------------
(***************************************************************************)
(* Theorems about Bulk for every number of selected VMs and of jobs.       *)
(***************************************************************************)
EXTENDS Bulk, FiniteSetTheorems, TLAPS

\* A worker is at work on exactly one claimed VM; VMs are claimed in order, so the
\* counter splits them into those accounted for and those nobody has touched.
Claims == \A w \in Worker : /\ Working(w) => index[w] \in Index /\ index[w] < next
                            /\ pc[w] = "store" => result[w] \in Result
                            /\ pc[w] = "exited" => N < next
NoneSkipped == \A i \in Index : i < next =>
                  rows[i] # None \/ \E w \in Worker : Working(w) /\ index[w] = i
RowsClaimed == \A i \in Index : rows[i] # None => i < next /\ rows[i].vm = i
ExitLast == exit # None => \A w \in Worker : pc[w] = "exited"

Inv == TypeOK /\ Claims /\ NoneSkipped /\ RowsClaimed /\ EachVmOnce /\ ExitLast

\* What the assumptions say of the two numbers.
LEMMA Numbers == N \in Nat /\ Jobs \in Nat /\ Jobs >= 1
BY BulkAssumption

\* A row is never Option::None.
LEMMA RowIsSome == \A i \in Index, r \in Result :
    [vm |-> i, result |-> r] \in Row /\ [vm |-> i, result |-> r] # None
<1>1. None \notin Row
  BY BulkAssumption DEF Row, Index, Result
<1> QED BY <1>1 DEF Row

\* Before the first claim.
LEMMA InitInv == Init => Inv
BY Numbers DEF Init, Inv, TypeOK, Claims, NoneSkipped, RowsClaimed, EachVmOnce, ExitLast, Working,
   Index

\* The counter, the workers and the rows stay consistent in every step.
LEMMA NextInv == Inv /\ [Next]_vars => Inv'
<1> SUFFICES ASSUME Inv, [Next]_vars PROVE Inv'
  OBVIOUS
<1> USE Numbers DEF Inv
<1>1. ASSUME NEW w \in Worker, Claim(w) PROVE Inv'
  <2>1. CASE next < N
    <3>0. /\ pc' = [pc EXCEPT ![w] = "run"] /\ index' = [index EXCEPT ![w] = next]
          /\ next' = next + 1 /\ UNCHANGED <<rows, result, exit>>
          /\ pc[w] = "claim" /\ next \in Index
      BY <1>1, <2>1 DEF Claim, TypeOK, Index
    <3>1. TypeOK'
      BY <3>0 DEF TypeOK
    <3>2. Claims' /\ ExitLast'
      BY <3>0 DEF Claims, ExitLast, TypeOK, Working, Index
    <3>3. NoneSkipped' /\ RowsClaimed'
      BY <3>0 DEF NoneSkipped, RowsClaimed, TypeOK, Working, Index
    <3>4. EachVmOnce'
      BY <3>0 DEF EachVmOnce, RowsClaimed, Claims, TypeOK, Working, Index
    <3> QED BY <3>1, <3>2, <3>3, <3>4
  <2>2. CASE next >= N
    <3>0. /\ pc' = [pc EXCEPT ![w] = "exited"] /\ next' = next + 1
          /\ UNCHANGED <<rows, index, result, exit>> /\ pc[w] = "claim"
      BY <1>1, <2>2 DEF Claim, TypeOK
    <3>1. TypeOK'
      BY <3>0 DEF TypeOK
    <3>2. Claims' /\ ExitLast'
      BY <3>0, <2>2 DEF Claims, ExitLast, TypeOK, Working, Index
    <3>3. NoneSkipped' /\ RowsClaimed'
      BY <3>0, <2>2 DEF NoneSkipped, RowsClaimed, TypeOK, Working, Index
    <3>4. EachVmOnce'
      BY <3>0 DEF EachVmOnce, TypeOK, Working
    <3> QED BY <3>1, <3>2, <3>3, <3>4
  <2> QED BY <2>1, <2>2 DEF TypeOK
<1>2. ASSUME NEW w \in Worker, RunOne(w) PROVE Inv'
  <2>0. PICK r \in Result : result' = [result EXCEPT ![w] = r]
    BY <1>2 DEF RunOne
  <2>1. TypeOK'
    BY <1>2, <2>0 DEF RunOne, TypeOK
  <2>2. Claims' /\ ExitLast'
    BY <1>2, <2>0 DEF RunOne, Claims, ExitLast, TypeOK, Working
  <2>3. NoneSkipped' /\ RowsClaimed'
    BY <1>2 DEF RunOne, NoneSkipped, RowsClaimed, TypeOK, Working
  <2>4. EachVmOnce'
    BY <1>2 DEF RunOne, EachVmOnce, TypeOK, Working
  <2> QED BY <2>1, <2>2, <2>3, <2>4
<1>3. ASSUME NEW w \in Worker, Store(w) PROVE Inv'
  <2>0. /\ index[w] \in Index /\ result[w] \in Result /\ index[w] < next
        /\ [vm |-> index[w], result |-> result[w]] \in Row
        /\ [vm |-> index[w], result |-> result[w]] # None
    BY <1>3, RowIsSome DEF Store, Claims, Working
  <2>1. TypeOK'
    BY <1>3, <2>0 DEF Store, TypeOK
  <2>2. Claims' /\ ExitLast'
    BY <1>3, <2>0 DEF Store, Claims, ExitLast, TypeOK, Working
  <2>3. NoneSkipped' /\ RowsClaimed'
    BY <1>3, <2>0 DEF Store, NoneSkipped, RowsClaimed, TypeOK, Working
  <2>4. EachVmOnce'
    BY <1>3, <2>0 DEF Store, EachVmOnce, Claims, TypeOK, Working
  <2> QED BY <2>1, <2>2, <2>3, <2>4
<1>4. CASE Join
  BY <1>4 DEF Join, TypeOK, Claims, NoneSkipped, RowsClaimed, EachVmOnce, ExitLast, Working
<1>5. CASE UNCHANGED vars
  BY <1>5 DEF vars, TypeOK, Claims, NoneSkipped, RowsClaimed, EachVmOnce, ExitLast, Working
<1> QED BY <1>1, <1>2, <1>3, <1>4, <1>5 DEF Next, Step

\* The inductive invariant of the pool.
THEOREM BulkInvariant == Spec => []Inv
<1> QED BY InitInv, NextInv, PTL DEF Spec

\* Type correctness.
THEOREM TypeCorrect == Spec => []TypeOK
<1>1. Inv => TypeOK
  BY DEF Inv
<1> QED BY <1>1, BulkInvariant, PTL

\* No VM is run by two workers, or twice, whatever the pool's size.
THEOREM VmsRunOnce == Spec => []EachVmOnce
<1>1. Inv => EachVmOnce
  BY DEF Inv
<1> QED BY <1>1, BulkInvariant, PTL

\* A worker leaves only when the counter has passed every VM.
LEMMA AllAccounted == Inv => NoRowMissing
<1> SUFFICES ASSUME Inv, \A w \in Worker : pc[w] = "exited", NEW i \in Index
             PROVE  rows[i] # None
  BY DEF NoRowMissing
<1>1. 1 \in Worker
  BY Numbers DEF Worker, Index
<1>2. i < next
  BY <1>1, Numbers DEF Inv, Claims, Index, TypeOK
<1> QED BY <1>2 DEF Inv, NoneSkipped, Working

\* execute's .expect never panics: the workers leave only when every selected VM has
\* its row, for every number of VMs, zero included.
THEOREM RowsComplete == Spec => []NoRowMissing
<1> QED BY AllAccounted, BulkInvariant, PTL

\* Every step of the pool is a step of BulkReport, or changes nothing it shows.
LEMMA StepReports ==
    ASSUME Inv, [Next]_vars
    PROVE  [Report!Next]_(Report!vars)
<1> USE DEF Report!Next, Report!vars, Report!Index, Report!Result, Index, Result
<1>1. ASSUME NEW w \in Worker, Claim(w) \/ RunOne(w) PROVE UNCHANGED Report!vars
  BY <1>1 DEF Claim, RunOne
<1>2. ASSUME NEW w \in Worker, Store(w) PROVE Report!Report(index[w]) /\ index[w] \in Index
  BY <1>2 DEF Store, Inv, Claims, EachVmOnce, ExitLast, Working, Report!Report
<1>3. CASE Join
  BY <1>3, AllAccounted DEF Join, NoRowMissing, Report!Exit
<1>4. CASE UNCHANGED vars
  BY <1>4 DEF vars
<1> QED BY <1>1, <1>2, <1>3, <1>4 DEF Next, Step

\* The thread pool is indistinguishable, by rows and exit code, from running the
\* operation once per selected VM.
THEOREM BulkImplements == Spec => ImplementsBulkReport
<1>1. Init => Report!Init
  BY DEF Init, Report!Init, Index, Report!Index
<1>2. Inv /\ [Next]_vars => [Report!Next]_(Report!vars)
  BY StepReports
<1> QED BY <1>1, <1>2, BulkInvariant, PTL DEF Spec, ImplementsBulkReport, Report!Spec

-----------------------------------------------------------------------------
(* The safety half of CommandEnds: claims run out.                         *)

Exited == {w \in Worker : pc[w] = "exited"}

\* The workers that have left can be counted.
LEMMA Countable ==
    /\ IsFiniteSet(Worker) /\ IsFiniteSet(Exited) /\ IsFiniteSet(Exited')
    /\ Cardinality(Worker) \in Nat /\ Cardinality(Exited) \in Nat
    /\ Cardinality(Exited) <= Cardinality(Worker)
<1>1. IsFiniteSet(Worker)
  BY Numbers, FS_Interval DEF Worker
<1>2. Exited \in SUBSET Worker /\ Exited' \in SUBSET Worker
  BY DEF Exited
<1> QED BY <1>1, <1>2, FS_Subset, FS_CardinalityType

\* A claim beyond the last VM is the last of its worker.
THEOREM ClaimsRunOut == Spec => []ClaimsAreBounded
<1> USE DEF ClaimsAreBounded
<1>1. Init => ClaimsAreBounded
  BY Numbers DEF Init
<1>2. TypeOK /\ ClaimsAreBounded /\ [Next]_vars => ClaimsAreBounded'
  <2> SUFFICES ASSUME TypeOK, ClaimsAreBounded, [Next]_vars PROVE ClaimsAreBounded'
    OBVIOUS
  <2>1. ASSUME UNCHANGED next, Exited' = Exited PROVE ClaimsAreBounded'
    BY <2>1 DEF Exited
  <2>2. ASSUME NEW w \in Worker, Claim(w) PROVE ClaimsAreBounded'
    <3>1. CASE next < N
      <4>1. next' = next + 1 /\ next' <= N /\ pc' = [pc EXCEPT ![w] = "run"]
        BY <2>2, <3>1, Numbers DEF Claim, TypeOK
      <4> QED BY <3>1, <4>1, Numbers DEF TypeOK
    <3>2. CASE next >= N
      <4>1. next' = next + 1 /\ pc' = [pc EXCEPT ![w] = "exited"] /\ w \notin Exited
        BY <2>2, <3>2, Numbers DEF Claim, TypeOK, Exited
      <4>2. Exited' = Exited \cup {w}
        BY <4>1 DEF Exited, TypeOK
      <4>3. Cardinality(Exited') = Cardinality(Exited) + 1
        BY <4>1, <4>2, Countable, FS_AddElement
      <4>4. next = N + Cardinality(Exited)
        <5>1. next = N => Exited = {}
          BY Numbers DEF Exited
        <5>2. next > N => next = N + Cardinality(Exited)
          BY DEF Exited
        <5> QED BY <3>2, <5>1, <5>2, FS_EmptySet, Numbers DEF TypeOK
      <4>5. next' = N + Cardinality(Exited') /\ ~(next' <= N)
        BY <3>2, <4>1, <4>3, <4>4, Countable, Numbers DEF TypeOK
      <4>6. Exited' = {u \in Worker : pc'[u] = "exited"}
        BY DEF Exited
      <4> QED BY <4>5, <4>6
    <3> QED BY <3>1, <3>2, Numbers DEF TypeOK
  <2>3. ASSUME NEW w \in Worker, RunOne(w) \/ Store(w) PROVE ClaimsAreBounded'
    <3>1. UNCHANGED next /\ Exited' = Exited
      BY <2>3 DEF RunOne, Store, Exited, TypeOK
    <3> QED BY <2>1, <3>1
  <2>4. CASE Join \/ UNCHANGED vars
    BY <2>1, <2>4 DEF Join, vars, Exited
  <2> QED BY <2>2, <2>3, <2>4 DEF Next, Step
<1> QED BY <1>1, <1>2, TypeCorrect, PTL DEF Spec

\* Whatever the schedule, the counter ends at N plus the number of workers, far from the
\* width of an AtomicUsize.
THEOREM CounterIsBounded == Spec => [](next <= N + Cardinality(Worker))
<1>1. TypeOK /\ ClaimsAreBounded => next <= N + Cardinality(Worker)
  BY Countable, Numbers DEF ClaimsAreBounded, TypeOK, Exited
<1> QED BY <1>1, ClaimsRunOut, TypeCorrect, PTL
=============================================================================
