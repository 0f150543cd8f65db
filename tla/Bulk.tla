--------------------------------- MODULE Bulk ---------------------------------
(***************************************************************************)
(* bulk::execute: a pool of at most `jobs` scoped threads that claim the   *)
(* selected VMs from an atomic counter, run one operation on each, and     *)
(* write its row under a mutex; and exit_for_rows on what they wrote.      *)
(* What one operation does to a VM is Lifecycle; here it ends in ok or in  *)
(* an error (VmLock busy, virsh failed, timeout...).                       *)
(***************************************************************************)
EXTENDS Naturals, FiniteSets

CONSTANTS
    N,      \* how many VMs inventory::select returned
    Jobs,   \* --jobs
    None    \* Option::None; no exit code yet

\* hostctl rejects other values of --jobs before execute is called.
ASSUME BulkAssumption ==
    /\ N \in Nat
    /\ Jobs \in 1 .. 32
    /\ None \notin {"success", "failure", "panic"}
    /\ None \notin [vm : 0 .. N - 1, result : {"ok", "error"}]

VARIABLES
    next,    \* the AtomicUsize
    rows,    \* Mutex<Vec<Option<ResultRow>>>
    pc,      \* pc[w]: "claim", "run", "store" or "exited"
    index,   \* index[w]: the VM it has claimed
    result,  \* result[w]: what run_one returned
    exit     \* the command's exit code, or None

vars == <<next, rows, pc, index, result, exit>>

Index == 0 .. N - 1
Result == {"ok", "error"}
Row == [vm : Index, result : Result]

\* worker_count threads are spawned.
Worker == 1 .. (IF Jobs < N THEN Jobs ELSE N)

TypeOK == /\ next \in Nat
          /\ rows \in [Index -> Row \cup {None}]
          /\ pc \in [Worker -> {"claim", "run", "store", "exited"}]
          /\ index \in [Worker -> Index \cup {None}]
          /\ result \in [Worker -> Result \cup {None}]
          /\ exit \in {None, "success", "failure", "panic"}

Init == /\ next = 0
        /\ rows = [i \in Index |-> None]
        /\ pc = [w \in Worker |-> "claim"]
        /\ index = [w \in Worker |-> None]
        /\ result = [w \in Worker |-> None]
        /\ exit = None

\* Faulty variants (each above the definition it gets wrong, none used by it): the bound
\* is off by one; the counter is read without being advanced; a worker that finds no VM
\* tries again, or waits for one.
ClaimOneMore(w) == /\ pc[w] = "claim"
                   /\ next' = next + 1
                   /\ \/ /\ next <= N
                         /\ index' = [index EXCEPT ![w] = next]
                         /\ pc' = [pc EXCEPT ![w] = "run"]
                      \/ /\ next > N
                         /\ pc' = [pc EXCEPT ![w] = "exited"]
                         /\ UNCHANGED index
                   /\ UNCHANGED <<rows, result, exit>>

ClaimStale(w) == /\ pc[w] = "claim"
                 /\ next < N
                 /\ index' = [index EXCEPT ![w] = next]
                 /\ pc' = [pc EXCEPT ![w] = "run"]
                 /\ UNCHANGED <<next, rows, result, exit>>

ClaimSpins(w) == /\ pc[w] = "claim"
                 /\ next' = next + 1
                 /\ IF next < N
                    THEN /\ index' = [index EXCEPT ![w] = next]
                         /\ pc' = [pc EXCEPT ![w] = "run"]
                    ELSE UNCHANGED <<index, pc>>
                 /\ UNCHANGED <<rows, result, exit>>

ClaimWaits(w) == /\ pc[w] = "claim"
                 /\ next < N
                 /\ next' = next + 1
                 /\ index' = [index EXCEPT ![w] = next]
                 /\ pc' = [pc EXCEPT ![w] = "run"]
                 /\ UNCHANGED <<rows, result, exit>>

\* next.fetch_add(1); a worker that finds no VM at its index leaves the loop.
Claim(w) == /\ pc[w] = "claim"
            /\ next' = next + 1
            /\ \/ /\ next < N
                  /\ index' = [index EXCEPT ![w] = next]
                  /\ pc' = [pc EXCEPT ![w] = "run"]
               \/ /\ next >= N
                  /\ pc' = [pc EXCEPT ![w] = "exited"]
                  /\ UNCHANGED index
            /\ UNCHANGED <<rows, result, exit>>

RunOne(w) == /\ pc[w] = "run"
             /\ \E r \in Result : result' = [result EXCEPT ![w] = r]
             /\ pc' = [pc EXCEPT ![w] = "store"]
             /\ UNCHANGED <<next, rows, index, exit>>

\* Faulty: a failed operation leaves no row.
StoreOkOnly(w) == /\ pc[w] = "store"
                  /\ rows' = IF result[w] = "ok"
                             THEN [rows EXCEPT ![index[w]] = [vm |-> index[w], result |-> "ok"]]
                             ELSE rows
                  /\ pc' = [pc EXCEPT ![w] = "claim"]
                  /\ index' = [index EXCEPT ![w] = None]
                  /\ result' = [result EXCEPT ![w] = None]
                  /\ UNCHANGED <<next, exit>>

Store(w) == /\ pc[w] = "store"
            /\ rows' = [rows EXCEPT ![index[w]] = [vm |-> index[w], result |-> result[w]]]
            /\ pc' = [pc EXCEPT ![w] = "claim"]
            /\ index' = [index EXCEPT ![w] = None]
            /\ result' = [result EXCEPT ![w] = None]
            /\ UNCHANGED <<next, exit>>

\* Faulty: failed rows do not show in the exit code.
JoinSuccess == /\ exit = None
               /\ \A w \in Worker : pc[w] = "exited"
               /\ exit' = IF \E i \in Index : rows[i] = None THEN "panic" ELSE "success"
               /\ UNCHANGED <<next, rows, pc, index, result>>

\* The scope joins its threads; .expect panics on a row that is still None.
Join == /\ exit = None
        /\ \A w \in Worker : pc[w] = "exited"
        /\ exit' = IF \E i \in Index : rows[i] = None THEN "panic"
                   ELSE IF \A i \in Index : rows[i].result = "ok" THEN "success"
                   ELSE "failure"
        /\ UNCHANGED <<next, rows, pc, index, result>>

Step(w) == Claim(w) \/ RunOne(w) \/ Store(w)

Next == (\E w \in Worker : Step(w)) \/ Join

Spec == Init /\ [][Next]_vars

\* Threads are scheduled, and run_one returns (Lifecycle!CallsReturn).
FairSpec == Spec /\ (\A w \in Worker : WF_vars(Step(w))) /\ WF_vars(Join)

-----------------------------------------------------------------------------
(* Properties.                                                             *)

Working(w) == pc[w] \in {"run", "store"}

\* No VM is handed to two workers, and none is run again once it has its row.
EachVmOnce ==
    \A w \in Worker : Working(w) =>
        /\ rows[index[w]] = None
        /\ \A u \in Worker \ {w} : Working(u) => index[u] # index[w]

\* The .expect("every selected VM processed") of execute never fails: when all the
\* workers have left, every row has been written, failed operations included.
NoRowMissing ==
    (\A w \in Worker : pc[w] = "exited") => \A i \in Index : rows[i] # None

\* The counter tells how far the command is: it passes the last VM once for each worker
\* that has left and not once more, so the workers claim N + Cardinality(Worker) times at
\* most, however they are scheduled.
ClaimsAreBounded ==
    /\ next > N => next = N + Cardinality({w \in Worker : pc[w] = "exited"})
    /\ next <= N => \A w \in Worker : pc[w] # "exited"

\* The command ends with an exit code, which the join gives only when every row is there:
\* no thread claims for ever or waits on another, and the join does not panic.
CommandEnds == <>(exit \in {"success", "failure"})

Report == INSTANCE BulkReport WITH row <- rows

\* The pool is an implementation of BulkReport: rows in inventory order, each
\* written once, and an exit code that tells of every failure.
ImplementsBulkReport == Report!Spec
=============================================================================
