--------------------------- MODULE AdaptiveProofs ---------------------------
(***************************************************************************)
(* Theorems about Adaptive, for any morsels, workers, sizes and bounds: a  *)
(* run_parallel of a plan without a limit, called by a client that resets  *)
(* callee_, delivers no tuple twice wherever the switch to the compiled    *)
(* code falls, loses none unless interpreted and compiled morsels overlap, *)
(* and is an implementation of MorselScan.                                 *)
(***************************************************************************)
EXTENDS Adaptive, TLAPS

LEMMA InitInv == Init => TypeOK /\ ScanInv
  <1> SUFFICES ASSUME Init PROVE TypeOK /\ ScanInv
    OBVIOUS
  <1>1. Idle \in Task
    BY DEF Idle, Task
  <1>2. TypeOK
    BY <1>1 DEF Init, TypeOK, Nothing
  <1>3. ScanInv
    BY DEF Init, ScanInv, WorkerInv, MorselInv, WaysInv, Ways, Broken, Nothing, Idle, Compiled
  <1> QED
    BY <1>2, <1>3

\* A worker's record stays one.
LEMMA TaskUpdate ==
  ASSUME NEW t \in Task,
         NEW pc \in {"idle", "taken", "interpreted", Compiled, "stale",
                     "sorting"}
  PROVE  /\ [t EXCEPT !.pc = pc] \in Task
         /\ [t EXCEPT !.n = t.n + 1] \in Task
         /\ Idle \in Task
         /\ t.m \in Morsel \cup {Null} /\ t.n \in Nat
  BY DEF Task, Idle

\* An append, or its loss, counts one tuple.
LEMMA ListUpdate ==
  ASSUME TypeOK, NEW STATE m
  PROVE  /\ Add(m) => /\ count' \in [Morsel -> Nat]
                      /\ total' \in Nat /\ unsorted' \in BOOLEAN
         /\ Lose(m) => lost' \in [Morsel -> Nat]
  <1>1. ASSUME NEW STATE f, f \in [Morsel -> Nat]
        PROVE  [f EXCEPT ![m] = @ + 1] \in [Morsel -> Nat]
    <2> DEFINE g == [k \in Morsel |-> IF k = m THEN f[k] + 1 ELSE f[k]]
    <2>1. [f EXCEPT ![m] = @ + 1] = g
      BY <1>1
    <2>2. \A k \in Morsel : f[k] + 1 \in Nat
      BY <1>1
    <2>3. g \in [Morsel -> Nat]
      BY <1>1, <2>2
    <2> QED
      BY <2>1, <2>3
  <1>2. /\ [count EXCEPT ![m] = @ + 1] \in [Morsel -> Nat]
        /\ [lost EXCEPT ![m] = @ + 1] \in [Morsel -> Nat]
    BY <1>1 DEF TypeOK
  <1>3. ASSUME Add(m)
        PROVE  /\ count' \in [Morsel -> Nat]
               /\ total' \in Nat /\ unsorted' \in BOOLEAN
    BY <1>2, <1>3 DEF Add, TypeOK
  <1>4. ASSUME Lose(m) PROVE lost' \in [Morsel -> Nat]
    BY <1>2, <1>4 DEF Lose
  <1> QED
    BY <1>3, <1>4

\* The steps of a worker keep the types.
LEMMA TypeWork == ASSUME TypeOK, NEW w \in Worker, Work(w) PROVE TypeOK'
  <1>t. worker[w] \in Task
    BY DEF TypeOK
  <1>1. ASSUME NEW m \in Morsel, Take(w, m) PROVE TypeOK'
    <2>1. [pc |-> "taken", m |-> m, n |-> 0] \in Task
      BY DEF Task
    <2> QED
      BY <1>1, <2>1 DEF Take, TypeOK, engine, results
  <1>2. CASE Invoke(w)
    <2>1. /\ [worker[w] EXCEPT !.pc = "interpreted"] \in Task
          /\ [worker[w] EXCEPT !.pc = Compiled] \in Task
          /\ [worker[w] EXCEPT !.pc = "stale"] \in Task
      BY <1>t, TaskUpdate
    <2>2. worker' \in [Worker -> Task]
      BY <1>2, <2>1 DEF Invoke, TypeOK
    <2>3. status' \in {"ok", "crashed"} /\ ways' \in SUBSET Ways
      BY <1>2 DEF Invoke, TypeOK, At, Ways
    <2> QED
      BY <1>2, <2>2, <2>3 DEF Invoke, TypeOK, engine, results
  <1>3. CASE Collect(w)
    <2>1. [worker[w] EXCEPT !.n = @ + 1] \in Task
      BY <1>t, TaskUpdate
    <2>2. worker' \in [Worker -> Task]
      BY <1>3, <2>1 DEF Collect, TypeOK
    <2> QED
      BY <1>3, <2>2, ListUpdate DEF Collect, TypeOK, engine
  <1>8. ASSUME NEW v \in Others(w), CollectOver(w, v) PROVE TypeOK'
    <2>1. /\ v \in Worker /\ [worker[w] EXCEPT !.n = @ + 1] \in Task
          /\ [worker[v] EXCEPT !.n = @ + 1] \in Task
      BY <1>t, TaskUpdate DEF Others, TypeOK
    <2>2. worker' \in [Worker -> Task]
      BY <1>8, <2>1 DEF CollectOver, Others, TypeOK
    <2> QED
      BY <1>8, <2>2, ListUpdate DEF CollectOver, TypeOK, engine
  <1>4. CASE CollectRace(w)
    BY <1>4 DEF CollectRace, TypeOK, engine, results
  <1>5. CASE EndTask(w)
    BY <1>5, <1>t, TaskUpdate DEF EndTask, TypeOK, engine, results
  <1>6. CASE BeginSort(w)
    <2>1. [worker[w] EXCEPT !.pc = "sorting"] \in Task
      BY <1>t, TaskUpdate
    <2> QED
      BY <1>6, <2>1 DEF BeginSort, TypeOK, engine
  <1>7. CASE EndSort(w)
    BY <1>7, <1>t, TaskUpdate DEF EndSort, TypeOK, engine, results
  <1> QED
    BY <1>1, <1>2, <1>3, <1>4, <1>5, <1>6, <1>7, <1>8 DEF Work

LEMMA TypeStep == TypeOK /\ [Next]_vars => TypeOK'
  <1> SUFFICES ASSUME TypeOK, [Next]_vars PROVE TypeOK'
    OBVIOUS
  <1>1. CASE Generate
    BY <1>1 DEF Generate, TypeOK, results
  <1>2. CASE RunParallel
    <2>1. /\ callee_' \in Nat /\ call' \in Nat /\ ways' \in SUBSET Ways
          /\ count' \in [Morsel -> Nat] /\ lost' \in [Morsel -> Nat]
      BY <1>2 DEF RunParallel, TypeOK, Nothing
    <2> QED
      BY <1>2, <2>1 DEF RunParallel, TypeOK
  <1>3. CASE StartReturns \/ JoinT1
    BY <1>3 DEF StartReturns, JoinT1, TypeOK, results
  <1>4. CASE Compile
    BY <1>4 DEF Compile, TypeOK, results
  <1>5. CASE T1
    BY <1>5 DEF T1, T1Join, T1Assign, T1Assigned, TypeOK, engine, results
  <1>6. CASE UNCHANGED vars
    BY <1>6 DEF vars, TypeOK
  <1> QED
    BY <1>1, <1>2, <1>3, <1>4, <1>5, <1>6, TypeWork DEF Next, Main

\* The variables of the adaptive scan keep their types.
THEOREM Typing == Spec => []TypeOK
  <1>1. Init => TypeOK
    BY InitInv
  <1> QED
    BY <1>1, TypeStep, PTL DEF Spec

-----------------------------------------------------------------------------
(***************************************************************************)
(* ScanInv is inductive for a client that resets callee_ and a plan        *)
(* without a limit.                                                        *)
(***************************************************************************)

\* The tuples of m that have been appended, those lost included.
Held(m) == count[m] + lost[m]

\* What a worker does with its own morsel leaves the others' morsels alone.
LEMMA OthersKeep ==
  ASSUME TypeOK, WorkerInv, NEW w \in Worker, NEW v \in Others(w),
         worker[v] # Idle,
         main' = main, todo' \subseteq todo,
         \A u \in Others(w) : worker'[u] = worker[u],
         worker'[w].m = worker[w].m \/ worker'[w].m # worker[v].m,
         \A m \in Morsel : m # worker[w].m => Held(m)' = Held(m)
  PROVE  BusyInv(v)'
  <1>1. v \in Worker /\ v # w /\ worker'[v] = worker[v] /\ BusyInv(v)
    BY DEF Others, WorkerInv
  <1>2. worker[w].m # worker[v].m
    BY <1>1 DEF BusyInv, Others
  <1>3. worker[v].m \in Morsel /\ Held(worker[v].m)' = Held(worker[v].m)
    BY <1>1, <1>2 DEF BusyInv
  <1>4. worker[v].m \in Morsel \ todo'
    BY <1>1 DEF BusyInv
  <1>5. \A u \in Others(v) : worker'[u].m # worker[v].m
    BY <1>1, <1>2 DEF BusyInv, Others
  <1> QED
    BY <1>1, <1>3, <1>4, <1>5 DEF BusyInv, Held

\* ... so the worker invariant is kept if the worker itself keeps it.
LEMMA WorkerKeeps ==
  ASSUME TypeOK, WorkerInv, NEW w \in Worker,
         main' = main, todo' \subseteq todo,
         worker' \in [Worker -> Task],
         \A u \in Others(w) : worker'[u] = worker[u],
         worker'[w].m = worker[w].m \/ worker'[w].m = Null
           \/ worker'[w].m \in todo,
         \A m \in Morsel : m # worker[w].m => Held(m)' = Held(m),
         worker'[w] = Idle \/ BusyInv(w)'
  PROVE  WorkerInv'
  <1> SUFFICES ASSUME NEW v \in Worker, v # w, worker'[v] # Idle
               PROVE  BusyInv(v)'
    BY DEF WorkerInv
  <1>1. v \in Others(w) /\ worker[v] # Idle /\ BusyInv(v)
    BY DEF Others, WorkerInv
  <1>2. worker'[w].m = worker[w].m \/ worker'[w].m # worker[v].m
    BY <1>1, AdaptiveAssumption DEF BusyInv
  <1> QED
    BY <1>1, <1>2, OthersKeep

\* Appends leave the queue's morsels and the finished ones as they are.
LEMMA MorselsKept ==
  ASSUME MorselInv, UNCHANGED <<main, call, callee_, todo>>, todo \subseteq Morsel,
         \A u \in Worker : worker'[u].m = worker[u].m,
         \A k \in Morsel : k \in todo => Held(k)' = Held(k),
         \A k \in Morsel :
           (\A u \in Worker : worker[u].m # k) => Held(k)' = Held(k)
  PROVE  MorselInv'
  <1>1. \A k \in todo : count'[k] + lost'[k] = 0
    BY DEF MorselInv, Held
  <1>2. ASSUME NEW k \in Morsel \ todo, \A u \in Worker : worker'[u].m # k, call > 0
        PROVE  count'[k] + lost'[k] = Size[k]
    <2>1. \A u \in Worker : worker[u].m # k
      BY <1>2
    <2> QED
      BY <1>2, <2>1 DEF MorselInv, Held
  <1> QED
    BY <1>1, <1>2 DEF MorselInv

\* Every action of a worker keeps ScanInv.
LEMMA ScanWork ==
  ASSUME TypeOK, TypeOK', ScanInv, Limit = NoLimit, NEW w \in Worker, Work(w)
  PROVE  ScanInv'
  <1>t. /\ worker[w] \in Task /\ worker \in [Worker -> Task]
        /\ worker' \in [Worker -> Task]
        /\ count \in [Morsel -> Nat] /\ lost \in [Morsel -> Nat]
        /\ todo \in SUBSET Morsel
    BY DEF TypeOK
  <1>i. WorkerInv /\ MorselInv /\ WaysInv /\ (worker[w] = Idle \/ BusyInv(w))
    BY DEF ScanInv, WorkerInv
  <1>a. Null \notin Morsel /\ Null \notin Nat /\ Size \in [Morsel -> Nat] /\ NoLimit \notin Nat
    BY AdaptiveAssumption
  <1>n. worker[w].n \in Nat
    BY <1>t DEF Task
  <1>1. ASSUME NEW m \in Morsel, Take(w, m) PROVE ScanInv'
    <2>1. /\ worker[w] = Idle /\ main = "start" /\ m \in todo
          /\ todo' = todo \ {m}
          /\ worker' = [worker EXCEPT ![w] = [pc |-> "taken", m |-> m, n |-> 0]]
          /\ UNCHANGED <<main, call, callee_, count, lost, ways>>
      BY <1>1, <1>i DEF Take, At, BusyInv, engine, results
    <2>2. BusyInv(w)'
      <3>1. worker'[w] = [pc |-> "taken", m |-> m, n |-> 0]
        BY <2>1, <1>t
      <3>2. count'[m] + lost'[m] = 0
        BY <2>1, <1>i DEF MorselInv
      <3>3. ASSUME NEW v \in Others(w) PROVE worker'[v].m # m
        <4>1. v \in Worker /\ worker'[v] = worker[v]
          BY <2>1, <1>t DEF Others
        <4>2. worker[v] = Idle \/ worker[v].m \notin todo
          BY <1>i, <4>1 DEF WorkerInv, BusyInv
        <4> QED
          BY <4>1, <4>2, <2>1, <1>a DEF Idle
      <3> QED
        BY <3>1, <3>2, <3>3, <2>1, <1>a DEF BusyInv, Others
    <2>3. WorkerInv'
      <3>1. \A u \in Others(w) : worker'[u] = worker[u]
        BY <2>1, <1>t DEF Others
      <3>2. worker'[w].m \in todo
        BY <2>1, <1>t
      <3> QED
        BY <2>1, <2>2, <3>1, <3>2, <1>t, <1>i, WorkerKeeps DEF Held
    <2>4. MorselInv'
      <3>1. ASSUME NEW k \in Morsel \ todo', \A u \in Worker : worker'[u].m # k, call > 0
            PROVE  Held(k) = Size[k]
        <4>1. worker'[w].m = m
          BY <2>1, <1>t
        <4>2. k \in Morsel \ todo
          BY <3>1, <4>1, <2>1
        <4>3. ASSUME NEW u \in Worker PROVE worker[u].m # k
          BY <3>1, <2>1, <1>t, <1>a DEF Idle
        <4> QED
          BY <3>1, <4>2, <4>3, <1>i DEF MorselInv, Held
      <3> QED
        BY <2>1, <3>1, <1>i DEF MorselInv, Held
    <2>5. WaysInv'
      BY <2>1, <1>t, <1>i DEF WaysInv, Ways, Broken, Compiled
    <2> QED
      BY <2>3, <2>4, <2>5 DEF ScanInv
  <1>2. CASE Invoke(w)
    <2>1. /\ worker[w].pc = "taken" /\ BusyInv(w)
          /\ UNCHANGED <<main, call, callee_, count, lost, todo>>
      BY <1>2, <1>i DEF Invoke, At, engine, results, Idle
    <2>2. \/ worker' = [worker EXCEPT ![w].pc = "interpreted"]
          \/ worker' = [worker EXCEPT ![w].pc = Compiled]
          \/ worker' = worker
      BY <1>2, <1>i DEF Invoke, MorselInv
    <2>3. /\ worker'[w].m = worker[w].m /\ worker'[w].n = worker[w].n
          /\ worker'[w].pc \in {"interpreted", Compiled, "taken"}
      BY <2>1, <2>2, <1>t DEF Task
    <2>4. \A u \in Others(w) : worker'[u] = worker[u]
      BY <2>2, <1>t DEF Others
    <2>5. BusyInv(w)'
      <3>1. \A u \in Others(w) : worker'[u].m # worker'[w].m
        BY <2>1, <2>3, <2>4 DEF BusyInv
      <3>2. worker[w].n = 0
        BY <2>1 DEF BusyInv
      <3> QED
        BY <2>1, <2>3, <3>1, <3>2 DEF BusyInv, Others, Compiled
    <2>6. WorkerInv'
      BY <2>1, <2>3, <2>4, <2>5, <1>t, <1>i, WorkerKeeps DEF Held
    <2>7. \A u \in Worker : worker'[u].m = worker[u].m
      BY <2>3, <2>4 DEF Others
    <2>8. MorselInv'
      BY <2>1, <2>7, <1>i DEF MorselInv
    <2>9. WaysInv'
      <3>1. /\ ways \subseteq ways' /\ ways' \in SUBSET Ways
            /\ worker'[w].pc \in Ways => worker'[w].pc \in ways'
        <4>1. \/ /\ worker' = [worker EXCEPT ![w].pc = "interpreted"]
                 /\ ways' = ways \cup {"interpreted"}
              \/ /\ worker' = [worker EXCEPT ![w].pc = Compiled]
                 /\ ways' = ways \cup {Compiled}
              \/ worker' = worker /\ ways' = ways
          BY <1>2, <1>i DEF Invoke, MorselInv
        <4>2. worker[w].pc \notin Ways
          BY <2>1 DEF Ways, Compiled
        <4> QED
          BY <4>1, <4>2, <1>t DEF TypeOK, Task
      <3>2. Broken' = Broken
        BY <2>1 DEF Broken
      <3> QED
        BY <2>4, <3>1, <3>2, <1>i DEF WaysInv, Others
    <2> QED
      BY <2>6, <2>8, <2>9 DEF ScanInv
  <1>3. CASE Collect(w)
    <2> DEFINE m == worker[w].m
    <2>1. /\ BusyInv(w) /\ worker[w].pc \in Ways /\ worker[w].n < Size[m]
          /\ worker' = [worker EXCEPT ![w].n = @ + 1]
          /\ \/ count' = [count EXCEPT ![m] = @ + 1] /\ lost' = lost
             \/ /\ Broken /\ lost' = [lost EXCEPT ![m] = @ + 1]
                /\ count' = count
          /\ UNCHANGED <<main, call, callee_, todo, ways>>
      BY <1>3, <1>i
      DEF Collect, Appending, Add, Lose, More, engine, Idle, Ways, Compiled
    <2>2. /\ worker'[w].m = m /\ worker'[w].n = worker[w].n + 1
          /\ worker'[w].pc = worker[w].pc
      BY <2>1, <1>t DEF Task
    <2>3. \A u \in Others(w) : worker'[u] = worker[u]
      BY <2>1, <1>t DEF Others
    <2>4. m \in Morsel \ todo /\ Held(m)' = worker[w].n + 1
      <3>1. m \in Morsel \ todo /\ worker[w].n = Held(m)
        BY <2>1 DEF BusyInv, Held
      <3> QED
        BY <2>1, <3>1, <1>t DEF Held
    <2>5. \A k \in Morsel : k # m => Held(k)' = Held(k)
      BY <2>1, <1>t DEF Held
    <2>6. BusyInv(w)'
      <3>1. \A u \in Others(w) : worker'[u].m # m
        BY <2>1, <2>3 DEF BusyInv
      <3>2. worker[w].n + 1 <= Size[m]
        BY <2>1, <2>4, <1>n, <1>a
      <3> QED
        BY <2>1, <2>2, <2>4, <3>1, <3>2 DEF BusyInv, Others, Compiled, Ways, Held
    <2>7. WorkerInv'
      BY <2>1, <2>2, <2>3, <2>5, <2>6, <1>t, <1>i, WorkerKeeps
    <2>8. \A u \in Worker : worker'[u].m = worker[u].m
      BY <2>2, <2>3 DEF Others
    <2>9. MorselInv'
      <3>1. \A k \in Morsel : k \in todo => Held(k)' = Held(k)
        BY <2>4, <2>5
      <3>2. \A k \in Morsel :
              (\A u \in Worker : worker[u].m # k) => Held(k)' = Held(k)
        BY <2>5
      <3> QED
        BY <2>1, <2>8, <3>1, <3>2, <1>i, <1>t, MorselsKept
    <2>10. WaysInv'
      <3>1. Broken' => Broken
        BY <2>1, <1>t DEF Broken
      <3> QED
        BY <2>1, <2>2, <2>3, <3>1, <1>i DEF WaysInv, Others
    <2> QED
      BY <2>7, <2>9, <2>10 DEF ScanInv
  <1>7. ASSUME NEW v \in Others(w), CollectOver(w, v) PROVE ScanInv'
    <2> DEFINE m == worker[w].m
               k == worker[v].m
    <2>1. /\ v \in Worker /\ v # w /\ BusyInv(w) /\ BusyInv(v)
          /\ worker[w].pc \in Ways /\ worker[v].pc \in Ways
          /\ worker[w].pc # worker[v].pc
          /\ worker[w].n < Size[m] /\ worker[v].n < Size[k]
          /\ worker' = [worker EXCEPT ![w].n = @ + 1, ![v].n = @ + 1]
          /\ count' = [count EXCEPT ![m] = @ + 1]
          /\ lost' = [lost EXCEPT ![k] = @ + 1]
          /\ UNCHANGED <<main, call, callee_, todo, ways>>
      BY <1>7, <1>i
      DEF CollectOver, Racing, Appending, Add, Lose, More, engine, Idle, Ways,
          Compiled, WorkerInv, Others
    <2>2. /\ worker[v] \in Task /\ worker[v].n \in Nat
          /\ m \in Morsel \ todo /\ k \in Morsel \ todo /\ m # k
          /\ worker[w].n = Held(m) /\ worker[v].n = Held(k)
      BY <2>1, <1>t DEF BusyInv, Held, Others, Task
    <2>3. /\ worker'[w].n = worker[w].n + 1 /\ worker'[v].n = worker[v].n + 1
          /\ \A u \in Worker :
               /\ worker'[u].m = worker[u].m /\ worker'[u].pc = worker[u].pc
               /\ u \notin {w, v} => worker'[u] = worker[u]
      BY <2>1, <1>t DEF Task
    <2>4. /\ Held(m)' = Held(m) + 1 /\ Held(k)' = Held(k) + 1
          /\ \A x \in Morsel : x \notin {m, k} => Held(x)' = Held(x)
      BY <2>1, <2>2, <2>3, <1>t DEF Held
    <2>5. ASSUME NEW u \in Worker, worker'[u] # Idle PROVE BusyInv(u)'
      <3>1. BusyInv(u)
        BY <2>1, <2>3, <2>5, <1>i DEF WorkerInv
      <3>2. \A x \in Others(u) : worker'[x].m # worker'[u].m
        BY <2>3, <3>1 DEF BusyInv, Others
      <3>3. CASE u \in {w, v}
        <4>1. /\ worker'[u].n = count'[worker'[u].m] + lost'[worker'[u].m]
              /\ worker'[u].pc \in Ways /\ worker'[u].m \in Morsel \ todo
          BY <3>3, <2>1, <2>2, <2>3, <2>4 DEF Held
        <4>2. worker'[u].n <= Size[worker'[u].m]
          <5>1. Size[m] \in Nat /\ Size[k] \in Nat
            BY <2>2, <1>a
          <5>2. worker[w].n + 1 <= Size[m] /\ worker[v].n + 1 <= Size[k]
            BY <5>1, <2>1, <2>2, <1>n
          <5> QED
            BY <3>3, <2>1, <2>3, <5>2
        <4>3. main' = "start"
          BY <2>1, <3>1 DEF BusyInv
        <4> QED
          BY <4>1, <4>2, <4>3, <3>2, <2>1 DEF BusyInv, Ways, Compiled
      <3>4. CASE u \notin {w, v}
        <4>1. worker[u].m \in Morsel \ {m, k} /\ worker'[u] = worker[u]
          BY <3>4, <2>1, <2>3, <3>1 DEF BusyInv, Others
        <4>2. Held(worker[u].m)' = Held(worker[u].m)
          BY <4>1, <2>4
        <4> QED
          BY <4>1, <4>2, <3>1, <3>2, <2>1 DEF BusyInv, Held, Others
      <3> QED
        BY <3>3, <3>4
    <2>6. MorselInv'
      <3>1. \A x \in Morsel : x \in todo => Held(x)' = Held(x)
        BY <2>2, <2>4
      <3>2. \A x \in Morsel :
              (\A u \in Worker : worker[u].m # x) => Held(x)' = Held(x)
        BY <2>1, <2>4
      <3> QED
        BY <2>1, <2>3, <3>1, <3>2, <1>i, <1>t, MorselsKept
    <2>7. WaysInv'
      <3>1. ways = Ways
        BY <2>1, <1>i DEF WaysInv, Ways, TypeOK
      <3> QED
        BY <2>1, <2>3, <3>1, <1>i DEF WaysInv
    <2> QED
      BY <2>5, <2>6, <2>7 DEF ScanInv, WorkerInv
  <1>4. CASE CollectRace(w)
    BY <1>4 DEF CollectRace, ScanInv, WorkerInv, MorselInv, WaysInv, Broken,
                BusyInv, Others, engine, results
  <1>5. CASE EndTask(w) \/ EndSort(w)
    <2> DEFINE m == worker[w].m
    <2>1. /\ BusyInv(w) /\ Held(m) = Size[m]
          /\ worker' = [worker EXCEPT ![w] = Idle]
          /\ UNCHANGED <<main, call, callee_, todo, count, lost, ways>>
      <3>1. CASE EndTask(w)
        <4>1. /\ BusyInv(w) /\ ~More(w)
              /\ worker' = [worker EXCEPT ![w] = Idle]
              /\ UNCHANGED <<main, call, callee_, todo, count, lost, ways>>
          BY <3>1, <1>i DEF EndTask, At, engine, results, Idle, BusyInv, Compiled
        <4>2. ~(worker[w].n < Size[m])
          BY <4>1, <1>n, <1>a DEF More
        <4> QED
          BY <4>1, <4>2, <1>n, <1>a DEF BusyInv, Held
      <3>2. CASE EndSort(w)
        BY <3>2, <1>i DEF EndSort, At, engine, results, Idle, BusyInv, Held
      <3> QED
        BY <1>5, <3>1, <3>2
    <2>2. worker'[w] = Idle /\ \A u \in Others(w) : worker'[u] = worker[u]
      BY <2>1, <1>t DEF Others
    <2>3. WorkerInv'
      BY <2>1, <2>2, <1>t, <1>i, WorkerKeeps DEF Idle, Held
    <2>4. ASSUME NEW k \in Morsel \ todo, \A u \in Worker : worker'[u].m # k, call > 0
          PROVE  Held(k) = Size[k]
      <3>1. CASE k = m
        BY <3>1, <2>1
      <3>2. CASE k # m
        <4>1. \A u \in Worker : worker[u].m # k
          BY <2>4, <2>2, <3>2 DEF Others
        <4> QED
          BY <4>1, <2>4, <1>i DEF MorselInv, Held
      <3> QED
        BY <3>1, <3>2
    <2>5. MorselInv'
      BY <2>1, <2>4, <1>i DEF MorselInv, Held
    <2>6. WaysInv'
      BY <2>1, <2>2, <1>i DEF WaysInv, Broken, Ways, Compiled, Idle, Others
    <2> QED
      BY <2>3, <2>5, <2>6 DEF ScanInv
  <1>6. CASE BeginSort(w)
    <2>1. /\ BusyInv(w) /\ worker[w].pc = Compiled /\ ~More(w)
          /\ worker' = [worker EXCEPT ![w].pc = "sorting"]
          /\ UNCHANGED <<main, call, callee_, todo, count, lost, ways>>
      BY <1>6, <1>i DEF BeginSort, At, engine, Idle, Compiled
    <2>2. /\ worker'[w].m = worker[w].m /\ worker'[w].n = worker[w].n
          /\ worker'[w].pc = "sorting"
      BY <2>1, <1>t DEF Task
    <2>3. \A u \in Others(w) : worker'[u] = worker[u]
      BY <2>1, <1>t DEF Others
    <2>4. BusyInv(w)'
      <3>1. ~(worker[w].n < Size[worker[w].m])
        BY <2>1, <1>n, <1>a DEF More
      <3>2. worker[w].n = Size[worker[w].m]
        BY <3>1, <2>1, <1>n, <1>a DEF BusyInv
      <3>3. \A u \in Others(w) : worker'[u].m # worker'[w].m
        BY <2>1, <2>2, <2>3 DEF BusyInv
      <3> QED
        BY <2>1, <2>2, <3>2, <3>3 DEF BusyInv, Others
    <2>5. WorkerInv'
      BY <2>1, <2>2, <2>3, <2>4, <1>t, <1>i, WorkerKeeps DEF Held
    <2>6. \A u \in Worker : worker'[u].m = worker[u].m
      BY <2>2, <2>3 DEF Others
    <2>7. MorselInv'
      BY <2>1, <2>6, <1>i DEF MorselInv
    <2>8. WaysInv'
      BY <2>1, <2>2, <2>3, <1>i DEF WaysInv, Broken, Ways, Compiled, Others
    <2> QED
      BY <2>5, <2>7, <2>8 DEF ScanInv
  <1> QED
    BY <1>1, <1>2, <1>3, <1>4, <1>5, <1>6, <1>7 DEF Work

LEMMA ScanStep ==
  Resets /\ Limit = NoLimit /\ TypeOK /\ TypeOK' /\ ScanInv /\ [Next]_vars => ScanInv'
  <1> SUFFICES ASSUME Resets, Limit = NoLimit, TypeOK, TypeOK', ScanInv, [Next]_vars
               PROVE  ScanInv'
    OBVIOUS
  <1> USE DEF ScanInv
  <1>1. CASE Generate
    BY <1>1 DEF Generate, WorkerInv, MorselInv, WaysInv, Broken, BusyInv, Others, results
  <1>2. CASE RunParallel
    <2>1. /\ main = "idle" /\ main' = "start" /\ call' > 0 /\ callee_' = 0
          /\ worker' = worker /\ todo' = Morsel
          /\ \A m \in Morsel : count'[m] = 0 /\ lost'[m] = 0
      BY <1>2 DEF RunParallel, TypeOK, Nothing
    <2>2. \A w \in Worker : worker[w] = Idle
      BY <2>1 DEF WorkerInv, BusyInv
    <2> QED
      BY <2>1, <2>2 DEF MorselInv, WorkerInv, WaysInv, Broken, Idle, Ways, Compiled
  <1>3. CASE StartReturns
    BY <1>3 DEF StartReturns, WorkerInv, MorselInv, WaysInv, Broken, results
  <1>4. CASE JoinT1
    BY <1>4 DEF JoinT1, WorkerInv, MorselInv, WaysInv, Broken, BusyInv, results
  <1>5. CASE Compile
    BY <1>5 DEF Compile, WorkerInv, MorselInv, WaysInv, Broken, BusyInv, Others, results
  <1>6. CASE T1
    <2>1. /\ callee_' \in {callee_, call}
          /\ UNCHANGED <<main, call, todo, worker, count, lost, ways>>
      BY <1>6 DEF T1, T1Join, T1Assign, T1Assigned, engine, results
    <2> QED
      BY <2>1 DEF WorkerInv, MorselInv, WaysInv, Broken, BusyInv, Others
  <1>7. CASE UNCHANGED vars
    BY <1>7 DEF vars, WorkerInv, MorselInv, WaysInv, Broken, BusyInv, Others
  <1>8. ASSUME NEW w \in Worker, Work(w) PROVE ScanInv'
    BY <1>8, ScanWork
  <1> QED
    BY <1>1, <1>2, <1>3, <1>4, <1>5, <1>6, <1>7, <1>8 DEF Next, Main

\* When run_parallel returns, no tuple of a morsel is in the result set twice,
\* and none is missing unless the call executed morsels both ways: then only
\* tuples whose appends raced are (a client that resets callee_, a plan without
\* a limit: the hypotheses of the property).
THEOREM EveryTupleOnce == Spec => []ExactlyOnce
  <1>1. TypeOK /\ ScanInv => ExactlyOnce
    <2> SUFFICES ASSUME TypeOK, ScanInv, Returned, NEW m \in Morsel
                 PROVE  /\ count[m] + lost[m] = Size[m]
                        /\ ways # Ways => count[m] = Size[m]
      BY DEF ExactlyOnce
    <2>1. main = "idle" /\ call > 0 /\ todo = {}
      BY DEF Returned, ScanInv, MorselInv
    <2>2. \A w \in Worker : worker[w].m # m
      BY <2>1, AdaptiveAssumption DEF ScanInv, WorkerInv, BusyInv, Idle
    <2>3. count[m] + lost[m] = Size[m]
      BY <2>1, <2>2 DEF ScanInv, MorselInv
    <2>4. count[m] \in Nat /\ lost[m] \in Nat /\ (ways # Ways => ~(lost[m] > 0))
      BY DEF TypeOK, ScanInv, WaysInv, Broken
    <2> QED
      BY <2>3, <2>4
  <1>2. CASE Resets /\ Limit = NoLimit
    <2>1. Resets /\ Limit = NoLimit
      BY <1>2
    <2>2. TypeOK /\ ScanInv /\ [Next]_vars => TypeOK' /\ ScanInv'
      BY <2>1, TypeStep, ScanStep
    <2> QED
      BY <1>1, <2>2, InitInv, PTL DEF Spec
  <1>3. CASE ~(Resets /\ Limit = NoLimit)
    <2>1. ExactlyOnce
      BY <1>3 DEF ExactlyOnce
    <2> QED
      BY <2>1, PTL
  <1> QED
    BY <1>2, <1>3

-----------------------------------------------------------------------------
\* Every step of the adaptive scan is a step of the scan or a stutter.
LEMMA ScanRefines ==
  ASSUME TypeOK, TypeOK', ScanInv, Limit = NoLimit, [Next]_vars
  PROVE  [Scan!Next]_(Scan!vars)
  <1> DEFINE Same == UNCHANGED <<Phase, count, lost, ways>>
  <1> USE DEF Scan!vars
  <1>k. ASSUME UNCHANGED <<status, main, count, lost, ways>> PROVE Same
    BY <1>k DEF Phase
  <1>c. ASSUME status = "ok", status' = "crashed", UNCHANGED <<count, lost>>
        PROVE  Scan!Next
    BY <1>c DEF Scan!Next, Scan!Crash, Phase, Scan!Both, Ways, Compiled, TypeOK
  <1>1. CASE Generate \/ Compile \/ T1
    BY <1>1, <1>k DEF Generate, Compile, T1, T1Join, T1Assign, T1Assigned, engine, results
  <1>2. CASE RunParallel
    <2>1. /\ Phase = "idle" /\ Phase' = "running"
          /\ count' = Nothing /\ lost' = Nothing /\ ways' = {}
      BY <1>2 DEF RunParallel, Phase
    <2> QED
      BY <2>1 DEF Scan!Next, Scan!Call, Scan!None, Nothing
  <1>3. CASE StartReturns
    <2>1. UNCHANGED <<Phase, count, lost, ways>>
      BY <1>3 DEF StartReturns, Phase, results
    <2> QED
      BY <2>1
  <1>4. CASE JoinT1
    <2>1. Phase = "running" /\ Phase' = "idle" /\ UNCHANGED <<count, lost, ways>>
      BY <1>4 DEF JoinT1, Phase, results
    <2>2. todo = {} /\ call > 0 /\ main = "join"
      BY <1>4 DEF JoinT1, ScanInv, MorselInv
    <2>3. \A w \in Worker : worker[w] = Idle
      BY <2>2 DEF ScanInv, WorkerInv, BusyInv
    <2>4. \A m \in Morsel : count[m] + lost[m] = Size[m]
      BY <2>2, <2>3, AdaptiveAssumption DEF ScanInv, MorselInv, Idle
    <2> QED
      BY <2>1, <2>4 DEF Scan!Next, Scan!Progress, Scan!Return
  <1>5. ASSUME NEW w \in Worker, Work(w) PROVE [Scan!Next]_(Scan!vars)
    <2>1. CASE \E m \in Morsel : Take(w, m)
      BY <2>1, <1>k DEF Take, engine, results
    <2>2. CASE Invoke(w)
      <3>1. /\ status = "ok" /\ status' \in {"ok", "crashed"}
            /\ UNCHANGED <<main, count, lost>>
            /\ worker[w].pc = "taken"
        BY <2>2 DEF Invoke, At, engine, results, TypeOK
      <3>2. Phase = "running" /\ (status' = "ok" => Phase' = Phase)
        BY <3>1 DEF ScanInv, WorkerInv, BusyInv, Idle, Phase
      <3>3. CASE status' = "ok"
        <4>1. ways' = ways \/ \E way \in Ways : ways' = ways \cup {way}
          BY <2>2 DEF Invoke, Ways
        <4>2. ways' # ways => \E way \in Scan!Both : Scan!Execute(way)
          BY <4>1, <3>1, <3>2, <3>3 DEF Scan!Both, Ways, Compiled, Scan!Execute
        <4> QED
          BY <4>2, <3>1, <3>2, <3>3 DEF Scan!Next
      <3>4. CASE status' = "crashed"
        BY <3>1, <3>4, <1>c
      <3> QED
        BY <3>1, <3>3, <3>4
    <2>3. CASE Collect(w)
      <3> DEFINE m == worker[w].m
      <3>1. /\ status = "ok" /\ UNCHANGED <<status, main, ways>>
            /\ worker[w].n < Size[m] /\ worker[w] # Idle
            /\ \/ count' = [count EXCEPT ![m] = @ + 1] /\ lost' = lost
               \/ /\ Broken /\ lost' = [lost EXCEPT ![m] = @ + 1]
                  /\ count' = count
        BY <2>3 DEF Collect, Appending, Add, Lose, More, engine, Idle, Ways, Compiled
      <3>2. main = "start" /\ m \in Morsel /\ worker[w].n = count[m] + lost[m]
        BY <3>1 DEF ScanInv, WorkerInv, BusyInv
      <3>3. Phase = "running" /\ Phase' = Phase
        BY <3>1, <3>2 DEF Phase
      <3>4. Scan!Deliver(m) \/ Scan!Lose(m)
        BY <3>1, <3>2, <3>3 DEF Scan!Deliver, Scan!Lose, Scan!Left, Broken
      <3> QED
        BY <3>2, <3>4 DEF Scan!Next, Scan!Progress
    <2>6. ASSUME NEW v \in Others(w), CollectOver(w, v) PROVE Scan!Next
      <3> DEFINE m == worker[w].m
                 k == worker[v].m
      <3>1. /\ status = "ok" /\ UNCHANGED <<status, main, ways>>
            /\ worker[w].n < Size[m] /\ worker[v].n < Size[k]
            /\ worker[w] # Idle /\ worker[v] # Idle /\ v \in Worker
            /\ worker[w].pc \in Ways /\ worker[v].pc \in Ways
            /\ worker[w].pc # worker[v].pc
            /\ count' = [count EXCEPT ![m] = @ + 1]
            /\ lost' = [lost EXCEPT ![k] = @ + 1]
        BY <2>6 DEF CollectOver, Racing, Appending, Add, Lose, More, engine, Idle,
                    Ways, Compiled, Others
      <3>2. BusyInv(w) /\ BusyInv(v)
        BY <3>1 DEF ScanInv, WorkerInv
      <3>3. /\ main = "start" /\ m \in Morsel /\ k \in Morsel /\ m # k
            /\ worker[w].n = count[m] + lost[m]
            /\ worker[v].n = count[k] + lost[k]
        BY <3>2, <2>6 DEF BusyInv
      <3>4. ways = Ways
        BY <3>1 DEF ScanInv, WaysInv, Ways, TypeOK
      <3>5. Phase = "running" /\ Phase' = Phase
        BY <3>1, <3>3 DEF Phase
      <3>6. Scan!Collide(m, k)
        BY <3>1, <3>3, <3>4, <3>5 DEF Scan!Collide, Scan!Left, Scan!Both, Ways, Compiled
      <3> QED
        BY <3>3, <3>6 DEF Scan!Next, Scan!Progress
    <2>4. CASE CollectRace(w)
      BY <2>4, <1>c DEF CollectRace, results
    <2>5. CASE EndTask(w) \/ BeginSort(w) \/ EndSort(w)
      BY <2>5, <1>k DEF EndTask, BeginSort, EndSort, engine, results
    <2> QED
      BY <1>5, <2>1, <2>2, <2>3, <2>4, <2>5, <2>6 DEF Work
  <1>6. CASE UNCHANGED vars
    BY <1>6, <1>k DEF vars
  <1> QED
    BY <1>1, <1>2, <1>3, <1>4, <1>5, <1>6 DEF Next, Main

\* With a client that resets callee_ and a plan without a limit, run_parallel
\* implements the scan that delivers every tuple of every morsel once before
\* it returns, whichever worker executes a morsel and with whichever code, but
\* for the tuples lost where interpreted and compiled morsels overlap.
THEOREM AdaptiveImplementsScan ==
  ASSUME Resets, Limit = NoLimit
  PROVE  Spec => Scan!Safety
  <1>1. Init => Scan!Init
    BY DEF Init, Scan!Init, Phase, Scan!None, Nothing
  <1>2. TypeOK /\ ScanInv /\ [Next]_vars => TypeOK' /\ ScanInv'
    BY TypeStep, ScanStep
  <1>3. TypeOK /\ TypeOK' /\ ScanInv /\ [Next]_vars => [Scan!Next]_(Scan!vars)
    BY ScanRefines
  <1> QED
    BY <1>1, <1>2, <1>3, InitInv, PTL DEF Spec, Scan!Safety
-----------------------------------------------------------------------------
(***************************************************************************)
(* CodeInv is inductive for every client and every plan: with or without a *)
(* limit, resetting callee_ or not.                                        *)
(***************************************************************************)
LEMMA CodeInit == Init => CodeInv
  BY DEF Init, CodeInv, SwitchInv, SortInv, Idle, Compiled

\* A step of a worker leaves the others where they are; it comes out of the queue
\* in iv.start(), and runs compiled only after a call of this call's lambda.
LEMMA WorkerMoves ==
  ASSUME TypeOK, NEW w \in Worker, Work(w)
  PROVE  /\ UNCHANGED <<engine, t1, callee_>>
         /\ \A v \in Others(w) : worker'[v].pc = worker[v].pc
         /\ worker'[w].pc # "idle" /\ worker[w].pc = "idle" => main = "start"
         /\ worker'[w].pc = Compiled /\ worker[w].pc # Compiled =>
              worker[w].pc = "taken" /\ callee_ = call
         /\ worker'[w].pc = "stale" /\ worker[w].pc # "stale" =>
              callee_ \notin {0, call}
  <1>t. worker \in [Worker -> Task] /\ worker[w] \in Task
    BY DEF TypeOK
  <1> USE DEF Others, Compiled
  <1>1. ASSUME NEW m \in Morsel, Take(w, m)
        PROVE  /\ worker'[w].pc = "taken" /\ main = "start"
               /\ \A v \in Others(w) : worker'[v] = worker[v]
               /\ UNCHANGED <<engine, t1, callee_>>
    BY <1>1, <1>t DEF Take
  <1>2. CASE Invoke(w)
    <2>1. /\ worker[w].pc = "taken" /\ UNCHANGED <<engine, t1, callee_>>
          /\ \/ worker' = [worker EXCEPT ![w].pc = "interpreted"]
             \/ callee_ = call /\ worker' = [worker EXCEPT ![w].pc = Compiled]
             \/ /\ callee_ \notin {0, call}
                /\ worker' = [worker EXCEPT ![w].pc = "stale"]
             \/ worker' = worker
      BY <1>2 DEF Invoke, At
    <2> QED
      BY <2>1, <1>t DEF Task
  <1>3. CASE Collect(w)
    <2>1. /\ UNCHANGED <<engine, t1, callee_>>
          /\ worker' = [worker EXCEPT ![w].n = @ + 1]
      BY <1>3 DEF Collect
    <2> QED
      BY <2>1, <1>t DEF Task
  <1>4. CASE CollectRace(w)
    BY <1>4 DEF CollectRace
  <1>5. CASE EndTask(w) \/ EndSort(w)
    <2>1. /\ UNCHANGED <<engine, t1, callee_>>
          /\ worker' = [worker EXCEPT ![w] = Idle]
      BY <1>5 DEF EndTask, EndSort
    <2> QED
      BY <2>1, <1>t DEF Idle
  <1>6. CASE BeginSort(w)
    <2>1. /\ UNCHANGED <<engine, t1, callee_>> /\ worker[w].pc = Compiled
          /\ worker' = [worker EXCEPT ![w].pc = "sorting"]
      BY <1>6 DEF BeginSort, At
    <2> QED
      BY <2>1, <1>t DEF Task
  <1>7. ASSUME NEW v \in Others(w), CollectOver(w, v)
        PROVE  /\ UNCHANGED <<engine, t1, callee_>>
               /\ \A u \in Worker : worker'[u].pc = worker[u].pc
    <2>1. /\ UNCHANGED <<engine, t1, callee_>> /\ v # w
          /\ worker' = [worker EXCEPT ![w].n = @ + 1, ![v].n = @ + 1]
      BY <1>7 DEF CollectOver
    <2> QED
      BY <2>1, <1>t DEF Task
  <1> QED
    BY <1>1, <1>2, <1>3, <1>4, <1>5, <1>6, <1>7 DEF Work

LEMMA SwitchStep == TypeOK /\ SwitchInv /\ [Next]_vars => SwitchInv'
  <1> SUFFICES ASSUME TypeOK, SwitchInv, [Next]_vars PROVE SwitchInv'
    OBVIOUS
  <1> USE DEF SwitchInv, Compiled
  <1>1. CASE Generate
    <2>1. \A w \in Worker : worker[w].pc = "idle"
      BY <1>1 DEF Generate
    <2> QED
      BY <1>1, <2>1 DEF Generate, TypeOK
  <1>2. CASE RunParallel
    <2>1. \A w \in Worker : worker[w].pc = "idle"
      BY <1>2 DEF RunParallel
    <2>2. callee_' \in {0, callee_} /\ (Resets => callee_' = 0)
      BY <1>2 DEF RunParallel
    <2> QED
      BY <1>2, <2>1, <2>2 DEF RunParallel, TypeOK
  <1>3. CASE StartReturns
    BY <1>3 DEF StartReturns, Idle
  <1>4. CASE JoinT1
    BY <1>4 DEF JoinT1
  <1>5. CASE Compile
    BY <1>5 DEF Compile
  <1>6. CASE T1Join
    BY <1>6 DEF T1Join
  <1>7. CASE T1Assign
    BY <1>7 DEF T1Assign, engine
  <1>8. CASE T1Assigned
    BY <1>8 DEF T1Assigned, engine, TypeOK
  <1>9. ASSUME NEW w \in Worker, Work(w) PROVE SwitchInv'
    <2>1. /\ UNCHANGED <<query, call, main, compile_th, start_, t1, callee_>>
          /\ \A v \in Worker \ {w} : worker'[v].pc = worker[v].pc
      BY <1>9, WorkerMoves DEF engine, Others
    <2>2. /\ worker'[w].pc # "idle" => main = "start"
          /\ worker'[w].pc = Compiled => compile_th # "running"
          /\ Resets => worker'[w].pc # "stale"
      BY <1>9, WorkerMoves
    <2> QED
      BY <2>1, <2>2
  <1>10. CASE UNCHANGED vars
    BY <1>10 DEF vars
  <1> QED
    BY <1>1, <1>2, <1>3, <1>4, <1>5, <1>6, <1>7, <1>8, <1>9, <1>10
    DEF Next, Main, T1

LEMMA SortStep == TypeOK /\ SwitchInv /\ SortInv /\ [Next]_vars => SortInv'
  <1> SUFFICES ASSUME TypeOK, SwitchInv, SortInv, [Next]_vars PROVE SortInv'
    OBVIOUS
  <1>t. worker \in [Worker -> Task]
    BY DEF TypeOK
  <1>1. CASE Generate
    <2>1. compile_th' # "none" /\ main' = "idle" /\ UNCHANGED <<worker, ways>>
      BY <1>1 DEF Generate
    <2> QED
      BY <2>1 DEF SortInv
  <1>2. CASE RunParallel
    <2>1. ~unsorted' /\ worker' = worker
          /\ \A w \in Worker : worker[w].pc = "idle"
      BY <1>2 DEF RunParallel, SwitchInv
    <2> QED
      BY <2>1 DEF SortInv
  <1>3. CASE StartReturns \/ JoinT1
    <2>1. /\ main' = "idle" => compile_th' = compile_th /\ main # "idle"
          /\ main # "idle" /\ UNCHANGED <<query, worker, unsorted, ways>>
      BY <1>3 DEF StartReturns, JoinT1, results
    <2> QED
      BY <2>1 DEF SortInv, Sorted
  <1>4. CASE Compile
    <2>1. /\ main' = "idle" /\ compile_th' = "none" => FALSE
          /\ UNCHANGED <<query, main, worker, unsorted, ways>>
      BY <1>4 DEF Compile, results
    <2> QED
      BY <2>1 DEF SortInv, Sorted
  <1>5. CASE T1
    <2>1. main # "idle"
      BY <1>5 DEF T1, T1Join, T1Assign, T1Assigned, SwitchInv
    <2>2. UNCHANGED <<query, main, worker, unsorted, ways>>
      BY <1>5 DEF T1, T1Join, T1Assign, T1Assigned, engine, results
    <2> QED
      BY <2>1, <2>2 DEF SortInv, Sorted
  <1>6. ASSUME NEW w \in Worker, Work(w) PROVE SortInv'
    <2>1. /\ UNCHANGED <<query, main, compile_th>>
          /\ \A v \in Worker \ {w} : worker'[v].pc = worker[v].pc
      BY <1>6, WorkerMoves DEF engine, Others
    <2>2. CASE Invoke(w)
      <3>1. /\ worker[w].pc = "taken" /\ unsorted' = unsorted
            /\ worker'[w].pc = "interpreted" => "interpreted" \in ways'
            /\ ways \subseteq ways'
        <4>1. /\ worker[w].pc = "taken" /\ unsorted' = unsorted
              /\ \/ ways' = ways \cup {"interpreted"}
                 \/ /\ ways' \in {ways, ways \cup {Compiled}}
                    /\ \/ worker' = [worker EXCEPT ![w].pc = Compiled]
                       \/ worker' = [worker EXCEPT ![w].pc = "stale"]
                       \/ worker' = worker
          BY <2>2 DEF Invoke, At, results
        <4>2. worker'[w].pc = "interpreted" => "interpreted" \in ways'
          BY <4>1, <1>t DEF Compiled, Task
        <4> QED
          BY <4>1, <4>2
      <3>2. \A v \in Worker : worker[v].pc = Compiled => worker'[v].pc = Compiled
        BY <2>1, <3>1 DEF Compiled
      <3> QED
        BY <2>1, <3>1, <3>2 DEF SortInv, Sorted
    <2>3. CASE Collect(w)
      <3>1. /\ worker[w].pc \in {"interpreted", Compiled}
            /\ worker'[w].pc = worker[w].pc /\ ways' = ways
            /\ unsorted' \in {TRUE, unsorted}
        BY <2>3, <1>t DEF Collect, Appending, Add, Lose, Ways, Task
      <3> QED
        BY <2>1, <3>1 DEF SortInv, Sorted, Compiled
    <2>4. CASE BeginSort(w)
      <3>1. ~unsorted' /\ worker'[w].pc = "sorting" /\ ways' = ways
        BY <2>4, <1>t DEF BeginSort, Task
      <3> QED
        BY <2>1, <3>1 DEF SortInv
    <2>5. CASE CollectRace(w)
      <3>1. UNCHANGED <<worker, ways, unsorted>>
        BY <2>5 DEF CollectRace, results
      <3> QED
        BY <2>1, <3>1 DEF SortInv, Sorted
    <2>6. ASSUME \/ \E m \in Morsel : Take(w, m)
                 \/ EndTask(w) \/ EndSort(w)
          PROVE  SortInv'
      <3>1. /\ UNCHANGED <<ways, unsorted>>
            /\ worker'[w].pc \in {"taken", "idle"}
        BY <2>6, <1>t DEF Take, EndTask, EndSort, results, Idle
      <3>2. worker[w].pc = Compiled => ~Sorted
        BY <2>6 DEF Take, EndTask, EndSort, At, Compiled
      <3>3. ASSUME Sorted
            PROVE  \A v \in Worker : worker[v].pc = Compiled => worker'[v].pc = Compiled
        BY <2>1, <3>2, <3>3
      <3>4. Sorted' = Sorted
        BY <2>1 DEF Sorted
      <3> QED
        BY <2>1, <3>1, <3>3, <3>4 DEF SortInv
    <2>7. ASSUME NEW v \in Others(w), CollectOver(w, v) PROVE SortInv'
      <3>1. /\ v \in Worker /\ worker[w].pc \in Ways /\ worker[v].pc \in Ways
            /\ worker[w].pc # worker[v].pc /\ ways' = ways
            /\ worker' = [worker EXCEPT ![w].n = @ + 1, ![v].n = @ + 1]
        BY <2>7 DEF CollectOver, Racing, Appending, Others
      <3>2. \A u \in Worker : worker'[u].pc = worker[u].pc
        BY <3>1, <1>t DEF Task
      <3>3. \E u \in Worker : worker[u].pc = "interpreted"
        BY <3>1 DEF Ways
      <3> QED
        BY <3>1, <3>2, <3>3 DEF SortInv
    <2> QED
      BY <1>6, <2>2, <2>3, <2>4, <2>5, <2>6, <2>7 DEF Work
  <1>7. CASE UNCHANGED vars
    BY <1>7 DEF vars, SortInv, Sorted
  <1> QED
    BY <1>1, <1>2, <1>3, <1>4, <1>5, <1>6, <1>7 DEF Next, Main

LEMMA CodeStep == TypeOK /\ CodeInv /\ [Next]_vars => CodeInv'
  BY SwitchStep, SortStep DEF CodeInv

\* What keeps the switch behind the compile thread and a sort behind the last
\* tuple, at every step of every call.
THEOREM CodeState == Spec => []CodeInv
  <1>1. Init => TypeOK
    BY InitInv
  <1> QED
    BY <1>1, CodeInit, TypeStep, CodeStep, PTL DEF Spec

\* Whatever the client does with callee_, a morsel runs compiled only when
\* start_ is the current query's code; if it resets callee_, no worker calls
\* an older call's lambda.
THEOREM PublishedCode == Spec => []OnlyPublishedCode
  <1>1. CodeInv => OnlyPublishedCode
    BY DEF CodeInv, SwitchInv, OnlyPublishedCode, Compiled
  <1> QED
    BY <1>1, CodeState, PTL

\* If every morsel ran compiled, the result set is returned in order, for any
\* number of workers sorting as their morsels end.
THEOREM CompiledIsSorted == Spec => []SortedIfCompiled
  <1>1. CodeInv => SortedIfCompiled
    <2> SUFFICES ASSUME CodeInv, Returned, compile_th = "none", Sorted,
                        "interpreted" \notin ways, unsorted
                 PROVE  FALSE
      BY DEF SortedIfCompiled
    <2>1. PICK w \in Worker : worker[w].pc = Compiled
      BY DEF CodeInv, SortInv
    <2>2. main = "start"
      BY <2>1 DEF CodeInv, SwitchInv, Compiled
    <2> QED
      BY <2>2 DEF Returned
  <1> QED
    BY <1>1, CodeState, PTL
=============================================================================
