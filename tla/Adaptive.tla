------------------------------ MODULE Adaptive ------------------------------
(***************************************************************************)
(* run_parallel of a plan without a join (query_engine.cpp, lines 202 to   *)
(* 220).  The main thread interprets the plan: the graph database splits   *)
(* the scan into morsels (chunk ranges) and its workers call               *)
(* scan_task::callee_ once for each.  A second thread, t1, waits for the   *)
(* compile thread and then assigns callee_ a lambda that calls the         *)
(* compiled code, so that the morsels invoked later run compiled.          *)
(*                                                                         *)
(* callee_ is a static std::function that nothing locks and nobody puts    *)
(* back; the lambda captures the arguments of the call that made it by     *)
(* reference.  The result set is represented by how many tuples of each    *)
(* morsel it holds, their number and whether they are in order.  Compiled  *)
(* code appends to it under a lock of collect_tuple's own; the interpreter *)
(* hands it to the database's collect operator, which does not take that   *)
(* lock, so the two kinds of append race with each other.                  *)
(*                                                                         *)
(* The database's scan, workers and collect operator are external: they    *)
(* are modelled from how run_parallel, main.cpp and the interpreter use    *)
(* them.  Interpreted workers are taken not to race among themselves.      *)
(***************************************************************************)
EXTENDS Naturals, FiniteSets

CONSTANTS
  Morsel,     \* the chunk ranges a scan is split into
  Worker,     \* threads of the database that execute scan tasks
  Size,       \* Size[m]: tuples the plan produces from morsel m
  Limit,      \* the plan's limit, or NoLimit
  NoLimit,
  SortQuery,  \* the queries whose plan has a Sort operator
  Resets,     \* the client assigns callee_ the plain scan before each call
  MaxQuery,   \* bound: number of generate calls
  MaxCall,    \* bound: number of run_parallel calls
  Null

ASSUME AdaptiveAssumption ==
  /\ Size \in [Morsel -> Nat]
  /\ Limit \in Nat \cup {NoLimit}
  /\ NoLimit \notin Nat
  /\ SortQuery \subseteq Nat
  /\ Resets \in BOOLEAN
  /\ MaxQuery \in Nat
  /\ MaxCall \in Nat
  /\ Null \notin Morsel
  /\ Null \notin Nat

VARIABLES
  status,       \* "ok", or "crashed" once the behaviour is undefined
  query,        \* number of the query last generated
  call,         \* number of the last call of run_parallel
  main,         \* the client's thread: program counter
  compile_th,   \* "none", "running", "returned"
  start_,       \* the query whose code start_[0] is, or Null
  t1,           \* the switching thread: program counter
  callee_,      \* 0: scan_task::scan; n: the lambda made by call n
  todo,         \* morsels no worker has taken
  worker,       \* per worker: program counter, morsel, tuples so far
  count,        \* tuples of each morsel in the result set
  lost,         \* tuples of each morsel whose append a race undid
  total,        \* tuples in the result set
  unsorted,     \* tuples were added since the result set was last sorted
  ways          \* how this call has executed morsels: interpreted, compiled

engine == <<query, call, main, compile_th, start_>>
results == <<count, lost, total, unsorted>>
vars == <<status, query, call, main, compile_th, start_, t1, callee_, todo, worker,
          count, lost, total, unsorted, ways>>

Idle == [pc |-> "idle", m |-> Null, n |-> 0]
Compiled == "compiled"
Ways == {"interpreted", Compiled}
Nothing == [m \in Morsel |-> 0]

Init ==
  /\ status = "ok"
  /\ query = 0
  /\ call = 0
  /\ main = "idle"
  /\ compile_th = "none"
  /\ start_ = Null
  /\ t1 = "none"
  /\ callee_ = 0
  /\ todo = {}
  /\ worker = [w \in Worker |-> Idle]
  /\ count = Nothing
  /\ lost = Nothing
  /\ total = 0
  /\ unsorted = FALSE
  /\ ways = {}

-----------------------------------------------------------------------------
\* The client cleans up and generates a query for parallel execution; it does
\* so only when no compile thread is left to join.
Generate ==
  /\ status = "ok" /\ main = "idle"
  /\ compile_th = "none"
  /\ query < MaxQuery
  /\ query' = query + 1
  /\ compile_th' = "running"
  /\ start_' = Null
  /\ UNCHANGED <<status, call, main, t1, callee_, todo, worker, results, ways>>

\* The client calls run_parallel with an empty result set: t1 is started, the
\* interpreter hands out the morsels.
RunParallel ==
  /\ status = "ok" /\ main = "idle"
  /\ query > 0 /\ call < MaxCall
  /\ call' = call + 1
  /\ main' = "start"
  /\ t1' = "join"
  /\ callee_' = IF Resets THEN 0 ELSE callee_
  /\ todo' = Morsel
  /\ count' = Nothing
  /\ lost' = Nothing
  /\ total' = 0
  /\ unsorted' = FALSE
  /\ ways' = {}
  /\ UNCHANGED <<status, query, compile_th, start_, worker>>

\* (Mutant: iv.start() returns when every task has been taken.)
StartReturnsEarly ==
  /\ status = "ok" /\ main = "start"
  /\ todo = {}
  /\ main' = "join"
  /\ UNCHANGED <<status, query, call, compile_th, start_, t1, callee_, todo, worker,
                 results, ways>>

\* iv.start() returns when every scan task has ended.
StartReturns ==
  /\ status = "ok" /\ main = "start"
  /\ todo = {}
  /\ \A w \in Worker : worker[w] = Idle
  /\ main' = "join"
  /\ UNCHANGED <<status, query, call, compile_th, start_, t1, callee_, todo, worker,
                 results, ways>>

JoinT1 ==
  /\ status = "ok" /\ main = "join"
  /\ t1 = "returned"
  /\ t1' = "none"
  /\ main' = "idle"
  /\ UNCHANGED <<status, query, call, compile_th, start_, callee_, todo, worker,
                 results, ways>>

-----------------------------------------------------------------------------
\* The compile thread publishes the code and returns.
Compile ==
  /\ status = "ok"
  /\ compile_th = "running"
  /\ start_' = query
  /\ compile_th' = "returned"
  /\ UNCHANGED <<status, query, call, main, t1, callee_, todo, worker, results, ways>>

\* (Mutant: t1 does not wait for the compile thread.)
T1NoJoin ==
  /\ status = "ok" /\ t1 = "join"
  /\ t1' = "assign"
  /\ UNCHANGED <<status, engine, callee_, todo, worker, results, ways>>

\* (Mutant: t1 waits for a compile thread even when there is none.)
T1JoinAlways ==
  /\ status = "ok" /\ t1 = "join"
  /\ compile_th = "returned"
  /\ compile_th' = "none"
  /\ t1' = "assign"
  /\ UNCHANGED <<status, query, call, main, start_, callee_, todo, worker,
                 results, ways>>

\* t1 joins the compile thread if it is joinable.
T1Join ==
  /\ status = "ok" /\ t1 = "join"
  /\ compile_th # "running"
  /\ compile_th' = "none"
  /\ t1' = "assign"
  /\ UNCHANGED <<status, query, call, main, start_, callee_, todo, worker, results, ways>>

\* The assignment of callee_ takes time: a worker that calls it meanwhile
\* races with it.
T1Assign ==
  /\ status = "ok" /\ t1 = "assign"
  /\ t1' = "assigning"
  /\ UNCHANGED <<status, engine, callee_, todo, worker, results, ways>>

\* (Mutant: task_callee_ is copied before it is set.)
T1AssignedEmpty ==
  /\ status = "ok" /\ t1 = "assigning"
  /\ callee_' = Null
  /\ t1' = "returned"
  /\ UNCHANGED <<status, engine, todo, worker, results, ways>>

T1Assigned ==
  /\ status = "ok" /\ t1 = "assigning"
  /\ callee_' = call
  /\ t1' = "returned"
  /\ UNCHANGED <<status, engine, todo, worker, results, ways>>

-----------------------------------------------------------------------------
(***************************************************************************)
(* Workers.                                                                *)
(***************************************************************************)
At(w, pc) == status = "ok" /\ worker[w].pc = pc
Others(w) == Worker \ {w}

Take(w, m) ==
  /\ At(w, "idle") /\ main = "start"
  /\ m \in todo
  /\ todo' = todo \ {m}
  /\ worker' = [worker EXCEPT ![w] = [pc |-> "taken", m |-> m, n |-> 0]]
  /\ UNCHANGED <<status, engine, t1, callee_, results, ways>>

\* The call of callee_: the plain scan feeds the interpreted operators; this
\* call's lambda calls start_[0]; an older call's lambda refers to variables
\* that are gone.
Invoke(w) ==
  /\ At(w, "taken")
  /\ \/ /\ callee_ = 0
        /\ worker' = [worker EXCEPT ![w].pc = "interpreted"]
        /\ ways' = ways \cup {"interpreted"}
        /\ UNCHANGED status
     \/ /\ callee_ = call
        /\ worker' = [worker EXCEPT ![w].pc = Compiled]
        /\ ways' = ways \cup {Compiled}
        /\ status' = IF start_ = Null THEN "crashed" ELSE "ok"
     \/ /\ callee_ \notin {0, call}
        /\ worker' = [worker EXCEPT ![w].pc = "stale"]
        /\ status' \in {"ok", "crashed"}
        /\ UNCHANGED ways
     \/ /\ t1 = "assigning"
        /\ status' = "crashed"
        /\ UNCHANGED <<worker, ways>>
  /\ UNCHANGED <<engine, t1, callee_, todo, results>>

Sorted == query \in SortQuery
More(w) ==
  /\ worker[w].n < Size[worker[w].m]
  /\ worker[w].pc = Compiled => worker[w].n # Limit

(***************************************************************************)
(* Appends to the result set's list.  Two workers that run compiled take   *)
(* turns under collect_tuple's lock.  An interpreted and a compiled worker *)
(* may append at the same time: both read the same last element, and only  *)
(* one of the two tuples is reached from it afterwards.                    *)
(***************************************************************************)
Appending(w) ==
  /\ status = "ok" /\ worker[w].pc \in Ways
  /\ More(w)

\* (Mutant: collect_tuple takes no lock.)
RacingUnlocked(w, v) ==
  /\ Appending(w) /\ Appending(v)
  /\ Compiled \in {worker[w].pc, worker[v].pc}

Racing(w, v) ==
  /\ Appending(w) /\ Appending(v)
  /\ worker[w].pc # worker[v].pc

\* A race has left the links of the list inconsistent.
Broken == \E m \in Morsel : lost[m] > 0

Add(m) ==
  /\ count' = [count EXCEPT ![m] = @ + 1]
  /\ total' = total + 1
  /\ unsorted' = TRUE
Lose(m) == lost' = [lost EXCEPT ![m] = @ + 1]

\* A worker appends on its own; what it appends to a broken list need not be
\* reached from its head.
Collect(w) ==
  /\ Appending(w)
  /\ worker' = [worker EXCEPT ![w].n = @ + 1]
  /\ \/ Add(worker[w].m) /\ UNCHANGED lost
     \/ Broken /\ Lose(worker[w].m) /\ UNCHANGED <<count, total, unsorted>>
  /\ UNCHANGED <<status, engine, t1, callee_, todo, ways>>

\* w's append and v's overlap, and w's tuple is the one that stays.
CollectOver(w, v) ==
  /\ Racing(w, v)
  /\ worker' = [worker EXCEPT ![w].n = @ + 1, ![v].n = @ + 1]
  /\ Add(worker[w].m) /\ Lose(worker[v].m)
  /\ UNCHANGED <<status, engine, t1, callee_, todo, ways>>

\* The behaviour is undefined when a worker uses the list while another sorts
\* it (the sort of a finish function takes no lock), when appends race, and
\* when the list is broken.
CollectRace(w) ==
  /\ status = "ok" /\ worker[w].pc \in Ways \cup {"sorting"}
  /\ \/ \E v \in Others(w) : worker[v].pc = "sorting" \/ Racing(w, v)
     \/ Broken
  /\ status' = "crashed"
  /\ UNCHANGED <<engine, t1, callee_, todo, worker, results, ways>>

\* The interpreter ignores Sort and Limit; what an older call's lambda makes
\* of a morsel does not reach this result set.
EndTask(w) ==
  /\ \/ At(w, "stale")
     \/ At(w, "interpreted") /\ ~More(w)
     \/ At(w, Compiled) /\ ~More(w) /\ ~Sorted
  /\ worker' = [worker EXCEPT ![w] = Idle]
  /\ UNCHANGED <<status, engine, t1, callee_, todo, results, ways>>

\* (Mutant: a worker leaves the sort to another that is sorting.)
BeginSortUnlessBusy(w) ==
  /\ At(w, Compiled) /\ ~More(w) /\ Sorted
  /\ LET busy == \E v \in Others(w) : worker[v].pc = "sorting"
     IN /\ worker' = [worker EXCEPT ![w] =
                        IF busy THEN Idle ELSE [@ EXCEPT !.pc = "sorting"]]
        /\ unsorted' = (busy /\ unsorted)
  /\ UNCHANGED <<status, engine, t1, callee_, todo, count, lost, total, ways>>

\* At the end of its range the compiled code calls the finish function, which
\* sorts the tuples the result set has at that time.
BeginSort(w) ==
  /\ At(w, Compiled) /\ ~More(w) /\ Sorted
  /\ worker' = [worker EXCEPT ![w].pc = "sorting"]
  /\ unsorted' = FALSE
  /\ UNCHANGED <<status, engine, t1, callee_, todo, count, lost, total, ways>>

EndSort(w) ==
  /\ At(w, "sorting")
  /\ worker' = [worker EXCEPT ![w] = Idle]
  /\ UNCHANGED <<status, engine, t1, callee_, todo, results, ways>>

-----------------------------------------------------------------------------
Work(w) ==
  \/ \E m \in Morsel : Take(w, m)
  \/ Invoke(w)
  \/ Collect(w) \/ (\E v \in Others(w) : CollectOver(w, v)) \/ CollectRace(w)
  \/ EndTask(w) \/ BeginSort(w) \/ EndSort(w)
T1 == T1Join \/ T1Assign \/ T1Assigned
Main == StartReturns \/ JoinT1

Next == Generate \/ RunParallel \/ Main \/ Compile \/ T1 \/ \E w \in Worker : Work(w)

\* Every started thread is scheduled; the client need not ask for a query.
Fairness ==
  /\ WF_vars(Main) /\ WF_vars(Compile) /\ WF_vars(T1)
  /\ \A w \in Worker : WF_vars(Work(w))

Spec == Init /\ [][Next]_vars /\ Fairness
-----------------------------------------------------------------------------
Task == [pc : {"idle", "taken", "interpreted", Compiled, "stale", "sorting"},
         m : Morsel \cup {Null}, n : Nat]

TypeOK ==
  /\ status \in {"ok", "crashed"}
  /\ query \in Nat
  /\ call \in Nat
  /\ main \in {"idle", "start", "join"}
  /\ compile_th \in {"none", "running", "returned"}
  /\ start_ \in Nat \cup {Null}
  /\ t1 \in {"none", "join", "assign", "assigning", "returned"}
  /\ callee_ \in Nat
  /\ todo \in SUBSET Morsel
  /\ worker \in [Worker -> Task]
  /\ count \in [Morsel -> Nat]
  /\ lost \in [Morsel -> Nat]
  /\ total \in Nat
  /\ unsorted \in BOOLEAN
  /\ ways \in SUBSET Ways

Returned == status = "ok" /\ main = "idle" /\ call > 0

\* However the switch to the compiled code falls among the morsels, a call (of
\* a client that resets callee_, and of a plan without a limit) returns with no
\* tuple of a morsel delivered twice, and with every tuple if its morsels all
\* ran interpreted or all ran compiled.  A call that switched between them
\* misses only tuples whose appends raced.
ExactlyOnce ==
  Returned /\ Resets /\ Limit = NoLimit =>
    /\ \A m \in Morsel : count[m] + lost[m] = Size[m]
    /\ ways # Ways => \A m \in Morsel : count[m] = Size[m]

\* A morsel is given to the compiled code only once the current query's code
\* is published, and never to an older call's lambda if the client resets
\* callee_.
OnlyPublishedCode ==
  \A w \in Worker :
    /\ worker[w].pc = Compiled => start_ = query
    /\ Resets => worker[w].pc # "stale"

(***************************************************************************)
(* Why ExactlyOnce holds: its inductive strengthening, for a client that   *)
(* resets callee_ and a plan without a limit.                              *)
(***************************************************************************)

\* A busy worker has a morsel of its own, taken out of the queue, and what it
\* has delivered is all that reached the result set or was lost of it.
BusyInv(w) ==
  /\ worker[w].pc \notin {"idle", "stale"}
  /\ main = "start"
  /\ worker[w].m \in Morsel \ todo
  /\ worker[w].n = count[worker[w].m] + lost[worker[w].m]
  /\ worker[w].n <= Size[worker[w].m]
  /\ worker[w].pc = "sorting" => worker[w].n = Size[worker[w].m]
  /\ worker[w].pc = "taken" => worker[w].n = 0
  /\ \A v \in Others(w) : worker[v].m # worker[w].m
WorkerInv == \A w \in Worker : worker[w] = Idle \/ BusyInv(w)

\* A morsel in the queue has delivered nothing, one that is neither there nor
\* with a worker has delivered everything.
MorselInv ==
  /\ main # "start" => todo = {}
  /\ main # "idle" => call > 0
  /\ callee_ \in {0, call}
  /\ \A m \in todo : count[m] + lost[m] = 0
  /\ call > 0 => \A m \in Morsel \ todo :
                   (\A w \in Worker : worker[w].m # m) => count[m] + lost[m] = Size[m]

\* Tuples are lost only in a call that executed morsels both ways.
WaysInv ==
  /\ \A w \in Worker : worker[w].pc \in Ways => worker[w].pc \in ways
  /\ Broken => ways = Ways

ScanInv == WorkerInv /\ MorselInv /\ WaysInv

\* If every morsel ran compiled, the result set is returned in order,
\* although each worker sorts when its own morsel ends.  (While no compile
\* thread is left to join, the result set is the last query's.)
SortedIfCompiled ==
  Returned /\ compile_th = "none" /\ Sorted /\ "interpreted" \notin ways => ~unsorted

(***************************************************************************)
(* Why OnlyPublishedCode and SortedIfCompiled hold.                        *)
(***************************************************************************)

\* The switch is behind the compile thread: callee_ is this call's lambda, or
\* about to be, only when nothing is being compiled, and then start_ is of the
\* current query.  Workers are at work only inside iv.start().
SwitchInv ==
  /\ main = "idle" => t1 = "none"
  /\ main # "idle" => query > 0 /\ call > 0
  /\ query > 0 /\ compile_th # "running" => start_ = query
  /\ t1 \in {"assign", "assigning"} => compile_th # "running"
  /\ callee_ <= call /\ (Resets => callee_ \in {0, call})
  /\ main # "idle" /\ callee_ = call => compile_th # "running"
  /\ \A w \in Worker :
       /\ worker[w].pc # "idle" => main = "start"
       /\ worker[w].pc = Compiled => compile_th # "running"
       /\ Resets => worker[w].pc # "stale"

\* Tuples of a sorted query that are out of order are followed by another
\* sort: a worker that delivered one compiled has not called its finish
\* function yet.
SortInv ==
  /\ \A w \in Worker : worker[w].pc = "interpreted" => "interpreted" \in ways
  /\ (main = "idle" => compile_th = "none") /\ Sorted /\ "interpreted" \notin ways /\ unsorted =>
       \E w \in Worker : worker[w].pc = Compiled

CodeInv == SwitchInv /\ SortInv

\* A run_parallel of a plan without a limit, by a client that resets callee_,
\* implements the scan that delivers every tuple once, those apart that are
\* lost where the two ways of executing a morsel overlap, and returns.
Phase == CASE status = "crashed" -> "crashed"
           [] status = "ok" /\ main = "idle" -> "idle"
           [] OTHER -> "running"
Scan == INSTANCE MorselScan WITH phase <- Phase, got <- count, used <- ways
ImplementsScan == Scan!Spec

\* A call of run_parallel returns, unless the process crashes.
Returns == main # "idle" ~> (main = "idle" \/ status # "ok")

(***************************************************************************)
(* Promises of the repository's comments that the code does not keep.      *)
(***************************************************************************)

\* README.md, line 12: a query initially runs through interpretation.  The
\* lambda of the previous call is still in callee_.
InitiallyInterpreted == \A w \in Worker : worker[w].pc # "stale"

\* codegen_inline.cpp, lines 898 and 907: the counter of the limit operator is
\* the "global result counter".  Each call of the compiled code has its own,
\* and the interpreter none.
LimitHolds == Returned /\ Limit # NoLimit => total <= Limit
=============================================================================
