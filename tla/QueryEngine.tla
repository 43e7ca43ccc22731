---------------------------- MODULE QueryEngine ----------------------------
(***************************************************************************)
(* The life cycle of query_engine (query_engine.cpp): one client thread    *)
(* calls generate, run, run_parallel, cleanup and the destructor of one or *)
(* more engines; generate starts a compile thread per engine (compile_task)*)
(* that translates the plan, adds the LLVM module to the engine's JIT,     *)
(* extracts the arguments and operator names and publishes two function    *)
(* pointers.                                                               *)
(*                                                                         *)
(* sort_op::cmp_, query_engine::finish_ and query_cnt are process-wide:    *)
(* they are single variables here, shared by every engine, and none of     *)
(* them is locked.  query_cnt++ is a load and a store.                     *)
(*                                                                         *)
(* operator_functions_ and type_vec_ are filled by the compile task and    *)
(* emptied by cleanup but the inlined code never reads them; they are left *)
(* out.  The result tuples, and what the compiled code computes, belong to *)
(* other modules; here a call of compiled code is a record of what was     *)
(* called with what.                                                       *)
(***************************************************************************)
EXTENDS Naturals, Sequences, FiniteSets

CONSTANTS
  Engine,       \* query_engine objects of the process
  Plan,         \* plan objects (trees of base_op) the client may build
  SortPlan,     \* the plans that contain a Sort operator
  CreatePlan,   \* the plans whose access path is a create_op
  Qid,          \* Qid[p]: the operator letters qid_generator collects for p
  Labels,       \* Labels[p]: how many labels extract_arg takes from p
  Slots,        \* slots of an arg_builder, numbered from 0 (64 in the code)
  CleanupArg,   \* the values of run's cleanup_query the client passes
  MaxGenerate,  \* bound: number of generate calls
  Null

ASSUME EngineAssumption ==
  /\ Engine # {} /\ IsFiniteSet(Engine)
  /\ SortPlan \subseteq Plan
  /\ CreatePlan \subseteq Plan
  /\ Labels \in [Plan -> Nat]
  /\ Slots \in Nat \ {0}
  /\ CleanupArg \subseteq BOOLEAN
  /\ MaxGenerate \in Nat
  /\ Null \notin Plan

VARIABLES
  \* process-wide
  status,       \* "ok", or how the process ended
  built,        \* plans whose constructors have run
  cmp_,         \* sort_op::cmp_: the plan whose predicate it holds
  query_cnt,    \* the global query counter
  finish_,      \* query_engine::finish_[0]
  \* per engine
  alive,        \* not yet destroyed
  cur_query_, parallel_,
  compile_th,   \* "none" (not joinable), "running" or "returned"
  task,         \* the compile task: program counter, plan and locals
  jit,          \* the modules added to the engine's JIT
  names,        \* operator_names_[0]: start functions, one per compilation
  args,         \* query_args.args from slot 1; arg_counter is Len(args) + 1
  start_,       \* start_[0], Null when the map is empty
  generated,    \* number of generate calls on the engine
  \* the client thread
  client,       \* where it is, and the parameters of the call it is in
  call          \* the last call of compiled code it made

statics == <<built, cmp_, query_cnt, finish_>>
vars == <<status, built, cmp_, query_cnt, finish_, alive, cur_query_,
          parallel_, compile_th, task, jit, names, args, start_, generated,
          client, call>>

(***************************************************************************)
(* A module is identified by its plan and the value of query_cnt in its    *)
(* internal_qid; its functions are named after <<Qid[plan], cnt>>.         *)
(***************************************************************************)
Module == [plan : Plan \cup {Null}, cnt : Nat]

SameSymbols(m, n) ==
  \/ Qid[m.plan] = Qid[n.plan] /\ m.cnt = n.cnt
  \/ m.plan \in CreatePlan /\ n.plan \in CreatePlan

Label(p, k) == [plan |-> p, k |-> k]

\* arg_builder::arg at arg_counter++: nothing checks that the slot exists; a
\* write past the last one may end the process.
StoreArg(e, label) ==
  /\ args' = [args EXCEPT ![e] = Append(@, label)]
  /\ \/ UNCHANGED status
     \/ Len(args[e]) + 1 >= Slots /\ status' = "crashed"

\* The maps operator_names_, start_ and the static finish_ are std::maps and
\* nothing locks them: a step of engine e that uses them while a compile task
\* is at a step that modifies one is a data race, and may crash.
MapRace(e) ==
  \E f \in Engine :
    /\ compile_th[f] = "running"
    /\ \/ task[f].pc = "finish"
       \/ f = e /\ task[f].pc \in {"root", "walk", "start"}

StatusAfter(e, s) == status' = s \/ (MapRace(e) /\ status' = "crashed")

TaskPC == {"qid", "load", "store", "module", "root", "walk", "finish",
           "start", "end"}
ClientPC == {"idle", "generate", "run_join", "run_exec", "run_cleanup",
             "par_join", "par_exec", "destroy"}

IdleTask == [pc |-> "end", plan |-> Null, cnt |-> 0, tmp |-> 0, k |-> 0]
NoCall   == [eng |-> Null]
Compiling(e) == compile_th[e] = "running"

(***************************************************************************)
(* The client is a sequential program; while it is inside a blocking call  *)
(* it makes no other.                                                      *)
(***************************************************************************)
Idle == status = "ok" /\ client.pc = "idle"
At(pc, e) == status = "ok" /\ client.pc = pc /\ client.eng = e
Goto(pc) == client' = [client EXCEPT !.pc = pc]

Init ==
  /\ status = "ok"
  /\ built = {}
  /\ cmp_ = Null
  /\ query_cnt = 0
  /\ finish_ = Null
  /\ alive = [e \in Engine |-> TRUE]
  /\ cur_query_ = [e \in Engine |-> Null]
  /\ parallel_ = [e \in Engine |-> FALSE]
  /\ compile_th = [e \in Engine |-> "none"]
  /\ task = [e \in Engine |-> IdleTask]
  /\ jit = [e \in Engine |-> {}]
  /\ names = [e \in Engine |-> <<>>]
  /\ args = [e \in Engine |-> <<>>]
  /\ start_ = [e \in Engine |-> Null]
  /\ generated = [e \in Engine |-> 0]
  /\ client = [pc |-> "idle", eng |-> CHOOSE e \in Engine : TRUE,
               own |-> FALSE, args |-> <<>>, cleanup |-> FALSE]
  /\ call = NoCall

-----------------------------------------------------------------------------
(***************************************************************************)
(* Client calls.                                                           *)
(***************************************************************************)

\* The constructors of a plan's operators run; sort_op's assigns the static
\* predicate.
Build(p) ==
  /\ Idle
  /\ p \notin built
  /\ built' = built \cup {p}
  /\ cmp_' = IF p \in SortPlan THEN p ELSE cmp_
  /\ UNCHANGED <<status, query_cnt, finish_, alive, cur_query_, parallel_,
                 compile_th, task, jit, names, args, start_, generated,
                 client, call>>

\* (Mutant: a generate that never waits for its compile thread.)
GenerateNoWait(e, p, par) ==
  /\ Idle /\ alive[e] /\ p \in built /\ generated[e] < MaxGenerate
  /\ compile_th[e] = "none"
  /\ generated' = [generated EXCEPT ![e] = @ + 1]
  /\ parallel_' = [parallel_ EXCEPT ![e] = par]
  /\ cur_query_' = [cur_query_ EXCEPT ![e] = p]
  /\ compile_th' = [compile_th EXCEPT ![e] = "running"]
  /\ task' = [task EXCEPT ![e] = [IdleTask EXCEPT !.pc = "qid", !.plan = p]]
  /\ UNCHANGED <<status, built, cmp_, query_cnt, finish_, alive, jit, names,
                 args, start_, client, call>>

\* Assigning a new thread to compile_th while the old one is joinable calls
\* std::terminate.
Generate(e, p, par) ==
  /\ Idle
  /\ alive[e]
  /\ p \in built
  /\ generated[e] < MaxGenerate
  /\ generated' = [generated EXCEPT ![e] = @ + 1]
  /\ parallel_' = [parallel_ EXCEPT ![e] = par]
  /\ cur_query_' = [cur_query_ EXCEPT ![e] = p]
  /\ IF compile_th[e] # "none"
     THEN /\ status' = "terminated"
          /\ UNCHANGED <<compile_th, task, client>>
     ELSE /\ compile_th' = [compile_th EXCEPT ![e] = "running"]
          /\ task' = [task EXCEPT ![e] = [IdleTask EXCEPT !.pc = "qid",
                                                          !.plan = p]]
          /\ client' = [client EXCEPT !.pc = IF par THEN "idle"
                                             ELSE "generate",
                                      !.eng = e]
          /\ UNCHANGED status
  /\ UNCHANGED <<built, cmp_, query_cnt, finish_, alive, jit, names, args,
                 start_, call>>

\* thread::join returns only once the task has returned.
Join(e) ==
  /\ compile_th[e] = "returned"
  /\ compile_th' = [compile_th EXCEPT ![e] = "none"]

JoinIfJoinable(e) ==
  \/ Join(e)
  \/ compile_th[e] = "none" /\ UNCHANGED compile_th

GenerateJoin(e) ==
  /\ At("generate", e)
  /\ Join(e)
  /\ Goto("idle")
  /\ UNCHANGED <<status, statics, alive, cur_query_, parallel_, task, jit,
                 names, args, start_, generated, call>>

\* A copy of query_args.args has the slots an arg_builder has.
FirstSlots(a) == IF Len(a) < Slots THEN a ELSE SubSeq(a, 1, Slots - 1)

\* run(rs) passes a copy of query_args.args, taken before anything is joined;
\* run(rs, args, cleanup_query) passes the caller's arguments.
Run(e, own, cleanup) ==
  /\ Idle
  /\ alive[e]
  /\ cur_query_[e] # Null
  /\ own => cleanup
  /\ client' = [pc |-> IF parallel_[e] THEN "run_join" ELSE "run_exec",
                eng |-> e, own |-> own,
                args |-> IF own THEN FirstSlots(args[e]) ELSE <<>>,
                cleanup |-> cleanup]
  /\ UNCHANGED <<status, statics, alive, cur_query_, parallel_, compile_th,
                 task, jit, names, args, start_, generated, call>>

\* After interpreting the plan, a parallel run joins the compile thread;
\* joining a thread that is not joinable throws std::system_error.
RunJoin(e) ==
  /\ At("run_join", e)
  /\ \/ /\ Join(e)
        /\ Goto("run_exec")
        /\ UNCHANGED status
     \/ /\ compile_th[e] = "none"
        /\ status' = "system_error"
        /\ UNCHANGED <<compile_th, client>>
  /\ UNCHANGED <<statics, alive, cur_query_, parallel_, task, jit, names,
                 args, start_, generated, call>>

CallOf(e, kind) ==
  [eng |-> e, kind |-> kind, query |-> cur_query_[e], start |-> start_[e],
   finish |-> finish_, cmp |-> cmp_, own |-> client.own,
   args |-> client.args, parallel |-> parallel_[e],
   compiled |-> Len(names[e]), first |-> generated[e] = 1]

\* The loop over start_ does nothing when the map is empty; a null finish
\* function is called at the end of the scan.
RunExec(e) ==
  /\ At("run_exec", e)
  /\ IF start_[e] = Null
     THEN UNCHANGED <<status, call>>
     ELSE /\ call' = CallOf(e, "run")
          /\ StatusAfter(e, IF finish_ = Null THEN "crashed" ELSE "ok")
  /\ Goto(IF client.cleanup THEN "run_cleanup" ELSE "idle")
  /\ UNCHANGED <<statics, alive, cur_query_, parallel_, compile_th, task, jit,
                 names, args, start_, generated>>

\* cleanup() clears the published pointers and names, the static ones of
\* every engine included; query_args and arg_counter keep their values.
ClearPublished(e) ==
  /\ start_' = [start_ EXCEPT ![e] = Null]
  /\ names' = [names EXCEPT ![e] = <<>>]
  /\ finish_' = Null

RunCleanup(e) ==
  /\ At("run_cleanup", e)
  /\ ClearPublished(e)
  /\ StatusAfter(e, "ok")
  /\ Goto("idle")
  /\ UNCHANGED <<built, cmp_, query_cnt, alive, cur_query_, parallel_,
                 compile_th, task, jit, args, generated, call>>

\* A direct call of cleanup() does not wait for the compile thread.
Cleanup(e) ==
  /\ Idle
  /\ alive[e]
  /\ ClearPublished(e)
  /\ StatusAfter(e, "ok")
  /\ UNCHANGED <<built, cmp_, query_cnt, alive, cur_query_, parallel_,
                 compile_th, task, jit, args, generated, client, call>>

RunParallel(e) ==
  /\ Idle
  /\ alive[e]
  /\ cur_query_[e] # Null
  /\ client' = [pc |-> "par_join", eng |-> e, own |-> FALSE,
                args |-> <<>>, cleanup |-> FALSE]
  /\ UNCHANGED <<status, statics, alive, cur_query_, parallel_, compile_th,
                 task, jit, names, args, start_, generated, call>>

\* (Mutant: run_parallel forgets to join the compile thread.)
ParallelNoJoin(e) ==
  /\ At("par_join", e)
  /\ Goto("par_exec")
  /\ UNCHANGED <<status, statics, alive, cur_query_, parallel_, compile_th,
                 task, jit, names, args, start_, generated, call>>

\* Both branches of run_parallel join the compile thread if it is joinable.
ParallelJoin(e) ==
  /\ At("par_join", e)
  /\ JoinIfJoinable(e)
  /\ Goto("par_exec")
  /\ UNCHANGED <<status, statics, alive, cur_query_, parallel_, task, jit,
                 names, args, start_, generated, call>>

\* start_[0] is handed to the workers, without a test that it exists, unless
\* the interpreter has already taken every chunk; nothing is cleaned up.
ParallelExec(e) ==
  /\ At("par_exec", e)
  /\ \/ /\ call' = CallOf(e, "run_parallel")
        /\ StatusAfter(e, IF start_[e] = Null \/ finish_ = Null
                          THEN "crashed" ELSE "ok")
     \/ UNCHANGED <<status, call>>
  /\ Goto("idle")
  /\ UNCHANGED <<statics, alive, cur_query_, parallel_, compile_th, task, jit,
                 names, args, start_, generated>>

\* ~query_engine joins a joinable compile thread; the JIT and its code go
\* with the engine, the static pointers stay.
Destroy(e) ==
  /\ Idle
  /\ alive[e]
  /\ alive' = [alive EXCEPT ![e] = FALSE]
  /\ client' = [client EXCEPT !.pc = "destroy", !.eng = e]
  /\ UNCHANGED <<status, statics, cur_query_, parallel_, compile_th, task,
                 jit, names, args, start_, generated, call>>

\* (Mutant: the destructor forgets to join.)
DestroyNoJoin(e) ==
  /\ At("destroy", e)
  /\ jit' = [jit EXCEPT ![e] = {}]
  /\ Goto("idle")
  /\ UNCHANGED <<status, statics, alive, cur_query_, parallel_, compile_th,
                 task, names, args, start_, generated, call>>

DestroyJoin(e) ==
  /\ At("destroy", e)
  /\ JoinIfJoinable(e)
  /\ jit' = [jit EXCEPT ![e] = {}]
  /\ Goto("idle")
  /\ UNCHANGED <<status, statics, alive, cur_query_, parallel_, task, names,
                 args, start_, generated, call>>

-----------------------------------------------------------------------------
(***************************************************************************)
(* compile_task::operator(), on the compile thread of engine e.            *)
(***************************************************************************)
TaskAt(e, pc) == status = "ok" /\ Compiling(e) /\ task[e].pc = pc
TaskModule(e) == [plan |-> task[e].plan, cnt |-> task[e].cnt]

\* internal_qid = qid + to_string(query_cnt)
ReadQid(e) ==
  /\ TaskAt(e, "qid")
  /\ task' = [task EXCEPT ![e] = [@ EXCEPT !.cnt = query_cnt, !.pc = "load"]]
  /\ UNCHANGED <<status, statics, alive, cur_query_, parallel_, compile_th,
                 jit, names, args, start_, generated, client, call>>

\* query_cnt++, unsynchronised
LoadCnt(e) ==
  /\ TaskAt(e, "load")
  /\ task' = [task EXCEPT ![e] = [@ EXCEPT !.tmp = query_cnt,
                                        !.pc = "store"]]
  /\ UNCHANGED <<status, statics, alive, cur_query_, parallel_, compile_th,
                 jit, names, args, start_, generated, client, call>>

\* (Mutants: the counter is not advanced; it counts down.)
StoreCntTo(e, n) ==
  /\ TaskAt(e, "store")
  /\ query_cnt' = n
  /\ task' = [task EXCEPT ![e].pc = "module"]
  /\ UNCHANGED <<status, built, cmp_, finish_, alive, cur_query_, parallel_,
                 compile_th, jit, names, args, start_, generated, client,
                 call>>
StoreCntSame(e) == StoreCntTo(e, task[e].tmp)
StoreCntDown(e) == StoreCntTo(e, task[e].tmp - 1)

StoreCnt(e) ==
  /\ TaskAt(e, "store")
  /\ query_cnt' = task[e].tmp + 1
  /\ task' = [task EXCEPT ![e].pc = "module"]
  /\ UNCHANGED <<status, built, cmp_, finish_, alive, cur_query_, parallel_,
                 compile_th, jit, names, args, start_, generated, client,
                 call>>

\* Code generation, then addModule under ExitOnError: a symbol the JIT
\* already has makes it exit the process.
AddModule(e) ==
  /\ TaskAt(e, "module")
  /\ IF \E m \in jit[e] : SameSymbols(m, TaskModule(e))
     THEN /\ status' = "exited"
          /\ UNCHANGED <<jit, task>>
     ELSE /\ jit' = [jit EXCEPT ![e] = @ \cup {TaskModule(e)}]
          /\ task' = [task EXCEPT ![e].pc = "root"]
          /\ UNCHANGED status
  /\ UNCHANGED <<statics, alive, cur_query_, parallel_, compile_th, names,
                 args, start_, generated, client, call>>

\* First iteration of the plan walk: the access path.  Its label, if it is a
\* scan, goes to the next argument slot; its name is the only one that
\* code generation has not blanked.
WalkRoot(e) ==
  LET p == task[e].plan
      k == IF p \in CreatePlan THEN 0 ELSE 1
  IN /\ TaskAt(e, "root")
     /\ IF k = 1 /\ Labels[p] >= 1
        THEN StoreArg(e, Label(p, 1))
        ELSE UNCHANGED <<args, status>>
     /\ names' = [names EXCEPT ![e] = Append(@, TaskModule(e))]
     /\ task' = [task EXCEPT ![e] = [@ EXCEPT !.pc = "walk", !.k = k]]
     /\ UNCHANGED <<statics, alive, cur_query_, parallel_, compile_th, jit,
                    start_, generated, client, call>>

\* (Mutant: the walk stops one label early.)
WalkNextShort(e) ==
  LET p == task[e].plan
      k == task[e].k + 1
  IN /\ TaskAt(e, "walk")
     /\ IF k < Labels[p]
        THEN /\ StoreArg(e, Label(p, k))
             /\ task' = [task EXCEPT ![e].k = k]
        ELSE /\ task' = [task EXCEPT ![e].pc = "finish"]
             /\ UNCHANGED <<args, status>>
     /\ UNCHANGED <<statics, alive, cur_query_, parallel_, compile_th,
                    jit, names, start_, generated, client, call>>

\* Later iterations: one more label each, until the walk ends.
WalkNext(e) ==
  LET p == task[e].plan
      k == task[e].k + 1
  IN /\ TaskAt(e, "walk")
     /\ IF k <= Labels[p]
        THEN /\ StoreArg(e, Label(p, k))
             /\ task' = [task EXCEPT ![e].k = k]
        ELSE /\ task' = [task EXCEPT ![e].pc = "finish"]
             /\ UNCHANGED <<args, status>>
     /\ UNCHANGED <<statics, alive, cur_query_, parallel_, compile_th,
                    jit, names, start_, generated, client, call>>

\* (Mutant: the finish function's name is built from the advanced counter.)
PublishFinishRecount(e) ==
  /\ TaskAt(e, "finish")
  /\ finish_' = [eng |-> e,
                 module |-> [plan |-> task[e].plan, cnt |-> query_cnt]]
  /\ task' = [task EXCEPT ![e].pc = "start"]
  /\ UNCHANGED <<status, built, cmp_, query_cnt, alive, cur_query_, parallel_,
                 compile_th, jit, names, args, start_, generated, client,
                 call>>

PublishFinish(e) ==
  /\ TaskAt(e, "finish")
  /\ finish_' = [eng |-> e, module |-> TaskModule(e)]
  /\ task' = [task EXCEPT ![e].pc = "start"]
  /\ status' \in IF \E f \in Engine \ {e} : TaskAt(f, "finish")
                THEN {"ok", "crashed"} ELSE {"ok"}
  /\ UNCHANGED <<built, cmp_, query_cnt, alive, cur_query_, parallel_,
                 compile_th, jit, names, args, start_, generated, client,
                 call>>

\* (Mutant: the task waits for a name instead of failing.)
PublishStartWaits(e) ==
  /\ TaskAt(e, "start")
  /\ names[e] # <<>>
  /\ start_' = [start_ EXCEPT ![e] = Head(names[e])]
  /\ task' = [task EXCEPT ![e].pc = "end"]
  /\ UNCHANGED <<status, statics, alive, cur_query_, parallel_, compile_th,
                 jit, names, args, generated, client, call>>

\* operator_names_[0].at(0) is the first name pushed since the last cleanup;
\* an empty vector throws out of the thread function.
PublishStart(e) ==
  /\ TaskAt(e, "start")
  /\ IF names[e] = <<>>
     THEN /\ status' = "terminated"
          /\ UNCHANGED <<start_, task>>
     ELSE /\ start_' = [start_ EXCEPT ![e] = Head(names[e])]
          /\ task' = [task EXCEPT ![e].pc = "end"]
          /\ UNCHANGED status
  /\ UNCHANGED <<statics, alive, cur_query_, parallel_, compile_th, jit,
                 names, args, generated, client, call>>

TaskReturn(e) ==
  /\ TaskAt(e, "end")
  /\ compile_th' = [compile_th EXCEPT ![e] = "returned"]
  /\ UNCHANGED <<status, statics, alive, cur_query_, parallel_, task, jit,
                 names, args, start_, generated, client, call>>

-----------------------------------------------------------------------------
Compile(e) ==
  \/ ReadQid(e) \/ LoadCnt(e) \/ StoreCnt(e) \/ AddModule(e) \/ WalkRoot(e)
  \/ WalkNext(e) \/ PublishFinish(e) \/ PublishStart(e) \/ TaskReturn(e)

\* The steps of a call the client is inside.
Continue(e) ==
  \/ GenerateJoin(e) \/ RunJoin(e) \/ RunExec(e) \/ RunCleanup(e)
  \/ ParallelJoin(e) \/ ParallelExec(e) \/ DestroyJoin(e)

Call(e) ==
  \/ \E p \in Plan, par \in BOOLEAN : Generate(e, p, par)
  \/ \E own \in BOOLEAN, cleanup \in CleanupArg : Run(e, own, cleanup)
  \/ RunParallel(e)
  \/ Cleanup(e)
  \/ Destroy(e)

Next ==
  \/ \E p \in Plan : Build(p)
  \/ \E e \in Engine : Call(e) \/ Continue(e) \/ Compile(e)

\* Threads that can run are scheduled; the client need not call anything.
Fairness ==
  \A e \in Engine : WF_vars(Compile(e)) /\ WF_vars(Continue(e))

Spec == Init /\ [][Next]_vars /\ Fairness
-----------------------------------------------------------------------------
Status   == {"ok", "terminated", "exited", "system_error", "crashed"}
ThreadState == {"none", "running", "returned"}
Finish   == [eng : Engine, module : Module]

\* Null, what a std::map without the entry holds, is no finish function.
ASSUME NullAssumption == Null \notin Finish

ArgList  == Seq([plan : Plan \cup {Null}, k : Nat])
Task     == [pc : TaskPC, plan : Plan \cup {Null}, cnt : Nat, tmp : Nat,
             k : Nat]
Client   == [pc : ClientPC, eng : Engine, own : BOOLEAN, args : ArgList,
             cleanup : BOOLEAN]

TypeOK ==
  /\ status \in Status
  /\ built \in SUBSET Plan
  /\ cmp_ \in Plan \cup {Null}
  /\ query_cnt \in Nat
  /\ finish_ \in Finish \cup {Null}
  /\ alive \in [Engine -> BOOLEAN]
  /\ cur_query_ \in [Engine -> Plan \cup {Null}]
  /\ parallel_ \in [Engine -> BOOLEAN]
  /\ compile_th \in [Engine -> ThreadState]
  /\ task \in [Engine -> Task]
  /\ jit \in [Engine -> SUBSET Module]
  /\ names \in [Engine -> Seq(Module)]
  /\ args \in [Engine -> ArgList]
  /\ start_ \in [Engine -> Module \cup {Null}]
  /\ generated \in [Engine -> Nat]
  /\ client \in Client

Called == call # NoCall /\ call.start # Null

\* When no earlier query's names are left over (each query was cleaned up
\* before the next was generated), the code an engine runs is the code of its
\* current query, whatever the compile threads were doing meanwhile.
RunsOwnQuery ==
  Called /\ call.compiled = 1 => call.start.plan = call.query

\* The finish function handed to the compiled code comes from the same
\* compilation as the code, when only one engine is used and it is cleaned up
\* between queries.
FinishesOwnQuery ==
  Called /\ call.compiled = 1 /\ Cardinality(Engine) = 1 =>
    /\ call.finish # Null
    /\ call.finish.module = call.start

\* With one engine, the identifiers built from query_cnt never repeat, so
\* addModule never meets a symbol it knows and the process is not exited.
\* (Plans starting with Create are named "query_start" whatever the count.)
IdentifiersUnique ==
  Cardinality(Engine) = 1 /\ CreatePlan = {} => status # "exited"

\* run(rs) after a blocking generate passes the first query of an engine all
\* the labels of its own plan, in the order of the compile thread's walk.  (Its
\* copy of the arguments could be outdated, or hold another query's: labels of
\* later queries go to higher slots, and after a non-blocking generate the copy
\* may be taken before the compile thread has stored anything.  Which slot the
\* code reads a label from is PlanCodegen's BindsLabels.)
PassesOwnLabels ==
  Called /\ call.own /\ call.first /\ ~call.parallel
         /\ Labels[call.query] < Slots =>
    /\ Labels[call.query] <= Len(call.args)
    /\ \A k \in 1..Labels[call.query] : call.args[k] = Label(call.query, k)

\* An engine is never destroyed under a compile thread that still uses it: if
\* one is running, the client is still in that engine's destructor.
NoCompileAfterDestroy ==
  \A e \in Engine : ~alive[e] /\ Compiling(e) =>
    client.pc = "destroy" /\ client.eng = e

\* Every call of the engine returns to the client, unless the process ends:
\* no join waits for ever.
CallsReturn == (client.pc # "idle") ~> (client.pc = "idle" \/ status # "ok")
-----------------------------------------------------------------------------
(***************************************************************************)
(* Why RunsOwnQuery holds: its inductive strengthening.                    *)
(***************************************************************************)

\* A compile task works on the query its engine is at.
TaskIsCurrent == \A e \in Engine : Compiling(e) => task[e].plan = cur_query_[e]

\* After the access path is walked, the last name is the task's own, unless
\* a cleanup has removed it.
LastNameIsOwn ==
  \A e \in Engine :
    Compiling(e) /\ task[e].pc \in {"walk", "finish", "start", "end"} =>
      names[e] = <<>> \/ names[e][Len(names[e])] = TaskModule(e)

\* Once the task has published, a single name means that start_ is of the
\* current query.
StartIsCurrent ==
  \A e \in Engine :
    (Compiling(e) => task[e].pc = "end") /\ Len(names[e]) = 1 =>
      start_[e] = Null \/ start_[e].plan = cur_query_[e]

\* Only a parallel engine compiles behind the client's back, and nobody
\* executes a plan that is still being compiled.
JoinedBeforeUse ==
  /\ \A e \in Engine : Compiling(e) =>
       parallel_[e] \/ (client.pc = "generate" /\ client.eng = e)
  /\ client.pc \in {"run_exec", "par_exec"} => ~Compiling(client.eng)

OwnQueryInv ==
  /\ RunsOwnQuery
  /\ status = "ok" => TaskIsCurrent /\ LastNameIsOwn /\ StartIsCurrent
                      /\ JoinedBeforeUse

(***************************************************************************)
(* Why IdentifiersUnique and FinishesOwnQuery hold: what a single engine   *)
(* keeps of the process-wide counter and finish function.                  *)
(***************************************************************************)
CompilesAt(e, pcs) == Compiling(e) /\ task[e].pc \in pcs

\* Between reading query_cnt and advancing it the task has its current value;
\* every module in the JIT was named with an older one than the next will be.
CountIsFresh ==
  \A e \in Engine :
    /\ CompilesAt(e, {"load", "store"}) => task[e].cnt = query_cnt
    /\ CompilesAt(e, {"store"}) => task[e].tmp = query_cnt
    /\ CompilesAt(e, {"module"}) => task[e].cnt < query_cnt
    /\ \A m \in jit[e] :
         m.cnt < IF CompilesAt(e, {"module"}) THEN task[e].cnt ELSE query_cnt

\* The finish function is published before the start function and a cleanup
\* takes both back together with the names.
FinishIsOwn ==
  \A e \in Engine :
    /\ CompilesAt(e, {"start"}) /\ names[e] # <<>> =>
         finish_ # Null /\ finish_.module = TaskModule(e)
    /\ (Compiling(e) => task[e].pc = "end") /\ Len(names[e]) = 1
          /\ start_[e] # Null =>
         finish_ # Null /\ finish_.module = start_[e]

\* The inductive strengthening, for a process with one engine.
OneEngineInv ==
  Cardinality(Engine) = 1 /\ status = "ok" => CountIsFresh /\ FinishIsOwn

(***************************************************************************)
(* Why PassesOwnLabels holds.                                              *)
(***************************************************************************)

\* How many labels of its query an engine's compile task has stored so far.
Stored(e) ==
  LET n == Labels[cur_query_[e]]
  IN CASE CompilesAt(e, {"qid", "load", "store", "module", "root"}) -> 0
       [] CompilesAt(e, {"walk"}) -> IF task[e].k < n THEN task[e].k ELSE n
       [] OTHER -> n

\* The arguments of an engine at its first query are the labels stored so
\* far, in order.
FirstArgs(e) ==
  /\ generated[e] = 0 => args[e] = <<>> /\ ~Compiling(e)
  /\ generated[e] = 1 =>
       /\ cur_query_[e] \in Plan
       /\ Len(args[e]) = Stored(e)
       /\ \A k \in 1..Len(args[e]) : args[e][k] = Label(cur_query_[e], k)

\* Only run(rs) takes a copy of the arguments, and on an engine that does not
\* compile in parallel nothing changes them between the copy and the call.
HasCopy ==
  /\ client.pc = "run_join" => parallel_[client.eng]
  /\ client.pc \in {"par_join", "par_exec"} => ~client.own
  /\ client.pc = "run_exec" /\ client.own /\ ~parallel_[client.eng] =>
       client.args = FirstSlots(args[client.eng])

LabelInv == status = "ok" => HasCopy /\ \A e \in Engine : FirstArgs(e)
-----------------------------------------------------------------------------
(***************************************************************************)
(* Promises of the repository's comments that the code does not keep.      *)
(***************************************************************************)

\* README.md, line 12: once compilation is complete, execution switches to the
\* compiled version (of the query).  run_parallel leaves the first query's
\* names behind, and start_[0] is looked up under the first of them.
SwitchesToCompiledVersion ==
  Called /\ call.kind = "run_parallel" => call.start.plan = call.query

\* codegen_inline.hpp, line 113: the argument array has 64 slots.  cleanup
\* empties query_args no more than it resets arg_counter.
ArgsInBounds == \A e \in Engine : Len(args[e]) < Slots

\* codegen_inline.cpp, line 855: the sort operator executes "the given sorting
\* predicate".  The predicate executed is that of the Sort constructed last.
SortsByGivenPredicate ==
  Called /\ call.finish # Null =>
    LET sorted == call.finish.module.plan
    IN sorted \in SortPlan => call.cmp = sorted
=============================================================================
