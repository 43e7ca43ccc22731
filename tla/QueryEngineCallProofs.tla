----------------------- MODULE QueryEngineCallProofs -----------------------
(***************************************************************************)
(* More theorems about QueryEngine, for every set of plans and every       *)
(* bound: no engine is destroyed under its compile thread; a process with  *)
(* one engine never repeats an identifier and finishes a query with the    *)
(* function compiled with it; the first query of an engine is called with  *)
(* its own labels.                                                         *)
(***************************************************************************)
EXTENDS QueryEngineProofs, FiniteSetTheorems

\* A step is taken by a running process only.
LEMMA StepOk == Next => status = "ok"
  <1>1. ASSUME NEW p \in Plan, Build(p) PROVE status = "ok"
    BY <1>1 DEF Build, Idle
  <1>2. ASSUME NEW e \in Engine, Call(e) PROVE status = "ok"
    BY <1>2 DEF Call, Generate, Run, RunParallel, Cleanup, Destroy, Idle
  <1>3. ASSUME NEW e \in Engine, Continue(e) PROVE status = "ok"
    BY <1>3 DEF Continue, GenerateJoin, RunJoin, RunExec, RunCleanup,
                ParallelJoin, ParallelExec, DestroyJoin, At
  <1>4. ASSUME NEW e \in Engine, Compile(e) PROVE status = "ok"
    BY <1>4 DEF Compile, ReadQid, LoadCnt, StoreCnt, AddModule, WalkRoot,
                WalkNext, PublishFinish, PublishStart, TaskReturn, TaskAt
  <1> QED
    BY <1>1, <1>2, <1>3, <1>4 DEF Next

\* A join starts no compile thread.
LEMMA JoinStops ==
  ASSUME TypeOK, NEW e \in Engine, JoinIfJoinable(e) \/ Join(e)
  PROVE  /\ \A f \in Engine : Compiling(f)' => Compiling(f)
         /\ ~Compiling(e) /\ ~Compiling(e)'
  BY DEF TypeOK, JoinIfJoinable, Join, Compiling

\* What the compile task never touches; it may only return.
LEMMA CompileFrame ==
  ASSUME TypeOK, NEW e \in Engine, Compile(e)
  PROVE  /\ UNCHANGED <<built, cmp_, alive, cur_query_, parallel_, generated,
                        client, call>>
         /\ Compiling(e) /\ status = "ok"
         /\ \A f \in Engine : Compiling(f)' => Compiling(f)
  <1>1. CASE ReadQid(e) \/ LoadCnt(e)
    BY <1>1 DEF ReadQid, LoadCnt, TaskAt, Compiling, statics
  <1>2. CASE StoreCnt(e)
    BY <1>2 DEF StoreCnt, TaskAt, Compiling
  <1>3. CASE AddModule(e)
    BY <1>3 DEF AddModule, TaskAt, Compiling, statics
  <1>4. CASE WalkRoot(e)
    BY <1>4 DEF WalkRoot, TaskAt, Compiling, statics
  <1>5. CASE WalkNext(e)
    BY <1>5 DEF WalkNext, TaskAt, Compiling, statics
  <1>6. CASE PublishFinish(e)
    BY <1>6 DEF PublishFinish, TaskAt, Compiling
  <1>7. CASE PublishStart(e)
    BY <1>7 DEF PublishStart, TaskAt, Compiling, statics
  <1>8. CASE TaskReturn(e)
    BY <1>8 DEF TaskReturn, TaskAt, Compiling, statics, TypeOK
  <1> QED
    BY <1>1, <1>2, <1>3, <1>4, <1>5, <1>6, <1>7, <1>8 DEF Compile

-----------------------------------------------------------------------------
(***************************************************************************)
(* NoCompileAfterDestroy is inductive: only a living engine is given a     *)
(* compile thread, and the client leaves a destructor through its join.    *)
(***************************************************************************)
LEMMA DestroyStep ==
  TypeOK /\ NoCompileAfterDestroy /\ [Next]_vars => NoCompileAfterDestroy'
  <1> SUFFICES ASSUME TypeOK, NoCompileAfterDestroy, [Next]_vars
               PROVE  NoCompileAfterDestroy'
    OBVIOUS
  <1> USE DEF NoCompileAfterDestroy
  \* Outside a destructor no dead engine compiles.
  <1>a. ASSUME client.pc # "destroy", alive' = alive,
               \A f \in Engine : Compiling(f)' => Compiling(f)
        PROVE  NoCompileAfterDestroy'
    BY <1>a
  <1>1. ASSUME NEW p \in Plan, Build(p) PROVE NoCompileAfterDestroy'
    BY <1>1, <1>a DEF Build, Idle, Compiling
  <1>2. ASSUME NEW e \in Engine, Call(e) PROVE NoCompileAfterDestroy'
    <2>1. ASSUME NEW p \in Plan, NEW par \in BOOLEAN, Generate(e, p, par)
          PROVE  NoCompileAfterDestroy'
      <3>1. client.pc = "idle" /\ alive[e] /\ alive' = alive
        BY <2>1 DEF Generate, Idle
      <3>2. \A f \in Engine : f # e /\ Compiling(f)' => Compiling(f)
        BY <2>1 DEF Generate, Compiling, TypeOK
      <3> QED
        BY <3>1, <3>2
    <2>2. ASSUME NEW own \in BOOLEAN, NEW cleanup \in CleanupArg,
                 Run(e, own, cleanup)
          PROVE  NoCompileAfterDestroy'
      BY <2>2, <1>a DEF Run, Idle, Compiling
    <2>3. CASE RunParallel(e)
      BY <2>3, <1>a DEF RunParallel, Idle, Compiling
    <2>4. CASE Cleanup(e)
      BY <2>4, <1>a DEF Cleanup, Idle, Compiling
    <2>5. CASE Destroy(e)
      BY <2>5 DEF Destroy, Idle, Compiling, TypeOK, Client
    <2> QED
      BY <1>2, <2>1, <2>2, <2>3, <2>4, <2>5 DEF Call
  <1>3. ASSUME NEW e \in Engine, Continue(e) PROVE NoCompileAfterDestroy'
    <2>1. CASE GenerateJoin(e)
      BY <2>1, <1>a, JoinStops DEF GenerateJoin, At
    <2>2. CASE RunJoin(e)
      BY <2>2, <1>a, JoinStops DEF RunJoin, At, Compiling
    <2>3. CASE RunExec(e)
      BY <2>3, <1>a DEF RunExec, At, Compiling
    <2>4. CASE RunCleanup(e)
      BY <2>4, <1>a DEF RunCleanup, At, Compiling
    <2>5. CASE ParallelJoin(e)
      BY <2>5, <1>a, JoinStops DEF ParallelJoin, At
    <2>6. CASE ParallelExec(e)
      BY <2>6, <1>a DEF ParallelExec, At, Compiling
    <2>7. CASE DestroyJoin(e)
      <3>1. client.eng = e /\ alive' = alive
        BY <2>7 DEF DestroyJoin, At
      <3> QED
        BY <2>7, <3>1, JoinStops DEF DestroyJoin
    <2> QED
      BY <1>3, <2>1, <2>2, <2>3, <2>4, <2>5, <2>6, <2>7 DEF Continue
  <1>4. ASSUME NEW e \in Engine, Compile(e) PROVE NoCompileAfterDestroy'
    BY <1>4, CompileFrame
  <1>5. CASE UNCHANGED vars
    BY <1>5 DEF vars, Compiling
  <1> QED
    BY <1>1, <1>2, <1>3, <1>4, <1>5 DEF Next

\* No engine is destroyed while its compile thread still works on it, for any
\* number of engines compiling at the same time.
THEOREM NoCompile == Spec => []NoCompileAfterDestroy
  <1>1. Init => NoCompileAfterDestroy
    BY DEF Init, NoCompileAfterDestroy
  <1> QED
    BY <1>1, TypeInit, TypeStep, DestroyStep, PTL DEF Spec

\* The strengthening that RunsOwnQuery rests on: the task compiles the query
\* its engine is at, a single name left is its own, start_ is of that query,
\* and nobody executes a plan that is still being compiled.
THEOREM OwnQueryState == Spec => []OwnQueryInv
  BY TypeInit, TypeStep, OwnInit, OwnStep, PTL DEF Spec

-----------------------------------------------------------------------------
(***************************************************************************)
(* A process with one engine.  Its compile task is the only one, so the    *)
(* unlocked query_cnt++ is not interrupted and finish_ is its own.         *)
(***************************************************************************)
LEMMA OneEngine ==
  ASSUME Cardinality(Engine) = 1
  PROVE  \E e \in Engine : Engine = {e}
  BY FS_Singleton, EngineAssumption

\* Code is called where a run has joined the compile thread, and nowhere else.
LEMMA CallStep ==
  ASSUME [Next]_vars
  PROVE  \/ call' = call
         \/ \E e \in Engine, kind \in {"run", "run_parallel"} :
              /\ call' = CallOf(e, kind)
              /\ client.eng = e
              /\ client.pc = IF kind = "run" THEN "run_exec" ELSE "par_exec"
  <1>1. ASSUME NEW p \in Plan, Build(p) PROVE call' = call
    BY <1>1 DEF Build
  <1>2. ASSUME NEW e \in Engine, Call(e) PROVE call' = call
    BY <1>2 DEF Call, Generate, Run, RunParallel, Cleanup, Destroy
  <1>3. ASSUME NEW e \in Engine, Compile(e) PROVE call' = call
    BY <1>3 DEF Compile, ReadQid, LoadCnt, StoreCnt, AddModule, WalkRoot,
                WalkNext, PublishFinish, PublishStart, TaskReturn
  <1>4. ASSUME NEW e \in Engine,
               GenerateJoin(e) \/ RunJoin(e) \/ RunCleanup(e)
                 \/ ParallelJoin(e) \/ DestroyJoin(e)
        PROVE call' = call
    BY <1>4 DEF GenerateJoin, RunJoin, RunCleanup, ParallelJoin, DestroyJoin
  <1>5. ASSUME NEW e \in Engine, RunExec(e)
        PROVE  call' = call
               \/ /\ call' = CallOf(e, "run")
                  /\ client.eng = e /\ client.pc = "run_exec"
    BY <1>5 DEF RunExec, At
  <1>6. ASSUME NEW e \in Engine, ParallelExec(e)
        PROVE  call' = call
               \/ /\ call' = CallOf(e, "run_parallel")
                  /\ client.eng = e /\ client.pc = "par_exec"
    BY <1>6 DEF ParallelExec, At
  <1>7. CASE UNCHANGED vars
    BY <1>7 DEF vars
  <1> QED
    BY <1>1, <1>2, <1>3, <1>4, <1>5, <1>6, <1>7 DEF Next, Continue

\* The identifiers stay fresh.
LEMMA CountStep ==
  ASSUME TypeOK, CountIsFresh, NEW e \in Engine, Engine = {e}, Next,
         status' = "ok"
  PROVE  CountIsFresh'
  <1> USE DEF CountIsFresh, CompilesAt
  <1>t. /\ task[e] \in Task /\ task \in [Engine -> Task]
        /\ compile_th \in [Engine -> ThreadState]
        /\ jit \in [Engine -> SUBSET Module] /\ query_cnt \in Nat
    BY DEF TypeOK
  <1>n. task[e].cnt \in Nat /\ task[e].tmp \in Nat
        /\ \A m \in jit[e] : m.cnt \in Nat
    BY <1>t DEF Task, Module
  <1>0. ASSUME UNCHANGED <<compile_th, task, jit, query_cnt>>
        PROVE  CountIsFresh'
    BY <1>0 DEF Compiling
  <1>1. ASSUME NEW p \in Plan, Build(p) PROVE CountIsFresh'
    BY <1>1, <1>0 DEF Build
  <1>2. ASSUME NEW p \in Plan, NEW par \in BOOLEAN, Generate(e, p, par)
        PROVE  CountIsFresh'
    <2>1. /\ compile_th[e] = "none" /\ UNCHANGED <<jit, query_cnt>>
          /\ task' = [task EXCEPT ![e] = [IdleTask EXCEPT !.pc = "qid",
                                                          !.plan = p]]
      BY <1>2 DEF Generate
    <2>2. task'[e].pc = "qid" /\ ~Compiling(e)
      BY <2>1, <1>t DEF IdleTask, Compiling
    <2> QED
      BY <2>1, <2>2
  <1>3. ASSUME NEW own \in BOOLEAN, NEW cleanup \in CleanupArg,
               Run(e, own, cleanup)
        PROVE  CountIsFresh'
    BY <1>3, <1>0 DEF Run, statics
  <1>4. CASE RunParallel(e) \/ Cleanup(e) \/ Destroy(e)
    BY <1>4, <1>0 DEF RunParallel, Cleanup, Destroy, statics
  <1>5. CASE RunExec(e) \/ RunCleanup(e) \/ ParallelExec(e)
    BY <1>5, <1>0 DEF RunExec, RunCleanup, ParallelExec, statics
  <1>6. CASE GenerateJoin(e) \/ RunJoin(e) \/ ParallelJoin(e) \/ DestroyJoin(e)
    <2>1. UNCHANGED <<task, query_cnt>> /\ jit'[e] \subseteq jit[e]
      BY <1>6, <1>t
      DEF GenerateJoin, RunJoin, ParallelJoin, DestroyJoin, statics
    <2>2. ~Compiling(e) /\ ~Compiling(e)'
      BY <1>6, JoinStops
      DEF GenerateJoin, RunJoin, ParallelJoin, DestroyJoin
    <2> QED
      BY <2>1, <2>2
  <1>7. CASE ReadQid(e)
    <2>1. task'[e].cnt = query_cnt /\ task'[e].pc = "load"
      BY <1>7, <1>t DEF ReadQid, Task
    <2> QED
      BY <1>7, <2>1 DEF ReadQid, TaskAt, statics, Compiling
  <1>8. CASE LoadCnt(e)
    <2>1. task'[e].cnt = task[e].cnt /\ task'[e].tmp = query_cnt
          /\ task'[e].pc = "store"
      BY <1>8, <1>t DEF LoadCnt, Task
    <2> QED
      BY <1>8, <2>1 DEF LoadCnt, TaskAt, statics, Compiling
  <1>9. CASE StoreCnt(e)
    <2>1. task'[e].cnt = task[e].cnt /\ task'[e].pc = "module"
      BY <1>9, <1>t DEF StoreCnt, Task
    <2>2. /\ task[e].cnt = query_cnt /\ query_cnt' = query_cnt + 1
          /\ jit' = jit /\ Compiling(e)' /\ \A m \in jit[e] : m.cnt < query_cnt
      BY <1>9 DEF StoreCnt, TaskAt, Compiling
    <2> QED
      BY <2>1, <2>2, <1>n, <1>t
  <1>10. CASE AddModule(e)
    <2>1. /\ jit'[e] = jit[e] \cup {TaskModule(e)} /\ task'[e].pc = "root"
          /\ query_cnt' = query_cnt
      BY <1>10, <1>t DEF AddModule, Task, statics
    <2>2. /\ task[e].cnt < query_cnt
          /\ \A m \in jit[e] : m.cnt < task[e].cnt
      BY <1>10 DEF AddModule, TaskAt
    <2>3. \A m \in jit'[e] : m.cnt < query_cnt
      BY <2>1, <2>2, <1>n, <1>t DEF TaskModule
    <2> QED
      BY <2>1, <2>3
  <1>11. ASSUME ~CompilesAt(e, {"module"}),
                UNCHANGED <<jit, query_cnt>>,
                ~CompilesAt(e, {"load", "store", "module"})'
         PROVE  CountIsFresh'
    BY <1>11
  <1>12. CASE WalkRoot(e)
    <2>1. task'[e].pc = "walk"
      BY <1>12, <1>t DEF WalkRoot, Task
    <2> QED
      BY <1>12, <2>1, <1>11 DEF WalkRoot, TaskAt, statics
  <1>13. CASE WalkNext(e)
    <2>1. \/ task'[e] = [task[e] EXCEPT !.k = task[e].k + 1]
          \/ task'[e] = [task[e] EXCEPT !.pc = "finish"]
      BY <1>13, <1>t DEF WalkNext
    <2>2. task'[e].pc \in {"walk", "finish"}
      BY <1>13, <2>1, <1>t DEF WalkNext, TaskAt, Task
    <2> QED
      BY <1>13, <2>2, <1>11 DEF WalkNext, TaskAt, statics
  <1>14. CASE PublishFinish(e)
    <2>1. task'[e].pc = "start"
      BY <1>14, <1>t DEF PublishFinish, Task
    <2> QED
      BY <1>14, <2>1, <1>11 DEF PublishFinish, TaskAt
  <1>15. CASE PublishStart(e)
    <2>1. task'[e].pc = "end"
      BY <1>15, <1>t DEF PublishStart, Task
    <2> QED
      BY <1>15, <2>1, <1>11 DEF PublishStart, TaskAt, statics
  <1>16. CASE TaskReturn(e)
    BY <1>16, <1>11 DEF TaskReturn, TaskAt, statics
  <1> QED
    BY <1>1, <1>2, <1>3, <1>4, <1>5, <1>6, <1>7, <1>8, <1>9, <1>10, <1>12,
       <1>13, <1>14, <1>15, <1>16
    DEF Next, Call, Continue, Compile

\* The finish function stays that of the code it is called with.
LEMMA FinishStep ==
  ASSUME TypeOK, LastNameIsOwn, FinishIsOwn, NEW e \in Engine, Engine = {e},
         Next, status' = "ok"
  PROVE  FinishIsOwn'
  <1> USE DEF FinishIsOwn, CompilesAt
  <1>t. /\ task[e] \in Task /\ task \in [Engine -> Task]
        /\ compile_th \in [Engine -> ThreadState]
        /\ names \in [Engine -> Seq(Module)]
        /\ start_ \in [Engine -> Module \cup {Null}]
    BY DEF TypeOK
  <1>0. ASSUME UNCHANGED <<compile_th, task, names, start_, finish_>>
        PROVE  FinishIsOwn'
    BY <1>0 DEF Compiling, TaskModule
  \* Early in a compilation nothing is claimed.
  <1>v. ASSUME Compiling(e)',
               task'[e].pc \in {"qid", "load", "store", "module", "root",
                                "walk", "finish"}
        PROVE  FinishIsOwn'
    BY <1>v
  \* Neither is it when there are no names.
  <1>c. ASSUME names'[e] = <<>> PROVE FinishIsOwn'
    BY <1>c
  <1>1. ASSUME NEW p \in Plan, Build(p) PROVE FinishIsOwn'
    BY <1>1, <1>0 DEF Build
  <1>2. ASSUME NEW p \in Plan, NEW par \in BOOLEAN, Generate(e, p, par)
        PROVE  FinishIsOwn'
    <2>1. /\ compile_th' = [compile_th EXCEPT ![e] = "running"]
          /\ task' = [task EXCEPT ![e] = [IdleTask EXCEPT !.pc = "qid",
                                                          !.plan = p]]
      BY <1>2 DEF Generate
    <2>2. task'[e].pc = "qid" /\ Compiling(e)'
      BY <2>1, <1>t DEF IdleTask, Compiling
    <2> QED
      BY <2>2, <1>v
  <1>3. ASSUME NEW own \in BOOLEAN, NEW cleanup \in CleanupArg,
               Run(e, own, cleanup)
        PROVE  FinishIsOwn'
    BY <1>3, <1>0 DEF Run, statics
  <1>4. CASE RunParallel(e) \/ Destroy(e)
    BY <1>4, <1>0 DEF RunParallel, Destroy, statics
  <1>5. CASE RunCleanup(e) \/ Cleanup(e)
    <2>1. names'[e] = <<>>
      BY <1>5, <1>t DEF RunCleanup, Cleanup, ClearPublished
    <2> QED
      BY <2>1, <1>c
  <1>6. CASE RunExec(e) \/ ParallelExec(e)
    BY <1>6, <1>0 DEF RunExec, ParallelExec, statics
  <1>7. CASE GenerateJoin(e) \/ RunJoin(e) \/ ParallelJoin(e) \/ DestroyJoin(e)
    <2>1. UNCHANGED <<task, names, start_, finish_>>
      BY <1>7 DEF GenerateJoin, RunJoin, ParallelJoin, DestroyJoin, statics
    <2>2. ~Compiling(e) /\ ~Compiling(e)'
      BY <1>7, JoinStops
      DEF GenerateJoin, RunJoin, ParallelJoin, DestroyJoin
    <2> QED
      BY <2>1, <2>2
  <1>8. CASE ReadQid(e) \/ LoadCnt(e)
    <2>1. Compiling(e)'
      BY <1>8 DEF ReadQid, LoadCnt, TaskAt, Compiling
    <2>2. CASE ReadQid(e)
      BY <2>1, <2>2, <1>t, <1>v DEF ReadQid, Task
    <2>3. CASE LoadCnt(e)
      BY <2>1, <2>3, <1>t, <1>v DEF LoadCnt, Task
    <2> QED
      BY <1>8, <2>2, <2>3
  <1>9. CASE StoreCnt(e)
    BY <1>9, <1>t, <1>v DEF StoreCnt, TaskAt, Compiling, Task
  <1>10. CASE AddModule(e)
    BY <1>10, <1>t, <1>v DEF AddModule, TaskAt, Compiling, Task
  <1>11. CASE WalkRoot(e)
    BY <1>11, <1>t, <1>v DEF WalkRoot, TaskAt, Compiling, Task
  <1>12. CASE WalkNext(e)
    <2>1. \/ task'[e] = [task[e] EXCEPT !.k = task[e].k + 1]
          \/ task'[e] = [task[e] EXCEPT !.pc = "finish"]
      BY <1>12, <1>t DEF WalkNext
    <2>2. task'[e].pc \in {"walk", "finish"} /\ Compiling(e)'
      BY <1>12, <2>1, <1>t DEF WalkNext, TaskAt, Task, Compiling
    <2> QED
      BY <2>2, <1>v
  <1>13. CASE PublishFinish(e)
    <2>1. task'[e].pc = "start" /\ TaskModule(e)' = TaskModule(e)
          /\ Compiling(e)'
      BY <1>13, <1>t DEF PublishFinish, TaskAt, Task, TaskModule, Compiling
    <2>2. finish_' = [eng |-> e, module |-> TaskModule(e)]
      BY <1>13 DEF PublishFinish
    <2>3. finish_' # Null /\ finish_'.module = TaskModule(e)
      <3>1. TaskModule(e) \in Module
        BY <1>t, TypeTask, PCs DEF TaskModule
      <3>2. finish_' \in Finish
        BY <2>2, <3>1 DEF Finish
      <3> QED
        BY <2>2, <3>2, NullAssumption
    <2> QED
      BY <2>1, <2>3
  <1>14. CASE PublishStart(e)
    <2>1. /\ names[e] # <<>> /\ UNCHANGED <<names, finish_>>
          /\ task[e].pc = "start" /\ Compiling(e) /\ Compiling(e)'
          /\ start_'[e] = names[e][1] /\ task'[e].pc = "end"
      BY <1>14, <1>t
      DEF PublishStart, TaskAt, Task, Compiling, statics
    <2>2. names[e][Len(names[e])] = TaskModule(e)
      BY <2>1 DEF LastNameIsOwn
    <2>3. finish_ # Null /\ finish_.module = TaskModule(e)
      BY <2>1
    <2> QED
      BY <2>1, <2>2, <2>3
  <1>15. CASE TaskReturn(e)
    <2>1. /\ UNCHANGED <<task, names, start_, finish_>>
          /\ task[e].pc = "end" /\ ~Compiling(e)'
      BY <1>15, <1>t DEF TaskReturn, TaskAt, Compiling, statics
    <2> QED
      BY <2>1
  <1> QED
    BY <1>1, <1>2, <1>3, <1>4, <1>5, <1>6, <1>7, <1>8, <1>9, <1>10, <1>11,
       <1>12, <1>13, <1>14, <1>15
    DEF Next, Call, Continue, Compile

LEMMA OneEngineInit == Init => OneEngineInv
  BY DEF Init, OneEngineInv, CountIsFresh, FinishIsOwn, CompilesAt, Compiling

LEMMA OneEngineStep ==
  TypeOK /\ OwnQueryInv /\ OneEngineInv /\ [Next]_vars => OneEngineInv'
  <1> SUFFICES ASSUME TypeOK, OwnQueryInv, OneEngineInv, [Next]_vars,
                      Cardinality(Engine) = 1, status' = "ok"
               PROVE  CountIsFresh' /\ FinishIsOwn'
    BY DEF OneEngineInv
  <1>1. PICK e \in Engine : Engine = {e}
    BY OneEngine
  <1>2. CASE Next
    <2>1. CountIsFresh /\ FinishIsOwn /\ LastNameIsOwn
      BY <1>2, StepOk DEF OneEngineInv, OwnQueryInv
    <2> QED
      BY <1>1, <1>2, <2>1, CountStep, FinishStep
  <1>3. CASE UNCHANGED vars
    BY <1>3 DEF vars, OneEngineInv, CountIsFresh, FinishIsOwn, CompilesAt,
                Compiling, TaskModule
  <1> QED
    BY <1>2, <1>3

\* addModule is the only call that can exit the process.
LEMMA ExitStep ==
  ASSUME [Next]_vars, status # "exited", status' = "exited"
  PROVE  \E e \in Engine : TaskAt(e, "module")
                           /\ \E m \in jit[e] : SameSymbols(m, TaskModule(e))
  <1>1. ASSUME NEW p \in Plan, Build(p) PROVE FALSE
    BY <1>1 DEF Build
  <1>2. ASSUME NEW e \in Engine, Call(e) PROVE FALSE
    BY <1>2 DEF Call, Generate, Run, RunParallel, Cleanup, Destroy, StatusAfter
  <1>3. ASSUME NEW e \in Engine, Continue(e) PROVE FALSE
    BY <1>3 DEF Continue, GenerateJoin, RunJoin, RunExec, RunCleanup,
                ParallelJoin, ParallelExec, DestroyJoin, StatusAfter
  <1>4. ASSUME NEW e \in Engine, Compile(e) PROVE AddModule(e)
    BY <1>4 DEF Compile, ReadQid, LoadCnt, StoreCnt, WalkRoot, WalkNext,
                StoreArg, PublishFinish, PublishStart, TaskReturn
  <1>5. ~UNCHANGED vars
    BY DEF vars
  <1>6. PICK e \in Engine : AddModule(e)
    BY <1>1, <1>2, <1>3, <1>4, <1>5 DEF Next
  <1> QED
    BY <1>6 DEF AddModule

LEMMA UniqueStep ==
  TypeOK /\ OneEngineInv /\ IdentifiersUnique /\ [Next]_vars
    => IdentifiersUnique'
  <1> SUFFICES ASSUME TypeOK, OneEngineInv, IdentifiersUnique, [Next]_vars,
                      Cardinality(Engine) = 1, CreatePlan = {},
                      status' = "exited"
               PROVE  FALSE
    BY DEF IdentifiersUnique
  <1>1. status # "exited"
    BY DEF IdentifiersUnique
  <1>2. PICK e \in Engine : TaskAt(e, "module")
                           /\ \E m \in jit[e] : SameSymbols(m, TaskModule(e))
    BY <1>1, ExitStep
  <1>3. PICK m \in jit[e] : m.cnt = task[e].cnt
    BY <1>2 DEF SameSymbols, TaskModule
  <1>4. m.cnt < task[e].cnt
    BY <1>2 DEF TaskAt, OneEngineInv, CountIsFresh, CompilesAt
  <1>5. task[e].cnt \in Nat
    BY DEF TypeOK, Task
  <1> QED
    BY <1>3, <1>4, <1>5

LEMMA FinishesStep ==
  TypeOK /\ OwnQueryInv /\ OneEngineInv /\ FinishesOwnQuery /\ [Next]_vars
    => FinishesOwnQuery'
  <1> SUFFICES ASSUME TypeOK, OwnQueryInv, OneEngineInv, FinishesOwnQuery,
                      [Next]_vars, Called', call'.compiled = 1,
                      Cardinality(Engine) = 1
               PROVE  call'.finish # Null /\ call'.finish.module = call'.start
    BY DEF FinishesOwnQuery
  <1>1. CASE call' = call
    BY <1>1 DEF FinishesOwnQuery, Called
  <1>2. ASSUME NEW e \in Engine, NEW kind, call' = CallOf(e, kind),
               client.eng = e, client.pc \in {"run_exec", "par_exec"}, Next
        PROVE  call'.finish # Null /\ call'.finish.module = call'.start
    <2>1. FinishIsOwn /\ JoinedBeforeUse
      BY <1>2, StepOk DEF OneEngineInv, OwnQueryInv
    <2>2. ~Compiling(e)
      BY <1>2, <2>1 DEF JoinedBeforeUse
    <2>3. /\ call'.start = start_[e] /\ call'.compiled = Len(names[e])
          /\ call'.finish = finish_
      BY <1>2 DEF CallOf
    <2> QED
      BY <2>1, <2>2, <2>3 DEF FinishIsOwn, Called
  <1>3. CASE Next
    BY <1>1, <1>2, <1>3, CallStep
  <1>4. CASE UNCHANGED vars
    BY <1>1, <1>4 DEF vars
  <1> QED
    BY <1>3, <1>4

\* With one engine, addModule never meets a symbol it knows: the identifiers
\* of successive compilations differ, for any plans and any number of them.
THEOREM Unique == Spec => []IdentifiersUnique
  <1>1. Init => IdentifiersUnique
    BY DEF Init, IdentifiersUnique
  <1> QED
    BY <1>1, TypeInit, TypeStep, OwnInit, OwnStep, OneEngineInit,
       OneEngineStep, UniqueStep, PTL DEF Spec

\* With one engine that is cleaned up between queries, the finish function
\* the compiled code is called with was compiled with it, wherever a cleanup
\* falls during the compilation.
THEOREM FinishOwn == Spec => []FinishesOwnQuery
  <1>1. Init => FinishesOwnQuery
    BY DEF Init, FinishesOwnQuery, Called
  <1> QED
    BY <1>1, TypeInit, TypeStep, OwnInit, OwnStep, OneEngineInit,
       OneEngineStep, FinishesStep, PTL DEF Spec

\* The strengthening both rest on holds of every process with one engine.
THEOREM OneEngineState == Spec => []OneEngineInv
  BY TypeInit, TypeStep, OwnInit, OwnStep, OneEngineInit, OneEngineStep, PTL
  DEF Spec

-----------------------------------------------------------------------------
(***************************************************************************)
(* PassesOwnLabels, for any number of engines.  The walk appends labels    *)
(* of the current query one by one; an engine's first query finds no       *)
(* arguments there, and a run copies them when the walk is over.           *)
(***************************************************************************)
LEMMA LabelInit == Init => LabelInv
  BY DEF Init, LabelInv, HasCopy, FirstArgs, Compiling

\* What FirstArgs speaks of, for one engine.
LEMMA FirstKept ==
  ASSUME NEW f \in Engine, FirstArgs(f),
         generated'[f] = generated[f], args'[f] = args[f],
         cur_query_'[f] = cur_query_[f], task'[f] = task[f],
         Compiling(f)' <=> Compiling(f)
  PROVE  FirstArgs(f)'
  BY DEF FirstArgs, Stored, CompilesAt

\* Before the walk, and after it, the number of labels stored is fixed.
LEMMA StoredCases ==
  ASSUME NEW e \in Engine
  PROVE  /\ CompilesAt(e, {"qid", "load", "store", "module", "root"}) =>
              Stored(e) = 0
         /\ CompilesAt(e, {"walk"}) =>
              Stored(e) = IF task[e].k < Labels[cur_query_[e]] THEN task[e].k
                          ELSE Labels[cur_query_[e]]
         /\ ~Compiling(e) \/ task[e].pc \in {"finish", "start", "end"} =>
              Stored(e) = Labels[cur_query_[e]]
  BY DEF Stored, CompilesAt

\* The compile task keeps FirstArgs of its own engine.
LEMMA FirstCompile ==
  ASSUME TypeOK, TaskIsCurrent, NEW e \in Engine, FirstArgs(e), Compile(e),
         status' = "ok"
  PROVE  FirstArgs(e)'
  <1>t. /\ task[e] \in Task /\ task \in [Engine -> Task]
        /\ compile_th \in [Engine -> ThreadState]
        /\ args[e] \in ArgList /\ args \in [Engine -> ArgList]
        /\ generated[e] \in Nat
    BY DEF TypeOK
  <1>f. /\ UNCHANGED <<cur_query_, generated>> /\ Compiling(e)
        /\ task[e].plan = cur_query_[e] /\ generated[e] # 0
    BY CompileFrame DEF TaskIsCurrent, FirstArgs
  <1> SUFFICES ASSUME generated[e] = 1
               PROVE  /\ Len(args'[e]) = Stored(e)'
                      /\ \A k \in 1..Len(args'[e]) :
                           args'[e][k] = Label(cur_query_[e], k)
    BY <1>f DEF FirstArgs
  <1> DEFINE p == cur_query_[e]
             n == Labels[p]
  <1>a. /\ p \in Plan /\ n \in Nat /\ Len(args[e]) = Stored(e)
        /\ \A k \in 1..Len(args[e]) : args[e][k] = Label(p, k)
    BY EngineAssumption DEF FirstArgs
  \* A step that stores nothing.
  <1>0. ASSUME args'[e] = args[e], Stored(e)' = Stored(e)
        PROVE  /\ Len(args'[e]) = Stored(e)'
               /\ \A k \in 1..Len(args'[e]) : args'[e][k] = Label(p, k)
    BY <1>0, <1>a
  \* A step that stores label k.
  <1>s. ASSUME NEW k \in Nat, Len(args[e]) = k, Stored(e)' = k + 1,
               args'[e] = Append(args[e], Label(p, k + 1))
        PROVE  /\ Len(args'[e]) = Stored(e)'
               /\ \A i \in 1..Len(args'[e]) : args'[e][i] = Label(p, i)
    <2>1. args[e] \in Seq([plan : Plan \cup {Null}, k : Nat])
      BY <1>t DEF ArgList
    <2>2. Len(args'[e]) = k + 1
      BY <1>s, <2>1
    <2>3. ASSUME NEW i \in 1..(k + 1) PROVE args'[e][i] = Label(p, i)
      <3>1. CASE i <= k
        BY <1>a, <1>s, <2>1, <3>1
      <3>2. CASE i = k + 1
        BY <1>s, <2>1, <3>2
      <3> QED
        BY <3>1, <3>2
    <2> QED
      BY <1>s, <2>2, <2>3
  <1>1. CASE ReadQid(e) \/ LoadCnt(e)
    <2>1. Compiling(e)' /\ args' = args /\ task[e].pc \in {"qid", "load"}
      BY <1>1 DEF ReadQid, LoadCnt, TaskAt, Compiling
    <2>2. task'[e].pc \in {"load", "store"}
      <3>1. CASE ReadQid(e)
        BY <3>1, <1>t DEF ReadQid, Task
      <3>2. CASE LoadCnt(e)
        BY <3>2, <1>t DEF LoadCnt, Task
      <3> QED
        BY <1>1, <3>1, <3>2
    <2> QED
      BY <1>0, <1>f, <2>1, <2>2 DEF Stored, CompilesAt
  <1>2. CASE StoreCnt(e)
    <2>1. Compiling(e)' /\ args' = args /\ task[e].pc = "store"
          /\ task'[e].pc = "module"
      BY <1>2, <1>t DEF StoreCnt, TaskAt, Compiling, Task
    <2> QED
      BY <1>0, <1>f, <2>1 DEF Stored, CompilesAt
  <1>3. CASE AddModule(e)
    <2>1. Compiling(e)' /\ args' = args /\ task[e].pc = "module"
          /\ task'[e].pc = "root"
      BY <1>3, <1>t DEF AddModule, TaskAt, Compiling, Task
    <2> QED
      BY <1>0, <1>f, <2>1 DEF Stored, CompilesAt
  <1>4. CASE WalkRoot(e)
    <2> DEFINE k == IF p \in CreatePlan THEN 0 ELSE 1
    <2>1. /\ task[e].pc = "root" /\ Compiling(e)'
          /\ IF k = 1 /\ n >= 1
             THEN args' = [args EXCEPT ![e] = Append(@, Label(p, 1))]
             ELSE args' = args
          /\ task' = [task EXCEPT ![e] = [@ EXCEPT !.pc = "walk", !.k = k]]
      BY <1>4, <1>f DEF WalkRoot, TaskAt, Compiling, StoreArg
    <2>2. task'[e].pc = "walk" /\ task'[e].k = k
      BY <2>1, <1>t DEF Task
    <2>3. Stored(e) = 0
      BY <1>f, <2>1, StoredCases DEF CompilesAt
    <2>4. Stored(e)' = IF k < n THEN k ELSE n
      BY <1>f, <2>1, <2>2 DEF CompilesAt, Stored
    <2>5. CASE k = 1 /\ n >= 1
      <3>1. args'[e] = Append(args[e], Label(p, 0 + 1)) /\ Stored(e)' = 0 + 1
        BY <2>1, <2>4, <2>5, <1>t, <1>a
      <3> QED
        BY <1>a, <1>s, <2>3, <3>1
    <2>6. CASE ~(k = 1 /\ n >= 1)
      <3>1. args'[e] = args[e] /\ Stored(e)' = 0
        BY <2>1, <2>4, <2>6, <1>a
      <3> QED
        BY <1>0, <2>3, <3>1
    <2> QED
      BY <2>5, <2>6
  <1>5. CASE WalkNext(e)
    <2> DEFINE k == task[e].k
    <2>1. task[e].pc = "walk" /\ Compiling(e)' /\ k \in Nat
      BY <1>5, <1>t DEF WalkNext, TaskAt, Compiling, Task
    <2>2. Stored(e) = IF k < n THEN k ELSE n
      BY <1>f, <2>1, StoredCases DEF CompilesAt
    <2>3. CASE k + 1 <= n
      <3>1. /\ args' = [args EXCEPT ![e] = Append(@, Label(p, k + 1))]
            /\ task' = [task EXCEPT ![e].k = k + 1]
        BY <1>5, <1>f, <2>3 DEF WalkNext, StoreArg
      <3>2. task'[e].pc = "walk" /\ task'[e].k = k + 1
        BY <3>1, <2>1, <1>t DEF Task
      <3>3. Stored(e)' = IF k + 1 < n THEN k + 1 ELSE n
        BY <1>f, <2>1, <3>2 DEF CompilesAt, Stored
      <3>4. Len(args[e]) = k /\ Stored(e)' = k + 1
        BY <1>a, <2>1, <2>2, <2>3, <3>3
      <3> QED
        BY <1>s, <1>t, <2>1, <3>1, <3>4
    <2>4. CASE ~(k + 1 <= n)
      <3>1. args' = args /\ task' = [task EXCEPT ![e].pc = "finish"]
        BY <1>5, <1>f, <2>4 DEF WalkNext
      <3>2. task'[e].pc = "finish"
        BY <3>1, <1>t DEF Task
      <3>3. Stored(e)' = n
        BY <1>f, <3>2 DEF Stored, CompilesAt
      <3>4. Stored(e) = n
        BY <1>a, <2>1, <2>2, <2>4
      <3> QED
        BY <1>0, <3>1, <3>3, <3>4
    <2> QED
      BY <2>3, <2>4
  <1>6. CASE PublishFinish(e)
    <2>1. args' = args /\ task[e].pc = "finish" /\ task'[e].pc = "start"
      BY <1>6, <1>t DEF PublishFinish, TaskAt, Task
    <2> QED
      BY <1>0, <1>f, <2>1 DEF Stored, CompilesAt
  <1>7. CASE PublishStart(e)
    <2>1. args' = args /\ task[e].pc = "start" /\ task'[e].pc = "end"
      BY <1>7, <1>t DEF PublishStart, TaskAt, Task
    <2> QED
      BY <1>0, <1>f, <2>1 DEF Stored, CompilesAt
  <1>8. CASE TaskReturn(e)
    <2>1. args' = args /\ task[e].pc = "end" /\ task' = task
      BY <1>8 DEF TaskReturn, TaskAt
    <2> QED
      BY <1>0, <1>f, <2>1 DEF Stored, CompilesAt
  <1> QED
    BY <1>1, <1>2, <1>3, <1>4, <1>5, <1>6, <1>7, <1>8 DEF Compile

\* The compile task of one engine leaves what is another's alone.
LEMMA CompileOthers ==
  ASSUME TypeOK, NEW e \in Engine, Compile(e), NEW f \in Engine, f # e
  PROVE  /\ task'[f] = task[f] /\ args'[f] = args[f]
         /\ Compiling(f)' <=> Compiling(f)
  <1> USE DEF TypeOK, Compiling
  <1>1. CASE ReadQid(e) \/ LoadCnt(e) \/ TaskReturn(e)
    BY <1>1 DEF ReadQid, LoadCnt, TaskReturn
  <1>2. CASE StoreCnt(e) \/ AddModule(e)
    BY <1>2 DEF StoreCnt, AddModule
  <1>3. CASE WalkRoot(e)
    BY <1>3 DEF WalkRoot, StoreArg
  <1>4. CASE WalkNext(e)
    BY <1>4 DEF WalkNext, StoreArg
  <1>5. CASE PublishFinish(e) \/ PublishStart(e)
    BY <1>5 DEF PublishFinish, PublishStart
  <1> QED
    BY <1>1, <1>2, <1>3, <1>4, <1>5 DEF Compile

LEMMA FirstStep ==
  ASSUME TypeOK, TaskIsCurrent, \A e \in Engine : FirstArgs(e), Next,
         status' = "ok", NEW f \in Engine
  PROVE  FirstArgs(f)'
  <1>0. ASSUME UNCHANGED <<generated, args, cur_query_, task, compile_th>>
        PROVE  FirstArgs(f)'
    BY <1>0, FirstKept DEF Compiling
  <1>1. ASSUME NEW p \in Plan, Build(p) PROVE FirstArgs(f)'
    BY <1>0, <1>1 DEF Build
  <1>2. ASSUME NEW e \in Engine, NEW p \in Plan, NEW par \in BOOLEAN,
               Generate(e, p, par)
        PROVE  FirstArgs(f)'
    <2>1. /\ compile_th[e] = "none" /\ args' = args
          /\ compile_th' = [compile_th EXCEPT ![e] = "running"]
          /\ task' = [task EXCEPT ![e] = [IdleTask EXCEPT !.pc = "qid",
                                                          !.plan = p]]
          /\ generated' = [generated EXCEPT ![e] = @ + 1]
          /\ cur_query_' = [cur_query_ EXCEPT ![e] = p]
      BY <1>2 DEF Generate
    <2>2. CASE f # e
      BY <2>1, <2>2, FirstKept DEF TypeOK, Compiling
    <2>3. CASE f = e
      <3>1. /\ task'[e].pc = "qid" /\ Compiling(e)' /\ cur_query_'[e] = p
            /\ generated'[e] = generated[e] + 1 /\ generated[e] \in Nat
        BY <2>1 DEF TypeOK, Compiling, IdleTask
      <3>2. generated'[e] = 1 => args'[e] = <<>>
        BY <2>1, <3>1 DEF FirstArgs
      <3>3. Stored(e)' = 0
        BY <3>1 DEF Stored, CompilesAt
      <3> QED
        BY <2>3, <3>1, <3>2, <3>3 DEF FirstArgs
    <2> QED
      BY <2>2, <2>3
  <1>3. ASSUME NEW e \in Engine, NEW own \in BOOLEAN, NEW cleanup \in CleanupArg,
               Run(e, own, cleanup)
        PROVE  FirstArgs(f)'
    BY <1>0, <1>3 DEF Run
  <1>4. ASSUME NEW e \in Engine,
               \/ RunParallel(e) \/ Cleanup(e) \/ Destroy(e) \/ RunExec(e)
               \/ RunCleanup(e) \/ ParallelExec(e)
        PROVE  FirstArgs(f)'
    BY <1>0, <1>4
    DEF RunParallel, Cleanup, Destroy, RunExec, RunCleanup, ParallelExec
  <1>5. ASSUME NEW e \in Engine,
               \/ GenerateJoin(e) \/ RunJoin(e) \/ ParallelJoin(e)
               \/ DestroyJoin(e)
        PROVE  FirstArgs(f)'
    <2>1. /\ UNCHANGED <<generated, args, cur_query_, task>>
          /\ JoinIfJoinable(e) \/ Join(e)
      BY <1>5 DEF GenerateJoin, RunJoin, ParallelJoin, DestroyJoin
    <2>2. Compiling(f)' <=> Compiling(f)
      BY <2>1 DEF JoinIfJoinable, Join, Compiling, TypeOK
    <2> QED
      BY <2>1, <2>2, FirstKept
  <1>6. ASSUME NEW e \in Engine, Compile(e) PROVE FirstArgs(f)'
    <2>1. CASE f = e
      BY <1>6, <2>1, FirstCompile
    <2>2. CASE f # e
      BY <1>6, <2>2, FirstKept, CompileFrame, CompileOthers
    <2> QED
      BY <2>1, <2>2
  <1> QED
    BY <1>1, <1>2, <1>3, <1>4, <1>5, <1>6 DEF Next, Call, Continue

LEMMA CopyStep ==
  ASSUME TypeOK, JoinedBeforeUse, HasCopy, Next, status' = "ok"
  PROVE  HasCopy'
  <1> USE DEF HasCopy
  <1>t. client \in Client
    BY DEF TypeOK
  \* The client goes where nothing is claimed.
  <1>0. ASSUME client'.pc \in {"idle", "generate", "run_cleanup", "destroy"}
        PROVE  HasCopy'
    BY <1>0
  <1>1. ASSUME NEW p \in Plan, Build(p) PROVE HasCopy'
    BY <1>1 DEF Build
  <1>2. ASSUME NEW e \in Engine, NEW p \in Plan, NEW par \in BOOLEAN,
               Generate(e, p, par)
        PROVE  HasCopy'
    <2>1. client' = [client EXCEPT !.pc = IF par THEN "idle" ELSE "generate",
                                   !.eng = e]
      BY <1>2 DEF Generate
    <2> QED
      BY <2>1, <1>0, <1>t DEF Client
  <1>3. ASSUME NEW e \in Engine, NEW own \in BOOLEAN, NEW cleanup \in CleanupArg,
               Run(e, own, cleanup)
        PROVE  HasCopy'
    BY <1>3 DEF Run
  <1>4. ASSUME NEW e \in Engine, RunParallel(e) PROVE HasCopy'
    BY <1>4 DEF RunParallel
  <1>5. ASSUME NEW e \in Engine, Cleanup(e) PROVE HasCopy'
    BY <1>5 DEF Cleanup, Idle
  <1>6. ASSUME NEW e \in Engine, Destroy(e) PROVE HasCopy'
    BY <1>6, <1>0, <1>t DEF Destroy, Client
  <1>7. ASSUME NEW e \in Engine,
               GenerateJoin(e) \/ RunCleanup(e) \/ DestroyJoin(e)
                 \/ ParallelExec(e)
        PROVE  HasCopy'
    <2>1. client'.pc = "idle"
      BY <1>7, <1>t
      DEF GenerateJoin, RunCleanup, DestroyJoin, ParallelExec, Goto, Client
    <2> QED
      BY <2>1, <1>0
  <1>8. ASSUME NEW e \in Engine, RunExec(e) PROVE HasCopy'
    <2>1. client'.pc \in {"idle", "run_cleanup"}
      BY <1>8, <1>t DEF RunExec, Goto, Client
    <2> QED
      BY <2>1, <1>0
  <1>9. ASSUME NEW e \in Engine, RunJoin(e) PROVE HasCopy'
    <2>1. /\ client'.pc = "run_exec" /\ client'.eng = client.eng
          /\ client.pc = "run_join" /\ parallel_' = parallel_
      BY <1>9, <1>t DEF RunJoin, At, Goto, Client
    <2> QED
      BY <2>1
  <1>10. ASSUME NEW e \in Engine, ParallelJoin(e) PROVE HasCopy'
    <2>1. /\ client'.pc = "par_exec" /\ client'.own = client.own
          /\ client.pc = "par_join"
      BY <1>10, <1>t DEF ParallelJoin, At, Goto, Client
    <2> QED
      BY <2>1
  <1>11. ASSUME NEW e \in Engine, Compile(e) PROVE HasCopy'
    <2>1. /\ UNCHANGED <<client, parallel_>> /\ Compiling(e)
          /\ client.pc = "run_exec" => client.eng \in Engine /\ client.eng # e
      BY <1>11, <1>t, CompileFrame DEF JoinedBeforeUse, Client
    <2>2. client.pc = "run_exec" => args'[client.eng] = args[client.eng]
      BY <1>11, <2>1, CompileOthers
    <2> QED
      BY <2>1, <2>2 DEF FirstSlots
  <1> QED
    BY <1>1, <1>2, <1>3, <1>4, <1>5, <1>6, <1>7, <1>8, <1>9, <1>10, <1>11
    DEF Next, Call, Continue

LEMMA LabelStep ==
  TypeOK /\ OwnQueryInv /\ LabelInv /\ [Next]_vars => LabelInv'
  <1> SUFFICES ASSUME TypeOK, OwnQueryInv, LabelInv, [Next]_vars,
                      status' = "ok"
               PROVE  HasCopy' /\ \A e \in Engine : FirstArgs(e)'
    BY DEF LabelInv
  <1>1. CASE Next
    <2>1. /\ HasCopy /\ \A e \in Engine : FirstArgs(e)
          /\ JoinedBeforeUse /\ TaskIsCurrent
      BY <1>1, StepOk DEF LabelInv, OwnQueryInv
    <2> QED
      BY <1>1, <2>1, CopyStep, FirstStep
  <1>2. CASE UNCHANGED vars
    BY <1>2 DEF vars, LabelInv, HasCopy, FirstArgs, FirstSlots, Stored,
                CompilesAt, Compiling
  <1> QED
    BY <1>1, <1>2

LEMMA BindsStep ==
  TypeOK /\ OwnQueryInv /\ LabelInv /\ PassesOwnLabels /\ [Next]_vars
    => PassesOwnLabels'
  <1> DEFINE Bound(c) == /\ Labels[c.query] <= Len(c.args)
                         /\ \A k \in 1..Labels[c.query] :
                              c.args[k] = Label(c.query, k)
  <1> SUFFICES ASSUME TypeOK, OwnQueryInv, LabelInv, PassesOwnLabels,
                      [Next]_vars, Called', call'.own, call'.first,
                      ~call'.parallel, Labels[call'.query] < Slots
               PROVE  Bound(call')
    BY DEF PassesOwnLabels
  <1>1. CASE call' = call
    BY <1>1 DEF PassesOwnLabels, Called
  <1>2. ASSUME NEW e \in Engine, NEW kind \in {"run", "run_parallel"},
               call' = CallOf(e, kind), client.eng = e, Next,
               client.pc = IF kind = "run" THEN "run_exec" ELSE "par_exec"
        PROVE  Bound(call')
    <2>1. /\ call'.query = cur_query_[e] /\ call'.args = client.args
          /\ client.own /\ ~parallel_[e] /\ generated[e] = 1
      BY <1>2 DEF CallOf
    <2>2. HasCopy /\ FirstArgs(e) /\ JoinedBeforeUse
      BY <1>2, StepOk DEF LabelInv, OwnQueryInv
    <2>3. client.pc = "run_exec"
      BY <1>2, <2>1, <2>2 DEF HasCopy
    <2>4. client.args = FirstSlots(args[e]) /\ ~Compiling(e)
      BY <1>2, <2>1, <2>2, <2>3 DEF HasCopy, JoinedBeforeUse
    <2>5. /\ Len(args[e]) = Labels[cur_query_[e]]
          /\ \A k \in 1..Len(args[e]) : args[e][k] = Label(cur_query_[e], k)
      BY <2>1, <2>2, <2>4, StoredCases DEF FirstArgs
    <2>6. client.args = args[e]
      BY <2>1, <2>4, <2>5 DEF FirstSlots
    <2>7. Len(args[e]) \in Nat
      BY DEF TypeOK, ArgList
    <2> QED
      BY <2>1, <2>5, <2>6, <2>7
  <1>3. CASE Next
    BY <1>1, <1>2, <1>3, CallStep
  <1>4. CASE UNCHANGED vars
    BY <1>1, <1>4 DEF vars
  <1> QED
    BY <1>3, <1>4

\* A run that passes the engine's own arguments calls the first query of the
\* engine with all its labels in the order of the walk, none of them of another
\* query, for any engines, plans and numbers of labels that fit.
THEOREM PassesOwn == Spec => []PassesOwnLabels
  <1>1. Init => PassesOwnLabels
    BY DEF Init, PassesOwnLabels, Called
  <1> QED
    BY <1>1, TypeInit, TypeStep, OwnInit, OwnStep, LabelInit, LabelStep,
       BindsStep, PTL DEF Spec

\* ... and the arguments of an engine are, at every point of its first
\* compilation, the labels the walk has reached.
THEOREM LabelState == Spec => []LabelInv
  BY TypeInit, TypeStep, OwnInit, OwnStep, LabelInit, LabelStep, PTL DEF Spec
=============================================================================
