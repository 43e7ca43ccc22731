------------------------- MODULE QueryEngineProofs -------------------------
(***************************************************************************)
(* Theorems about QueryEngine for every set of engines and plans and every *)
(* bound: the variables keep their types, and an engine that is cleaned up *)
(* between queries runs the code of its current query.                     *)
(***************************************************************************)
EXTENDS QueryEngine, SequenceTheorems, TLAPS

\* The program counters the compile task takes are program counters.
LEMMA PCs ==
  {"load", "store", "module", "root", "walk", "finish", "start", "end"}
    \subseteq TaskPC
  BY DEF TaskPC

\* An argument list stays one when a label is appended to it.
LEMMA TypeArgs ==
  /\ <<>> \in ArgList
  /\ \A a \in ArgList, p \in Plan \cup {Null}, k \in Nat :
       Append(a, Label(p, k)) \in ArgList
  <1> DEFINE L == [plan : Plan \cup {Null}, k : Nat]
  <1>1. ASSUME NEW p \in Plan \cup {Null}, NEW k \in Nat
        PROVE  Label(p, k) \in L
    BY DEF Label
  <1>2. ArgList = Seq(L)
    BY DEF ArgList
  <1> HIDE DEF L
  <1> QED
    BY <1>1, <1>2

\* The slots a copy of an argument list has are an argument list.
LEMMA TypeSlots == \A a \in ArgList : FirstSlots(a) \in ArgList
  <1> DEFINE L == [plan : Plan \cup {Null}, k : Nat]
  <1>1. ArgList = Seq(L)
    BY DEF ArgList
  <1> HIDE DEF L
  <1>2. ASSUME NEW a \in Seq(L) PROVE FirstSlots(a) \in Seq(L)
    <2>1. CASE Len(a) < Slots
      BY <2>1 DEF FirstSlots
    <2>2. CASE ~(Len(a) < Slots)
      <3>1. Slots - 1 \in Nat /\ Slots - 1 <= Len(a)
        BY <2>2, EngineAssumption
      <3>2. SubSeq(a, 1, Slots - 1) \in Seq(L)
        BY <3>1, SubSeqProperties
      <3> QED
        BY <2>2, <3>2 DEF FirstSlots
    <2> QED
      BY <2>1, <2>2
  <1> QED
    BY <1>1, <1>2

\* However a data race ends, the process is in one of the named states.
LEMMA TypeStatus ==
  ASSUME NEW e, NEW s \in {"ok", "crashed"}, StatusAfter(e, s)
  PROVE  status' \in Status
  BY DEF StatusAfter, Status

LEMMA TypeInit == Init => TypeOK
  <1> SUFFICES ASSUME Init PROVE TypeOK
    OBVIOUS
  <1>1. (CHOOSE e \in Engine : TRUE) \in Engine
    BY EngineAssumption
  <1>2. client \in Client
    BY <1>1 DEF Init, Client, ClientPC, ArgList
  <1>3. IdleTask \in Task
    BY DEF IdleTask, Task, TaskPC
  <1> QED
    BY <1>2, <1>3 DEF Init, TypeOK, Status, ThreadState, ArgList

\* Every step a client takes keeps the types.
LEMMA TypeCall ==
  ASSUME TypeOK, NEW e \in Engine, Call(e)
  PROVE  TypeOK'
  <1> USE DEF TypeOK
  <1>1. ASSUME NEW p \in Plan, NEW par \in BOOLEAN, Generate(e, p, par)
        PROVE TypeOK'
    <2>1. [IdleTask EXCEPT !.pc = "qid", !.plan = p] \in Task
      BY DEF IdleTask, Task, TaskPC
    <2>2. status' \in Status /\ compile_th' \in [Engine -> ThreadState]
      BY <1>1 DEF Generate, Idle, Status, ThreadState
    <2>3. task' \in [Engine -> Task]
      BY <1>1, <2>1 DEF Generate
    <2>4. client' \in Client
      BY <1>1 DEF Generate, Client, ClientPC
    <2>5. parallel_' \in [Engine -> BOOLEAN]
      BY <1>1 DEF Generate
    <2>6. /\ generated' \in [Engine -> Nat]
          /\ cur_query_' \in [Engine -> Plan \cup {Null}]
      BY <1>1 DEF Generate
    <2> QED
      BY <1>1, <2>2, <2>3, <2>4, <2>5, <2>6 DEF Generate
  <1>2. ASSUME NEW own \in BOOLEAN, NEW cleanup \in CleanupArg,
               Run(e, own, cleanup)
        PROVE TypeOK'
    <2>1. cleanup \in BOOLEAN
      BY EngineAssumption
    <2>2. (IF own THEN FirstSlots(args[e]) ELSE <<>>) \in ArgList
      <3>1. args[e] \in ArgList /\ <<>> \in ArgList
        BY TypeArgs
      <3>2. FirstSlots(args[e]) \in ArgList
        BY <3>1, TypeSlots
      <3> QED
        BY <3>1, <3>2
    <2>3. (IF parallel_[e] THEN "run_join" ELSE "run_exec") \in ClientPC
      BY DEF ClientPC
    <2>4. client' \in Client
      BY <1>2, <2>1, <2>2, <2>3 DEF Run, Client
    <2> QED
      BY <1>2, <2>4 DEF Run, statics
  <1>3. ASSUME RunParallel(e) PROVE TypeOK'
    <2>1. client' \in Client
      BY <1>3 DEF RunParallel, Client, ClientPC, ArgList
    <2> QED
      BY <1>3, <2>1 DEF RunParallel, statics
  <1>4. ASSUME Cleanup(e) PROVE TypeOK'
    BY <1>4, TypeStatus DEF Cleanup, ClearPublished
  <1>5. ASSUME Destroy(e) PROVE TypeOK'
    <2>1. client' \in Client
      BY <1>5 DEF Destroy, Client, ClientPC
    <2> QED
      BY <1>5, <2>1 DEF Destroy, statics
  <1> QED
    BY <1>1, <1>2, <1>3, <1>4, <1>5 DEF Call

LEMMA TypeContinue ==
  ASSUME TypeOK, NEW e \in Engine, Continue(e)
  PROVE  TypeOK'
  <1> USE DEF TypeOK
  <1>0. ASSUME NEW pc \in ClientPC, Goto(pc) PROVE client' \in Client
    BY <1>0 DEF Goto, Client
  <1>j. ASSUME JoinIfJoinable(e) \/ Join(e)
        PROVE  compile_th' \in [Engine -> ThreadState]
    BY <1>j DEF JoinIfJoinable, Join, ThreadState
  <1>p. {"idle", "run_exec", "run_cleanup", "par_exec"} \subseteq ClientPC
    BY DEF ClientPC
  <1>1. CASE GenerateJoin(e)
    BY <1>1, <1>0, <1>j, <1>p DEF GenerateJoin, statics
  <1>2. CASE RunJoin(e)
    <2>1. status' \in Status /\ client' \in Client
          /\ compile_th' \in [Engine -> ThreadState]
      BY <1>2, <1>0, <1>j, <1>p DEF RunJoin, Status
    <2> QED
      BY <1>2, <2>1 DEF RunJoin, statics
  <1>3. CASE RunExec(e)
    <2>1. status' \in Status /\ client' \in Client
      BY <1>3, <1>0, <1>p, TypeStatus DEF RunExec
    <2> QED
      BY <1>3, <2>1 DEF RunExec, statics
  <1>4. CASE RunCleanup(e)
    BY <1>4, <1>0, <1>p, TypeStatus DEF RunCleanup, ClearPublished
  <1>5. CASE ParallelJoin(e)
    BY <1>5, <1>0, <1>j, <1>p DEF ParallelJoin, statics
  <1>6. CASE ParallelExec(e)
    <2>1. status' \in Status /\ client' \in Client
      BY <1>6, <1>0, <1>p, TypeStatus DEF ParallelExec
    <2> QED
      BY <1>6, <2>1 DEF ParallelExec, statics
  <1>7. CASE DestroyJoin(e)
    BY <1>7, <1>0, <1>j, <1>p DEF DestroyJoin, statics
  <1> QED
    BY <1>1, <1>2, <1>3, <1>4, <1>5, <1>6, <1>7 DEF Continue

\* Every step of the compile task keeps the types.
LEMMA TypeTask ==
  ASSUME NEW t \in Task, NEW pc \in TaskPC, NEW n \in Nat
  PROVE  /\ [t EXCEPT !.pc = pc] \in Task
         /\ [t EXCEPT !.cnt = n, !.pc = pc] \in Task
         /\ [t EXCEPT !.tmp = n, !.pc = pc] \in Task
         /\ [t EXCEPT !.pc = pc, !.k = n] \in Task
         /\ [t EXCEPT !.k = n] \in Task
         /\ t.plan \in Plan \cup {Null} /\ t.tmp \in Nat /\ t.k \in Nat
         /\ [plan |-> t.plan, cnt |-> t.cnt] \in Module
  BY DEF Task, Module

LEMMA TypeCompile ==
  ASSUME TypeOK, NEW e \in Engine, Compile(e)
  PROVE  TypeOK'
  <1>t. task[e] \in Task
    BY DEF TypeOK
  <1>m. TaskModule(e) \in Module
    BY <1>t, TypeTask, PCs DEF TaskModule
  <1>1. CASE ReadQid(e)
    <2>1. [task[e] EXCEPT !.cnt = query_cnt, !.pc = "load"] \in Task
      BY <1>t, TypeTask, PCs DEF TypeOK
    <2>2. task' \in [Engine -> Task]
      BY <1>1, <2>1 DEF ReadQid, TypeOK
    <2> QED
      BY <1>1, <2>2 DEF ReadQid, statics, TypeOK
  <1>2. CASE LoadCnt(e)
    <2>1. [task[e] EXCEPT !.tmp = query_cnt, !.pc = "store"] \in Task
      BY <1>t, TypeTask, PCs DEF TypeOK
    <2>2. task' \in [Engine -> Task]
      BY <1>2, <2>1 DEF LoadCnt, TypeOK
    <2> QED
      BY <1>2, <2>2 DEF LoadCnt, statics, TypeOK
  <1>3. CASE StoreCnt(e)
    <2>0. task[e].tmp + 1 \in Nat
      BY <1>t DEF Task
    <2>1. [task[e] EXCEPT !.pc = "module"] \in Task
      BY <1>t, TypeTask, PCs
    <2>2. task' \in [Engine -> Task] /\ query_cnt' \in Nat
      BY <1>3, <2>0, <2>1 DEF StoreCnt, TypeOK
    <2> QED
      BY <1>3, <2>2 DEF StoreCnt, TypeOK
  <1>4. CASE AddModule(e)
    <2>1. [task[e] EXCEPT !.pc = "root"] \in Task
      BY <1>t, TypeTask, PCs
    <2>2. task' \in [Engine -> Task]
      BY <1>4, <2>1 DEF AddModule, TypeOK
    <2>3. jit' \in [Engine -> SUBSET Module]
      <3>1. jit[e] \cup {TaskModule(e)} \in SUBSET Module
        BY <1>m DEF TypeOK
      <3> QED
        BY <1>4, <3>1 DEF AddModule, TypeOK
    <2>4. status' \in Status
      BY <1>4 DEF AddModule, Status, TypeOK
    <2> QED
      BY <1>4, <2>2, <2>3, <2>4 DEF AddModule, statics, TypeOK
  <1>5. CASE WalkRoot(e)
    <2> DEFINE p == task[e].plan
               k == IF p \in CreatePlan THEN 0 ELSE 1
    <2>1. [task[e] EXCEPT !.pc = "walk", !.k = k] \in Task
      <3>1. k \in Nat
        OBVIOUS
      <3> HIDE DEF k
      <3> QED
        BY <1>t, <3>1, TypeTask, PCs
    <2>2. task' \in [Engine -> Task]
      BY <1>5, <2>1 DEF WalkRoot, TypeOK
    <2>3. names' \in [Engine -> Seq(Module)]
      <3>1. Append(names[e], TaskModule(e)) \in Seq(Module)
        BY <1>m DEF TypeOK
      <3> QED
        BY <1>5, <3>1 DEF WalkRoot, TypeOK
    <2>4. args' \in [Engine -> ArgList]
      <3>1. Append(args[e], Label(p, 1)) \in ArgList
        BY <1>t, TypeTask, TypeArgs, PCs DEF TypeOK
      <3> QED
        BY <1>5, <3>1 DEF WalkRoot, StoreArg, TypeOK
    <2>5. status' \in Status
      BY <1>5 DEF WalkRoot, StoreArg, Status, TypeOK
    <2> QED
      BY <1>5, <2>2, <2>3, <2>4, <2>5 DEF WalkRoot, statics, TypeOK
  <1>6. CASE WalkNext(e)
    <2> DEFINE p == task[e].plan
               k == task[e].k + 1
    <2>1. k \in Nat /\ p \in Plan \cup {Null}
      BY <1>t DEF Task
    <2>2. /\ [task[e] EXCEPT !.k = k] \in Task
          /\ [task[e] EXCEPT !.pc = "finish"] \in Task
      BY <1>t, <2>1, TypeTask, PCs
    <2>3. task' \in [Engine -> Task]
      BY <1>6, <2>2 DEF WalkNext, TypeOK
    <2>4. args' \in [Engine -> ArgList]
      <3>1. Append(args[e], Label(p, k)) \in ArgList
        BY <2>1, TypeArgs DEF TypeOK
      <3> QED
        BY <1>6, <3>1 DEF WalkNext, StoreArg, TypeOK
    <2>5. status' \in Status
      BY <1>6 DEF WalkNext, StoreArg, Status, TypeOK
    <2> QED
      BY <1>6, <2>3, <2>4, <2>5 DEF WalkNext, statics, TypeOK
  <1>7. CASE PublishFinish(e)
    <2>1. [task[e] EXCEPT !.pc = "start"] \in Task
      BY <1>t, TypeTask, PCs
    <2>2. task' \in [Engine -> Task]
      BY <1>7, <2>1 DEF PublishFinish, TypeOK
    <2>3. finish_' \in Finish
      BY <1>7, <1>m DEF PublishFinish, Finish
    <2>4. status' \in Status
      BY <1>7 DEF PublishFinish, Status
    <2> QED
      BY <1>7, <2>2, <2>3, <2>4 DEF PublishFinish, TypeOK
  <1>8. CASE PublishStart(e)
    <2>1. [task[e] EXCEPT !.pc = "end"] \in Task
      BY <1>t, TypeTask, PCs
    <2>2. task' \in [Engine -> Task]
      BY <1>8, <2>1 DEF PublishStart, TypeOK
    <2>3. start_' \in [Engine -> Module \cup {Null}]
      <3>1. names[e] # <<>> => Head(names[e]) \in Module
        BY DEF TypeOK
      <3> QED
        BY <1>8, <3>1 DEF PublishStart, TypeOK
    <2>4. status' \in Status
      BY <1>8 DEF PublishStart, Status, TypeOK
    <2> QED
      BY <1>8, <2>2, <2>3, <2>4 DEF PublishStart, statics, TypeOK
  <1>9. CASE TaskReturn(e)
    BY <1>9 DEF TaskReturn, statics, ThreadState, TypeOK
  <1> QED
    BY <1>1, <1>2, <1>3, <1>4, <1>5, <1>6, <1>7, <1>8, <1>9 DEF Compile

LEMMA TypeStep == TypeOK /\ [Next]_vars => TypeOK'
  <1> SUFFICES ASSUME TypeOK, [Next]_vars PROVE TypeOK'
    OBVIOUS
  <1>1. ASSUME NEW p \in Plan, Build(p) PROVE TypeOK'
    BY <1>1 DEF Build, TypeOK
  <1>2. CASE UNCHANGED vars
    BY <1>2 DEF vars, TypeOK
  <1> QED
    BY <1>1, <1>2, TypeCall, TypeContinue, TypeCompile DEF Next

\* The variables of the engine model keep their types.
THEOREM Typing == Spec => []TypeOK
  BY TypeInit, TypeStep, PTL DEF Spec
-----------------------------------------------------------------------------
(***************************************************************************)
(* RunsOwnQuery.  Only generate changes cur_query_, and it starts the task *)
(* of the new query in the same step or ends the process; only the walk    *)
(* and cleanup change the names; only the task's last step sets start_.    *)
(* Nothing between a run's join and its execution can start another task.  *)
(***************************************************************************)
OwnTypes ==
  /\ compile_th \in [Engine -> ThreadState]
  /\ task \in [Engine -> Task]
  /\ names \in [Engine -> Seq(Module)]
  /\ start_ \in [Engine -> Module \cup {Null}]
  /\ cur_query_ \in [Engine -> Plan \cup {Null}]
  /\ parallel_ \in [Engine -> BOOLEAN]
  /\ client \in [pc : ClientPC, eng : Engine, own : BOOLEAN, args : ArgList,
                 cleanup : BOOLEAN]

OwnState == TaskIsCurrent /\ LastNameIsOwn /\ StartIsCurrent /\ JoinedBeforeUse

LEMMA OwnInit == Init => OwnQueryInv
  BY DEF Init, OwnQueryInv, RunsOwnQuery, Called, NoCall, TaskIsCurrent,
         LastNameIsOwn, StartIsCurrent, JoinedBeforeUse, Compiling

\* Nothing the strengthening speaks of changes, but the client moves on to a
\* place where nobody compiles its engine.
LEMMA OwnMove ==
  ASSUME OwnTypes, OwnState,
         UNCHANGED <<cur_query_, parallel_, compile_th, task, names, start_>>,
         client.pc # "generate",
         client'.pc \in {"run_exec", "par_exec"} =>
           ~Compiling(client'.eng)
  PROVE  OwnState'
  BY DEF OwnTypes, OwnState, TaskIsCurrent, LastNameIsOwn, StartIsCurrent,
         JoinedBeforeUse, Compiling, TaskModule

\* A join leaves the compile threads of the other engines alone.
LEMMA OwnJoin ==
  ASSUME OwnTypes, OwnState, NEW e \in Engine, JoinIfJoinable(e) \/ Join(e),
         UNCHANGED <<cur_query_, parallel_, task, names, start_>>,
         client.pc = "generate" => client.eng = e,
         client'.pc \notin {"run_exec", "par_exec"} \/ client'.eng = e
  PROVE  OwnState'
  <1>1. \A f \in Engine : Compiling(f)' => Compiling(f) /\ f # e
    BY DEF OwnTypes, JoinIfJoinable, Join, Compiling
  <1>2. \A f \in Engine : f # e => (Compiling(f)' <=> Compiling(f))
    BY DEF OwnTypes, JoinIfJoinable, Join, Compiling
  <1>3. ~Compiling(e) /\ ~Compiling(e)'
    BY DEF OwnTypes, JoinIfJoinable, Join, Compiling
  <1>4. TaskIsCurrent' /\ LastNameIsOwn'
    BY <1>1 DEF OwnState, TaskIsCurrent, LastNameIsOwn, TaskModule
  <1>5. StartIsCurrent'
    BY <1>2, <1>3 DEF OwnState, StartIsCurrent
  <1>6. JoinedBeforeUse'
    BY <1>1, <1>3 DEF OwnState, OwnTypes, JoinedBeforeUse
  <1> QED
    BY <1>4, <1>5, <1>6 DEF OwnState

\* cleanup leaves no names and no start function.
LEMMA OwnClear ==
  ASSUME OwnTypes, OwnState, NEW e \in Engine, ClearPublished(e),
         UNCHANGED <<cur_query_, compile_th, task>>
  PROVE  LastNameIsOwn' /\ StartIsCurrent'
  BY DEF OwnTypes, OwnState, ClearPublished, LastNameIsOwn, StartIsCurrent,
         Compiling, TaskModule

\* A step of the client keeps the strengthening, if the process goes on.
LEMMA OwnCall ==
  ASSUME OwnTypes, OwnState, NEW e \in Engine, Call(e), status' = "ok"
  PROVE  OwnState'
  <1>1. ASSUME NEW p \in Plan, NEW par \in BOOLEAN, Generate(e, p, par)
        PROVE OwnState'
    <2>1. /\ compile_th' = [compile_th EXCEPT ![e] = "running"]
          /\ task' = [task EXCEPT ![e] = [IdleTask EXCEPT !.pc = "qid",
                                                          !.plan = p]]
          /\ client' = [client EXCEPT !.pc = IF par THEN "idle"
                                             ELSE "generate",
                                      !.eng = e]
          /\ compile_th[e] = "none"
      BY <1>1 DEF Generate
    <2>2. task'[e].pc = "qid" /\ task'[e].plan = p /\ Compiling(e)'
      BY <2>1 DEF OwnTypes, IdleTask, Compiling
    <2>3. /\ \A f \in Engine : f # e => task'[f] = task[f]
          /\ \A f \in Engine : f # e => (Compiling(f)' <=> Compiling(f))
      BY <2>1 DEF OwnTypes, Compiling
    <2>4. /\ cur_query_'[e] = p /\ names' = names /\ start_' = start_
          /\ \A f \in Engine : f # e => cur_query_'[f] = cur_query_[f]
      BY <1>1 DEF Generate, OwnTypes
    <2>5. TaskIsCurrent'
      BY <2>2, <2>3, <2>4 DEF OwnState, TaskIsCurrent
    <2>6. LastNameIsOwn'
      BY <2>2, <2>3, <2>4 DEF OwnState, LastNameIsOwn, TaskModule
    <2>7. StartIsCurrent'
      BY <2>2, <2>3, <2>4 DEF OwnState, StartIsCurrent
    <2>8. client'.pc \notin {"run_exec", "par_exec"} /\ client.pc = "idle"
      BY <1>1, <2>1 DEF Generate, Idle, OwnTypes
    <2>9. parallel_'[e] \/ (client'.pc = "generate" /\ client'.eng = e)
      BY <1>1, <2>1 DEF Generate, OwnTypes
    <2>10. \A f \in Engine : f # e => parallel_'[f] = parallel_[f]
      BY <1>1 DEF Generate, OwnTypes
    <2>11. JoinedBeforeUse'
      BY <2>3, <2>8, <2>9, <2>10 DEF OwnState, JoinedBeforeUse
    <2> QED
      BY <2>5, <2>6, <2>7, <2>11 DEF OwnState
  <1>2. ASSUME NEW own \in BOOLEAN, NEW cleanup \in CleanupArg,
               Run(e, own, cleanup)
        PROVE OwnState'
    <2>1. client.pc = "idle" /\ client'.eng = e
          /\ (client'.pc = "run_exec" => ~parallel_[e])
          /\ client'.pc # "par_exec"
      BY <1>2 DEF Run, Idle
    <2>2. ~parallel_[e] => ~Compiling(e)
      BY <2>1 DEF OwnState, JoinedBeforeUse
    <2> QED
      BY <1>2, <2>1, <2>2, OwnMove DEF Run
  <1>3. CASE RunParallel(e)
    BY <1>3, OwnMove DEF RunParallel, Idle
  <1>4. CASE Cleanup(e)
    <2>1. TaskIsCurrent' /\ JoinedBeforeUse'
      BY <1>4 DEF Cleanup, OwnState, TaskIsCurrent, JoinedBeforeUse, Compiling
    <2> QED
      BY <1>4, <2>1, OwnClear DEF Cleanup, OwnState
  <1>5. CASE Destroy(e)
    BY <1>5, OwnMove DEF Destroy, Idle, OwnTypes
  <1> QED
    BY <1>1, <1>2, <1>3, <1>4, <1>5 DEF Call

LEMMA OwnContinue ==
  ASSUME OwnTypes, OwnState, NEW e \in Engine, Continue(e), status' = "ok"
  PROVE  OwnState'
  <1>1. CASE GenerateJoin(e)
    BY <1>1, OwnJoin DEF GenerateJoin, At, Goto, OwnTypes
  <1>2. CASE RunJoin(e)
    BY <1>2, OwnJoin DEF RunJoin, At, Goto, OwnTypes
  <1>3. CASE RunExec(e)
    BY <1>3, OwnMove DEF RunExec, At, Goto, OwnTypes
  <1>4. CASE RunCleanup(e)
    <2>1. client.pc = "run_cleanup" /\ client'.pc = "idle"
      BY <1>4 DEF RunCleanup, At, Goto, OwnTypes
    <2>2. TaskIsCurrent' /\ JoinedBeforeUse'
      BY <1>4, <2>1
      DEF RunCleanup, OwnState, TaskIsCurrent, JoinedBeforeUse, Compiling
    <2> QED
      BY <1>4, <2>2, OwnClear DEF RunCleanup, OwnState
  <1>5. CASE ParallelJoin(e)
    BY <1>5, OwnJoin DEF ParallelJoin, At, Goto, OwnTypes
  <1>6. CASE ParallelExec(e)
    BY <1>6, OwnMove DEF ParallelExec, At, Goto, OwnTypes
  <1>7. CASE DestroyJoin(e)
    BY <1>7, OwnJoin DEF DestroyJoin, At, Goto, OwnTypes
  <1> QED
    BY <1>1, <1>2, <1>3, <1>4, <1>5, <1>6, <1>7 DEF Continue

\* A step of the compile task changes only its own program counter and
\* locals, the names and the start function of its engine.
LEMMA OwnCompile ==
  ASSUME OwnTypes, OwnState, NEW e \in Engine, Compile(e), status' = "ok"
  PROVE  OwnState'
  <1>1. /\ UNCHANGED <<cur_query_, parallel_, client>>
        /\ Compiling(e)
        /\ \A f \in Engine : f # e =>
             /\ task'[f] = task[f]
             /\ names'[f] = names[f]
             /\ start_'[f] = start_[f]
             /\ Compiling(f)' <=> Compiling(f)
        /\ Compiling(e)' => task'[e].plan = task[e].plan
    <2>1. CASE ReadQid(e)
      BY <2>1 DEF ReadQid, TaskAt, OwnTypes, Compiling, Task
    <2>2. CASE LoadCnt(e)
      BY <2>2 DEF LoadCnt, TaskAt, OwnTypes, Compiling, Task
    <2>3. CASE StoreCnt(e)
      BY <2>3 DEF StoreCnt, TaskAt, OwnTypes, Compiling, Task
    <2>4. CASE AddModule(e)
      BY <2>4 DEF AddModule, TaskAt, OwnTypes, Compiling, Task
    <2>5. CASE WalkRoot(e)
      BY <2>5 DEF WalkRoot, TaskAt, OwnTypes, Compiling, Task
    <2>6. CASE WalkNext(e)
      BY <2>6 DEF WalkNext, TaskAt, OwnTypes, Compiling, Task
    <2>7. CASE PublishFinish(e)
      BY <2>7 DEF PublishFinish, TaskAt, OwnTypes, Compiling, Task
    <2>8. CASE PublishStart(e)
      BY <2>8 DEF PublishStart, TaskAt, OwnTypes, Compiling, Task
    <2>9. CASE TaskReturn(e)
      BY <2>9 DEF TaskReturn, TaskAt, OwnTypes, Compiling, Task
    <2> QED
      BY <2>1, <2>2, <2>3, <2>4, <2>5, <2>6, <2>7, <2>8, <2>9 DEF Compile
  <1>2. TaskIsCurrent'
    BY <1>1 DEF OwnState, TaskIsCurrent
  <1>3. JoinedBeforeUse'
    BY <1>1 DEF OwnState, OwnTypes, JoinedBeforeUse
  <1> SUFFICES LastNameIsOwn' /\ StartIsCurrent'
    BY <1>2, <1>3 DEF OwnState
  <1>4. ASSUME task'[e].pc \in {"load", "store", "module", "root"},
               Compiling(e)', names' = names
        PROVE  LastNameIsOwn' /\ StartIsCurrent'
    BY <1>1, <1>4 DEF OwnState, LastNameIsOwn, StartIsCurrent, TaskModule
  <1>5. CASE ReadQid(e) \/ LoadCnt(e) \/ StoreCnt(e) \/ AddModule(e)
    <2>a. ASSUME ReadQid(e) \/ LoadCnt(e)
          PROVE  task'[e].pc \in {"load", "store", "module", "root"}
      <3>1. CASE ReadQid(e)
        BY <3>1 DEF ReadQid, OwnTypes, Task
      <3>2. CASE LoadCnt(e)
        BY <3>2 DEF LoadCnt, OwnTypes, Task
      <3> QED
        BY <2>a, <3>1, <3>2
    <2>b. ASSUME StoreCnt(e)
          PROVE  task'[e].pc \in {"load", "store", "module", "root"}
      BY <2>b DEF StoreCnt, OwnTypes, Task
    <2>c. ASSUME AddModule(e)
          PROVE  task'[e].pc \in {"load", "store", "module", "root"}
      BY <2>c DEF AddModule, OwnTypes, Task
    <2>1. task'[e].pc \in {"load", "store", "module", "root"}
      BY <1>5, <2>a, <2>b, <2>c
    <2>2. Compiling(e)' /\ names' = names
      BY <1>1, <1>5
      DEF ReadQid, LoadCnt, StoreCnt, AddModule, Compiling
    <2> QED
      BY <1>4, <2>1, <2>2
  <1>6. CASE WalkRoot(e)
    <2>1. task'[e].pc = "walk" /\ TaskModule(e)' = TaskModule(e)
      BY <1>6 DEF WalkRoot, OwnTypes, Task, TaskModule
    <2>2. TaskModule(e) \in Module
      BY DEF OwnTypes, Task, TaskModule, Module
    <2>3. names'[e] = Append(names[e], TaskModule(e)) /\ Compiling(e)'
      BY <1>1, <1>6 DEF WalkRoot, OwnTypes, Compiling
    <2>4. names'[e][Len(names'[e])] = TaskModule(e)
      BY <2>2, <2>3 DEF OwnTypes
    <2> QED
      BY <1>1, <2>1, <2>3, <2>4
      DEF OwnState, LastNameIsOwn, StartIsCurrent, TaskModule
  <1>7. CASE WalkNext(e) \/ PublishFinish(e)
    <2> DEFINE P == /\ task'[e].pc \in {"walk", "finish", "start"}
                    /\ task[e].pc \in {"walk", "finish"}
                    /\ TaskModule(e)' = TaskModule(e)
    <2>a. ASSUME WalkNext(e) PROVE P
      <3>1. task[e].pc = "walk" /\ task[e] \in Task
        BY <2>a DEF WalkNext, TaskAt, OwnTypes
      <3>2. \/ task'[e] = [task[e] EXCEPT !.k = task[e].k + 1]
            \/ task'[e] = [task[e] EXCEPT !.pc = "finish"]
        BY <2>a DEF WalkNext, OwnTypes
      <3> QED
        BY <3>1, <3>2 DEF Task, TaskModule
    <2>b. ASSUME PublishFinish(e) PROVE P
      BY <2>b DEF PublishFinish, TaskAt, OwnTypes, Task, TaskModule
    <2>1. P
      BY <1>7, <2>a, <2>b
    <2>2. Compiling(e)' /\ names' = names
      BY <1>1, <1>7 DEF WalkNext, PublishFinish, Compiling
    <2> QED
      BY <1>1, <2>1, <2>2
      DEF OwnState, LastNameIsOwn, StartIsCurrent, TaskModule
  <1>8. CASE PublishStart(e)
    <2>1. /\ names[e] # <<>> /\ names' = names
          /\ task[e].pc = "start" /\ Compiling(e)'
          /\ start_'[e] = names[e][1]
          /\ TaskModule(e)' = TaskModule(e)
      BY <1>1, <1>8
      DEF PublishStart, TaskAt, OwnTypes, Task, TaskModule, Compiling
    <2>2. names[e][Len(names[e])] = TaskModule(e)
      BY <1>1, <2>1 DEF OwnState, LastNameIsOwn
    <2>3. TaskModule(e).plan = cur_query_[e]
      BY <1>1 DEF OwnState, TaskIsCurrent, TaskModule
    <2>4. LastNameIsOwn'
      BY <1>1, <2>1, <2>2 DEF OwnState, LastNameIsOwn, TaskModule
    <2>5. StartIsCurrent'
      BY <1>1, <2>1, <2>2, <2>3 DEF OwnState, StartIsCurrent
    <2> QED
      BY <2>4, <2>5
  <1>9. CASE TaskReturn(e)
    <2>1. task' = task /\ names' = names /\ start_' = start_
          /\ task[e].pc = "end" /\ ~Compiling(e)'
      BY <1>9 DEF TaskReturn, TaskAt, OwnTypes, Compiling
    <2> QED
      BY <1>1, <2>1 DEF OwnState, LastNameIsOwn, StartIsCurrent, TaskModule
  <1> QED
    BY <1>5, <1>6, <1>7, <1>8, <1>9 DEF Compile

\* The code an execution calls is that of the current query.
LEMMA OwnExec ==
  ASSUME OwnTypes, OwnState, RunsOwnQuery, status = "ok", [Next]_vars
  PROVE  RunsOwnQuery'
  <1>1. CASE call' = call
    BY <1>1 DEF RunsOwnQuery, Called, NoCall
  <1>2. ASSUME NEW e \in Engine, NEW kind, call' = CallOf(e, kind),
               client.pc \in {"run_exec", "par_exec"}, client.eng = e
        PROVE  RunsOwnQuery'
    <2>1. ~Compiling(e)
      BY <1>2 DEF OwnState, JoinedBeforeUse
    <2>2. /\ call'.start = start_[e] /\ call'.compiled = Len(names[e])
          /\ call'.query = cur_query_[e]
      BY <1>2 DEF CallOf
    <2>3. ASSUME Called', call'.compiled = 1
          PROVE  call'.start.plan = call'.query
      <3>1. start_[e] # Null
        BY <2>2, <2>3 DEF Called
      <3> QED
        BY <2>1, <2>2, <2>3, <3>1 DEF OwnState, StartIsCurrent
    <2> QED
      BY <2>3 DEF RunsOwnQuery
  <1>3. ASSUME NEW e \in Engine, RunExec(e) PROVE RunsOwnQuery'
    BY <1>1, <1>2, <1>3 DEF RunExec, At
  <1>4. ASSUME NEW e \in Engine, ParallelExec(e) PROVE RunsOwnQuery'
    BY <1>1, <1>2, <1>4 DEF ParallelExec, At
  <1>5. ASSUME NEW e \in Engine, Call(e) PROVE call' = call
    BY <1>5 DEF Call, Generate, Run, RunParallel, Cleanup, Destroy
  <1>6. ASSUME NEW e \in Engine, Compile(e) PROVE call' = call
    BY <1>6 DEF Compile, ReadQid, LoadCnt, StoreCnt, AddModule, WalkRoot,
                WalkNext, PublishFinish, PublishStart, TaskReturn
  <1>7. ASSUME NEW e \in Engine,
               GenerateJoin(e) \/ RunJoin(e) \/ RunCleanup(e)
                 \/ ParallelJoin(e) \/ DestroyJoin(e)
        PROVE call' = call
    BY <1>7 DEF GenerateJoin, RunJoin, RunCleanup, ParallelJoin, DestroyJoin
  <1>8. ASSUME NEW p \in Plan, Build(p) PROVE call' = call
    BY <1>8 DEF Build
  <1>9. CASE UNCHANGED vars
    BY <1>9, <1>1 DEF vars
  <1> QED
    BY <1>1, <1>3, <1>4, <1>5, <1>6, <1>7, <1>8, <1>9 DEF Next, Continue

LEMMA OwnStep == TypeOK /\ OwnQueryInv /\ [Next]_vars => OwnQueryInv'
  <1> SUFFICES ASSUME TypeOK, OwnQueryInv, [Next]_vars PROVE OwnQueryInv'
    OBVIOUS
  <1>1. OwnTypes
    BY DEF TypeOK, OwnTypes, Client
  <1>2. CASE UNCHANGED vars
    BY <1>2 DEF vars, OwnQueryInv, RunsOwnQuery, Called, TaskIsCurrent,
                LastNameIsOwn, StartIsCurrent, JoinedBeforeUse, Compiling,
                TaskModule
  <1>3. CASE Next
    <2>1. status = "ok"
      <3>1. ASSUME NEW q \in Plan, Build(q) PROVE status = "ok"
        BY <3>1 DEF Build, Idle
      <3>2. ASSUME NEW e \in Engine, Call(e) PROVE status = "ok"
        BY <3>2 DEF Call, Generate, Run, RunParallel, Cleanup, Destroy, Idle
      <3>3. ASSUME NEW e \in Engine, Continue(e) PROVE status = "ok"
        BY <3>3 DEF Continue, GenerateJoin, RunJoin, RunExec, RunCleanup,
                    ParallelJoin, ParallelExec, DestroyJoin, At
      <3>4. ASSUME NEW e \in Engine, Compile(e) PROVE status = "ok"
        BY <3>4 DEF Compile, ReadQid, LoadCnt, StoreCnt, AddModule, WalkRoot,
                    WalkNext, PublishFinish, PublishStart, TaskReturn, TaskAt
      <3> QED
        BY <1>3, <3>1, <3>2, <3>3, <3>4 DEF Next
    <2>2. OwnState /\ RunsOwnQuery
      BY <2>1 DEF OwnQueryInv, OwnState
    <2>3. RunsOwnQuery'
      BY <1>1, <1>3, <2>1, <2>2, OwnExec
    <2>4. ASSUME status' = "ok" PROVE OwnState'
      <3>1. ASSUME NEW p \in Plan, Build(p) PROVE OwnState'
        BY <2>2, <3>1
        DEF Build, OwnState, TaskIsCurrent, LastNameIsOwn, StartIsCurrent,
            JoinedBeforeUse, Compiling, TaskModule
      <3> QED
        BY <1>1, <1>3, <2>2, <2>4, <3>1, OwnCall, OwnContinue, OwnCompile
        DEF Next
    <2> QED
      BY <2>3, <2>4 DEF OwnQueryInv, OwnState
  <1> QED
    BY <1>2, <1>3

\* With one compilation since the last cleanup, the code an engine executes
\* is the code of its current query, for any engines, plans and bounds.
THEOREM OwnQuery == Spec => []RunsOwnQuery
  <1>1. OwnQueryInv => RunsOwnQuery
    BY DEF OwnQueryInv
  <1> QED
    BY <1>1, TypeInit, TypeStep, OwnInit, OwnStep, PTL DEF Spec
=============================================================================
