-------------------------- MODULE InterpreterProofs --------------------------
(***************************************************************************)
(* What PlanCodegenProofs shows of the compilation holds of the system     *)
(* that compiles, executes and interprets a plan: no call of the compiled  *)
(* code and no interpretation touches the visitor's state, the emitted     *)
(* code or the extracted arguments.  And what follows from it for a call:  *)
(* where it goes on, when it fills and empties the thread-local list of    *)
(* variable-length relationships, the types of the registers it reads, and *)
(* that it does not crash.  Last, what an interpretation delivers.         *)
(***************************************************************************)
EXTENDS Interpreter, PlanCodegenProofs, FiniteSetTheorems

\* The compilation has ended, and stays so.
Settled == phase \in {"idle", "run", "interpret"}

\* No step of a call changes what the compilation has left.
LEMMA ExecuteKeeps ==
  ASSUME Execute
  PROVE  UNCHANGED static /\ Settled /\ Settled'
  <1>1. ReadMissingArg => UNCHANGED static /\ phase = "run" /\ phase' = "run"
    BY DEF ReadMissingArg, Crash, call
  <1>2. EnterScan \/ EnterIndexScan \/ ScanCond \/ ScanNext =>
          UNCHANGED static /\ phase = "run" /\ phase' = "run"
    BY DEF EnterScan, EnterIndexScan, ScanCond, ScanNext, Entering, In, call
  <1>3. ScanEnd \/ CreateEnd => UNCHANGED static /\ phase = "run" /\ phase' \in {"run", "idle"}
    BY DEF ScanEnd, CreateEnd, In
  <1>4. CreateTupleNode \/ CreateTupleRship =>
          UNCHANGED static /\ phase = "run" /\ phase' = "run"
    BY DEF CreateTupleNode, CreateTupleRship, CreateRshipFrom, CreateThen, In
  <1>5. EnterForeach \/ ForeachCond \/ ForeachNext \/ EnterVariable \/ VariableHead =>
          UNCHANGED static /\ phase = "run" /\ phase' = "run"
    BY DEF EnterForeach, ForeachCond, ForeachCondElse, ForeachNext, EnterVariable, VariableHead,
           VariableHeadThen, Entering, In, call
  <1>6. ExpandNode => UNCHANGED static /\ phase = "run" /\ phase' = "run"
    BY DEF ExpandNode, Entering, In, call
  <1>7. FilterTuple => UNCHANGED static /\ phase = "run" /\ phase' = "run"
    BY Zenon DEF FilterTuple, Entering, In, call
  <1>8. ProjectTuple => UNCHANGED static /\ phase = "run" /\ phase' = "run"
    BY Zenon DEF ProjectTuple, Entering, In, call
  <1>9. LimitTuples \/ CollectTuple \/ MaterializeTuple =>
          UNCHANGED static /\ phase = "run" /\ phase' = "run"
    BY DEF LimitTuples, CollectTuple, MaterializeTuple, Entering, In, call
  <1>10. EnterJoin \/ JoinDone \/ CrossNext =>
           UNCHANGED static /\ phase = "run" /\ phase' = "run"
    BY DEF EnterJoin, JoinDone, CrossNext, Joining, In, call
  <1>11. OuterBegin => UNCHANGED static /\ phase = "run" /\ phase' = "run"
    BY Zenon DEF OuterBegin, In, call
  <1>12. OuterMatch \/ OuterIncr \/ OuterReturn =>
           UNCHANGED static /\ phase = "run" /\ phase' = "run"
    BY DEF OuterMatch, OuterIncr, OuterReturn, In, call
  <1> HIDE DEF static
  <1>13. UNCHANGED static /\ phase = "run" /\ phase' \in {"run", "idle"}
    BY <1>1, <1>2, <1>3, <1>4, <1>5, <1>6, <1>7, <1>8, <1>9, <1>10, <1>11, <1>12 DEF Execute
  <1> QED
    BY <1>13 DEF Settled

\* Nor does a step of an interpretation.
LEMMA InterpretKeeps ==
  ASSUME InterpretStep
  PROVE  UNCHANGED static /\ Settled /\ Settled'
  <1>1. InterpretWithoutQuery \/ InterpretJoin \/ InterpretCreate =>
          UNCHANGED static /\ phase = "interpret" /\ phase' = "interpret"
    BY DEF InterpretWithoutQuery, InterpretJoin, InterpretCreate, Interpreting, Quiet, compiledCode
  <1>2. InterpretScan \/ InterpretTraversal \/ InterpretFilter =>
          UNCHANGED static /\ phase = "interpret" /\ phase' = "interpret"
    BY Zenon DEF InterpretScan, InterpretTraversal, InterpretFilter, Extending, Interpreting, Quiet,
                 compiledCode
  <1>3. InterpretProject \/ InterpretSortOrLimit \/ InterpretCollect =>
          UNCHANGED static /\ phase = "interpret" /\ phase' = "interpret"
    BY DEF InterpretProject, InterpretSortOrLimit, InterpretCollect, Extending, Interpreting,
           Quiet, compiledCode
  <1>4. InterpretStart =>
          UNCHANGED static /\ phase = "interpret" /\ phase' \in {"interpret", "idle", "run"}
    BY DEF InterpretStart, StartThen, CallStart, compiledCode
  <1>5. UNCHANGED static /\ phase = "interpret" /\ phase' \in {"interpret", "idle", "run"}
    BY <1>1, <1>2, <1>3, <1>4 DEF InterpretStep
  <1> QED
    BY <1>5 DEF Settled

\* A step compiles, or leaves the compiled plan alone.
LEMMA StepKinds ==
  ASSUME InterpreterNext
  PROVE  Compile \/ (UNCHANGED static /\ Settled /\ Settled')
  <1>1. Start \/ ClearRhs \/ SetProperty => UNCHANGED static /\ Settled /\ Settled'
    BY DEF Start, ClearRhs, SetProperty, CallStart, Settled
  <1>2. Interpret \/ RunInterpreted => UNCHANGED static /\ Settled /\ Settled'
    BY DEF Interpret, RunInterpreted, compiledCode, Settled
  <1> HIDE DEF static, Settled
  <1> QED
    BY <1>1, <1>2, ExecuteKeeps, InterpretKeeps, Zenon DEF InterpreterNext, CompileOrCall

\* So every step of the system is one of the compilation, or keeps what it left.
LEMMA StepKeeps ==
  ASSUME IInv, [InterpreterNext]_allVars
  PROVE  IInv'
  <1>1. CASE UNCHANGED static /\ (phase' = phase \/ (Settled /\ Settled'))
    <2>1. UNCHANGED <<plan, at, todo, op_id, cv, code, walk>>
      BY <1>1 DEF static
    <2>2. \/ phase' = phase
          \/ {phase, phase'} \subseteq {"idle", "run", "interpret"}
      BY <1>1 DEF Settled
    <2>3. CodegenType'
      <3>1. LabelsOf' = LabelsOf
        BY <2>1 DEF LabelsOf, Positions, OpAt
      <3> QED
        BY <2>1, <3>1 DEF IInv, CodegenType
    <2>4. OrderInv'
      BY <2>1, <2>2 DEF IInv, CodegenInv, OrderInv, Positions, JoinPositions, OpAt, RhsOf, Reached,
                        Entered, Precedes, Range
    <2>5. JidInv'
      BY <2>1, <2>2 DEF IInv, CodegenInv, JidInv, OneJoinEach, Joined, JoinsOf, Handed,
                        JoinPositions, Positions, OpAt, RhsOf, Reached, Entered, LeafOf, Range
    <2>6. SlotInv'
      BY <2>1, <2>2 DEF IInv, CodegenInv, SlotInv, SlotsUpTo, Plain, SlotAfter, Width, InSlot,
                        Positions, Compiled
    <2>7. FlowInv'
      BY <2>1, <2>2, FlowUnchanged DEF IInv, CodegenInv
    <2>8. RegsInv'
      BY <2>1, <2>2, RegsSame DEF IInv, CodegenInv
    <2>9. TypesInv'
      <3>1. FoundTypes(at)' = FoundTypes(at) /\ \A x : FoundTypes(x)' = FoundTypes(x)
        BY <2>1 DEF FoundTypes
      <3> QED
        BY <2>1, <2>2, <3>1 DEF IInv, CodegenInv, TypesInv, TypesOf
    <2>10. NamesInv'
      BY <2>1, <2>2 DEF IInv, CodegenInv, NamesInv, JoinPositions, Positions, OpAt, Range
    <2> QED
      BY <2>3, <2>4, <2>5, <2>6, <2>7, <2>8, <2>9, <2>10 DEF IInv, CodegenInv
  <1>2. CASE Compile
    BY <1>2, CompileKeeps
  <1>3. CASE UNCHANGED allVars
    BY <1>1, <1>3 DEF allVars, vars, codegenVars, static
  <1> QED
    BY <1>1, <1>2, <1>3, StepKinds

\* The invariant of the compilation, and of the order in which the pipelines are
\* entered, the identifiers handed over and the slots counted.
LEMMA Invariance == InterpreterSpec => []IInv
  <1>1. InterpreterInit => IInv
    BY InitInv DEF InterpreterInit, Init
  <1>2. IInv /\ [InterpreterNext]_allVars => IInv'
    BY StepKeeps
  <1> QED
    BY <1>1, <1>2, PTL DEF InterpreterSpec

\* The order of entry blocks, the queue of identifiers, the argument slots and the
\* links between the operators' blocks are, at every step of codegen and of the walk
\* and whenever the code is called, those that CodegenInv describes.
THEOREM CodegenState == InterpreterSpec => []CodegenInv
  <1>1. IInv => CodegenInv
    BY DEF IInv
  <1> QED
    BY <1>1, Invariance, PTL

\* The compiled code enters every right-hand side before the pipeline whose join
\* probes it, however joins are nested.
THEOREM RhsBeforeProbe == InterpreterSpec => []RhsExecutesFirst
  BY RhsFirst, Invariance, PTL

\* A join reads the list its own right-hand side is materialised into, in plans with
\* at most one join in a pipeline.
THEOREM OwnRhs == InterpreterSpec => []JoinReadsOwnRhs
  BY ReadsOwn, Invariance, PTL

\* The labels compile_task extracts are in the slots that the compiled code reads, up
\* to the first operator that takes slots without having a label.
THEOREM LabelsBound == InterpreterSpec => []BindsLabels
  BY Binds, Invariance, PTL

-----------------------------------------------------------------------------
(***************************************************************************)
(* Where a call is in the compiled code, and the list of variable-length   *)
(* relationships.                                                          *)
(***************************************************************************)
PcInv ==
  /\ phase = "run" => /\ pc = <<pc[1], pc[2], pc[3]>> /\ Here \in DOMAIN code
                      /\ pc[3] = "end" => pc[2] = 1
                      /\ pc[3] = "head" => Op.variable
  /\ fev = [list |-> fev.list, iter |-> fev.iter]

\* What a position of compiled code is linked with.
LEMMA Linked ==
  ASSUME IInv, Settled, NEW x \in DOMAIN code
  PROVE  /\ x = <<x[1], x[2]>> /\ x[1] \in DOMAIN plan /\ x[2] \in Nat /\ x[2] >= 1
         /\ OpAt(x).type = "scan" => x[2] = 1
         /\ OpAt(x).type \notin {"scan", "create"} => x[2] > 1
         /\ OpAt(x).variable => OpAt(x).type = "foreach_rship"
         /\ ~IsLeaf(OpAt(x)) => /\ code[x].next \in DOMAIN code /\ code[x].next[1] = x[1]
                                /\ code[x].next[2] > x[2]
         /\ OpAt(x).type = "limit" => code[x].end = <<x[1], 1, "end">>
         /\ x[2] > 1 => Innermost(code[x].ret, x)
         /\ <<x[1], 1>> \in DOMAIN code
  <1>1. /\ plan \in Plans /\ Compiled /\ phase # "codegen" /\ phase # "aborted"
        /\ OrderInv /\ FlowInv
    BY DEF IInv, CodegenInv, OrderInv, Settled, Compiled
  <1>2. x \in Positions /\ IsPlan(plan)
    BY <1>1, PlansAssumption DEF FlowInv
  <1>3. /\ x = <<x[1], x[2]>> /\ x[1] \in DOMAIN plan /\ x[2] \in DOMAIN plan[x[1]]
        /\ x[2] \in 1..Len(plan[x[1]]) /\ Len(plan[x[1]]) \in Nat
        /\ plan[x[1]][1].type \in {"scan", "create"}
    BY <1>1, <1>2, PositionFacts, PlanFacts
  <1>4. /\ OpAt(x).type = "scan" => x[2] = 1
        /\ OpAt(x).variable => OpAt(x).type = "foreach_rship"
    BY <1>2, <1>3 DEF IsPlan, OpAt
  <1>5. OpAt(x).type \notin {"scan", "create"} => x[2] > 1
    BY <1>3 DEF OpAt
  <1>6. /\ x[2] > 1 => Innermost(code[x].ret, x)
        /\ OpAt(x).type = "limit" => code[x].end = <<x[1], 1, "end">>
        /\ ~IsLeaf(OpAt(x)) => code[x].next \in DOMAIN code /\ Follows(x, code[x].next)
    BY <1>1 DEF FlowInv
  <1>7. <<x[1], 1>> \in DOMAIN code
    BY <1>1, <1>3, AllEntered DEF FlowInv
  <1> QED
    BY <1>3, <1>4, <1>5, <1>6, <1>7 DEF Follows

\* The steps of a call, by where they lead and what they do to the list.
Stays == pc' = pc /\ phase' = phase /\ fev' = fev
Branches ==
  \/ \E name : pc' = Block(Here, name) /\ (name = "end" => Op.type = "scan") /\ name # "head"
  \/ Consume /\ ~IsLeaf(Op)
  \/ Return /\ Op.type \notin {"scan", "create"}
  \/ Op.type = "limit" /\ pc' = code[Here].end
Passes == phase' = "run" /\ fev' = fev /\ pc[3] # "head" /\ Branches
Ends ==
  /\ fev' = fev /\ pc[3] = "end"
  /\ phase' = "idle" \/ \E i \in DOMAIN cv.entry : phase' = "run" /\ pc' = <<cv.entry[i], 1, "entry">>
Fills == Op.variable /\ phase' = "run" /\ pc' = Block(Here, "head")
         /\ fev' = [list |-> fev'.list, iter |-> fev'.iter]
Empties == Op.variable /\ pc[3] = "head" /\ phase' = "run" /\ fev'.list = <<>> /\ Return
           /\ fev' = [list |-> fev'.list, iter |-> fev'.iter]
Takes == Op.variable /\ pc[3] = "head" /\ phase' = "run" /\ fev'.list = fev.list /\ Consume
         /\ fev' = [list |-> fev'.list, iter |-> fev'.iter]

\* The kinds of steps of a call: it crashes, ends, goes on to another operator,
\* goes on in the same one, or takes a relationship of the list, as above.
LEMMA ExecuteKinds ==
  ASSUME IInv, PcInv, Execute
  PROVE  /\ phase = "run" /\ clean' = clean
         /\ Stays \/ Passes \/ Ends \/ Fills \/ Empties \/ Takes
  <1> DEFINE Goes == phase = "run" /\ clean' = clean /\ (Stays \/ Passes)
  <1>1. ReadMissingArg => Goes
    BY DEF ReadMissingArg, Crash, Stays, call, memory
  <1>g. ASSUME phase = "run", phase' = phase, fev' = fev, clean' = clean, pc[3] # "head", Branches
        PROVE  Goes
    BY <1>g DEF Passes
  <1>2. ASSUME EnterScan \/ EnterIndexScan PROVE Goes
    <2>1. /\ phase = "run" /\ phase' = phase /\ fev' = fev /\ clean' = clean /\ pc[3] # "head"
          /\ Op.type = "scan" /\ (Goto("cond") \/ Consume \/ Goto("end") \/ pc' = pc)
      BY <1>2 DEF EnterScan, EnterIndexScan, Entering, In, call, memory
    <2> QED
      BY <1>g, <2>1 DEF Branches, Goto, IsLeaf, Stays
  <1>3. ASSUME ScanCond \/ ScanNext PROVE Goes
    <2>1. /\ phase = "run" /\ phase' = phase /\ fev' = fev /\ clean' = clean /\ pc[3] # "head"
          /\ Op.type = "scan" /\ (Goto("cond") \/ Consume \/ Goto("end") \/ Goto("next"))
      BY <1>3 DEF ScanCond, ScanNext, In, call, memory
    <2> QED
      BY <1>g, <2>1 DEF Branches, Goto, IsLeaf
  <1>4. ASSUME ScanEnd PROVE phase = "run" /\ clean' = clean /\ Ends
    <2>1. phase = "run" /\ clean' = clean /\ fev' = fev /\ pc[3] = "end"
      BY <1>4 DEF ScanEnd, In
    <2>2. /\ CodegenType /\ Here \in DOMAIN code /\ Settled /\ Compiled
          /\ Len(cv.entry) \in Nat /\ DOMAIN cv.entry = 1..Len(cv.entry)
      BY <2>1 DEF IInv, CodegenType, PcInv, Settled, Compiled
    <2>3. pc[1] \in Entered
      <3>1. Here[1] \in DOMAIN plan
        BY <2>2, Linked
      <3> QED
        BY <2>2, <3>1, AllEntered DEF Here
    <2>4. \E j \in DOMAIN cv.entry : cv.entry[j] = pc[1]
      BY <2>3 DEF Entered, Range
    <2> DEFINE i == CHOOSE j \in DOMAIN cv.entry : cv.entry[j] = pc[1]
    <2>5. i \in DOMAIN cv.entry
      BY <2>4
    <2>6. IF i < Len(cv.entry) THEN pc' = <<cv.entry[i + 1], 1, "entry">> /\ phase' = phase
          ELSE phase' = "idle"
      BY <1>4 DEF ScanEnd
    <2> HIDE DEF i
    <2>7. i < Len(cv.entry) => i + 1 \in DOMAIN cv.entry
      BY <2>2, <2>5
    <2> QED
      BY <2>1, <2>6, <2>7 DEF Ends
  <1>5. CreateEnd => phase = "run" /\ clean' = clean /\ Ends
    BY DEF CreateEnd, In, Ends, memory
  <1>6. ASSUME CreateTupleNode \/ CreateTupleRship PROVE Goes
    <2>1. /\ phase = "run" /\ phase' = phase /\ fev' = fev /\ clean' = clean /\ pc[3] # "head"
          /\ Op.type = "create" /\ (Consume \/ pc' = pc)
      BY <1>6 DEF CreateTupleNode, CreateTupleRship, CreateRshipFrom, CreateThen, In, Entering, memory
    <2> QED
      BY <1>g, <2>1 DEF Branches, IsLeaf, Stays
  <1>7. ASSUME EnterForeach \/ ForeachCond \/ ForeachNext PROVE Goes
    <2>1. /\ phase = "run" /\ phase' = phase /\ fev' = fev /\ clean' = clean /\ pc[3] # "head"
          /\ Op.type = "foreach_rship" /\ (Goto("cond") \/ Goto("next") \/ Consume \/ Return)
      BY <1>7 DEF EnterForeach, ForeachCond, ForeachCondElse, ForeachNext, Entering, In, call, memory
    <2> QED
      BY <1>g, <2>1 DEF Branches, Goto, IsLeaf
  <1>8. EnterVariable => phase = "run" /\ clean' = clean /\ Fills
    BY DEF EnterVariable, Entering, In, Goto, Fills, call
  <1>9. ASSUME VariableHead
        PROVE  phase = "run" /\ clean' = clean /\ (Stays \/ Empties \/ Takes)
    <2>1. phase = "run" /\ phase' = phase /\ clean' = clean /\ pc[3] = "head" /\ Op.variable
      BY <1>9 DEF VariableHead, VariableHeadThen, In, call, PcInv
    <2>2. \/ fev' = [fev EXCEPT !.list = <<>>] /\ Return
          \/ fev' = [fev EXCEPT !.iter = @ + 1] /\ Consume
          \/ fev' = fev /\ pc' = pc
      BY <1>9 DEF VariableHead, VariableHeadThen
    <2>3. fev = [list |-> fev.list, iter |-> fev.iter]
      BY DEF PcInv
    <2> QED
      BY <2>1, <2>2, <2>3 DEF Stays, Empties, Takes
  <1>10. ASSUME ExpandNode PROVE Goes
    <2>1. /\ phase = "run" /\ phase' = phase /\ fev' = fev /\ clean' = clean /\ pc[3] # "head"
          /\ Op.type = "expand" /\ \E c : ConsumeIf(c)
      BY <1>10, Zenon DEF ExpandNode, Entering, In, call, memory
    <2>2. Consume \/ Return
      BY <2>1 DEF ConsumeIf
    <2> QED
      BY <1>g, <2>1, <2>2 DEF Branches, IsLeaf
  <1>11. ASSUME FilterTuple PROVE Goes
    <2>1. /\ phase = "run" /\ phase' = phase /\ fev' = fev /\ clean' = clean /\ pc[3] = "entry"
          /\ Op.type = "filter" /\ \E c : ConsumeIf(c)
      BY <1>11, Zenon DEF FilterTuple, Entering, In, call, memory
    <2>2. Consume \/ Return
      BY <2>1 DEF ConsumeIf
    <2> QED
      BY <1>g, <2>1, <2>2 DEF Branches, IsLeaf
  <1>12. ASSUME ProjectTuple PROVE Goes
    <2>1. /\ phase = "run" /\ phase' = phase /\ fev' = fev /\ clean' = clean /\ pc[3] = "entry"
          /\ Op.type = "project" /\ (Consume \/ pc' = pc)
      BY <1>12, Zenon DEF ProjectTuple, Entering, In, call
    <2> QED
      BY <1>g, <2>1 DEF Branches, IsLeaf, Stays
  <1>13. ASSUME LimitTuples PROVE Goes
    <2>1. /\ phase = "run" /\ phase' = phase /\ fev' = fev /\ clean' = clean /\ pc[3] # "head"
          /\ Op.type = "limit" /\ (Consume \/ pc' = code[Here].end)
      BY <1>13 DEF LimitTuples, Entering, In, call, memory
    <2> QED
      BY <1>g, <2>1 DEF Branches, IsLeaf
  <1>14. ASSUME CollectTuple \/ MaterializeTuple PROVE Goes
    <2>1. /\ phase = "run" /\ phase' = phase /\ fev' = fev /\ clean' = clean /\ pc[3] # "head"
          /\ Op.type \in {"collect", "none"} /\ (Return \/ pc' = pc)
      BY <1>14 DEF CollectTuple, MaterializeTuple, Entering, In, call
    <2> QED
      BY <1>g, <2>1 DEF Branches, Stays
  <1>c. ASSUME NEW t, Concat(t) PROVE Consume \/ pc' = pc
    BY <1>c, Zenon DEF Concat
  <1>15. ASSUME EnterJoin \/ JoinDone \/ CrossNext PROVE Goes
    <2>1. /\ phase = "run" /\ phase' = phase /\ fev' = fev /\ clean' = clean /\ pc[3] # "head"
          /\ Op.type \in {"cross_join", "left_join"}
          /\ Goto("cond") \/ Return \/ Concat(CurTp)
      BY <1>15 DEF EnterJoin, JoinDone, CrossNext, Joining, In, call, memory
    <2>2. Goto("cond") \/ Return \/ Consume \/ pc' = pc
      BY <1>c, <2>1
    <2> QED
      BY <1>g, <2>1, <2>2 DEF Branches, Goto, IsLeaf, Stays
  <1>16. ASSUME OuterBegin \/ OuterMatch \/ OuterIncr \/ OuterReturn PROVE Goes
    <2>1. /\ phase = "run" /\ phase' = phase /\ fev' = fev /\ clean' = clean
          /\ pc[3] \in {"cond", "rships", "ret"} /\ Op.type = "left_join"
          /\ Goto("rships") \/ Concat(Tp) \/ pc' = pc \/ Goto("cond")
      BY <1>16, Zenon DEF OuterBegin, OuterMatch, OuterIncr, OuterReturn, In, call, memory
    <2>2. Goto("rships") \/ Consume \/ pc' = pc \/ Goto("cond")
      BY <1>c, <2>1
    <2>3. pc[3] # "head"
      BY <2>1
    <2> QED
      BY <1>g, <2>1, <2>2, <2>3 DEF Branches, Goto, IsLeaf, Stays
  <1> QED
    BY <1>1, <1>2, <1>3, <1>4, <1>5, <1>6, <1>7, <1>8, <1>9, <1>10, <1>11, <1>12, <1>13, <1>14,
       <1>15, <1>16 DEF Execute

\* A step of a call stays in the code, and above the traversal that has filled the
\* list until it has emptied it.
LEMMA ExecuteKeepsList ==
  ASSUME IInv, PcInv, LeavesListEmpty, Execute
  PROVE  PcInv' /\ LeavesListEmpty'
  <1>1. /\ UNCHANGED <<plan, code, cv>> /\ Settled /\ phase = "run"
        /\ UNCHANGED clean
        /\ Stays \/ Passes \/ Ends \/ Fills \/ Empties \/ Takes
    BY ExecuteKeeps, ExecuteKinds DEF static
  <1>2. PICK p, n, m : p = pc[1] /\ n = pc[2] /\ m = pc[3]
    OBVIOUS
  <1>3. PICK x : x = <<p, n>>
    OBVIOUS
  <1>4. /\ pc = <<p, n, m>> /\ Here = x /\ Op = OpAt(x) /\ x \in DOMAIN code /\ x[1] = p /\ x[2] = n
        /\ m = "end" => n = 1
        /\ m = "head" => OpAt(x).variable
    BY <1>1, <1>2, <1>3 DEF PcInv, Here, Op
  <1>5. /\ x = <<p, n>> /\ p \in DOMAIN plan /\ n \in Nat /\ n >= 1
        /\ OpAt(x).type = "scan" => n = 1
        /\ OpAt(x).type \notin {"scan", "create"} => n > 1
        /\ OpAt(x).variable => OpAt(x).type = "foreach_rship"
        /\ ~IsLeaf(OpAt(x)) => /\ code[x].next \in DOMAIN code /\ code[x].next[1] = p
                               /\ code[x].next[2] > n
        /\ OpAt(x).type = "limit" => code[x].end = <<p, 1, "end">>
        /\ n > 1 => Innermost(code[x].ret, x)
        /\ <<p, 1>> \in DOMAIN code
    BY <1>1, <1>4, Linked
  \* Where a step leads.
  <1> DEFINE Above(q) == \E k \in Variable(p) : q[1] = p /\ (q[2] > k \/ (q[2] = k /\ q[3] = "head"))
             InCode(q) == /\ q = <<q[1], q[2], q[3]>> /\ <<q[1], q[2]>> \in DOMAIN code
                          /\ q[3] = "end" => q[2] = 1
                          /\ q[3] = "head" => OpAt(<<q[1], q[2]>>).variable
  <1>v. /\ n \in DOMAIN plan[p]
        /\ \A k \in Variable(p) : /\ k \in Nat /\ k >= 1 /\ plan[p][k].variable
                                  /\ plan[p][k].type = "foreach_rship"
    <2>1. plan \in Plans /\ x \in Positions
      BY <1>4 DEF IInv, CodegenInv, OrderInv, FlowInv
    <2>2. n \in DOMAIN plan[p] /\ DOMAIN plan[p] = 1..Len(plan[p]) /\ Len(plan[p]) \in Nat
      BY <1>4, <2>1, PositionFacts, PlanFacts
    <2>3. IsPlan(plan)
      BY <2>1, PlansAssumption
    <2> QED
      BY <1>5, <2>2, <2>3 DEF IsPlan, Variable
  <1>6. ASSUME Consume, ~IsLeaf(OpAt(x))
        PROVE  InCode(pc') /\ (Above(pc) \/ (m = "head" /\ OpAt(x).variable) => Above(pc'))
    <2>1. PICK y : y = code[x].next
      OBVIOUS
    <2>2. y \in DOMAIN code /\ y[1] = p /\ y[2] > n
      BY <1>5, <1>6, <2>1
    <2>3. y = <<y[1], y[2]>> /\ y[2] \in Nat
      BY <1>1, <2>2, Linked
    <2>4. pc' = <<p, y[2], "entry">>
      BY <1>4, <1>6, <2>1, <2>2 DEF Consume, Block
    <2>5. InCode(pc')
      BY <2>2, <2>3, <2>4
    <2>6. \A k \in Variable(p) : n >= k => Above(pc')
      BY <1>5, <1>v, <2>2, <2>3, <2>4
    <2>7. m = "head" /\ OpAt(x).variable => n \in Variable(p)
      BY <1>4, <1>5, <1>v DEF Variable, OpAt
    <2> QED
      BY <1>4, <1>5, <1>v, <2>5, <2>6, <2>7
  <1>7. ASSUME Return, n > 1
        PROVE  InCode(pc') /\ (Above(pc) /\ m # "head" => Above(pc'))
    <2>1. PICK b : b = code[x].ret
      OBVIOUS
    <2>2. Innermost(b, x)
      BY <1>5, <1>7, <2>1
    <2>3. PICK j \in 1..(n - 1) :
            /\ <<p, j>> \in DOMAIN code
            /\ IsLoop(<<p, j>>) /\ \A k \in (j + 1)..(n - 1) : ~IsLoop(<<p, k>>)
            /\ b = Block(<<p, j>>, LoopBlock(OpAt(<<p, j>>)))
      BY <1>4, <2>2 DEF Innermost
    <2>4. pc' = <<p, j, LoopBlock(OpAt(<<p, j>>))>>
      BY <1>4, <1>7, <2>1, <2>3 DEF Return, Block
    <2>5. LoopBlock(OpAt(<<p, j>>)) = "end" => j = 1
      BY <2>3 DEF LoopBlock, IsLoop, IsJoin
    <2>6. LoopBlock(OpAt(<<p, j>>)) = "head" => OpAt(<<p, j>>).variable
      BY DEF LoopBlock
    <2>7. InCode(pc')
      BY <2>3, <2>4, <2>5, <2>6
    <2>8. ASSUME NEW k \in Variable(p), n > k PROVE Above(pc')
      <3>1. IsLoop(<<p, k>>) /\ k \in Nat
        BY <1>v DEF IsLoop, OpAt
      <3>2. j >= k
        BY <1>5, <2>3, <2>8, <3>1
      <3>3. j = k => LoopBlock(OpAt(<<p, j>>)) = "head"
        BY <1>v DEF LoopBlock, OpAt
      <3> QED
        BY <2>4, <3>1, <3>2, <3>3
    <2> QED
      BY <1>4, <2>7, <2>8
  <1>b. ASSUME NEW name, pc' = Block(Here, name), name = "end" => OpAt(x).type = "scan",
               name = "head" => OpAt(x).variable
        PROVE  InCode(pc') /\ (Above(pc) /\ m # "head" => Above(pc'))
    <2>1. pc' = <<p, n, name>>
      BY <1>4, <1>b DEF Block
    <2> QED
      BY <1>4, <1>5, <1>b, <2>1
  <1> DEFINE NoLimit == clean /\ \A y \in Positions : OpAt(y).type # "limit"
  <1>8. NoLimit => fev.list = <<>> \/ Above(pc)
    BY <1>4 DEF LeavesListEmpty, InTraversal
  <1>9. ASSUME phase' = "run" => InCode(pc'), fev' = [list |-> fev'.list, iter |-> fev'.iter],
               NoLimit => fev'.list = <<>> \/ (phase' = "run" /\ Above(pc'))
        PROVE  PcInv' /\ LeavesListEmpty'
    <2>1. /\ NoLimit' = NoLimit /\ DOMAIN code' = DOMAIN code /\ Variable(p)' = Variable(p)
          /\ Op' = OpAt(<<pc'[1], pc'[2]>>)
      BY <1>1 DEF Positions, OpAt, Variable, Op, Here
    <2>2. PcInv'
      BY <1>9, <2>1 DEF PcInv, Here
    <2>3. Above(pc') => InTraversal'
      BY <2>1 DEF InTraversal
    <2> QED
      BY <1>9, <2>1, <2>2, <2>3 DEF LeavesListEmpty
  <1>10. fev = [list |-> fev.list, iter |-> fev.iter]
    BY DEF PcInv
  <1> HIDE DEF Above, InCode, NoLimit
  <1>11. CASE Stays
    <2>1. InCode(pc')
      <3>1. pc' = <<p, n, m>>
        BY <1>4, <1>11 DEF Stays
      <3> QED
        BY <1>4, <1>5, <3>1 DEF InCode
    <2>2. Above(pc')= Above(pc)
      BY <1>11 DEF Stays
    <2> QED
      BY <1>1, <1>8, <1>9, <1>10, <1>11, <2>1, <2>2 DEF Stays
  <1>12. CASE Passes
    <2>1. phase' = "run" /\ fev' = fev /\ m # "head" /\ Branches
      BY <1>2, <1>12 DEF Passes
    <2>2. CASE OpAt(x).type = "limit" /\ pc' = code[Here].end
      <3>1. pc' = <<p, 1, "end">> /\ x \in Positions
        BY <1>4, <1>5, <2>2 DEF IInv, CodegenInv, FlowInv
      <3>2. InCode(pc') /\ ~NoLimit
        BY <1>5, <2>2, <3>1 DEF InCode, NoLimit
      <3> QED
        BY <1>9, <1>10, <2>1, <3>2
    <2>3. CASE ~(OpAt(x).type = "limit" /\ pc' = code[Here].end)
      <3>1. InCode(pc') /\ (Above(pc) => Above(pc'))
        BY <1>4, <1>5, <1>6, <1>7, <1>b, <2>1, <2>3 DEF Branches
      <3> QED
        BY <1>8, <1>9, <1>10, <2>1, <3>1
    <2> QED
      BY <2>2, <2>3
  <1>13. CASE Ends
    <2>1. fev' = fev /\ m = "end" /\ n = 1
      BY <1>2, <1>4, <1>13 DEF Ends
    <2>2. ~Above(pc)
      BY <1>4, <1>v, <2>1 DEF Above
    <2>3. phase' = "run" => InCode(pc')
      <3>1. ASSUME NEW i \in DOMAIN cv.entry, pc' = <<cv.entry[i], 1, "entry">>
            PROVE  InCode(pc')
        <4>1. <<cv.entry[i], 1>> \in DOMAIN code
          BY DEF IInv, CodegenInv, FlowInv, Entered, Range
        <4> QED
          BY <3>1, <4>1 DEF InCode
      <3> QED
        BY <1>13, <3>1 DEF Ends
    <2> QED
      BY <1>8, <1>9, <1>10, <2>1, <2>2, <2>3
  <1>14. CASE Fills
    <2>1. phase' = "run" /\ pc' = Block(Here, "head") /\ OpAt(x).variable
          /\ fev' = [list |-> fev'.list, iter |-> fev'.iter]
      BY <1>4, <1>14 DEF Fills
    <2>2. InCode(pc')
      BY <1>b, <2>1
    <2>3. n \in Variable(p) /\ pc' = <<p, n, "head">>
      BY <1>4, <1>5, <1>v, <2>1 DEF Variable, OpAt, Block
    <2>4. Above(pc')
      BY <2>3 DEF Above
    <2> QED
      BY <1>9, <2>1, <2>2, <2>4
  <1>15. CASE Empties
    <2>1. OpAt(x).variable /\ fev'.list = <<>> /\ Return
          /\ fev' = [list |-> fev'.list, iter |-> fev'.iter]
      BY <1>4, <1>15 DEF Empties
    <2>2. InCode(pc')
      BY <1>5, <1>7, <2>1
    <2> QED
      BY <1>9, <2>1, <2>2
  <1>16. CASE Takes
    <2>1. OpAt(x).variable /\ m = "head" /\ fev'.list = fev.list /\ Consume /\ phase' = "run"
          /\ fev' = [list |-> fev'.list, iter |-> fev'.iter]
      BY <1>2, <1>4, <1>16 DEF Takes
    <2>2. ~IsLeaf(OpAt(x))
      BY <1>5, <2>1 DEF IsLeaf
    <2>3. InCode(pc') /\ Above(pc')
      BY <1>6, <2>1, <2>2
    <2> QED
      BY <1>9, <2>1, <2>3
  <1> QED
    BY <1>1, <1>11, <1>12, <1>13, <1>14, <1>15, <1>16

\* So does every other step.
LEMMA ListStep ==
  ASSUME IInv, PcInv, LeavesListEmpty, [InterpreterNext]_allVars
  PROVE  PcInv' /\ LeavesListEmpty'
  <1>k. ASSUME UNCHANGED <<plan, fev>>, phase' # "run", phase # "run",
               clean' = clean \/ clean' = FALSE
        PROVE  PcInv' /\ LeavesListEmpty'
    <2>1. PcInv'
      BY <1>k DEF PcInv
    <2>2. clean /\ (\A x \in Positions : OpAt(x).type # "limit") => fev.list = <<>>
      BY <1>k DEF LeavesListEmpty
    <2>3. clean' /\ (\A x \in Positions : OpAt(x).type # "limit") => fev'.list = <<>>
      BY <1>k, <2>2
    <2>4. (\A x \in Positions : OpAt(x).type # "limit")' = (\A x \in Positions : OpAt(x).type # "limit")
      BY <1>k DEF Positions, OpAt
    <2> QED
      BY <2>1, <2>3, <2>4 DEF LeavesListEmpty
  \* The call begins with the entry block of an access path.
  <1>s. ASSUME NEW rs, CallStart(rs), Settled
        PROVE  PcInv' /\ LeavesListEmpty'
    <2>1. /\ phase' = "run" /\ pc' = <<Head(cv.entry), 1, "entry">> /\ UNCHANGED <<code, cv, fev>>
          /\ clean' => fev.list = <<>>
      BY <1>s, Zenon DEF CallStart, static
    <2>2. cv.entry # <<>> /\ cv.entry \in Seq(Nat)
      <3>1. CodegenType /\ plan \in Plans /\ Compiled
        BY <1>s DEF IInv, CodegenInv, OrderInv, Settled, Compiled
      <3>2. 1 \in Entered
        BY <3>1, PlanFacts, AllEntered
      <3> QED
        BY <3>1, <3>2 DEF CodegenType, Entered, Range
    <2>3. Head(cv.entry) \in Entered
      <3>1. 1 \in DOMAIN cv.entry /\ Head(cv.entry) = cv.entry[1]
        BY <2>2
      <3> QED
        BY <3>1 DEF Entered, Range
    <2>5. <<Head(cv.entry), 1>> \in DOMAIN code
      BY <2>3 DEF IInv, CodegenInv, FlowInv
    <2>4. PcInv'
      BY <2>1, <2>5 DEF PcInv, Here
    <2> QED
      BY <2>1, <2>4 DEF LeavesListEmpty
  <1>1. CASE Compile /\ UNCHANGED runtime
    <2>1. UNCHANGED <<fev, clean>>
      BY <1>1 DEF runtime
    <2>2. plan' = plan /\ phase # "run" /\ phase' # "run"
      <3>1. CASE Visit
        <4>1. Advances \/ Joins \/ Leaves \/ Aborts
          BY <3>1, VisitKinds DEF IInv, CodegenInv, OrderInv
        <4> QED
          BY <4>1 DEF Advances, Joins, Leaves, Aborts, Ascend
      <3>2. CASE WalkStep \/ WalkEnd
        BY <3>2 DEF WalkStep, WalkEnd
      <3> QED
        BY <1>1, <3>1, <3>2 DEF Compile
    <2> QED
      BY <1>k, <2>1, <2>2
  <1>2. CASE Start
    BY <1>2, <1>s DEF Start, Settled
  <1>3. CASE ClearRhs \/ SetProperty \/ Interpret \/ RunInterpreted
    <2>1. UNCHANGED <<plan, fev>> /\ phase' # "run" /\ phase # "run" /\ clean' \in {clean, FALSE}
      BY <1>3 DEF ClearRhs, SetProperty, Interpret, RunInterpreted, compiledCode, static
    <2> QED
      BY <1>k, <2>1
  <1>4. CASE Execute
    BY <1>4, ExecuteKeepsList
  <1>5. CASE InterpretStep
    <2>1. CASE InterpretStart /\ phase' = "run"
      <3>1. CallStart(Delivered)
        BY <2>1 DEF InterpretStart, StartThen
      <3> QED
        BY <1>5, <1>s, <3>1, InterpretKeeps
    <2>2. CASE InterpretStart /\ phase' # "run"
      <3>1. phase = "interpret" /\ (CallStart(Delivered) \/ UNCHANGED compiledCode)
        BY <2>2, Zenon DEF InterpretStart, StartThen
      <3>2. UNCHANGED compiledCode
        BY <2>2, <3>1 DEF CallStart
      <3> QED
        BY <1>k, <2>2, <3>1, <3>2 DEF compiledCode, static
    <2>3. CASE ~InterpretStart
      <3>1. Quiet /\ phase = "interpret"
        BY <1>5, <2>3, Zenon DEF InterpretStep, InterpretWithoutQuery, InterpretJoin,
           InterpretCreate, InterpretScan, InterpretTraversal, InterpretFilter, InterpretProject,
           InterpretSortOrLimit, InterpretCollect, Extending, Interpreting
      <3> QED
        BY <1>k, <3>1 DEF Quiet, compiledCode, static
    <2> QED
      BY <2>1, <2>2, <2>3
  <1>6. CASE UNCHANGED allVars
    <2>1. UNCHANGED <<plan, code, fev, pc, phase, clean>>
      BY <1>6 DEF allVars, vars, codegenVars
    <2>2. PcInv'
      BY <2>1 DEF PcInv, Here, Op, OpAt
    <2>3. InTraversal' = InTraversal
      BY <2>1 DEF InTraversal, Variable
    <2> QED
      BY <2>1, <2>2, <2>3 DEF LeavesListEmpty, Positions, OpAt
  <1> QED
    BY <1>1, <1>2, <1>3, <1>4, <1>5, <1>6 DEF InterpreterNext, CompileOrCall

\* The three invariants together, of the whole system.
LEMMA ListInvariance == InterpreterSpec => [](IInv /\ PcInv /\ LeavesListEmpty)
  <1>1. InterpreterInit => IInv /\ PcInv /\ LeavesListEmpty
    <2> SUFFICES ASSUME InterpreterInit PROVE IInv /\ PcInv /\ LeavesListEmpty
      OBVIOUS
    <2>1. IInv
      BY InitInv DEF InterpreterInit, Init
    <2>2. phase = "codegen" /\ clean = FALSE /\ fev = [list |-> <<>>, iter |-> 1]
      BY DEF InterpreterInit, Init, CodegenInit
    <2> QED
      BY <2>1, <2>2 DEF PcInv, LeavesListEmpty
  <1>2. IInv /\ PcInv /\ LeavesListEmpty /\ [InterpreterNext]_allVars
          => (IInv /\ PcInv /\ LeavesListEmpty)'
    BY StepKeeps, ListStep
  <1> QED
    BY <1>1, <1>2, PTL DEF InterpreterSpec

\* A call that no limit cuts off fills the list of variable-length relationships only
\* while it is above the traversal that has filled it, and leaves it empty, for plans of
\* any shape and any graph.
THEOREM ListEmpty == InterpreterSpec => []LeavesListEmpty
  BY ListInvariance, PTL

-----------------------------------------------------------------------------
(***************************************************************************)
(* The graph, and what the registers hold: nodes and relationships that    *)
(* there are.                                                              *)
(***************************************************************************)

\* The first identifier of a set is one of the set, or Unknown.
LEMMA FirstIs ==
  ASSUME NEW S, S \subseteq Nat
  PROVE  FirstOf(S) \in S \cup {Unknown}
  <1>1. CASE S = {}
    BY <1>1 DEF FirstOf
  <1>2. CASE S # {}
    <2>1. \E r \in S : \A s \in S : r <= s
      BY <1>2, Least
    <2> QED
      BY <1>2, <2>1 DEF FirstOf
  <1> QED
    BY <1>1, <1>2

\* Relationships by identifier, and the nodes that they connect.
LEMMA GraphFacts ==
  ASSUME IsGraph(graph)
  PROVE  /\ Len(graph.node) \in Nat /\ Len(graph.rship) \in Nat
         /\ DOMAIN graph.node = 1..Len(graph.node) /\ RshipId = 1..Len(graph.rship)
         /\ RshipId \subseteq Nat /\ 0 \notin RshipId
         /\ \A r \in RshipId : graph.rship[r].src \in DOMAIN graph.node
                               /\ graph.rship[r].dst \in DOMAIN graph.node
         /\ \A n, dir : FirstRship(n, dir) \in RshipId \cup {Unknown}
         /\ \A r, dir : NextRship(r, dir) \in RshipId \cup {Unknown}
         /\ \A n \in DOMAIN graph.node : Node(n) \in NodeValues
         /\ \A r \in RshipId : Rship(r) \in RshipValues
         /\ \A v \in NodeValues : v[1] = "node" /\ Id(v) \in DOMAIN graph.node
         /\ \A v \in RshipValues : v[1] = "rship" /\ Id(v) \in RshipId
  <1>1. /\ Len(graph.node) \in Nat /\ Len(graph.rship) \in Nat
        /\ DOMAIN graph.node = 1..Len(graph.node) /\ RshipId = 1..Len(graph.rship)
        /\ \A r \in RshipId : graph.rship[r].src \in DOMAIN graph.node
                              /\ graph.rship[r].dst \in DOMAIN graph.node
    BY DEF IsGraph, IsSequence, RshipId
  <1>2. RshipId \subseteq Nat /\ 0 \notin RshipId
    BY <1>1
  <1>3. \A n, dir : ListOf(n, dir) \subseteq RshipId
    BY DEF ListOf
  <1>4. \A n, dir : FirstRship(n, dir) \in RshipId \cup {Unknown}
    BY <1>2, <1>3, FirstIs DEF FirstRship
  <1>5. ASSUME NEW r, NEW dir PROVE NextRship(r, dir) \in RshipId \cup {Unknown}
    <2> DEFINE n == IF dir = "from" THEN graph.rship[r].src ELSE graph.rship[r].dst
               S == {s \in ListOf(n, dir) : s > r}
    <2>1. NextRship(r, dir) = FirstOf(S)
      BY DEF NextRship
    <2>2. S \subseteq RshipId
      BY <1>3
    <2> HIDE DEF S
    <2> QED
      BY <1>2, <2>1, <2>2, FirstIs
  <1>6. /\ \A n \in DOMAIN graph.node : Node(n) \in NodeValues
        /\ \A r \in RshipId : Rship(r) \in RshipValues
        /\ \A v \in NodeValues : v[1] = "node" /\ Id(v) \in DOMAIN graph.node
        /\ \A v \in RshipValues : v[1] = "rship" /\ Id(v) \in RshipId
    BY DEF NodeValues, RshipValues, Node, Rship, Id
  <1> QED
    BY <1>1, <1>2, <1>4, <1>5, <1>6

\* What the runtime interface collects for a node are relationships there are.
LEMMA RshipsIs ==
  ASSUME IsGraph(graph), NEW n, NEW dir, NEW label
  PROVE  Rships(n, dir, label) \in Seq(RshipId)
  <1> DEFINE L == Len(graph.rship)
             Next_(r, before) == IF r \in ListOf(n, dir) /\ graph.rship[r].label = label
                                 THEN Append(before, r) ELSE before
             Is(f, m) == f = [r \in 0..m |-> IF r = 0 THEN <<>> ELSE Next_(r, f[r - 1])]
             c == CHOOSE f : f = [r \in 0..L |-> IF r = 0 THEN <<>>
                    ELSE IF r \in ListOf(n, dir) /\ graph.rship[r].label = label
                         THEN Append(f[r - 1], r) ELSE f[r - 1]]
             T == {m \in Nat : \E f : Is(f, m)}
  <1>1. L \in Nat /\ RshipId = 1..L
    BY GraphFacts
  <1>2. Rships(n, dir, label) = c[L]
    BY DEF Rships
  <1>3. c = CHOOSE f : Is(f, L)
    OBVIOUS
  <1> HIDE DEF c
  <1>4. 0 \in T
    <2> DEFINE f == [r \in 0..0 |-> <<>>]
    <2>1. Is(f, 0)
      OBVIOUS
    <2> HIDE DEF f, Is
    <2> QED
      BY <2>1
  <1>5. ASSUME NEW m \in Nat, m \in T PROVE m + 1 \in T
    <2> HIDE DEF Next_
    <2>1. PICK f : Is(f, m)
      BY <1>5
    <2> DEFINE g == [r \in 0..(m + 1) |-> IF r = m + 1 THEN Next_(r, f[m]) ELSE f[r]]
    <2>2. ASSUME NEW r \in 0..(m + 1)
          PROVE  g[r] = IF r = 0 THEN <<>> ELSE Next_(r, g[r - 1])
      <3>1. CASE r = m + 1
        <4>1. r - 1 = m /\ m \in 0..(m + 1) /\ m # m + 1 /\ r # 0
          BY <3>1
        <4>2. g[m] = f[m] /\ g[r] = Next_(r, f[m])
          BY <3>1, <4>1
        <4> QED
          BY <4>1, <4>2
      <3>2. CASE r # m + 1
        <4>1. r \in 0..m /\ (r # 0 => r - 1 \in 0..(m + 1) /\ r - 1 # m + 1)
          BY <3>2
        <4>2. f[r] = IF r = 0 THEN <<>> ELSE Next_(r, f[r - 1])
          BY <2>1, <4>1
        <4>3. g[r] = f[r] /\ (r # 0 => g[r - 1] = f[r - 1])
          BY <3>2, <4>1
        <4> QED
          BY <4>2, <4>3
      <3> QED
        BY <3>1, <3>2
    <2>3. Is(g, m + 1)
      <3>1. g = [r \in 0..(m + 1) |-> g[r]]
        OBVIOUS
      <3> HIDE DEF g
      <3> QED
        BY <2>2, <3>1
    <2> HIDE DEF g, Is
    <2> QED
      BY <2>3
  <1>6. L \in T
    <2> HIDE DEF T
    <2> QED
      BY <1>1, <1>4, <1>5, SetInduction
  <1>7. Is(c, L)
    <2> HIDE DEF Is
    <2> QED
      BY <1>3, <1>6
  <1> DEFINE V == {m \in Nat : m <= L => c[m] \in Seq(RshipId)}
  <1>8. 0 \in V
    <2>1. 0 \in 0..L /\ <<>> \in Seq(RshipId)
      BY <1>1
    <2> QED
      BY <1>7, <2>1
  <1>9. ASSUME NEW m \in Nat, m \in V PROVE m + 1 \in V
    <2> SUFFICES ASSUME m + 1 <= L PROVE c[m + 1] \in Seq(RshipId)
      OBVIOUS
    <2>1. PICK r : r = m + 1
      OBVIOUS
    <2>2. r \in 0..L /\ r # 0 /\ r - 1 = m /\ m <= L
      BY <1>1, <2>1
    <2>3. c[r] = Next_(r, c[r - 1])
      BY <1>7, <2>2
    <2>4. c[m] \in Seq(RshipId)
      BY <1>9, <2>2
    <2>5. Next_(r, c[m]) \in Seq(RshipId)
      <3>1. r \in ListOf(n, dir) => r \in RshipId
        BY DEF ListOf
      <3> QED
        BY <2>4, <3>1
    <2> HIDE DEF Next_
    <2> QED
      BY <2>1, <2>2, <2>3, <2>5
  <1> QED
    <2>1. L \in V
      <3> HIDE DEF V
      <3> QED
        BY <1>1, <1>8, <1>9, SetInduction
    <2> QED
      BY <1>1, <1>2, <2>1

\* So are those of the relationships' ends.
LEMMA VarRshipsIs ==
  ASSUME IsGraph(graph), NEW n, NEW dir, NEW label
  PROVE  VarRships(n, dir, label) \in Seq(RshipId)
  <1> DEFINE first == Rships(n, dir, label)
             second == [i \in DOMAIN first |-> Rships(FarEnd(first[i], dir), dir, label)]
  <1>1. first \in Seq(RshipId)
    BY RshipsIs
  <1>2. VarRships(n, dir, label) = first \o FlattenSeq(second)
    BY DEF VarRships
  <1>3. IsSequence(second) /\ \A i \in DOMAIN second : second[i] \in Seq(RshipId)
    <2>1. DOMAIN first = 1..Len(first) /\ Len(first) \in Nat
      BY <1>1
    <2> HIDE DEF first
    <2>2. DOMAIN second = 1..Len(first) /\ Len(second) = Len(first)
      BY <2>1
    <2>3. IsSequence(second)
      BY <2>1, <2>2 DEF IsSequence
    <2> QED
      BY <2>3, RshipsIs
  <1>4. FlattenSeq(second) \in Seq(RshipId)
    <2> HIDE DEF second
    <2> QED
      BY <1>3, FlattenType
  <1> QED
    BY <1>1, <1>2, <1>4

\* What registers of a type hold, and tuples, when there are nodes ns and
\* relationships rs.
Typed(v, type, ns, rs) ==
  CASE type = 0 -> v \in ns [] type = 1 -> v \in rs [] type \in {3, 4} -> v[1] = "prop"
TypedTuple(t, ns, rs) ==
  IsSequence(t) /\ \A i \in DOMAIN t : (t[i][1] = "node" => t[i] \in ns) /\ (t[i][1] = "rship" => t[i] \in rs)

\* They are the types and tuples of the model for the nodes and relationships there are.
LEMMA TypedIs ==
  /\ \A v, type : HasType(v, type) = Typed(v, type, NodeValues, RshipValues)
  /\ \A t : IsTuple(t) = TypedTuple(t, NodeValues, RshipValues)
  BY DEF HasType, Typed, IsTuple, TypedTuple, IsValue

\* The types one by one.
LEMMA TypedKinds ==
  ASSUME NEW v, NEW ns, NEW rs
  PROVE  /\ Typed(v, 0, ns, rs) <=> v \in ns
         /\ Typed(v, 1, ns, rs) <=> v \in rs
         /\ \A type \in {3, 4} : Typed(v, type, ns, rs) <=> v[1] = "prop"
  BY DEF Typed

\* An operator assigns registers of its own, and of its pipeline's.
LEMMA AssignsKinds ==
  ASSUME plan \in Plans, NEW y \in Positions, NEW r \in Assigns(y)
  PROVE  /\ \/ r.type \in {0, 1} /\ \E i \in Nat : i >= 1 /\ r.val = <<y[1], y[2], i>>
            \/ r.type \in {3, 4, 7} /\ \E i : r.val = <<y[1], 0, i>>
         /\ r.type = 3 => OpAt(y).type = "project"
  <1>1. CASE OpAt(y).type \in {"scan", "expand", "foreach_rship", "create"}
    <2>1. \E type \in {0, 1} : r = [val |-> <<y[1], y[2], 1>>, type |-> type]
      BY <1>1 DEF Assigns
    <2> QED
      BY <2>1
  <1>2. CASE IsJoin(OpAt(y))
    <2> DEFINE types == RhsTypes(plan)[OpAt(y).rhs]
    <2>1. types \in Seq({0, 1})
      <3>1. y \in JoinPositions
        BY <1>2 DEF JoinPositions
      <3>2. OpAt(y).rhs \in DOMAIN plan
        BY <3>1, PlanFacts DEF RhsOf
      <3> QED
        BY <3>2, RhsTypesType
    <2>2. \/ \E i \in DOMAIN types : r = [val |-> <<y[1], y[2], i>>, type |-> types[i]]
          \/ r = [val |-> <<y[1], 0, 0>>, type |-> 7]
      BY <1>2 DEF Assigns, IsJoin
    <2> HIDE DEF types
    <2>3. \A i \in DOMAIN types : i \in Nat /\ i >= 1 /\ types[i] \in {0, 1}
      BY <2>1
    <2> QED
      BY <2>2, <2>3
  <1>3. CASE OpAt(y).type = "project"
    <2>1. \E i : \E type \in {3, 4} : r = [val |-> <<y[1], 0, i>>, type |-> type]
      BY <1>3 DEF Assigns, ProjectedType
    <2> QED
      BY <1>3, <2>1
  <1> QED
    BY <1>1, <1>2, <1>3 DEF Assigns, IsJoin

\* A register that an operator finds is assigned by one of the compiled code.
LEMMA AvailableKinds ==
  ASSUME plan \in Plans, DOMAIN code \subseteq Positions, NEW x, NEW r \in Available(x)
  PROVE  /\ \E y \in DOMAIN code : r \in Assigns(y)
         /\ r.type \in {0, 1, 3, 4, 7}
  <1>1. PICK j : <<x[1], j>> \in DOMAIN code /\ r \in Assigns(<<x[1], j>>)
    BY DEF Available
  <1> QED
    BY <1>1, AssignsKinds

\* What an operator reads.
LEMMA ReadsTyped ==
  ASSUME IInv, IsGraph(graph), EnvInv, phase = "run", status = "ok", Here \in DOMAIN code,
         Op.type # "scan"
  PROVE  LET regs == code[Here].regs
         IN /\ DOMAIN Tuple = DOMAIN regs /\ IsTuple(Tuple)
            /\ Usable(Op, TypesOf(regs)) /\ DOMAIN TypesOf(regs) = DOMAIN regs
            /\ Len(regs) \in Nat /\ Len(TypesOf(regs)) = Len(regs)
            /\ \A i \in DOMAIN regs :
                 /\ TypesOf(regs)[i] = regs[i].type
                 /\ regs[i].type = 0 => Tuple[i] \in NodeValues
                 /\ regs[i].type = 1 => Tuple[i] \in RshipValues
            /\ Len(regs) \in DOMAIN regs => LastValue = Id(Tuple[Len(regs)])
  <1> DEFINE regs == code[Here].regs
  <1>1. /\ plan \in Plans /\ DOMAIN code \subseteq Positions
        /\ IsSequence(regs) /\ Range(regs) \subseteq Available(Here) /\ Usable(Op, TypesOf(regs))
    BY DEF IInv, CodegenInv, OrderInv, FlowInv, RegsInv, Op
  <1>2. /\ DOMAIN Tuple = DOMAIN regs /\ \A i \in DOMAIN regs : Tuple[i] = Value(regs[i])
        /\ DOMAIN TypesOf(regs) = DOMAIN regs /\ \A i \in DOMAIN regs : TypesOf(regs)[i] = regs[i].type
        /\ Len(regs) \in DOMAIN regs => LastValue = Id(Value(regs[Len(regs)]))
    BY DEF Tuple, TypesOf, LastValue, Last
  <1> HIDE DEF regs
  <1>3. Len(regs) \in Nat /\ DOMAIN regs = 1..Len(regs)
    BY <1>1 DEF IsSequence
  <1>4. ASSUME NEW i \in DOMAIN regs
        PROVE  /\ IsValue(Tuple[i])
               /\ regs[i].type = 0 => Tuple[i] \in NodeValues
               /\ regs[i].type = 1 => Tuple[i] \in RshipValues
    <2>1. regs[i] \in Available(Here)
      BY <1>1 DEF Range
    <2>2. PICK r : r = regs[i]
      OBVIOUS
    <2>3. /\ r.type \in {0, 1, 3, 4, 7}
          /\ \E y \in DOMAIN code : r \in Assigns(y)
      BY <1>1, <2>1, <2>2, AvailableKinds
    <2>4. Tuple[i] = Value(r)
      BY <1>2, <2>2
    <2>5. CASE r.type = 7
      BY <2>2, <2>4, <2>5 DEF Value, IsValue
    <2>6. CASE r.type # 7
      <3>1. r.val \in DOMAIN env /\ Tuple[i] = env[r.val]
        BY <2>1, <2>2, <2>4, <2>6 DEF EnvInv, Value
      <3>2. HasType(env[r.val], r.type)
        BY <2>3, <2>6, <3>1 DEF EnvInv
      <3>3. /\ r.type = 0 => Tuple[i] \in NodeValues
            /\ r.type = 1 => Tuple[i] \in RshipValues
            /\ r.type \in {3, 4} => Tuple[i][1] = "prop"
        BY <3>1, <3>2, TypedIs, TypedKinds
      <3>4. IsValue(Tuple[i])
        BY <2>3, <2>6, <3>3, GraphFacts DEF IsValue
      <3> QED
        BY <2>2, <3>3, <3>4
    <2> QED
      BY <2>5, <2>6
  <1>5. IsSequence(Tuple) /\ Len(Tuple) = Len(regs)
    <2>1. Tuple = [i \in 1..Len(regs) |-> Tuple[i]]
      BY <1>3 DEF Tuple, regs
    <2>2. Len(Tuple) = Len(regs)
      BY <1>3, <2>1
    <2> QED
      BY <1>3, <2>1, <2>2 DEF IsSequence
  <1>6. IsTuple(Tuple)
    BY <1>2, <1>4, <1>5 DEF IsTuple
  <1>7. Len(TypesOf(regs)) = Len(regs)
    BY <1>3 DEF TypesOf
  <1> QED
    BY <1>1, <1>2, <1>3, <1>4, <1>6, <1>7 DEF regs

\* By the kind of operator.
LEMMA ReadsNodes ==
  ASSUME IInv, IsGraph(graph), EnvInv, phase = "run", status = "ok", Here \in DOMAIN code
  PROVE  /\ Op.type = "expand" => LastValue \in RshipId
         /\ Op.type = "create" /\ Op.dir # "node" =>
              Tuple[Op.pos[1] + 1] \in NodeValues /\ Tuple[Op.pos[2] + 1] \in NodeValues
         /\ Op.type = "project" =>
              \A i \in DOMAIN Op.prexpr : Op.prexpr[i].key # Keep =>
                Tuple[Op.prexpr[i].id + 1] \in NodeValues \cup RshipValues
         /\ Op.type # "scan" => IsTuple(Tuple)
  <1> DEFINE regs == code[Here].regs
             types == TypesOf(regs)
  <1> SUFFICES ASSUME Op.type # "scan"
               PROVE  /\ Op.type = "expand" => LastValue \in RshipId
                      /\ Op.type = "create" /\ Op.dir # "node" =>
                           Tuple[Op.pos[1] + 1] \in NodeValues /\ Tuple[Op.pos[2] + 1] \in NodeValues
                      /\ Op.type = "project" =>
                           \A i \in DOMAIN Op.prexpr : Op.prexpr[i].key # Keep =>
                             Tuple[Op.prexpr[i].id + 1] \in NodeValues \cup RshipValues
                      /\ IsTuple(Tuple)
    OBVIOUS
  <1>1. /\ IsTuple(Tuple) /\ Usable(Op, types) /\ DOMAIN types = DOMAIN regs
        /\ Len(regs) \in Nat /\ Len(types) = Len(regs)
        /\ \A i \in DOMAIN regs :
             /\ types[i] = regs[i].type
             /\ regs[i].type = 0 => Tuple[i] \in NodeValues
             /\ regs[i].type = 1 => Tuple[i] \in RshipValues
        /\ Len(regs) \in DOMAIN regs => LastValue = Id(Tuple[Len(regs)])
    BY ReadsTyped
  <1> HIDE DEF types, regs
  <1>2. ASSUME Op.type = "expand" PROVE LastValue \in RshipId
    <2>1. Len(types) - 1 + 1 \in DOMAIN types /\ types[Len(types) - 1 + 1] = 1
      BY <1>1, <1>2 DEF Usable
    <2>2. Len(types) - 1 + 1 = Len(regs)
      BY <1>1
    <2>3. Tuple[Len(regs)] \in RshipValues /\ Len(regs) \in DOMAIN regs
      BY <1>1, <2>1, <2>2
    <2> QED
      BY <1>1, <2>3, GraphFacts
  <1>3. ASSUME Op.type = "create", Op.dir # "node"
        PROVE  Tuple[Op.pos[1] + 1] \in NodeValues /\ Tuple[Op.pos[2] + 1] \in NodeValues
    <2>1. /\ Op.pos[1] + 1 \in DOMAIN types /\ types[Op.pos[1] + 1] = 0
          /\ Op.pos[2] + 1 \in DOMAIN types /\ types[Op.pos[2] + 1] = 0
      BY <1>1, <1>3 DEF Usable
    <2> QED
      BY <1>1, <2>1
  <1>4. ASSUME Op.type = "project", NEW i \in DOMAIN Op.prexpr, Op.prexpr[i].key # Keep
        PROVE  Tuple[Op.prexpr[i].id + 1] \in NodeValues \cup RshipValues
    <2>1. Op.prexpr[i].id + 1 \in DOMAIN types /\ types[Op.prexpr[i].id + 1] \in {0, 1}
      BY <1>1, <1>4 DEF Usable
    <2> QED
      BY <1>1, <2>1
  <1> QED
    BY <1>1, <1>2, <1>3, <1>4

-----------------------------------------------------------------------------
(***************************************************************************)
(* Where a call goes on, and the registers that the code there needs.      *)
(***************************************************************************)

TypeInv == IInv /\ PcInv /\ TypeOK
InCall == TypeInv /\ phase = "run" /\ status = "ok"

\* The operator that a call is at, in the compiled code and in the plan.
LEMMA HereFacts ==
  ASSUME InCall
  PROVE  /\ plan \in Plans /\ DOMAIN code \subseteq Positions /\ Settled
         /\ pc = <<pc[1], pc[2], pc[3]>> /\ Here = <<pc[1], pc[2]>> /\ Here \in DOMAIN code
         /\ Op = OpAt(Here) /\ pc[1] \in DOMAIN plan /\ pc[2] \in Nat /\ pc[2] >= 1
         /\ Op.type = "scan" => pc[2] = 1
         /\ Op.type \notin {"scan", "create"} => pc[2] > 1
         /\ Op.variable => Op.type = "foreach_rship"
         /\ Op.type = "limit" => code[Here].end = <<pc[1], 1, "end">>
         /\ OpAt(<<pc[1], 1>>).type \in {"scan", "create"}
         /\ IsGraph(graph)
  <1>1. /\ IInv /\ PcInv /\ phase = "run" /\ IsGraph(graph)
    BY DEF InCall, TypeInv, TypeOK
  <1>2. /\ plan \in Plans /\ DOMAIN code \subseteq Positions /\ Settled
    BY <1>1 DEF IInv, CodegenInv, OrderInv, FlowInv, Settled
  <1>3. /\ pc = <<pc[1], pc[2], pc[3]>> /\ Here = <<pc[1], pc[2]>> /\ Here \in DOMAIN code
        /\ Op = OpAt(Here)
    BY <1>1 DEF PcInv, Here, Op
  <1>4. PICK x : x = Here
    OBVIOUS
  <1>5. /\ x[1] \in DOMAIN plan /\ x[2] \in Nat /\ x[2] >= 1
        /\ OpAt(x).type = "scan" => x[2] = 1
        /\ OpAt(x).type \notin {"scan", "create"} => x[2] > 1
        /\ OpAt(x).variable => OpAt(x).type = "foreach_rship"
        /\ OpAt(x).type = "limit" => code[x].end = <<x[1], 1, "end">>
    BY <1>1, <1>2, <1>3, <1>4, Linked
  <1>6. x[1] = pc[1] /\ x[2] = pc[2]
    BY <1>3, <1>4
  <1>7. OpAt(<<pc[1], 1>>).type \in {"scan", "create"}
    <2>1. plan[x[1]][1].type \in {"scan", "create"}
      BY <1>2, <1>5, PlanFacts
    <2> QED
      BY <1>6, <2>1 DEF OpAt
  <1> QED
    BY <1>1, <1>2, <1>3, <1>4, <1>5, <1>6, <1>7

\* The registers that a call has assigned when it is at q.
Vals(regs) == {r.val : r \in {s \in regs : s.type # 7}}
Probing(q, k) == k < q[2] \/ (k = q[2] /\ q[3] \in {"rships", "ret"})
Needs(q) == Vals(Available(<<q[1], q[2]>>)) \cup {<<q[1], k, 0>> : k \in {j \in JoinsOf(q[1]) : Probing(q, j)}}

\* A call has assigned them.
LEMMA NeedsIs ==
  ASSUME InCall
  PROVE  Needs(pc) \subseteq DOMAIN env
  <1>1. Here = <<pc[1], pc[2]>>
    BY DEF Here
  <1> QED
    BY <1>1 DEF InCall, TypeInv, TypeOK, EnvInv, Needs, Vals, Probing

\* On to the next operator.
LEMMA Forward ==
  ASSUME InCall, ~IsLeaf(Op), NEW q, q = Block(code[Here].next, "entry")
  PROVE  /\ q = <<pc[1], q[2], "entry">> /\ q[2] \in Nat /\ q[2] > pc[2]
         /\ <<q[1], q[2]>> \in DOMAIN code
         /\ \A j \in JoinsOf(pc[1]) : j < q[2] => j <= pc[2]
         /\ Needs(q) \subseteq Needs(pc) \cup Vals(Assigns(Here))
                                 \cup {v \in {<<pc[1], pc[2], 0>>} : IsJoin(Op)}
  <1>1. /\ plan \in Plans /\ DOMAIN code \subseteq Positions /\ Settled
        /\ pc = <<pc[1], pc[2], pc[3]>> /\ Here = <<pc[1], pc[2]>> /\ Here \in DOMAIN code
        /\ Op = OpAt(Here) /\ pc[1] \in DOMAIN plan /\ pc[2] \in Nat /\ pc[2] >= 1
    BY HereFacts
  <1>2. PICK x, y : x = Here /\ y = code[Here].next
    OBVIOUS
  <1>3. /\ y \in DOMAIN code /\ Follows(x, y) /\ y[1] = pc[1] /\ y[2] > pc[2]
    <2>1. FlowInv /\ phase = "run"
      BY DEF InCall, TypeInv, IInv, CodegenInv
    <2>2. y \in DOMAIN code /\ Follows(x, y)
      BY <1>1, <1>2, <2>1 DEF FlowInv
    <2> QED
      BY <1>1, <1>2, <2>2 DEF Follows
  <1>4. y = <<y[1], y[2]>> /\ y[2] \in Nat /\ y[1] = pc[1]
    <2>1. IInv
      BY DEF InCall, TypeInv
    <2> QED
      BY <1>1, <1>3, <2>1, Linked
  <1>5. q = <<pc[1], y[2], "entry">>
    BY <1>2, <1>4 DEF Block
  <1>6. ASSUME NEW k \in (pc[2] + 1)..(y[2] - 1)
        PROVE  OpAt(<<pc[1], k>>).type = "sort" /\ <<pc[1], k>> \notin DOMAIN code
    <2>1. OpAt(<<pc[1], k>>).type = "sort"
      BY <1>1, <1>2, <1>3 DEF Follows
    <2>2. FlowInv
      BY DEF InCall, TypeInv, IInv, CodegenInv
    <2> QED
      BY <2>1, <2>2 DEF FlowInv
  <1>j. \A j \in JoinsOf(pc[1]) : j \in Nat
    BY <1>1, PlanFacts DEF JoinsOf
  <1>7. ASSUME NEW j \in JoinsOf(pc[1]), j < y[2] PROVE j <= pc[2]
    <2> SUFFICES ASSUME j > pc[2] PROVE FALSE
      BY <1>1, <1>j
    <2>1. j \in (pc[2] + 1)..(y[2] - 1)
      BY <1>1, <1>4, <1>7, <1>j
    <2> QED
      BY <1>6, <2>1 DEF JoinsOf, IsJoin
  <1>8. Available(<<pc[1], y[2]>>) \subseteq Available(Here) \cup Assigns(Here)
    <2>1. ASSUME NEW k \in 1..(y[2] - 1), <<pc[1], k>> \in DOMAIN code
          PROVE  k = pc[2] \/ k \in 1..(pc[2] - 1)
      <3>1. k \notin (pc[2] + 1)..(y[2] - 1)
        BY <1>6, <2>1
      <3> QED
        BY <1>1, <1>4, <3>1
    <2> QED
      BY <1>1, <2>1 DEF Available
  <1>9. ASSUME NEW j \in JoinsOf(pc[1]), Probing(q, j)
        PROVE  Probing(pc, j) \/ (j = pc[2] /\ IsJoin(Op))
    <2>1. j < y[2]
      BY <1>5, <1>9 DEF Probing
    <2>2. j <= pc[2] /\ j \in Nat
      BY <1>7, <1>j, <2>1
    <2>3. j = pc[2] => IsJoin(Op)
      BY <1>1 DEF JoinsOf
    <2> QED
      BY <1>1, <2>2, <2>3 DEF Probing
  <1>10. Needs(q) \subseteq Needs(pc) \cup Vals(Assigns(Here))
                                 \cup {v \in {<<pc[1], pc[2], 0>>} : IsJoin(Op)}
    <2>1. ASSUME NEW v \in Needs(q)
          PROVE  v \in Needs(pc) \/ v \in Vals(Assigns(Here)) \/ (v = <<pc[1], pc[2], 0>> /\ IsJoin(Op))
      <3>1. \/ v \in Vals(Available(<<pc[1], y[2]>>))
            \/ \E j \in JoinsOf(pc[1]) : Probing(q, j) /\ v = <<pc[1], j, 0>>
        BY <1>5, <2>1 DEF Needs
      <3>2. CASE v \in Vals(Available(<<pc[1], y[2]>>))
        BY <1>1, <1>8, <3>2 DEF Vals, Needs
      <3>3. CASE \E j \in JoinsOf(pc[1]) : Probing(q, j) /\ v = <<pc[1], j, 0>>
        BY <1>9, <3>3 DEF Needs
      <3> QED
        BY <3>1, <3>2, <3>3
    <2> QED
      BY <2>1
  <1> QED
    BY <1>1, <1>3, <1>4, <1>5, <1>7, <1>10

\* Back to the innermost loop around it.
LEMMA Back ==
  ASSUME InCall, pc[2] > 1, NEW q, q = code[Here].ret
  PROVE  /\ q = <<pc[1], q[2], q[3]>> /\ q[2] \in Nat /\ q[2] >= 1 /\ q[2] < pc[2]
         /\ <<q[1], q[2]>> \in DOMAIN code
         /\ q[3] = LoopBlock(OpAt(<<q[1], q[2]>>))
         /\ \A j \in JoinsOf(pc[1]) : j < pc[2] => j <= q[2]
         /\ Needs(q) \subseteq Needs(pc)
  <1>1. /\ plan \in Plans /\ DOMAIN code \subseteq Positions /\ Settled
        /\ pc = <<pc[1], pc[2], pc[3]>> /\ Here = <<pc[1], pc[2]>> /\ Here \in DOMAIN code
        /\ Op = OpAt(Here) /\ pc[1] \in DOMAIN plan /\ pc[2] \in Nat /\ pc[2] >= 1
    BY HereFacts
  <1>2. PICK x : x = Here
    OBVIOUS
  <1>3. Innermost(q, x)
    <2>1. IInv
      BY DEF InCall, TypeInv
    <2> QED
      BY <1>1, <1>2, <2>1, Linked
  <1>4. PICK j \in 1..(pc[2] - 1) :
          /\ <<pc[1], j>> \in DOMAIN code
          /\ IsLoop(<<pc[1], j>>) /\ \A k \in (j + 1)..(pc[2] - 1) : ~IsLoop(<<pc[1], k>>)
          /\ q = Block(<<pc[1], j>>, LoopBlock(OpAt(<<pc[1], j>>)))
    BY <1>1, <1>2, <1>3 DEF Innermost
  <1>5. q = <<pc[1], j, LoopBlock(OpAt(<<pc[1], j>>))>> /\ j \in Nat /\ j < pc[2] /\ j >= 1
    BY <1>1, <1>4 DEF Block
  <1>j. \A k \in JoinsOf(pc[1]) : k \in Nat
    BY <1>1, PlanFacts DEF JoinsOf
  <1>6. ASSUME NEW k \in JoinsOf(pc[1]), k < pc[2] PROVE k <= j
    <2> SUFFICES ASSUME k > j PROVE FALSE
      BY <1>5, <1>j
    <2>1. k \in (j + 1)..(pc[2] - 1)
      BY <1>1, <1>5, <1>6, <1>j
    <2> QED
      BY <1>4, <2>1 DEF JoinsOf, IsLoop
  <1>7. Available(<<pc[1], j>>) \subseteq Available(<<pc[1], pc[2]>>)
    <2>1. \A k \in 1..(j - 1) : k \in 1..(pc[2] - 1)
      BY <1>1, <1>5
    <2> QED
      BY <2>1 DEF Available
  <1>8. ASSUME NEW k \in JoinsOf(pc[1]), Probing(q, k) PROVE Probing(pc, k)
    BY <1>1, <1>5, <1>8, <1>j DEF Probing
  <1>9. Needs(q) \subseteq Needs(pc)
    BY <1>5, <1>7, <1>8 DEF Needs, Vals
  <1> QED
    BY <1>4, <1>5, <1>6, <1>9

\* At the beginning of a pipeline.
LEMMA AtBeginning ==
  ASSUME InCall, NEW p \in DOMAIN plan, NEW m
  PROVE  Needs(<<p, 1, m>>) = {} /\ \A j \in JoinsOf(p) : j > 1 /\ j \in Nat
  <1>1. plan \in Plans
    BY HereFacts
  <1>2. \A j \in JoinsOf(p) : j > 1 /\ j \in Nat
    BY <1>1, PlanFacts DEF JoinsOf, IsJoin, OpAt
  <1>3. Available(<<p, 1>>) = {}
    BY DEF Available
  <1>4. PICK q : q = <<p, 1, m>>
    OBVIOUS
  <1>5. \A j \in JoinsOf(p) : ~Probing(q, j)
    BY <1>2, <1>4 DEF Probing
  <1> QED
    BY <1>2, <1>3, <1>4, <1>5 DEF Needs, Vals

\* Values of the types of the registers that they are assigned to.
Writes(values, ns, rs) ==
  \A v \in DOMAIN values :
    \/ \E i : /\ v = RegOf(i)
              /\ \A r \in Assigns(Here) : r.val = v /\ r.type # 7 => Typed(values[v], r.type, ns, rs)
              /\ IsJoin(Op) /\ i = 0 => TypedTuple(values[v], ns, rs)
    \/ \E i : v = <<pc[1], 0, i>> /\ values[v][1] = "prop"
EnvStep(ns, rs) == env' = env \/ \E values : Assign(values) /\ Writes(values, ns, rs)

\* Where a step leads when the registers in set are assigned.
BlockNames == {"entry", "cond", "next", "head", "end", "rships", "ret"}
Leads(q, set) ==
  \/ \E name \in BlockNames \ {"entry", "ret"} :
       q = Block(Here, name) /\ (IsJoin(Op) /\ name = "rships" => RegOf(0) \in set)
  \/ /\ ~IsLeaf(Op) /\ q = Block(code[Here].next, "entry")
     /\ Vals(Assigns(Here)) \subseteq set /\ (IsJoin(Op) => RegOf(0) \in set)
  \/ pc[2] > 1 /\ q = code[Here].ret
  \/ \E p \in DOMAIN plan : \E m \in {"entry", "end"} : <<p, 1>> \in DOMAIN code /\ q = <<p, 1, m>>

\* There is code at such a place, and what it needs is assigned.
LEMMA Arrives ==
  ASSUME InCall, NEW set, DOMAIN env \subseteq set, NEW q, Leads(q, set)
  PROVE  <<q[1], q[2]>> \in DOMAIN code /\ q[3] \in BlockNames /\ Needs(q) \subseteq set
  <1>1. /\ pc = <<pc[1], pc[2], pc[3]>> /\ Here = <<pc[1], pc[2]>> /\ Here \in DOMAIN code
        /\ Op = OpAt(Here) /\ pc[1] \in DOMAIN plan /\ pc[2] \in Nat /\ pc[2] >= 1
        /\ Needs(pc) \subseteq set
    BY HereFacts, NeedsIs
  <1>2. ASSUME NEW name \in BlockNames \ {"entry", "ret"}, q = Block(Here, name),
               IsJoin(Op) /\ name = "rships" => RegOf(0) \in set
        PROVE  <<q[1], q[2]>> \in DOMAIN code /\ q[3] \in BlockNames /\ Needs(q) \subseteq set
    <2>1. q = <<pc[1], pc[2], name>>
      BY <1>1, <1>2 DEF Block
    <2>2. ASSUME NEW j \in JoinsOf(pc[1]), Probing(q, j)
          PROVE  Probing(pc, j) \/ (j = pc[2] /\ IsJoin(Op) /\ name = "rships")
      BY <1>1, <2>1, <2>2 DEF Probing, JoinsOf
    <2>3. RegOf(0) = <<pc[1], pc[2], 0>>
      BY DEF RegOf
    <2>4. Needs(q) \subseteq set
      BY <1>1, <1>2, <2>1, <2>2, <2>3 DEF Needs
    <2> QED
      BY <1>1, <1>2, <2>1, <2>4
  <1>3. ASSUME ~IsLeaf(Op), q = Block(code[Here].next, "entry"),
               Vals(Assigns(Here)) \subseteq set, IsJoin(Op) => RegOf(0) \in set
        PROVE  <<q[1], q[2]>> \in DOMAIN code /\ q[3] \in BlockNames /\ Needs(q) \subseteq set
    <2>1. /\ q = <<pc[1], q[2], "entry">> /\ <<q[1], q[2]>> \in DOMAIN code
          /\ Needs(q) \subseteq Needs(pc) \cup Vals(Assigns(Here))
                                  \cup {v \in {<<pc[1], pc[2], 0>>} : IsJoin(Op)}
      BY <1>3, Forward
    <2>2. q[3] \in BlockNames
      BY <2>1 DEF BlockNames
    <2> QED
      BY <1>1, <1>3, <2>1, <2>2 DEF RegOf
  <1>4. ASSUME pc[2] > 1, q = code[Here].ret
        PROVE  <<q[1], q[2]>> \in DOMAIN code /\ q[3] \in BlockNames /\ Needs(q) \subseteq set
    <2>1. /\ <<q[1], q[2]>> \in DOMAIN code /\ q[3] = LoopBlock(OpAt(<<q[1], q[2]>>))
          /\ Needs(q) \subseteq Needs(pc)
      BY <1>4, Back
    <2>2. q[3] \in BlockNames
      BY <2>1 DEF LoopBlock, BlockNames
    <2> QED
      BY <1>1, <2>1, <2>2
  <1>5. ASSUME NEW p \in DOMAIN plan, NEW m \in {"entry", "end"}, <<p, 1>> \in DOMAIN code,
               q = <<p, 1, m>>
        PROVE  <<q[1], q[2]>> \in DOMAIN code /\ q[3] \in BlockNames /\ Needs(q) \subseteq set
    <2>1. Needs(<<p, 1, m>>) = {}
      BY AtBeginning
    <2> QED
      BY <1>5, <2>1 DEF BlockNames
  <1> QED
    BY <1>2, <1>3, <1>4, <1>5 DEF Leads

\* The registers keep to their types.
LEMMA EnvKept ==
  ASSUME InCall, UNCHANGED static, phase' \in {"run", "idle"},
         NEW ns, NEW rs, ns = NodeValues', rs = RshipValues',
         NodeValues \subseteq ns, RshipValues \subseteq rs, EnvStep(ns, rs),
         NEW q, q = pc', phase' = "run" /\ status' = "ok" => Needs(q) \subseteq DOMAIN env'
  PROVE  EnvInv'
  <1>1. /\ plan \in Plans /\ DOMAIN code \subseteq Positions
        /\ pc = <<pc[1], pc[2], pc[3]>> /\ Here = <<pc[1], pc[2]>> /\ Here \in DOMAIN code
        /\ Op = OpAt(Here) /\ pc[2] \in Nat /\ pc[2] >= 1
        /\ EnvInv
    BY HereFacts DEF InCall, TypeInv, TypeOK
  <1>2. plan' = plan /\ code' = code
    BY DEF static
  <1>3. /\ \A y : OpAt(y)' = OpAt(y) /\ Assigns(y)' = Assigns(y) /\ Available(y)' = Available(y)
        /\ \A p : JoinsOf(p)' = JoinsOf(p)
    BY <1>2 DEF OpAt, Assigns, Available, JoinsOf
  <1>4. \A y \in DOMAIN code : y = <<y[1], y[2]>> /\ y[2] \in Nat /\ y[2] >= 1
    BY <1>1, PositionFacts, PlanFacts
  <1>5. ASSUME NEW y \in DOMAIN code, NEW r \in Assigns(y), r.type # 7, r.val \in DOMAIN env',
               NEW v, v = env'[r.val]
        PROVE  Typed(v, r.type, ns, rs)
    <2>1. /\ r.type \in {0, 1, 3, 4}
          /\ \/ r.type \in {0, 1} /\ \E i \in Nat : i >= 1 /\ r.val = <<y[1], y[2], i>>
             \/ r.type \in {3, 4, 7} /\ \E i : r.val = <<y[1], 0, i>>
      BY <1>1, <1>5, AssignsKinds
    <2>2. ASSUME r.val \in DOMAIN env, v = env[r.val] PROVE Typed(v, r.type, ns, rs)
      <3>1. Typed(v, r.type, NodeValues, RshipValues)
        BY <1>1, <1>5, <2>2, TypedIs DEF EnvInv
      <3> QED
        BY <2>1, <3>1, TypedKinds
    <2>3. ASSUME NEW values, Assign(values), Writes(values, ns, rs) PROVE Typed(v, r.type, ns, rs)
      <3>1. CASE r.val \notin DOMAIN values
        BY <1>5, <2>2, <2>3, <3>1 DEF Assign
      <3>2. CASE r.val \in DOMAIN values
        <4>1. v = values[r.val]
          BY <1>5, <2>3, <3>2 DEF Assign
        <4>2. CASE \E i : r.val = <<pc[1], 0, i>> /\ values[r.val][1] = "prop"
          <5>1. r.type \in {3, 4}
            BY <1>4, <2>1, <4>2
          <5> QED
            BY <4>1, <4>2, <5>1, TypedKinds
        <4>3. CASE \E i : /\ r.val = RegOf(i)
                          /\ \A s \in Assigns(Here) : s.val = r.val /\ s.type # 7
                               => Typed(values[r.val], s.type, ns, rs)
          <5>1. y = Here
            BY <1>1, <1>4, <2>1, <4>3 DEF RegOf
          <5> QED
            BY <1>5, <4>1, <4>3, <5>1
        <4> QED
          BY <2>3, <3>2, <4>2, <4>3 DEF Writes
      <3> QED
        BY <3>1, <3>2
    <2> QED
      BY <1>5, <2>2, <2>3 DEF EnvStep
  <1>6. ASSUME NEW y \in DOMAIN code, IsJoin(OpAt(y)), <<y[1], y[2], 0>> \in DOMAIN env',
               NEW t, t = env'[<<y[1], y[2], 0>>]
        PROVE  TypedTuple(t, ns, rs)
    <2> DEFINE v == <<y[1], y[2], 0>>
    <2>2. ASSUME v \in DOMAIN env, t = env[v] PROVE TypedTuple(t, ns, rs)
      <3>1. TypedTuple(t, NodeValues, RshipValues)
        BY <1>1, <1>6, <2>2, TypedIs DEF EnvInv
      <3> QED
        BY <3>1 DEF TypedTuple
    <2>3. ASSUME NEW values, Assign(values), Writes(values, ns, rs) PROVE TypedTuple(t, ns, rs)
      <3>1. CASE v \notin DOMAIN values
        BY <1>6, <2>2, <2>3, <3>1 DEF Assign
      <3>2. CASE v \in DOMAIN values
        <4>1. t = values[v]
          BY <1>6, <2>3, <3>2 DEF Assign
        <4>2. \E i : v = RegOf(i) /\ (IsJoin(Op) /\ i = 0 => TypedTuple(values[v], ns, rs))
          <5>1. ~\E i : v = <<pc[1], 0, i>>
            BY <1>4
          <5> HIDE DEF v
          <5> QED
            BY <2>3, <3>2, <5>1 DEF Writes
        <4>3. y = Here
          BY <1>1, <1>4, <4>2 DEF RegOf
        <4> QED
          BY <1>1, <1>6, <4>1, <4>2, <4>3 DEF RegOf
      <3> QED
        BY <3>1, <3>2
    <2> QED
      BY <1>6, <2>2, <2>3 DEF EnvStep
  <1>7. ASSUME NEW y \in DOMAIN code, NEW r \in Assigns(y), r.type # 7, r.val \in DOMAIN env'
        PROVE  HasType(env[r.val], r.type)'
    <2>1. PICK v : v = env'[r.val]
      OBVIOUS
    <2>2. PICK w, type : w = r.val /\ type = r.type
      OBVIOUS
    <2>3. Typed(v, type, ns, rs)
      BY <1>5, <1>7, <2>1, <2>2
    <2>4. HasType(v, type)'
      BY <2>3 DEF HasType, Typed
    <2> QED
      BY <2>1, <2>2, <2>4 DEF HasType
  <1>8. ASSUME NEW y \in DOMAIN code, IsJoin(OpAt(y)), <<y[1], y[2], 0>> \in DOMAIN env'
        PROVE  IsTuple(env[<<y[1], y[2], 0>>])'
    <2>1. PICK t : t = env'[<<y[1], y[2], 0>>]
      OBVIOUS
    <2>2. TypedTuple(t, ns, rs)
      BY <1>6, <1>8, <2>1
    <2>3. IsTuple(t)'
      BY <2>2 DEF IsTuple, TypedTuple, IsValue
    <2> QED
      BY <2>1, <2>3 DEF IsTuple
  <1>9. ASSUME phase' = "run", status' = "ok"
        PROVE  /\ \A r \in Available(<<q[1], q[2]>>) : r.type # 7 => r.val \in DOMAIN env'
               /\ \A k \in JoinsOf(q[1]) :
                    k < q[2] \/ (k = q[2] /\ q[3] \in {"rships", "ret"}) => <<q[1], k, 0>> \in DOMAIN env'
    BY <1>9 DEF Needs, Vals, Probing
  <1>10. Here' = <<q[1], q[2]>> /\ pc' = q
    BY DEF Here
  <1> QED
    BY <1>2, <1>3, <1>7, <1>8, <1>9, <1>10 DEF EnvInv

\* The shared allocas f when the call has led to q.
FrameLeads(q, f) ==
  /\ \/ pc[2] > 1 /\ f.it = fr.it
     \/ OpAt(<<q[1], 1>>).type # "scan"
     \/ q[2] = 1 /\ q[3] # "next"
     \/ f.it <= Len(graph.node)
  /\ q = Block(Here, "cond") /\ Op.type = "foreach_rship" => f.lhs # 0
  /\ f.cur_idx < f.max_idx =>
       \/ q = Block(Here, "cond") /\ IsJoin(Op) /\ f.max_idx = Len(RhsInput(code[Here].jid))
       \/ /\ f.max_idx = fr.max_idx /\ fr.cur_idx < fr.max_idx
          /\ IsJoin(Op) => pc[3] # "entry" /\ ~(q[2] < pc[2])

\* The allocas then stay within their bounds.
LEMMA FrameKept ==
  ASSUME InCall, UNCHANGED static, Len(graph.node) <= Len(graph.node)', Len(graph.node)' \in Nat,
         \A jid : Len(RhsInput(jid)) <= Len(RhsInput(jid))' /\ Len(RhsInput(jid))' \in Nat
                  /\ Len(RhsInput(jid)) \in Nat,
         NEW q, q = pc', NEW f, f = fr', f.it \in Nat, f.max_idx \in Nat,
         NEW set, phase' = "run" /\ status' = "ok" => Leads(q, set) /\ FrameLeads(q, f)
  PROVE  FrameInv'
  <1> SUFFICES ASSUME phase' = "run", status' = "ok" PROVE FrameInv'
    BY DEF FrameInv
  <1>1. /\ plan \in Plans /\ DOMAIN code \subseteq Positions
        /\ pc = <<pc[1], pc[2], pc[3]>> /\ Here = <<pc[1], pc[2]>> /\ Here \in DOMAIN code
        /\ Op = OpAt(Here) /\ pc[1] \in DOMAIN plan /\ pc[2] \in Nat /\ pc[2] >= 1
        /\ Op.type = "scan" => pc[2] = 1
        /\ Len(graph.node) \in Nat
    BY HereFacts, GraphFacts
  <1>2. /\ OpAt(<<pc[1], 1>>).type = "scan" /\ (pc[2] > 1 \/ pc[3] = "next") => fr.it <= Len(graph.node)
        /\ fr.cur_idx < fr.max_idx =>
             \A j \in JoinsOf(pc[1]) :
               Inside(j) /\ (\A k \in JoinsOf(pc[1]) : Inside(k) => k <= j)
               => fr.max_idx <= Len(RhsInput(code[<<pc[1], j>>].jid))
    BY DEF InCall, TypeInv, TypeOK, FrameInv
  <1>3. plan' = plan /\ code' = code
    BY DEF static
  <1>4. /\ \A y : OpAt(y)' = OpAt(y) /\ Assigns(y)' = Assigns(y)
        /\ \A p : JoinsOf(p)' = JoinsOf(p)
    BY <1>3 DEF OpAt, Assigns, JoinsOf
  <1>5. Leads(q, set) /\ FrameLeads(q, f)
    OBVIOUS
  \* Where the step leads, in other words.
  <1> DEFINE Jump == \E name \in BlockNames \ {"entry", "ret"} : q = <<pc[1], pc[2], name>>
             On == q = <<pc[1], q[2], "entry">> /\ q[2] \in Nat /\ q[2] > pc[2]
                   /\ \A j \in JoinsOf(pc[1]) : j < q[2] => j <= pc[2]
             Up == /\ q = <<pc[1], q[2], q[3]>> /\ q[2] \in Nat /\ q[2] >= 1 /\ q[2] < pc[2] /\ pc[2] > 1
                   /\ \A j \in JoinsOf(pc[1]) : j < pc[2] => j <= q[2]
                   /\ q[3] = LoopBlock(OpAt(<<q[1], q[2]>>))
             First == \E p \in DOMAIN plan : \E m \in {"entry", "end"} : q = <<p, 1, m>>
  <1>6. Jump \/ On \/ Up \/ First
    <2>1. CASE \E name \in BlockNames \ {"entry", "ret"} : q = Block(Here, name)
      BY <1>1, <2>1 DEF Block
    <2>2. CASE ~IsLeaf(Op) /\ q = Block(code[Here].next, "entry")
      BY <2>2, Forward
    <2>3. CASE pc[2] > 1 /\ q = code[Here].ret
      <3>1. Up
        BY <2>3, Back
      <3> QED
        BY <3>1
    <2>4. CASE \E p \in DOMAIN plan : \E m \in {"entry", "end"} : <<p, 1>> \in DOMAIN code /\ q = <<p, 1, m>>
      BY <2>4
    <2> QED
      BY <1>5, <2>1, <2>2, <2>3, <2>4 DEF Leads
  <1>l. \A op : LoopBlock(op) # "entry" /\ (LoopBlock(op) = "cond" => op.type = "cross_join")
    BY DEF LoopBlock
  <1>7. OpAt(<<q[1], 1>>).type = "scan" /\ (q[2] > 1 \/ q[3] = "next") => f.it <= Len(graph.node)'
    <2> SUFFICES ASSUME OpAt(<<q[1], 1>>).type = "scan", q[2] > 1 \/ q[3] = "next"
                 PROVE  f.it <= Len(graph.node)'
      OBVIOUS
    <2>1. q[1] = pc[1] /\ q[2] \in Nat /\ q[2] >= 1
      BY <1>1, <1>6
    <2>2. CASE pc[2] > 1 /\ f.it = fr.it
      BY <1>1, <1>2, <2>1, <2>2
    <2>3. CASE f.it <= Len(graph.node)
      BY <1>1, <2>3
    <2> QED
      BY <1>5, <2>1, <2>2, <2>3 DEF FrameLeads
  <1>8. OpAt(<<q[1], q[2]>>).type = "foreach_rship" /\ q[3] = "cond" => f.lhs # 0
    <2> SUFFICES ASSUME OpAt(<<q[1], q[2]>>).type = "foreach_rship", q[3] = "cond"
                 PROVE  f.lhs # 0
      OBVIOUS
    <2>1. q = <<pc[1], pc[2], "cond">>
      BY <1>6, <1>l
    <2> QED
      BY <1>1, <1>5, <2>1 DEF FrameLeads, Block
  <1> DEFINE In_(j) == j < q[2] \/ (j = q[2] /\ q[3] # "entry")
  <1>9. ASSUME f.cur_idx < f.max_idx, NEW j \in JoinsOf(q[1]), In_(j),
               \A k \in JoinsOf(q[1]) : In_(k) => k <= j
        PROVE  f.max_idx <= Len(RhsInput(code[<<q[1], j>>].jid))'
    <2>1. /\ \A k \in JoinsOf(pc[1]) : k \in Nat /\ k > 1
          /\ \A p \in DOMAIN plan : \A k \in JoinsOf(p) : k \in Nat /\ k > 1
      BY <1>1, AtBeginning
    <2>2. ASSUME q = Block(Here, "cond"), IsJoin(Op), f.max_idx = Len(RhsInput(code[Here].jid))
          PROVE  f.max_idx <= Len(RhsInput(code[<<q[1], j>>].jid))'
      <3>1. q = <<pc[1], pc[2], "cond">>
        BY <1>1, <2>2 DEF Block
      <3>2. pc[2] \in JoinsOf(pc[1])
        <4>1. pc[2] \in DOMAIN plan[pc[1]]
          BY <1>1, PositionFacts
        <4> QED
          BY <1>1, <2>2, <4>1 DEF JoinsOf
      <3>3. pc[2] <= j /\ j <= pc[2] /\ j \in Nat
        BY <1>1, <1>9, <2>1, <3>1, <3>2
      <3>4. <<q[1], j>> = Here
        BY <1>1, <3>1, <3>3
      <3>5. PICK jid : jid = code[Here].jid
        OBVIOUS
      <3>6. code'[<<q[1], j>>].jid = jid
        BY <1>3, <3>4, <3>5
      <3>7. Len(RhsInput(jid)) <= Len(RhsInput(jid))'
        OBVIOUS
      <3> QED
        BY <2>2, <3>5, <3>6, <3>7 DEF RhsInput
    <2>3. ASSUME f.max_idx = fr.max_idx, fr.cur_idx < fr.max_idx,
                 IsJoin(Op) => pc[3] # "entry" /\ ~(q[2] < pc[2])
          PROVE  f.max_idx <= Len(RhsInput(code[<<q[1], j>>].jid))'
      <3>1. ~First
        BY <1>9, <2>1
      <3>2. q[1] = pc[1]
        BY <1>6, <3>1
      <3>3. \A k \in JoinsOf(pc[1]) : In_(k) <=> Inside(k)
        <4>1. pc[2] \in JoinsOf(pc[1]) => IsJoin(Op)
          BY <1>1 DEF JoinsOf
        <4>2. CASE Jump
          BY <1>1, <2>3, <4>1, <4>2 DEF Inside
        <4>3. CASE On
          BY <1>1, <2>1, <2>3, <4>1, <4>3 DEF Inside
        <4>4. CASE Up
          BY <1>1, <1>l, <2>1, <2>3, <4>1, <4>4 DEF Inside
        <4> QED
          BY <1>6, <3>1, <4>2, <4>3, <4>4
      <3>4. fr.max_idx <= Len(RhsInput(code[<<pc[1], j>>].jid))
        BY <1>2, <1>9, <2>3, <3>2, <3>3
      <3>5. PICK jid : jid = code[<<pc[1], j>>].jid
        OBVIOUS
      <3>6. code'[<<q[1], j>>].jid = jid
        BY <1>3, <3>2, <3>5
      <3>7. Len(RhsInput(jid)) <= Len(RhsInput(jid))' /\ Len(RhsInput(jid)) \in Nat /\ Len(RhsInput(jid))' \in Nat
        OBVIOUS
      <3>8. f.max_idx <= Len(RhsInput(jid))'
        BY <2>3, <3>4, <3>5, <3>7
      <3> QED
        BY <3>6, <3>8 DEF RhsInput
    <2> QED
      BY <1>5, <1>9, <2>2, <2>3 DEF FrameLeads
  <1>10. /\ pc' = q /\ fr' = f /\ Here' = <<q[1], q[2]>> /\ Op' = OpAt(<<q[1], q[2]>>)
         /\ \A j : Inside(j)' = In_(j)
    BY <1>4 DEF Here, Op, Inside, OpAt
  <1> HIDE DEF In_
  <1> QED
    BY <1>3, <1>4, <1>7, <1>8, <1>9, <1>10 DEF FrameInv

-----------------------------------------------------------------------------
(***************************************************************************)
(* A step of a call keeps the types of what it touches; one lemma for each of*)
(* its actions.                                                            *)
(***************************************************************************)

FrameType(nodes, ids) ==
  [it : 1..(nodes + 1), lhs : ids \cup {0, Unknown}, cur_idx : Nat, max_idx : Nat,
   dangling : {0, 1}, res_counter : Nat]
MemoryType(rhs, fev_, descs_, ns, rs, ids) ==
  /\ \A j \in DOMAIN rhs : IsSequence(rhs[j]) /\ \A i \in DOMAIN rhs[j] : TypedTuple(rhs[j][i], ns, rs)
  /\ IsSequence(fev_.list) /\ Range(fev_.list) \subseteq ids
  /\ fev_.iter \in 1..(Len(fev_.list) + 1) \/ fev_.list = <<>>
  /\ DOMAIN descs_ \subseteq ns \cup rs

\* What TypeOK says of the memory, the allocas and the lists of the joins.
LEMMA MemoryIs ==
  ASSUME TypeOK
  PROVE  /\ MemoryType(rhs_input_, fev, descs, NodeValues, RshipValues, RshipId)
         /\ fr \in FrameType(Len(graph.node), RshipId)
         /\ \A jid : IsSequence(RhsInput(jid)) /\ Len(RhsInput(jid)) \in Nat
                     /\ \A i \in 1..Len(RhsInput(jid)) : IsTuple(RhsInput(jid)[i])
  <1>1. MemoryType(rhs_input_, fev, descs, NodeValues, RshipValues, RshipId)
    BY TypedIs DEF TypeOK, MemoryType
  <1>2. fr \in FrameType(Len(graph.node), RshipId)
    BY DEF TypeOK, FrameType
  <1>3. ASSUME NEW jid
        PROVE  /\ IsSequence(RhsInput(jid)) /\ Len(RhsInput(jid)) \in Nat
               /\ \A i \in 1..Len(RhsInput(jid)) : IsTuple(RhsInput(jid)[i])
    <2>1. CASE jid \in DOMAIN rhs_input_
      <3>1. RhsInput(jid) = rhs_input_[jid]
        BY <2>1 DEF RhsInput
      <3>2. IsSequence(RhsInput(jid)) /\ \A i \in DOMAIN RhsInput(jid) : IsTuple(RhsInput(jid)[i])
        BY <2>1, <3>1 DEF TypeOK
      <3>3. Len(RhsInput(jid)) \in Nat /\ DOMAIN RhsInput(jid) = 1..Len(RhsInput(jid))
        BY <3>2 DEF IsSequence
      <3> QED
        BY <3>2, <3>3
    <2>2. CASE jid \notin DOMAIN rhs_input_
      <3>1. RhsInput(jid) = <<>>
        BY <2>2 DEF RhsInput
      <3>2. Len(RhsInput(jid)) = 0 /\ RhsInput(jid) = [i \in 1..Len(RhsInput(jid)) |-> RhsInput(jid)[i]]
        BY <3>1
      <3> QED
        BY <3>2 DEF IsSequence
    <2> QED
      BY <2>1, <2>2
  <1> QED
    BY <1>1, <1>2, <1>3

\* A step of a call that keeps what it touches to its type, and leads somewhere.
LEMMA TypeNextStep ==
  ASSUME InCall, UNCHANGED <<static, base, calls>>,
         phase' \in {"run", "idle"}, status' \in {"ok", "crashed"}, IsGraph(graph)',
         Len(graph.node) <= Len(graph.node)', Len(graph.rship) <= Len(graph.rship)',
         NEW ns, NEW rs, NEW ids, ns = NodeValues', rs = RshipValues', ids = RshipId',
         EnvStep(ns, rs),
         NEW q, q = pc', NEW f, f = fr', NEW set, set = DOMAIN env',
         phase' = "run" => Leads(q, set) \/ (status' = "crashed" /\ q = pc),
         phase' = "idle" => q = Null,
         phase' = "run" /\ status' = "ok" => FrameLeads(q, f),
         f \in FrameType(Len(graph.node)', ids),
         MemoryType(rhs_input_', fev', descs', ns, rs, ids),
         \A jid : Len(RhsInput(jid)) <= Len(RhsInput(jid))' /\ Len(RhsInput(jid))' \in Nat
  PROVE  TypeOK' /\ NodeValues \subseteq ns /\ RshipValues \subseteq rs
  <1>1. /\ plan \in Plans /\ DOMAIN code \subseteq Positions /\ Here = <<pc[1], pc[2]>>
        /\ Here \in DOMAIN code /\ IsGraph(graph) /\ TypeOK /\ phase = "run"
    BY HereFacts DEF InCall, TypeInv
  <1>2. /\ Len(graph.node) \in Nat /\ Len(graph.rship) \in Nat
        /\ DOMAIN graph.node = 1..Len(graph.node) /\ RshipId = 1..Len(graph.rship)
    BY <1>1, GraphFacts
  <1>3. /\ Len(graph.node)' \in Nat /\ Len(graph.rship)' \in Nat
        /\ DOMAIN graph'.node = 1..Len(graph'.node) /\ RshipId' = 1..Len(graph'.rship)
    BY DEF IsGraph, IsSequence, RshipId
  <1>4. NodeValues \subseteq ns /\ RshipValues \subseteq rs
    BY <1>2, <1>3 DEF NodeValues, RshipValues, Node, Rship
  <1>5. DOMAIN env \subseteq set
    BY DEF EnvStep, Assign
  <1>6. phase' = "run" => /\ <<q[1], q[2]>> \in DOMAIN code /\ q[3] \in BlockNames
                          /\ status' = "ok" => Needs(q) \subseteq set
    <2>1. Leads(q, set) => /\ <<q[1], q[2]>> \in DOMAIN code /\ q[3] \in BlockNames
                           /\ Needs(q) \subseteq set
      BY <1>5, Arrives
    <2>2. <<pc[1], pc[2]>> \in DOMAIN code /\ pc[3] \in BlockNames
      BY <1>1 DEF TypeOK, BlockNames
    <2> QED
      BY <2>1, <2>2
  <1>7. EnvInv'
    BY <1>4, <1>6, EnvKept
  <1>8. FrameInv'
    <2>1. f.it \in Nat /\ f.max_idx \in Nat
      BY <1>3 DEF FrameType
    <2>2. \A jid : Len(RhsInput(jid)) \in Nat
      BY <1>1, MemoryIs
    <2>3. phase' = "run" /\ status' = "ok" => Leads(q, set) /\ FrameLeads(q, f)
      OBVIOUS
    <2> QED
      BY <1>3, <2>1, <2>2, <2>3, FrameKept
  <1>9. plan' = plan /\ at' = at /\ op_id' = op_id /\ code' = code /\ Positions' = Positions
    BY DEF static, Positions
  <1>10. /\ base'[1] \in 0..Len(graph'.node) /\ base'[2] \in 0..Len(graph'.rship)
    <2>1. base[1] \in 0..Len(graph.node) /\ base[2] \in 0..Len(graph.rship)
      BY <1>1 DEF TypeOK
    <2>2. \A b \in 0..Len(graph.node) : b \in 0..Len(graph.node)'
      BY <1>2, <1>3
    <2>3. \A b \in 0..Len(graph.rship) : b \in 0..Len(graph.rship)'
      BY <1>2, <1>3
    <2> QED
      BY <2>1, <2>2, <2>3
  <1>11. fr' \in [it : 1..(Len(graph'.node) + 1), lhs : RshipId' \cup {0, Unknown}, cur_idx : Nat,
                  max_idx : Nat, dangling : {0, 1}, res_counter : Nat]
    BY DEF FrameType
  <1>12. /\ \A j \in DOMAIN rhs_input_' :
              IsSequence(rhs_input_'[j]) /\ \A i \in DOMAIN rhs_input_'[j] : IsTuple(rhs_input_[j][i])'
         /\ IsSequence(fev'.list) /\ Range(fev'.list) \subseteq RshipId'
         /\ fev'.iter \in 1..(Len(fev'.list) + 1) \/ fev'.list = <<>>
         /\ DOMAIN descs' \subseteq NodeValues' \cup RshipValues'
    <2>1. ASSUME NEW j \in DOMAIN rhs_input_', NEW i \in DOMAIN rhs_input_'[j]
          PROVE  IsTuple(rhs_input_[j][i])'
      <3>1. PICK t : t = rhs_input_'[j][i]
        OBVIOUS
      <3>2. TypedTuple(t, ns, rs)
        BY <3>1 DEF MemoryType
      <3>3. IsTuple(t)'
        BY <3>2 DEF IsTuple, TypedTuple, IsValue
      <3> QED
        BY <3>1, <3>3 DEF IsTuple
    <2> QED
      BY <2>1 DEF MemoryType
  <1>13. IF phase' = "run"
         THEN <<pc'[1], pc'[2]>> \in DOMAIN code'
                /\ pc'[3] \in {"entry", "cond", "next", "head", "end", "rships", "ret"}
         ELSE pc' = Null
    BY <1>6, <1>9 DEF BlockNames
  <1>14. at \in Positions /\ op_id \in Nat /\ calls \in Nat
    BY <1>1 DEF TypeOK
  <1>15. TypeOK'
    BY <1>1, <1>7, <1>8, <1>9, <1>10, <1>11, <1>12, <1>13, <1>14 DEF TypeOK
  <1> QED
    BY <1>4, <1>15

\* One that leaves the graph alone.
LEMMA SameGraph ==
  ASSUME InCall, UNCHANGED <<static, base, calls, graph>>,
         phase' \in {"run", "idle"}, status' \in {"ok", "crashed"},
         EnvStep(NodeValues, RshipValues),
         NEW q, q = pc', NEW f, f = fr', NEW set, set = DOMAIN env',
         phase' = "run" => Leads(q, set) \/ (status' = "crashed" /\ q = pc),
         phase' = "idle" => q = Null,
         phase' = "run" /\ status' = "ok" => FrameLeads(q, f),
         f \in FrameType(Len(graph.node), RshipId),
         MemoryType(rhs_input_', fev', descs', NodeValues, RshipValues, RshipId),
         \A jid : Len(RhsInput(jid)) <= Len(RhsInput(jid))' /\ Len(RhsInput(jid))' \in Nat
  PROVE  TypeOK'
  <1>1. IsGraph(graph) /\ Len(graph.node) \in Nat /\ Len(graph.rship) \in Nat
    BY HereFacts, GraphFacts
  <1>2. /\ IsGraph(graph)' /\ NodeValues' = NodeValues /\ RshipValues' = RshipValues
        /\ RshipId' = RshipId /\ Len(graph.node)' = Len(graph.node)
        /\ Len(graph.rship)' = Len(graph.rship)
    BY <1>1 DEF IsGraph, NodeValues, RshipValues, RshipId
  <1>3. PICK ns, rs, ids : ns = NodeValues /\ rs = RshipValues /\ ids = RshipId
    OBVIOUS
  <1>4. EnvStep(ns, rs) /\ f \in FrameType(Len(graph.node)', ids)
        /\ MemoryType(rhs_input_', fev', descs', ns, rs, ids)
    BY <1>2, <1>3
  <1>5. /\ Len(graph.node) <= Len(graph.node)' /\ Len(graph.rship) <= Len(graph.rship)'
        /\ ns = NodeValues' /\ rs = RshipValues' /\ ids = RshipId'
        /\ UNCHANGED <<static, base, calls>>
    BY <1>1, <1>2, <1>3
  <1> QED
    BY <1>2, <1>4, <1>5, TypeNextStep

\* One that leaves the memory alone, too.
LEMMA SameMemory ==
  ASSUME InCall, UNCHANGED <<call, rhs_input_, fev, descs>>,
         status' \in {"ok", "crashed"},
         EnvStep(NodeValues, RshipValues),
         NEW q, q = pc', NEW f, f = fr', NEW set, set = DOMAIN env',
         Leads(q, set) \/ (status' = "crashed" /\ q = pc),
         status' = "ok" => FrameLeads(q, f),
         f \in FrameType(Len(graph.node), RshipId)
  PROVE  TypeOK'
  <1>1. phase' = "run" /\ UNCHANGED <<static, base, calls, graph>>
    BY DEF InCall, call
  <1>2. TypeOK
    BY DEF InCall, TypeInv
  <1>3. MemoryType(rhs_input_', fev', descs', NodeValues, RshipValues, RshipId)
    BY <1>2, MemoryIs
  <1>4. \A jid : Len(RhsInput(jid)) <= Len(RhsInput(jid))' /\ Len(RhsInput(jid))' \in Nat
    <2>1. \A jid : RhsInput(jid)' = RhsInput(jid) /\ Len(RhsInput(jid)) \in Nat
      BY <1>2, MemoryIs DEF RhsInput
    <2> QED
      BY <2>1
  <1> QED
    BY <1>1, <1>3, <1>4, SameGraph

\* What the operators with a single register assign.
LEMMA SetTyped ==
  ASSUME InCall, NEW v, NEW ns, NEW rs, NEW type \in {0, 1}, Typed(v, type, ns, rs),
         Assigns(Here) = {[val |-> RegOf(1), type |-> type]}, ~IsJoin(Op), Set(RegOf(1), v)
  PROVE  EnvStep(ns, rs) /\ Vals(Assigns(Here)) \subseteq DOMAIN env'
  <1>1. PICK values : values = [x \in {RegOf(1)} |-> v]
    OBVIOUS
  <1>2. Assign(values)
    BY <1>1 DEF Set
  <1>3. RegOf(1) \in DOMAIN env'
    BY <1>1, <1>2 DEF Assign
  <1>4. Writes(values, ns, rs)
    BY <1>1 DEF Writes
  <1> QED
    BY <1>2, <1>3, <1>4 DEF EnvStep, Vals

\* A register that is not one of an operator's results.
LEMMA SetOther ==
  ASSUME InCall, NEW v, NEW ns, NEW rs, NEW i \in {0, -1}, IsJoin(Op) => i = -1, Set(RegOf(i), v)
  PROVE  EnvStep(ns, rs)
  <1>1. PICK values : values = [x \in {RegOf(i)} |-> v]
    OBVIOUS
  <1>2. Assign(values)
    BY <1>1 DEF Set
  <1>3. ASSUME NEW r \in Assigns(Here), r.val = RegOf(i) PROVE FALSE
    <2>1. /\ plan \in Plans /\ Here \in Positions /\ Here = <<pc[1], pc[2]>> /\ pc[2] \in Nat
          /\ pc[2] >= 1
      BY HereFacts
    <2>2. \/ \E j \in Nat : j >= 1 /\ r.val = <<Here[1], Here[2], j>>
          \/ \E j : r.val = <<Here[1], 0, j>>
      BY <2>1, AssignsKinds
    <2> QED
      BY <1>3, <2>1, <2>2 DEF RegOf
  <1>4. Writes(values, ns, rs)
    BY <1>1, <1>3 DEF Writes
  <1> QED
    BY <1>2, <1>4 DEF EnvStep

\* On to the next operator, once the registers of this one are assigned.
LEMMA ConsumeLeads ==
  ASSUME InCall, Consume, ~IsLeaf(Op), NEW set, Vals(Assigns(Here)) \subseteq set,
         IsJoin(Op) => RegOf(0) \in set, NEW q, q = pc'
  PROVE  Leads(q, set) /\ q[2] \in Nat /\ q[2] > pc[2] /\ q[3] = "entry"
         /\ \A name : q # Block(Here, name)
  <1>1. q = Block(code[Here].next, "entry")
    BY DEF Consume
  <1>2. q = <<pc[1], q[2], "entry">> /\ q[2] \in Nat /\ q[2] > pc[2]
    BY <1>1, Forward
  <1>3. pc[2] \in Nat /\ Here = <<pc[1], pc[2]>>
    BY HereFacts
  <1>4. \A name : q # Block(Here, name)
    BY <1>2, <1>3 DEF Block
  <1> QED
    BY <1>1, <1>2, <1>4 DEF Leads

\* Back to the innermost loop.
LEMMA ReturnLeads ==
  ASSUME InCall, Return, pc[2] > 1, NEW set, NEW q, q = pc'
  PROVE  Leads(q, set) /\ q[2] \in Nat /\ q[2] < pc[2] /\ \A name : q # Block(Here, name)
  <1>1. q = code[Here].ret
    BY DEF Return
  <1>2. q = <<pc[1], q[2], q[3]>> /\ q[2] \in Nat /\ q[2] < pc[2]
    BY <1>1, Back
  <1>3. pc[2] \in Nat /\ Here = <<pc[1], pc[2]>>
    BY HereFacts
  <1>4. \A name : q # Block(Here, name)
    BY <1>2, <1>3 DEF Block
  <1> QED
    BY <1>1, <1>2, <1>4 DEF Leads

\* On to another block of the operator.
LEMMA GotoLeads ==
  ASSUME InCall, NEW name \in BlockNames \ {"entry", "ret"}, Goto(name), NEW set,
         IsJoin(Op) /\ name = "rships" => RegOf(0) \in set, NEW q, q = pc'
  PROVE  Leads(q, set) /\ q = <<pc[1], pc[2], name>>
  <1>1. q = Block(Here, name)
    BY DEF Goto
  <1>2. Here = <<pc[1], pc[2]>>
    BY HereFacts
  <1> QED
    BY <1>1, <1>2 DEF Leads, Block

\* Operators that leave the allocas alone.
LEMMA FrameSame ==
  ASSUME InCall, pc[2] > 1, NEW f, f.it = fr.it, f.max_idx = fr.max_idx,
         f.cur_idx < f.max_idx => fr.cur_idx < fr.max_idx,
         NEW q, q = Block(Here, "cond") /\ Op.type = "foreach_rship" => f.lhs # 0,
         IsJoin(Op) => pc[3] # "entry" /\ ~(q[2] < pc[2])
  PROVE  FrameLeads(q, f)
  BY DEF FrameLeads

\* The allocas at the beginning and so far.
LEMMA FrameFacts ==
  ASSUME InCall
  PROVE  /\ fr \in FrameType(Len(graph.node), RshipId)
         /\ NoFrame \in FrameType(Len(graph.node), RshipId)
         /\ TypeOK
  <1>1. TypeOK
    BY DEF InCall, TypeInv
  <1>2. IsGraph(graph) /\ Len(graph.node) \in Nat
    BY HereFacts, GraphFacts
  <1>3. NoFrame \in FrameType(Len(graph.node), RshipId)
    BY <1>2 DEF NoFrame, FrameType
  <1> QED
    BY <1>1, <1>3, MemoryIs

\* An argument that is missing ends the call.
LEMMA MissingArgTyped ==
  ASSUME InCall, ReadMissingArg
  PROVE  TypeOK'
  <1>1. UNCHANGED <<call, rhs_input_, fev, descs>> /\ status' = "crashed" /\ UNCHANGED <<pc, fr, env>>
    BY DEF ReadMissingArg, Crash, memory
  <1>2. EnvStep(NodeValues, RshipValues)
    BY <1>1 DEF EnvStep
  <1>3. PICK q, f, set : q = pc' /\ f = fr' /\ set = DOMAIN env'
    OBVIOUS
  <1>4. f \in FrameType(Len(graph.node), RshipId)
    BY <1>1, <1>3, FrameFacts
  <1> QED
    BY <1>1, <1>2, <1>3, <1>4, SameMemory

\* The entry block of a scan resets the allocas.
LEMMA EnterScanTyped ==
  ASSUME InCall, EnterScan
  PROVE  TypeOK'
  <1>1. /\ UNCHANGED <<call, rhs_input_, fev, descs>> /\ UNCHANGED <<status, env>>
        /\ fr' = NoFrame /\ Goto("cond") /\ Op.type = "scan"
    BY DEF EnterScan, Entering, In, memory
  <1>2. EnvStep(NodeValues, RshipValues)
    BY <1>1 DEF EnvStep
  <1>3. PICK q, f, set : q = pc' /\ f = fr' /\ set = DOMAIN env'
    OBVIOUS
  <1>4. f \in FrameType(Len(graph.node), RshipId)
    BY <1>1, <1>3, FrameFacts
  <1>5. Leads(q, set) /\ q = <<pc[1], pc[2], "cond">>
    BY <1>1, <1>3, GotoLeads DEF BlockNames
  <1>6. pc[2] = 1
    BY <1>1, HereFacts
  <1>7. FrameLeads(q, f)
    BY <1>1, <1>3, <1>5, <1>6 DEF FrameLeads, NoFrame
  <1>8. status' \in {"ok", "crashed"}
    BY <1>1 DEF InCall
  <1> QED
    BY <1>1, <1>2, <1>3, <1>4, <1>5, <1>7, <1>8, SameMemory

\* An index scan assigns the node that it finds.
LEMMA EnterIndexScanTyped ==
  ASSUME InCall, EnterIndexScan
  PROVE  TypeOK'
  <1> DEFINE index == <<args[Slot(Here) - 2], args[Slot(Here) - 1]>>
             found == Indexed(index, Arg)
             c == CHOOSE n \in found : TRUE
  <1>1. /\ UNCHANGED <<call, rhs_input_, fev, descs>> /\ fr' = NoFrame /\ Op.type = "scan"
        /\ \/ status' = "crashed" /\ UNCHANGED <<env, pc>>
           \/ found # {} /\ Set(RegOf(1), Node(c)) /\ Consume /\ UNCHANGED status
           \/ found = {} /\ Goto("end") /\ status' \in {"ok", "crashed"} /\ UNCHANGED env
    BY DEF EnterIndexScan, Entering, In, memory
  <1>2. found # {} => c \in DOMAIN graph.node
    BY DEF Indexed
  <1> HIDE DEF found, c
  <1>3. PICK q, f, set : q = pc' /\ f = fr' /\ set = DOMAIN env'
    OBVIOUS
  <1>4. f \in FrameType(Len(graph.node), RshipId)
    BY <1>1, <1>3, FrameFacts
  <1>5. pc[2] = 1 /\ IsGraph(graph) /\ OpAt(Here) = Op
    BY <1>1, HereFacts
  <1>6. status' \in {"ok", "crashed"}
    BY <1>1 DEF InCall
  <1>9. CASE status' = "crashed" /\ UNCHANGED <<env, pc>>
    <2>1. EnvStep(NodeValues, RshipValues)
      BY <1>9 DEF EnvStep
    <2> QED
      BY <1>1, <1>3, <1>4, <1>6, <1>9, <2>1, SameMemory
  <1>7. CASE found # {} /\ Set(RegOf(1), Node(c)) /\ Consume /\ UNCHANGED status
    <2>1. Set(RegOf(1), Node(c)) /\ Consume
      BY <1>7
    <2>2. Node(c) \in NodeValues /\ Len(graph.node) >= 1
      BY <1>2, <1>5, <1>7, GraphFacts
    <2>3. Assigns(Here) = {[val |-> RegOf(1), type |-> 0]} /\ ~IsJoin(Op) /\ ~IsLeaf(Op)
      BY <1>1, <1>5 DEF Assigns, RegOf, Here, IsJoin, IsLeaf
    <2>4. EnvStep(NodeValues, RshipValues) /\ Vals(Assigns(Here)) \subseteq set
      BY <1>3, <2>1, <2>2, <2>3, SetTyped, TypedKinds
    <2>5. Leads(q, set) /\ \A name : q # Block(Here, name)
      BY <1>3, <2>1, <2>3, <2>4, ConsumeLeads
    <2>6. FrameLeads(q, f)
      BY <1>1, <1>3, <2>2, <2>5 DEF FrameLeads, NoFrame
    <2> QED
      BY <1>1, <1>3, <1>4, <1>6, <2>4, <2>5, <2>6, SameMemory
  <1>8. CASE found = {} /\ Goto("end") /\ UNCHANGED env
    <2>1. Goto("end") /\ UNCHANGED env
      BY <1>8
    <2>2. EnvStep(NodeValues, RshipValues)
      BY <2>1 DEF EnvStep
    <2>3. Leads(q, set) /\ q = <<pc[1], pc[2], "end">>
      BY <1>3, <2>1, GotoLeads DEF BlockNames
    <2>4. FrameLeads(q, f)
      BY <1>1, <1>3, <1>5, <2>3 DEF FrameLeads, NoFrame
    <2> QED
      BY <1>1, <1>3, <1>4, <1>6, <2>2, <2>3, <2>4, SameMemory
  <1> QED
    BY <1>1, <1>7, <1>8, <1>9

\* A scan assigns the node that the iterator is at.
LEMMA ScanCondTyped ==
  ASSUME InCall, ScanCond
  PROVE  TypeOK'
  <1>1. /\ UNCHANGED <<call, rhs_input_, fev, descs>> /\ UNCHANGED <<status, fr>> /\ Op.type = "scan"
        /\ \/ Goto("end") /\ UNCHANGED env
           \/ /\ ~(fr.it > Len(graph.node)) /\ Set(RegOf(1), Node(fr.it))
              /\ Consume \/ Goto("next")
    BY DEF ScanCond, In, memory
  <1>2. PICK q, f, set : q = pc' /\ f = fr' /\ set = DOMAIN env'
    OBVIOUS
  <1>3. f \in FrameType(Len(graph.node), RshipId) /\ f = fr
    BY <1>1, <1>2, FrameFacts
  <1>4. pc[2] = 1 /\ IsGraph(graph) /\ OpAt(Here) = Op /\ Len(graph.node) \in Nat
    BY <1>1, HereFacts, GraphFacts
  <1>5. status' \in {"ok", "crashed"}
    BY <1>1 DEF InCall
  <1>6. CASE Goto("end") /\ UNCHANGED env
    <2>1. EnvStep(NodeValues, RshipValues)
      BY <1>6 DEF EnvStep
    <2>2. Leads(q, set) /\ q = <<pc[1], pc[2], "end">>
      BY <1>2, <1>6, GotoLeads DEF BlockNames
    <2>3. FrameLeads(q, f)
      <3>1. ~(f.cur_idx < f.max_idx) \/ (f.max_idx = fr.max_idx /\ fr.cur_idx < fr.max_idx)
        BY <1>3
      <3> QED
        BY <1>1, <1>4, <2>2, <3>1 DEF FrameLeads, IsJoin
    <2> QED
      BY <1>1, <1>2, <1>3, <1>5, <2>1, <2>2, <2>3, SameMemory
  <1>7. CASE /\ ~(fr.it > Len(graph.node)) /\ Set(RegOf(1), Node(fr.it))
             /\ Consume \/ Goto("next")
    <2>1. fr.it \in DOMAIN graph.node /\ fr.it <= Len(graph.node)
      <3>1. fr.it \in Nat /\ fr.it >= 1
        BY <1>3, <1>4 DEF FrameType
      <3> QED
        BY <1>4, <1>7, <3>1, GraphFacts
    <2>2. Node(fr.it) \in NodeValues
      BY <1>4, <2>1, GraphFacts
    <2>3. Assigns(Here) = {[val |-> RegOf(1), type |-> 0]} /\ ~IsJoin(Op) /\ ~IsLeaf(Op)
      BY <1>1, <1>4 DEF Assigns, RegOf, Here, IsJoin, IsLeaf
    <2>4. EnvStep(NodeValues, RshipValues) /\ Vals(Assigns(Here)) \subseteq set
      BY <1>2, <1>7, <2>2, <2>3, SetTyped, TypedKinds
    <2>5. Leads(q, set)
      <3>1. CASE Consume
        BY <1>2, <2>3, <2>4, <3>1, ConsumeLeads
      <3>2. CASE Goto("next")
        BY <1>2, <2>3, <3>2, GotoLeads DEF BlockNames
      <3> QED
        BY <1>7, <3>1, <3>2
    <2>6. FrameLeads(q, f)
      BY <1>1, <1>3, <2>1, <2>3 DEF FrameLeads
    <2> QED
      BY <1>1, <1>2, <1>3, <1>5, <2>4, <2>5, <2>6, SameMemory
  <1> QED
    BY <1>1, <1>6, <1>7

\* The iterator passes a node that there is.
LEMMA ScanNextTyped ==
  ASSUME InCall, ScanNext
  PROVE  TypeOK'
  <1>1. /\ UNCHANGED <<call, rhs_input_, fev, descs>> /\ UNCHANGED <<status, env>> /\ Op.type = "scan"
        /\ pc[3] = "next" /\ Goto("cond") /\ fr' = [fr EXCEPT !.it = @ + 1]
    BY DEF ScanNext, In, memory
  <1>2. PICK q, f, set : q = pc' /\ f = fr' /\ set = DOMAIN env'
    OBVIOUS
  <1>3. fr \in FrameType(Len(graph.node), RshipId) /\ FrameInv
    BY FrameFacts DEF TypeOK
  <1>4. /\ pc[2] = 1 /\ OpAt(<<pc[1], 1>>).type = "scan" /\ Len(graph.node) \in Nat
    BY <1>1, HereFacts, GraphFacts
  <1>5. fr.it <= Len(graph.node)
    BY <1>1, <1>3, <1>4 DEF FrameInv, InCall
  <1>6. f \in FrameType(Len(graph.node), RshipId)
    BY <1>1, <1>2, <1>3, <1>4, <1>5 DEF FrameType
  <1>7. EnvStep(NodeValues, RshipValues)
    BY <1>1 DEF EnvStep
  <1>8. Leads(q, set) /\ q = <<pc[1], pc[2], "cond">>
    BY <1>1, <1>2, GotoLeads DEF BlockNames
  <1>9. FrameLeads(q, f)
    <2>1. f.cur_idx = fr.cur_idx /\ f.max_idx = fr.max_idx
      BY <1>1, <1>2, <1>3 DEF FrameType
    <2> QED
      BY <1>1, <1>4, <1>8, <2>1 DEF FrameLeads, IsJoin
  <1> QED
    BY <1>1, <1>2, <1>6, <1>7, <1>8, <1>9, SameMemory DEF InCall

\* A traversal assigns the relationship that is in lhs_alloca, which is one when its
\* condition is tested.
LEMMA ForeachTyped ==
  ASSUME InCall, EnterForeach \/ ForeachCond \/ ForeachNext
  PROVE  TypeOK'
  <1>1. /\ UNCHANGED <<call, rhs_input_, fev, descs>> /\ UNCHANGED status
        /\ Op.type = "foreach_rship"
        /\ \/ /\ \E lhs : /\ fr' = [fr EXCEPT !.lhs = lhs]
                          /\ (\E n, dir : lhs = FirstRship(n, dir)) \/ \E r, dir : lhs = NextRship(r, dir)
              /\ Goto("cond") /\ UNCHANGED env
           \/ /\ pc[3] = "cond" /\ fr.lhs < Unknown /\ Set(RegOf(1), Rship(fr.lhs))
              /\ Consume \/ Goto("next")
              /\ fr' = fr
           \/ Return /\ UNCHANGED <<env, fr>>
    BY DEF EnterForeach, ForeachCond, ForeachCondElse, ForeachNext, Entering, In, memory
  <1>2. PICK q, f, set : q = pc' /\ f = fr' /\ set = DOMAIN env'
    OBVIOUS
  <1>3. fr \in FrameType(Len(graph.node), RshipId) /\ FrameInv
    BY FrameFacts DEF TypeOK
  <1>4. /\ pc[2] > 1 /\ OpAt(Here) = Op /\ IsGraph(graph) /\ ~IsJoin(Op) /\ ~IsLeaf(Op)
    BY <1>1, HereFacts DEF IsJoin, IsLeaf
  <1>5. status' \in {"ok", "crashed"}
    BY <1>1 DEF InCall
  <1>6. ASSUME NEW lhs \in RshipId \cup {Unknown}, fr' = [fr EXCEPT !.lhs = lhs], Goto("cond"),
               UNCHANGED env
        PROVE  TypeOK'
    <2>1. f \in FrameType(Len(graph.node), RshipId) /\ f.lhs # 0
      <3>1. lhs # 0
        BY <1>4, <1>6, GraphFacts DEF Unknown
      <3> QED
        BY <1>2, <1>3, <1>6, <3>1 DEF FrameType
    <2>2. f.it = fr.it /\ f.cur_idx = fr.cur_idx /\ f.max_idx = fr.max_idx
      BY <1>2, <1>3, <1>6 DEF FrameType
    <2>3. EnvStep(NodeValues, RshipValues)
      BY <1>6 DEF EnvStep
    <2>4. Leads(q, set)
      BY <1>2, <1>4, <1>6, GotoLeads DEF BlockNames
    <2>5. FrameLeads(q, f)
      BY <1>4, <2>1, <2>2, FrameSame
    <2> QED
      BY <1>1, <1>2, <1>5, <2>1, <2>3, <2>4, <2>5, SameMemory
  <1>7. CASE /\ \E lhs : /\ fr' = [fr EXCEPT !.lhs = lhs]
                         /\ (\E n, dir : lhs = FirstRship(n, dir)) \/ \E r, dir : lhs = NextRship(r, dir)
             /\ Goto("cond") /\ UNCHANGED env
    <2>1. PICK lhs : /\ fr' = [fr EXCEPT !.lhs = lhs]
                     /\ (\E n, dir : lhs = FirstRship(n, dir)) \/ \E r, dir : lhs = NextRship(r, dir)
      BY <1>7
    <2>2. lhs \in RshipId \cup {Unknown}
      BY <1>4, <2>1, GraphFacts
    <2> QED
      BY <1>6, <1>7, <2>1, <2>2
  <1>8. CASE /\ pc[3] = "cond" /\ fr.lhs < Unknown /\ Set(RegOf(1), Rship(fr.lhs))
             /\ Consume \/ Goto("next")
             /\ fr' = fr
    <2>1. fr.lhs \in RshipId
      <3>1. fr.lhs # 0
        BY <1>1, <1>3, <1>8 DEF FrameInv, InCall
      <3> QED
        BY <1>3, <1>8, <3>1 DEF FrameType, Unknown
    <2>2. Rship(fr.lhs) \in RshipValues
      BY <1>4, <2>1, GraphFacts
    <2>3. Assigns(Here) = {[val |-> RegOf(1), type |-> 1]}
      BY <1>1, <1>4 DEF Assigns, RegOf, Here
    <2>4. EnvStep(NodeValues, RshipValues) /\ Vals(Assigns(Here)) \subseteq set
      BY <1>2, <1>4, <1>8, <2>2, <2>3, SetTyped, TypedKinds
    <2>5. Leads(q, set) /\ q # Block(Here, "cond")
      <3>1. CASE Consume
        BY <1>2, <1>4, <2>4, <3>1, ConsumeLeads
      <3>2. CASE Goto("next")
        <4>1. Leads(q, set) /\ q = <<pc[1], pc[2], "next">>
          BY <1>2, <1>4, <3>2, GotoLeads DEF BlockNames
        <4> QED
          BY <4>1 DEF Block
      <3> QED
        BY <1>8, <3>1, <3>2
    <2>6. FrameLeads(q, f)
      BY <1>2, <1>4, <1>8, <2>5, FrameSame
    <2> QED
      BY <1>1, <1>2, <1>3, <1>5, <1>8, <2>4, <2>5, <2>6, SameMemory
  <1>9. CASE Return /\ UNCHANGED <<env, fr>>
    <2>1. EnvStep(NodeValues, RshipValues)
      BY <1>9 DEF EnvStep
    <2>2. Leads(q, set) /\ q # Block(Here, "cond")
      BY <1>2, <1>4, <1>9, ReturnLeads
    <2>3. FrameLeads(q, f)
      BY <1>2, <1>4, <1>9, <2>2, FrameSame
    <2> QED
      BY <1>1, <1>2, <1>3, <1>5, <1>9, <2>1, <2>2, <2>3, SameMemory
  <1> QED
    BY <1>1, <1>7, <1>8, <1>9

\* A step to the next operator or back that changes no alloca but those of the
\* registers.
LEMMA PassesTyped ==
  ASSUME InCall, UNCHANGED <<call, rhs_input_, fev, descs, fr>>, status' \in {"ok", "crashed"},
         ~IsJoin(Op), pc[2] > 1, EnvStep(NodeValues, RshipValues),
         \/ Consume /\ ~IsLeaf(Op) /\ Vals(Assigns(Here)) \subseteq DOMAIN env'
         \/ Return
         \/ pc' = pc /\ status' = "crashed"
  PROVE  TypeOK'
  <1>1. PICK q, f, set : q = pc' /\ f = fr' /\ set = DOMAIN env'
    OBVIOUS
  <1>2. f \in FrameType(Len(graph.node), RshipId) /\ f = fr
    BY <1>1, FrameFacts
  <1>3. (Leads(q, set) /\ q # Block(Here, "cond")) \/ (q = pc /\ status' = "crashed")
    <2>1. CASE Consume /\ ~IsLeaf(Op) /\ Vals(Assigns(Here)) \subseteq DOMAIN env'
      BY <1>1, <2>1, ConsumeLeads
    <2>2. CASE Return
      BY <1>1, <2>2, ReturnLeads
    <2> QED
      BY <1>1, <2>1, <2>2
  <1>4. status' = "ok" => FrameLeads(q, f)
    BY <1>2, <1>3, FrameSame
  <1> QED
    BY <1>1, <1>2, <1>3, <1>4, SameMemory

\* The end of a relationship is a node.
LEMMA ExpandTyped ==
  ASSUME InCall, ExpandNode
  PROVE  TypeOK'
  <1> DEFINE v == Node(EndOf(LastValue, Op.dir))
  <1>1. /\ UNCHANGED <<call, rhs_input_, fev, descs, fr>> /\ UNCHANGED status
        /\ Op.type = "expand" /\ Set(RegOf(1), v) /\ (Consume \/ Return)
    BY DEF ExpandNode, Entering, In, memory, ConsumeIf
  <1>2. /\ pc[2] > 1 /\ OpAt(Here) = Op /\ IsGraph(graph) /\ ~IsJoin(Op) /\ ~IsLeaf(Op)
        /\ Here \in DOMAIN code
    BY <1>1, HereFacts DEF IsJoin, IsLeaf
  <1>3. LastValue \in RshipId
    BY <1>1, <1>2, ReadsNodes DEF InCall, TypeInv, TypeOK
  <1>4. v \in NodeValues
    BY <1>2, <1>3, GraphFacts DEF EndOf
  <1>5. Assigns(Here) = {[val |-> RegOf(1), type |-> 0]}
    BY <1>1, <1>2 DEF Assigns, RegOf, Here
  <1> HIDE DEF v
  <1>6. EnvStep(NodeValues, RshipValues) /\ Vals(Assigns(Here)) \subseteq DOMAIN env'
    BY <1>1, <1>2, <1>4, <1>5, SetTyped, TypedKinds
  <1> QED
    BY <1>1, <1>2, <1>6, PassesTyped DEF InCall

\* A filter assigns a register of its own that no other operator reads as a value.
LEMMA FilterTyped ==
  ASSUME InCall, FilterTuple
  PROVE  TypeOK'
  <1>1. /\ UNCHANGED <<call, memory, status, fr>> /\ Op.type = "filter"
        /\ (\E v : Set(RegOf(0), v)) \/ UNCHANGED env
        /\ \E c : ConsumeIf(c)
    BY Zenon DEF FilterTuple, Entering, In
  <1>2. /\ pc[2] > 1 /\ OpAt(Here) = Op /\ ~IsJoin(Op) /\ ~IsLeaf(Op)
    BY <1>1, HereFacts DEF IsJoin, IsLeaf
  <1>3. Consume \/ Return
    BY <1>1 DEF ConsumeIf
  <1>4. EnvStep(NodeValues, RshipValues)
    <2>1. CASE UNCHANGED env
      BY <2>1 DEF EnvStep
    <2>2. CASE \E v : Set(RegOf(0), v)
      BY <1>2, <2>2, SetOther
    <2> QED
      BY <1>1, <2>1, <2>2
  <1>5. Vals(Assigns(Here)) = {}
    BY <1>1, <1>2 DEF Assigns, Vals
  <1>6. UNCHANGED <<call, rhs_input_, fev, descs, fr>> /\ status' \in {"ok", "crashed"}
    BY <1>1 DEF memory, InCall
  <1> QED
    BY <1>2, <1>3, <1>4, <1>5, <1>6, PassesTyped

\* A limit counts, and leads to the end of the scan.
LEMMA LimitTyped ==
  ASSUME InCall, LimitTuples
  PROVE  TypeOK'
  <1>1. /\ UNCHANGED <<call, rhs_input_, fev, descs, status, env>> /\ Op.type = "limit"
        /\ \/ pc' = code[Here].end /\ UNCHANGED fr
           \/ fr' = [fr EXCEPT !.res_counter = @ + 1] /\ Consume
    BY DEF LimitTuples, Entering, In, memory
  <1>2. PICK q, f, set : q = pc' /\ f = fr' /\ set = DOMAIN env'
    OBVIOUS
  <1>3. fr \in FrameType(Len(graph.node), RshipId)
    BY FrameFacts
  <1>4. f \in FrameType(Len(graph.node), RshipId) /\ f.it = fr.it
        /\ f.cur_idx = fr.cur_idx /\ f.max_idx = fr.max_idx
    BY <1>1, <1>2, <1>3 DEF FrameType
  <1>5. /\ pc[2] > 1 /\ OpAt(Here) = Op /\ ~IsJoin(Op) /\ ~IsLeaf(Op) /\ pc[1] \in DOMAIN plan
        /\ code[Here].end = <<pc[1], 1, "end">> /\ Here \in DOMAIN code
    BY <1>1, HereFacts DEF IsJoin, IsLeaf
  <1>6. Vals(Assigns(Here)) = {}
    BY <1>1, <1>5 DEF Assigns, Vals
  <1>7. Leads(q, set)
    <2>1. CASE Consume
      BY <1>2, <1>5, <1>6, <2>1, ConsumeLeads
    <2>2. CASE pc' = code[Here].end
      <3>1. Settled /\ IInv /\ Here[1] = pc[1]
        BY HereFacts DEF InCall, TypeInv
      <3>2. <<pc[1], 1>> \in DOMAIN code
        BY <1>5, <3>1, Linked
      <3> QED
        BY <1>2, <1>5, <2>2, <3>2 DEF Leads
    <2> QED
      BY <1>1, <2>1, <2>2
  <1>8. FrameLeads(q, f)
    BY <1>1, <1>4, <1>5, FrameSame
  <1>9. EnvStep(NodeValues, RshipValues)
    BY <1>1 DEF EnvStep
  <1> QED
    BY <1>1, <1>2, <1>4, <1>7, <1>8, <1>9, SameMemory DEF InCall

\* A step that leaves the graph, the right-hand tuples and the allocas alone.
LEMMA SameFrame ==
  ASSUME InCall, UNCHANGED <<call, rhs_input_, fr>>, status' \in {"ok", "crashed"},
         ~IsJoin(Op), pc[2] > 1, EnvStep(NodeValues, RshipValues),
         NEW q, q = pc', NEW set, set = DOMAIN env',
         (Leads(q, set) /\ q # Block(Here, "cond")) \/ (status' = "crashed" /\ q = pc),
         MemoryType(rhs_input_, fev', descs', NodeValues, RshipValues, RshipId)
  PROVE  TypeOK'
  <1>1. phase' = "run" /\ UNCHANGED <<static, base, calls, graph>>
    BY DEF InCall, call
  <1>2. PICK f : f = fr'
    OBVIOUS
  <1>3. f \in FrameType(Len(graph.node), RshipId) /\ f = fr /\ TypeOK
    BY <1>2, FrameFacts
  <1>4. status' = "ok" => FrameLeads(q, f)
    BY <1>3, FrameSame
  <1>5. \A jid : Len(RhsInput(jid)) <= Len(RhsInput(jid))' /\ Len(RhsInput(jid))' \in Nat
    <2>1. \A jid : RhsInput(jid)' = RhsInput(jid) /\ Len(RhsInput(jid)) \in Nat
      BY <1>3, MemoryIs DEF RhsInput
    <2> QED
      BY <2>1
  <1>6. /\ MemoryType(rhs_input_', fev', descs', NodeValues, RshipValues, RshipId)
        /\ phase' \in {"run", "idle"}
        /\ phase' = "run" => Leads(q, set) \/ (status' = "crashed" /\ q = pc)
        /\ phase' = "idle" => q = Null
    BY <1>1
  <1> QED
    BY <1>1, <1>2, <1>3, <1>4, <1>5, <1>6, SameGraph

\* The list is filled with relationships, and iterated from its beginning.
LEMMA EnterVariableTyped ==
  ASSUME InCall, EnterVariable
  PROVE  TypeOK'
  <1> DEFINE more == VarRships(LastValue, "from", Arg)
  <1>1. /\ UNCHANGED <<call, rhs_input_, fr, descs>> /\ UNCHANGED <<status, env>>
        /\ Op.type = "foreach_rship" /\ Goto("head")
        /\ fev' = [list |-> fev.list \o more, iter |-> 1]
    BY DEF EnterVariable, Entering, In
  <1>2. /\ pc[2] > 1 /\ IsGraph(graph) /\ ~IsJoin(Op)
    BY <1>1, HereFacts DEF IsJoin
  <1>3. more \in Seq(RshipId)
    BY <1>2, VarRshipsIs
  <1> HIDE DEF more
  <1>4. MemoryType(rhs_input_, fev, descs, NodeValues, RshipValues, RshipId)
    BY FrameFacts, MemoryIs
  <1>5. /\ IsSequence(fev.list \o more) /\ Range(fev.list \o more) \subseteq RshipId
        /\ 1 \in 1..(Len(fev.list \o more) + 1)
    <2>1. IsSequence(fev.list) /\ Range(fev.list) \subseteq RshipId
      BY <1>4 DEF MemoryType
    <2>2. fev.list \in Seq(RshipId)
      BY <2>1, AnySeq
    <2>3. fev.list \o more \in Seq(RshipId)
      BY <1>3, <2>2
    <2>4. Len(fev.list \o more) \in Nat
      BY <2>3
    <2>5. 1 \in 1..(Len(fev.list \o more) + 1)
      BY <2>4
    <2>6. PICK s : s = fev.list \o more
      OBVIOUS
    <2>7. IsSequence(s) /\ Range(s) \subseteq RshipId
      BY <2>3, <2>6, SeqAny
    <2> QED
      BY <2>5, <2>6, <2>7
  <1>6. MemoryType(rhs_input_, fev', descs', NodeValues, RshipValues, RshipId)
    <2>1. /\ fev'.list = fev.list \o more /\ fev'.iter = 1 /\ descs' = descs
      BY <1>1
    <2> QED
      BY <1>4, <1>5, <2>1 DEF MemoryType
  <1>7. PICK q, set : q = pc' /\ set = DOMAIN env'
    OBVIOUS
  <1>8. Leads(q, set) /\ q # Block(Here, "cond")
    <2>1. Leads(q, set) /\ q = <<pc[1], pc[2], "head">>
      BY <1>1, <1>2, <1>7, GotoLeads DEF BlockNames
    <2> QED
      BY <2>1 DEF Block
  <1>9. EnvStep(NodeValues, RshipValues) /\ status' \in {"ok", "crashed"}
    BY <1>1 DEF EnvStep, InCall
  <1> QED
    BY <1>1, <1>2, <1>6, <1>7, <1>8, <1>9, SameFrame

\* The list's iterator stays within it, unless it is emptied.
LEMMA VariableHeadTyped ==
  ASSUME InCall, VariableHead
  PROVE  TypeOK'
  <1>1. /\ UNCHANGED <<call, rhs_input_, fr, descs>> /\ Op.type = "foreach_rship"
        /\ \/ fev' = [fev EXCEPT !.list = <<>>] /\ Return /\ UNCHANGED <<env, status>>
           \/ /\ fev.iter \in DOMAIN fev.list /\ fev' = [fev EXCEPT !.iter = @ + 1]
              /\ Set(RegOf(1), Rship(fev.list[fev.iter])) /\ Consume /\ UNCHANGED status
           \/ status' = "crashed" /\ UNCHANGED <<fev, env, pc>>
    BY DEF VariableHead, VariableHeadThen, In
  <1>2. /\ pc[2] > 1 /\ IsGraph(graph) /\ ~IsJoin(Op) /\ ~IsLeaf(Op) /\ OpAt(Here) = Op
    BY <1>1, HereFacts DEF IsJoin, IsLeaf
  <1>3. /\ fev = [list |-> fev.list, iter |-> fev.iter]
        /\ MemoryType(rhs_input_, fev, descs, NodeValues, RshipValues, RshipId)
    BY FrameFacts, MemoryIs DEF InCall, TypeInv, PcInv
  <1>4. PICK q, set : q = pc' /\ set = DOMAIN env'
    OBVIOUS
  <1>5. CASE fev' = [fev EXCEPT !.list = <<>>] /\ Return /\ UNCHANGED <<env, status>>
    <2>1. fev'.list = <<>> /\ fev'.iter = fev.iter /\ descs' = descs
      BY <1>1, <1>3, <1>5
    <2>2. IsSequence(<<>>) /\ Range(<<>>) \subseteq RshipId
      <3>1. <<>> \in Seq(RshipId)
        OBVIOUS
      <3>2. PICK s : s = <<>>
        OBVIOUS
      <3> QED
        BY <3>1, <3>2, SeqAny
    <2>3. MemoryType(rhs_input_, fev', descs', NodeValues, RshipValues, RshipId)
      BY <1>3, <2>1, <2>2 DEF MemoryType
    <2>4. Leads(q, set) /\ q # Block(Here, "cond")
      BY <1>2, <1>4, <1>5, ReturnLeads
    <2>5. EnvStep(NodeValues, RshipValues) /\ status' \in {"ok", "crashed"}
      BY <1>5 DEF EnvStep, InCall
    <2> QED
      BY <1>1, <1>2, <1>4, <2>3, <2>4, <2>5, SameFrame
  <1>6. CASE /\ fev.iter \in DOMAIN fev.list /\ fev' = [fev EXCEPT !.iter = @ + 1]
             /\ Set(RegOf(1), Rship(fev.list[fev.iter])) /\ Consume /\ UNCHANGED status
    <2>1. fev'.list = fev.list /\ fev'.iter = fev.iter + 1 /\ descs' = descs
      BY <1>1, <1>3, <1>6
    <2>2. Len(fev.list) \in Nat /\ DOMAIN fev.list = 1..Len(fev.list)
      BY <1>3 DEF MemoryType, IsSequence
    <2>3. fev.iter + 1 \in 1..(Len(fev.list) + 1)
      BY <1>6, <2>2
    <2>4. MemoryType(rhs_input_, fev', descs', NodeValues, RshipValues, RshipId)
      BY <1>3, <2>1, <2>3 DEF MemoryType
    <2>5. Rship(fev.list[fev.iter]) \in RshipValues
      <3>1. fev.list[fev.iter] \in RshipId
        BY <1>3, <1>6 DEF MemoryType, Range
      <3> QED
        BY <1>2, <3>1, GraphFacts
    <2>6. Assigns(Here) = {[val |-> RegOf(1), type |-> 1]}
      BY <1>1, <1>2 DEF Assigns, RegOf, Here
    <2>7. EnvStep(NodeValues, RshipValues) /\ Vals(Assigns(Here)) \subseteq set
      BY <1>2, <1>4, <1>6, <2>5, <2>6, SetTyped, TypedKinds
    <2>8. Leads(q, set) /\ q # Block(Here, "cond")
      BY <1>2, <1>4, <1>6, <2>7, ConsumeLeads
    <2>9. status' \in {"ok", "crashed"}
      BY <1>6 DEF InCall
    <2> QED
      BY <1>1, <1>2, <1>4, <2>4, <2>7, <2>8, <2>9, SameFrame
  <1>7. CASE status' = "crashed" /\ UNCHANGED <<fev, env, pc>>
    <2>1. MemoryType(rhs_input_, fev', descs', NodeValues, RshipValues, RshipId)
      BY <1>1, <1>3, <1>7
    <2>2. EnvStep(NodeValues, RshipValues)
      BY <1>7 DEF EnvStep
    <2> QED
      BY <1>1, <1>2, <1>4, <1>7, <2>1, <2>2, SameFrame
  <1> QED
    BY <1>1, <1>5, <1>6, <1>7

\* A projection describes nodes and relationships, and assigns properties.
LEMMA ProjectTyped ==
  ASSUME InCall, ProjectTuple
  PROVE  TypeOK'
  <1> DEFINE read == {i \in DOMAIN Op.prexpr : Op.prexpr[i].key # Keep}
             V(i) == Tuple[Op.prexpr[i].id + 1]
             descs_ == [v \in {V(i) : i \in read} \cup DOMAIN descs |->
                          IF v \in DOMAIN descs THEN descs[v] ELSE Description(v)]
             written == {i \in read : Stores(Op.prexpr[i], code[Here].regs[Op.prexpr[i].id + 1].type)}
             values_(held) == [x \in {<<pc[1], 0, i>> : i \in read} |->
                                 <<"prop", code[Here].keys[x[3]], V(x[3]),
                                   IF x[3] \in written THEN descs_[V(x[3])] ELSE held>>]
  <1>1. /\ UNCHANGED <<call, rhs_input_, fev, out, fr>> /\ Op.type = "project"
        /\ descs' = descs_
        /\ \/ status' = "crashed" /\ UNCHANGED <<env, pc>>
           \/ (\E held : Assign(values_(held))) /\ Consume /\ UNCHANGED status
    BY Zenon DEF ProjectTuple, Entering, In
  <1>2. /\ pc[2] > 1 /\ IsGraph(graph) /\ ~IsJoin(Op) /\ ~IsLeaf(Op) /\ OpAt(Here) = Op
        /\ Here \in DOMAIN code
    BY <1>1, HereFacts DEF IsJoin, IsLeaf
  <1>3. \A i \in read : V(i) \in NodeValues \cup RshipValues
    BY <1>1, <1>2, ReadsNodes DEF InCall, TypeInv, TypeOK
  <1>4. DOMAIN descs' \subseteq NodeValues \cup RshipValues
    <2>1. DOMAIN descs \subseteq NodeValues \cup RshipValues
      BY FrameFacts DEF TypeOK
    <2>2. DOMAIN descs_ = {V(i) : i \in read} \cup DOMAIN descs
      OBVIOUS
    <2> HIDE DEF V, read, descs_
    <2> QED
      BY <1>1, <1>3, <2>1, <2>2
  <1>5. MemoryType(rhs_input_, fev', descs', NodeValues, RshipValues, RshipId)
    <2>1. MemoryType(rhs_input_, fev, descs, NodeValues, RshipValues, RshipId) /\ fev' = fev
      BY <1>1, FrameFacts, MemoryIs
    <2> QED
      BY <1>4, <2>1 DEF MemoryType
  <1>6. PICK q, set : q = pc' /\ set = DOMAIN env'
    OBVIOUS
  <1>7. CASE status' = "crashed" /\ UNCHANGED <<env, pc>>
    <2>1. EnvStep(NodeValues, RshipValues)
      BY <1>7 DEF EnvStep
    <2> HIDE DEF descs_
    <2> QED
      BY <1>1, <1>2, <1>5, <1>6, <1>7, <2>1, SameFrame
  <1>8. CASE (\E held : Assign(values_(held))) /\ Consume /\ UNCHANGED status
    <2>p. PICK held : Assign(values_(held))
      BY <1>8
    <2>1. PICK values : values = values_(held)
      OBVIOUS
    <2>2. /\ DOMAIN values = {<<pc[1], 0, i>> : i \in read}
          /\ \A v \in DOMAIN values : values[v][1] = "prop"
      BY <2>1
    <2> HIDE DEF values_, descs_
    <2>3. Writes(values, NodeValues, RshipValues)
      BY <2>2 DEF Writes
    <2>4. Assign(values)
      BY <2>p, <2>1
    <2>5. EnvStep(NodeValues, RshipValues)
      BY <2>3, <2>4 DEF EnvStep
    <2>6. Vals(Assigns(Here)) \subseteq set
      <3>1. Vals(Assigns(Here)) \subseteq {<<pc[1], 0, i>> : i \in read}
        <4>1. Assigns(Here) =
                {[val |-> <<Here[1], 0, i>>, type |-> ProjectedType(Op.prexpr[i])] : i \in read}
          BY <1>1, <1>2 DEF Assigns, read
        <4>2. Here[1] = pc[1]
          BY DEF Here
        <4> HIDE DEF read
        <4> QED
          BY <4>1, <4>2 DEF Vals
      <3>2. DOMAIN values \subseteq DOMAIN env'
        BY <2>4 DEF Assign
      <3> QED
        BY <1>6, <2>2, <3>1, <3>2
    <2>7. Leads(q, set) /\ q # Block(Here, "cond")
      BY <1>2, <1>6, <1>8, <2>6, ConsumeLeads
    <2>8. status' \in {"ok", "crashed"}
      BY <1>8 DEF InCall
    <2> QED
      BY <1>1, <1>2, <1>5, <1>6, <2>5, <2>7, <2>8, SameFrame
  <1> QED
    BY <1>1, <1>7, <1>8

\* A tuple that is collected changes no register.
LEMMA CollectTyped ==
  ASSUME InCall, CollectTuple
  PROVE  TypeOK'
  <1>1. /\ UNCHANGED <<call, rhs_input_, fev, descs, fr>> /\ UNCHANGED env
        /\ Op.type = "collect"
        /\ \/ Return /\ UNCHANGED status
           \/ status' = "crashed" /\ UNCHANGED pc
    BY DEF CollectTuple, Entering, In
  <1>2. pc[2] > 1 /\ ~IsJoin(Op)
    BY <1>1, HereFacts DEF IsJoin
  <1>3. EnvStep(NodeValues, RshipValues) /\ status' \in {"ok", "crashed"}
    BY <1>1 DEF EnvStep, InCall
  <1>4. CASE status' = "crashed" /\ UNCHANGED pc
    <2>1. MemoryType(rhs_input_, fev', descs', NodeValues, RshipValues, RshipId)
      BY <1>1, FrameFacts, MemoryIs
    <2> QED
      BY <1>1, <1>2, <1>3, <1>4, <2>1, SameFrame
  <1> QED
    BY <1>1, <1>2, <1>3, <1>4, PassesTyped

\* What is materialised is a tuple.
LEMMA MaterializeTyped ==
  ASSUME InCall, MaterializeTuple
  PROVE  TypeOK'
  <1> DEFINE jid == code[Here].jid
  <1>1. /\ UNCHANGED <<call, fev, descs, fr>> /\ UNCHANGED <<status, env>>
        /\ Op.type = "none" /\ Return
        /\ rhs_input_' = [j \in DOMAIN rhs_input_ \cup {jid} |->
                            IF j = jid THEN Append(RhsInput(jid), Tuple) ELSE rhs_input_[j]]
    BY DEF MaterializeTuple, Entering, In
  <1>2. pc[2] > 1 /\ ~IsJoin(Op) /\ IsGraph(graph) /\ Here \in DOMAIN code
    BY <1>1, HereFacts DEF IsJoin
  <1>3. PICK t, id : t = Tuple /\ id = jid
    OBVIOUS
  <1> HIDE DEF jid
  <1>4. IsTuple(t)
    BY <1>1, <1>2, <1>3, ReadsNodes DEF InCall, TypeInv, TypeOK
  <1>m. /\ MemoryType(rhs_input_, fev, descs, NodeValues, RshipValues, RshipId)
        /\ \A j : IsSequence(RhsInput(j)) /\ Len(RhsInput(j)) \in Nat
                  /\ \A i \in 1..Len(RhsInput(j)) : IsTuple(RhsInput(j)[i])
    BY FrameFacts, MemoryIs
  <1>5. PICK s : s = RhsInput(id)
    OBVIOUS
  <1>6. /\ IsSequence(Append(s, t)) /\ Len(Append(s, t)) = Len(s) + 1 /\ Len(s) \in Nat
        /\ \A i \in DOMAIN Append(s, t) : IsTuple(Append(s, t)[i])
    <2>1. /\ IsSequence(s) /\ Len(s) \in Nat /\ \A i \in 1..Len(s) : IsTuple(s[i])
      BY <1>m, <1>5
    <2>2. /\ IsSequence(Append(s, t)) /\ Len(Append(s, t)) = Len(s) + 1
          /\ \A i \in 1..Len(s) : Append(s, t)[i] = s[i]
          /\ Append(s, t)[Len(s) + 1] = t
      BY <2>1, AppendAny
    <2>3. DOMAIN Append(s, t) = 1..(Len(s) + 1)
      BY <2>2 DEF IsSequence
    <2>4. \A i \in 1..(Len(s) + 1) : i \in 1..Len(s) \/ i = Len(s) + 1
      BY <2>1
    <2> QED
      BY <1>4, <2>1, <2>2, <2>3, <2>4
  <1>7. rhs_input_' = [j \in DOMAIN rhs_input_ \cup {id} |->
                         IF j = id THEN Append(s, t) ELSE rhs_input_[j]]
    BY <1>1, <1>3, <1>5
  <1>8. MemoryType(rhs_input_', fev', descs', NodeValues, RshipValues, RshipId)
    <2>1. ASSUME NEW j \in DOMAIN rhs_input_'
          PROVE  IsSequence(rhs_input_'[j])
                 /\ \A i \in DOMAIN rhs_input_'[j] : TypedTuple(rhs_input_'[j][i], NodeValues, RshipValues)
      <3>1. CASE j = id
        BY <1>6, <1>7, <2>1, <3>1, TypedIs
      <3>2. CASE j # id
        BY <1>m, <1>7, <2>1, <3>2 DEF MemoryType
      <3> QED
        BY <3>1, <3>2
    <2> QED
      BY <1>1, <1>m, <2>1 DEF MemoryType
  <1>9. ASSUME NEW j
        PROVE  Len(RhsInput(j)) <= Len(RhsInput(j))' /\ Len(RhsInput(j))' \in Nat
    <2>1. CASE j = id
      <3>1. RhsInput(j)' = Append(s, t) /\ RhsInput(j) = s
        BY <1>5, <1>7, <2>1 DEF RhsInput
      <3> QED
        BY <1>6, <3>1
    <2>2. CASE j # id
      <3>1. RhsInput(j)' = RhsInput(j)
        BY <1>7, <2>2 DEF RhsInput
      <3> QED
        BY <1>m, <3>1
    <2> QED
      BY <2>1, <2>2
  <1>10. PICK q, f, set : q = pc' /\ f = fr' /\ set = DOMAIN env'
    OBVIOUS
  <1>11. f \in FrameType(Len(graph.node), RshipId) /\ f = fr
    BY <1>1, <1>10, FrameFacts
  <1>12. Leads(q, set) /\ q # Block(Here, "cond")
    BY <1>1, <1>2, <1>10, ReturnLeads
  <1>13. FrameLeads(q, f)
    BY <1>2, <1>11, <1>12, FrameSame
  <1>14. /\ EnvStep(NodeValues, RshipValues) /\ status' \in {"ok", "crashed"}
         /\ phase' = "run" /\ UNCHANGED <<static, base, calls, graph>>
    BY <1>1 DEF EnvStep, InCall, call
  <1>15. phase' \in {"run", "idle"} /\ (phase' = "idle" => q = Null)
    BY <1>14
  <1> QED
    BY <1>8, <1>9, <1>10, <1>11, <1>12, <1>13, <1>14, <1>15, SameGraph

\* The end of a scan leads to the entry block of another pipeline or out of the call.
LEMMA ScanEnds ==
  ASSUME InCall, ScanEnd
  PROVE  \/ phase' = "idle" /\ pc' = Null
         \/ phase' = "run" /\ \E p \in DOMAIN plan : <<p, 1>> \in DOMAIN code /\ pc' = <<p, 1, "entry">>
  <1>1. /\ IInv /\ Settled /\ Here \in DOMAIN code /\ pc[1] \in DOMAIN plan /\ phase = "run"
    BY HereFacts DEF InCall, TypeInv
  <1>2. /\ Compiled /\ Len(cv.entry) \in Nat /\ DOMAIN cv.entry = 1..Len(cv.entry)
    BY <1>1 DEF IInv, CodegenType, Settled, Compiled
  <1>3. \E j \in DOMAIN cv.entry : cv.entry[j] = pc[1]
    BY <1>1, <1>2, AllEntered DEF Entered, Range
  <1> DEFINE i == CHOOSE j \in DOMAIN cv.entry : cv.entry[j] = pc[1]
  <1>4. i \in DOMAIN cv.entry
    BY <1>3
  <1>5. IF i < Len(cv.entry) THEN pc' = <<cv.entry[i + 1], 1, "entry">> /\ phase' = phase
        ELSE phase' = "idle" /\ pc' = Null
    BY DEF ScanEnd
  <1> HIDE DEF i
  <1>6. CASE i < Len(cv.entry)
    <2>1. cv.entry[i + 1] \in Entered
      BY <1>2, <1>4, <1>6 DEF Entered, Range
    <2>2. PICK p : p = cv.entry[i + 1]
      OBVIOUS
    <2>3. <<p, 1>> \in DOMAIN code
      BY <1>1, <2>1, <2>2 DEF IInv, CodegenInv, FlowInv
    <2>4. <<p, 1>>[1] \in DOMAIN plan
      BY <1>1, <2>3, Linked
    <2> QED
      BY <1>1, <1>5, <1>6, <2>2, <2>3, <2>4
  <1> QED
    BY <1>5, <1>6

\* So the end of an access path keeps the types.
LEMMA ScanEndTyped ==
  ASSUME InCall, ScanEnd \/ CreateEnd
  PROVE  TypeOK'
  <1>1. /\ UNCHANGED <<static, base, calls, graph, rhs_input_, fev, descs>>
        /\ UNCHANGED <<status, fr, env>> /\ pc[3] = "end" /\ Op.type \in {"scan", "create"}
    BY DEF ScanEnd, CreateEnd, In, memory
  <1>2. PICK q, f, set : q = pc' /\ f = fr' /\ set = DOMAIN env'
    OBVIOUS
  <1>3. \/ phase' = "idle" /\ q = Null
        \/ phase' = "run" /\ \E p \in DOMAIN plan : <<p, 1>> \in DOMAIN code /\ q = <<p, 1, "entry">>
    BY <1>2, ScanEnds DEF CreateEnd
  <1>4. EnvStep(NodeValues, RshipValues) /\ status' = "ok"
    BY <1>1 DEF EnvStep, InCall
  <1>5. /\ f \in FrameType(Len(graph.node), RshipId) /\ f = fr
        /\ MemoryType(rhs_input_', fev', descs', NodeValues, RshipValues, RshipId)
    BY <1>1, <1>2, FrameFacts, MemoryIs
  <1>6. \A jid : Len(RhsInput(jid)) <= Len(RhsInput(jid))' /\ Len(RhsInput(jid))' \in Nat
    <2>1. \A jid : RhsInput(jid)' = RhsInput(jid) /\ Len(RhsInput(jid)) \in Nat
      BY <1>1, FrameFacts, MemoryIs DEF RhsInput
    <2> QED
      BY <2>1
  <1>7. phase' = "run" => Leads(q, set) /\ FrameLeads(q, f)
    <2> SUFFICES ASSUME phase' = "run" PROVE Leads(q, set) /\ FrameLeads(q, f)
      OBVIOUS
    <2>1. PICK p \in DOMAIN plan : <<p, 1>> \in DOMAIN code /\ q = <<p, 1, "entry">>
      BY <1>3
    <2>2. Leads(q, set)
      BY <2>1 DEF Leads
    <2>3. FrameLeads(q, f)
      BY <1>1, <1>5, <2>1 DEF FrameLeads, Block, IsJoin
    <2> QED
      BY <2>2, <2>3
  <1>8. phase' \in {"run", "idle"} /\ (phase' = "idle" => q = Null) /\ status' \in {"ok", "crashed"}
    BY <1>3, <1>4
  <1> QED
    BY <1>1, <1>2, <1>4, <1>5, <1>6, <1>7, <1>8, SameGraph

\* What is created.
LEMMA NodeAdded ==
  ASSUME IsGraph(graph), NEW d, graph' = [graph EXCEPT !.node = Append(@, d)]
  PROVE  /\ IsGraph(graph)' /\ Node(Len(graph.node) + 1) \in NodeValues'
         /\ Len(graph.node)' = Len(graph.node) + 1 /\ Len(graph.rship)' = Len(graph.rship)
  <1>1. /\ IsSequence(graph.node) /\ IsSequence(graph.rship)
        /\ graph = [node |-> graph.node, rship |-> graph.rship]
        /\ \A r \in DOMAIN graph.rship :
             {graph.rship[r].src, graph.rship[r].dst} \subseteq DOMAIN graph.node
    BY DEF IsGraph
  <1>2. PICK s, e : s = Append(graph.node, d) /\ e = graph.rship
    OBVIOUS
  <1>3. IsSequence(s) /\ Len(s) = Len(graph.node) + 1 /\ Len(graph.node) \in Nat
    BY <1>1, <1>2, AppendAny DEF IsSequence
  <1>4. DOMAIN graph.node = 1..Len(graph.node) /\ DOMAIN s = 1..(Len(graph.node) + 1)
    BY <1>1, <1>3 DEF IsSequence
  <1>5. graph' = [node |-> s, rship |-> e] /\ graph'.node = s /\ graph'.rship = e
    BY <1>1, <1>2
  <1>6. \A r \in DOMAIN e : {e[r].src, e[r].dst} \subseteq DOMAIN s
    BY <1>1, <1>2, <1>3, <1>4
  <1>7. IsGraph(graph)'
    <2>1. PICK g : g = graph'
      OBVIOUS
    <2>2. g.node = s /\ g.rship = e /\ g = [node |-> g.node, rship |-> g.rship] /\ IsSequence(e)
      BY <1>1, <1>2, <1>5, <2>1
    <2>3. IsGraph(g)
      BY <1>3, <1>6, <2>2 DEF IsGraph
    <2> QED
      BY <2>1, <2>3
  <1>8. Node(Len(graph.node) + 1) \in NodeValues'
    BY <1>3, <1>4, <1>5 DEF NodeValues
  <1> QED
    BY <1>2, <1>3, <1>5, <1>7, <1>8

\* A relationship connects nodes that there are.
LEMMA RshipAdded ==
  ASSUME IsGraph(graph), NEW d, d.src \in DOMAIN graph.node, d.dst \in DOMAIN graph.node,
         graph' = [graph EXCEPT !.rship = Append(@, d)]
  PROVE  /\ IsGraph(graph)' /\ Rship(Len(graph.rship) + 1) \in RshipValues'
         /\ Len(graph.rship)' = Len(graph.rship) + 1 /\ Len(graph.node)' = Len(graph.node)
  <1>1. /\ IsSequence(graph.node) /\ IsSequence(graph.rship)
        /\ graph = [node |-> graph.node, rship |-> graph.rship]
        /\ \A r \in DOMAIN graph.rship :
             {graph.rship[r].src, graph.rship[r].dst} \subseteq DOMAIN graph.node
    BY DEF IsGraph
  <1>2. PICK s, e : s = Append(graph.rship, d) /\ e = graph.node
    OBVIOUS
  <1>3. /\ IsSequence(s) /\ Len(s) = Len(graph.rship) + 1 /\ Len(graph.rship) \in Nat
        /\ \A i \in 1..Len(graph.rship) : s[i] = graph.rship[i]
        /\ s[Len(graph.rship) + 1] = d
    BY <1>1, <1>2, AppendAny DEF IsSequence
  <1>4. DOMAIN graph.rship = 1..Len(graph.rship) /\ DOMAIN s = 1..(Len(graph.rship) + 1)
    BY <1>1, <1>3 DEF IsSequence
  <1>5. graph' = [node |-> e, rship |-> s] /\ graph'.node = e /\ graph'.rship = s
    BY <1>1, <1>2
  <1>6. ASSUME NEW r \in DOMAIN s PROVE {s[r].src, s[r].dst} \subseteq DOMAIN e
    <2>1. r \in 1..Len(graph.rship) \/ r = Len(graph.rship) + 1
      BY <1>3, <1>4, <1>6
    <2> QED
      BY <1>1, <1>2, <1>3, <1>4, <2>1
  <1>7. IsGraph(graph)'
    BY <1>1, <1>2, <1>3, <1>5, <1>6 DEF IsGraph
  <1>8. Rship(Len(graph.rship) + 1) \in RshipValues'
    BY <1>3, <1>4, <1>5 DEF RshipValues, RshipId
  <1> QED
    BY <1>2, <1>3, <1>5, <1>7, <1>8

\* What is typed stays so when the graph grows.
LEMMA MemoryGrows ==
  ASSUME NEW rhs, NEW fev_, NEW descs_, NEW ns0, NEW rs0, NEW ids0,
         MemoryType(rhs, fev_, descs_, ns0, rs0, ids0),
         NEW ns, NEW rs, NEW ids, ns0 \subseteq ns, rs0 \subseteq rs, ids0 \subseteq ids
  PROVE  MemoryType(rhs, fev_, descs_, ns, rs, ids)
  BY DEF MemoryType, TypedTuple

\* A create step whose graph_ has what v refers to.
LEMMA CreateTyped ==
  ASSUME InCall, NEW graph_, NEW v, CreateThen(graph_, v), ~IsJoin(Op),
         NEW type \in {0, 1}, Assigns(Here) = {[val |-> RegOf(1), type |-> type]},
         NEW ns, NEW rs, NEW ids, ns = NodeValues', rs = RshipValues', ids = RshipId',
         graph' = graph_ => /\ IsGraph(graph)' /\ Typed(v, type, ns, rs)
                            /\ Len(graph.node) <= Len(graph.node)'
                            /\ Len(graph.rship) <= Len(graph.rship)'
  PROVE  TypeOK'
  <1>1. /\ UNCHANGED <<static, phase, calls, args, base, clean, memory>> /\ Op.type = "create"
        /\ \/ status' = "crashed" /\ UNCHANGED <<graph, fr, env, pc>>
           \/ /\ graph' = graph_ /\ fr' = (IF pc[2] = 1 THEN NoFrame ELSE fr)
              /\ Set(RegOf(1), v) /\ Consume /\ UNCHANGED status
    BY DEF CreateThen, Entering, In
  <1>2. PICK q, f, set : q = pc' /\ f = fr' /\ set = DOMAIN env'
    OBVIOUS
  <1>3. CASE status' = "crashed" /\ UNCHANGED <<graph, fr, env, pc>>
    <2>1. EnvStep(NodeValues, RshipValues)
      BY <1>3 DEF EnvStep
    <2>2. f \in FrameType(Len(graph.node), RshipId)
      BY <1>2, <1>3, FrameFacts
    <2>3. UNCHANGED <<call, rhs_input_, fev, descs>>
      BY <1>1, <1>3 DEF call, memory
    <2> QED
      BY <1>2, <1>3, <2>1, <2>2, <2>3, SameMemory
  <1>4. CASE /\ graph' = graph_ /\ fr' = (IF pc[2] = 1 THEN NoFrame ELSE fr)
             /\ Set(RegOf(1), v) /\ Consume /\ UNCHANGED status
    <2>1. /\ IsGraph(graph)' /\ Typed(v, type, ns, rs) /\ IsGraph(graph)
          /\ Len(graph.node) <= Len(graph.node)' /\ Len(graph.rship) <= Len(graph.rship)'
          /\ pc[2] \in Nat /\ pc[2] >= 1 /\ OpAt(Here) = Op /\ Here = <<pc[1], pc[2]>>
      BY <1>4, HereFacts
    <2>2. /\ Len(graph.node) \in Nat /\ Len(graph.rship) \in Nat
          /\ DOMAIN graph.node = 1..Len(graph.node) /\ RshipId = 1..Len(graph.rship)
      BY <2>1, GraphFacts
    <2>3. /\ Len(graph.node)' \in Nat /\ Len(graph.rship)' \in Nat
          /\ DOMAIN graph'.node = 1..Len(graph'.node) /\ RshipId' = 1..Len(graph'.rship)
      BY <2>1 DEF IsGraph, IsSequence, RshipId
    <2>4. NodeValues \subseteq ns /\ RshipValues \subseteq rs /\ RshipId \subseteq ids
      BY <2>1, <2>2, <2>3 DEF NodeValues, RshipValues, Node, Rship
    <2>5. EnvStep(ns, rs) /\ Vals(Assigns(Here)) \subseteq set
      BY <1>2, <1>4, <2>1, SetTyped
    <2>6. Leads(q, set) /\ q[1] = pc[1] /\ \A name : q # Block(Here, name)
      <3>1. ~IsLeaf(Op)
        BY <1>1 DEF IsLeaf
      <3>2. q = Block(code[Here].next, "entry")
        BY <1>2, <1>4 DEF Consume
      <3>3. q[1] = pc[1]
        <4>1. q = <<pc[1], q[2], "entry">>
          BY <3>1, <3>2, Forward
        <4> QED
          BY <4>1
      <3>4. Leads(q, set) /\ \A name : q # Block(Here, name)
        BY <1>2, <1>4, <2>5, <3>1, ConsumeLeads
      <3> QED
        BY <3>3, <3>4
    <2>7. f = NoFrame \/ (pc[2] > 1 /\ f = fr)
      BY <1>2, <1>4, <2>1
    <2>8. FrameLeads(q, f)
      <3>1. CASE pc[2] = 1
        <4>1. f = NoFrame /\ OpAt(<<q[1], 1>>) = Op
          BY <1>2, <1>4, <2>1, <2>6, <3>1
        <4> QED
          BY <1>1, <2>6, <4>1 DEF FrameLeads, NoFrame
      <3>2. CASE pc[2] > 1
        <4>1. f = fr
          BY <1>2, <1>4, <2>1, <3>2
        <4> QED
          BY <2>6, <3>2, <4>1, FrameSame
      <3> QED
        BY <2>1, <3>1, <3>2
    <2>9. f \in FrameType(Len(graph.node)', ids)
      <3>1. fr \in FrameType(Len(graph.node), RshipId) /\ NoFrame \in FrameType(Len(graph.node), RshipId)
        BY FrameFacts
      <3>2. f \in FrameType(Len(graph.node), RshipId)
        BY <2>7, <3>1
      <3>3. PICK m : m = Len(graph.node)'
        OBVIOUS
      <3>4. 1..(Len(graph.node) + 1) \subseteq 1..(m + 1)
        BY <2>1, <2>2, <2>3, <3>3
      <3>5. f \in FrameType(m, ids)
        BY <2>4, <3>2, <3>4 DEF FrameType
      <3> QED
        BY <3>3, <3>5
    <2>10. MemoryType(rhs_input_', fev', descs', ns, rs, ids)
      <3>1. MemoryType(rhs_input_, fev, descs, NodeValues, RshipValues, RshipId)
        BY FrameFacts, MemoryIs
      <3>2. MemoryType(rhs_input_, fev, descs, ns, rs, ids)
        BY <2>4, <3>1, MemoryGrows
      <3> QED
        BY <1>1, <3>2 DEF memory
    <2>11. \A jid : Len(RhsInput(jid)) <= Len(RhsInput(jid))' /\ Len(RhsInput(jid))' \in Nat
      <3>1. \A jid : RhsInput(jid)' = RhsInput(jid) /\ Len(RhsInput(jid)) \in Nat
        BY <1>1, FrameFacts, MemoryIs DEF RhsInput, memory
      <3> QED
        BY <3>1
    <2>12. phase' = "run" /\ status' = "ok" /\ UNCHANGED <<static, base, calls>>
      BY <1>1, <1>4 DEF InCall
    <2>13. phase' \in {"run", "idle"} /\ status' \in {"ok", "crashed"} /\ (phase' = "idle" => q = Null)
      BY <2>12
    <2> QED
      BY <1>2, <2>1, <2>5, <2>6, <2>8, <2>9, <2>10, <2>11, <2>12, <2>13, TypeNextStep
  <1> QED
    BY <1>1, <1>3, <1>4

\* A create operator adds a node.
LEMMA CreateNodeTyped ==
  ASSUME InCall, CreateTupleNode
  PROVE  TypeOK'
  <1> DEFINE d == [label |-> Arg, value |-> Op.props]
             graph_ == [graph EXCEPT !.node = Append(@, d)]
             v == Node(Len(graph.node) + 1)
  <1>1. Op.type = "create" /\ Op.dir = "node" /\ CreateThen(graph_, v)
    BY DEF CreateTupleNode, In
  <1>2. Assigns(Here) = {[val |-> RegOf(1), type |-> 0]} /\ ~IsJoin(Op) /\ IsGraph(graph)
    <2>1. OpAt(Here) = Op /\ IsGraph(graph)
      BY HereFacts
    <2> QED
      BY <1>1, <2>1 DEF Assigns, RegOf, Here, IsJoin
  <1>3. PICK ns, rs, ids : ns = NodeValues' /\ rs = RshipValues' /\ ids = RshipId'
    OBVIOUS
  <1>4. ASSUME graph' = graph_
        PROVE  /\ IsGraph(graph)' /\ Typed(v, 0, ns, rs)
               /\ Len(graph.node) <= Len(graph.node)' /\ Len(graph.rship) <= Len(graph.rship)'
    <2> HIDE DEF d
    <2>1. /\ IsGraph(graph)' /\ v \in NodeValues'
          /\ Len(graph.node)' = Len(graph.node) + 1 /\ Len(graph.rship)' = Len(graph.rship)
      BY <1>2, <1>4, NodeAdded
    <2>2. Len(graph.node) \in Nat /\ Len(graph.rship) \in Nat
      BY <1>2, GraphFacts
    <2>3. Typed(v, 0, ns, rs)
      BY <1>3, <2>1, TypedKinds
    <2> QED
      BY <2>1, <2>2, <2>3
  <1> HIDE DEF graph_, v
  <1> QED
    BY <1>1, <1>2, <1>3, <1>4, CreateTyped

\* Or a relationship between nodes of the tuple.
LEMMA CreateRshipTyped ==
  ASSUME InCall, CreateTupleRship
  PROVE  TypeOK'
  <1> DEFINE n1 == Tuple[Op.pos[1] + 1]
             n2 == Tuple[Op.pos[2] + 1]
             d == [src |-> Id(n1), dst |-> Id(n2), label |-> Arg, value |-> Op.props]
             graph_ == [graph EXCEPT !.rship = Append(@, d)]
             v == Rship(Len(graph.rship) + 1)
  <1>1. Op.type = "create" /\ Op.dir = "rship" /\ CreateThen(graph_, v)
    BY DEF CreateTupleRship, CreateRshipFrom, In
  <1>2. Assigns(Here) = {[val |-> RegOf(1), type |-> 1]} /\ ~IsJoin(Op) /\ IsGraph(graph)
    <2>1. OpAt(Here) = Op /\ IsGraph(graph)
      BY HereFacts
    <2> QED
      BY <1>1, <2>1 DEF Assigns, RegOf, Here, IsJoin
  <1>3. PICK ns, rs, ids : ns = NodeValues' /\ rs = RshipValues' /\ ids = RshipId'
    OBVIOUS
  <1>4. d.src \in DOMAIN graph.node /\ d.dst \in DOMAIN graph.node
    <2>1. n1 \in NodeValues /\ n2 \in NodeValues
      BY <1>1, <1>2, HereFacts, ReadsNodes DEF InCall, TypeInv, TypeOK
    <2>2. Id(n1) \in DOMAIN graph.node /\ Id(n2) \in DOMAIN graph.node
      BY <1>2, <2>1, GraphFacts
    <2> QED
      BY <2>2
  <1>5. ASSUME graph' = graph_
        PROVE  /\ IsGraph(graph)' /\ Typed(v, 1, ns, rs)
               /\ Len(graph.node) <= Len(graph.node)' /\ Len(graph.rship) <= Len(graph.rship)'
    <2> HIDE DEF d
    <2>1. /\ IsGraph(graph)' /\ v \in RshipValues'
          /\ Len(graph.rship)' = Len(graph.rship) + 1 /\ Len(graph.node)' = Len(graph.node)
      BY <1>2, <1>4, <1>5, RshipAdded
    <2>2. Len(graph.node) \in Nat /\ Len(graph.rship) \in Nat
      BY <1>2, GraphFacts
    <2>3. Typed(v, 1, ns, rs)
      BY <1>3, <2>1, TypedKinds
    <2> QED
      BY <2>1, <2>2, <2>3
  <1> HIDE DEF graph_, v
  <1> QED
    BY <1>1, <1>2, <1>3, <1>5, CreateTyped

\* A join of compiled code: the types of its right-hand registers.
LEMMA JoinFacts ==
  ASSUME InCall, IsJoin(Op)
  PROVE  /\ pc[2] > 1 /\ pc[2] \in Nat /\ ~IsLeaf(Op) /\ Op.type # "foreach_rship"
         /\ Here = <<pc[1], pc[2]>> /\ OpAt(Here) = Op /\ Here \in DOMAIN code
         /\ pc[2] \in JoinsOf(pc[1])
         /\ DOMAIN Types \subseteq Nat \ {0} /\ \A i \in DOMAIN Types : Types[i] \in {0, 1}
         /\ \A r \in Assigns(Here) : r.type # 7 =>
              \E i \in DOMAIN Types : r = [val |-> RegOf(i), type |-> Types[i]]
  <1>1. /\ pc[2] > 1 /\ pc[2] \in Nat /\ plan \in Plans /\ DOMAIN code \subseteq Positions
        /\ Here = <<pc[1], pc[2]>> /\ OpAt(Here) = Op /\ Here \in DOMAIN code
    BY HereFacts DEF IsJoin
  <1>2. ~IsLeaf(Op) /\ Op.type # "foreach_rship"
    BY DEF IsJoin, IsLeaf
  <1>3. pc[1] \in DOMAIN plan /\ pc[2] \in DOMAIN plan[pc[1]] /\ plan[pc[1]][pc[2]] = Op
    <2>1. /\ Here[1] \in DOMAIN plan /\ Here[2] \in DOMAIN plan[Here[1]]
          /\ OpAt(Here) = plan[Here[1]][Here[2]] /\ Here[1] = pc[1] /\ Here[2] = pc[2]
      BY <1>1, PositionFacts DEF OpAt
    <2> QED
      BY <1>1, <2>1
  <1>4. pc[2] \in JoinsOf(pc[1])
    BY <1>3 DEF JoinsOf, OpAt
  <1>5. Op.rhs \in DOMAIN plan
    BY <1>1, <1>3, PlansAssumption DEF IsPlan
  <1>6. Types \in Seq({0, 1})
    BY <1>1, <1>5, RhsTypesType DEF Types
  <1>7. DOMAIN Types \subseteq Nat \ {0} /\ \A i \in DOMAIN Types : Types[i] \in {0, 1}
    BY <1>6
  <1>8. ASSUME NEW r \in Assigns(Here), r.type # 7
        PROVE  \E i \in DOMAIN Types : r = [val |-> RegOf(i), type |-> Types[i]]
    <2>1. Op.type \in {"cross_join", "left_join"} /\ Here[1] = pc[1] /\ Here[2] = pc[2]
      BY DEF IsJoin, Here
    <2> QED
      BY <1>1, <1>8, <2>1 DEF Assigns, RegOf, Types
  <1> QED
    BY <1>1, <1>2, <1>4, <1>7, <1>8

\* The right-hand tuple that the loop is at.
LEMMA CurIsTuple ==
  ASSUME InCall, IsJoin(Op), pc[3] # "entry", fr.cur_idx < fr.max_idx
  PROVE  IsTuple(CurTp) /\ fr.cur_idx + 1 \in DOMAIN RhsInput(code[Here].jid)
  <1> DEFINE jid == code[Here].jid
  <1>1. pc[2] \in JoinsOf(pc[1]) /\ pc[2] \in Nat /\ Here = <<pc[1], pc[2]>>
    BY JoinFacts
  <1>2. TypeOK /\ fr \in FrameType(Len(graph.node), RshipId) /\ phase = "run" /\ status = "ok"
    BY FrameFacts DEF InCall
  <1>3. Inside(pc[2]) /\ \A k \in JoinsOf(pc[1]) : Inside(k) => k <= pc[2]
    <2>1. JoinsOf(pc[1]) \subseteq Nat
      BY HereFacts, AtBeginning
    <2> QED
      BY <1>1, <2>1 DEF Inside
  <1>4. fr.max_idx <= Len(RhsInput(jid))
    BY <1>1, <1>2, <1>3 DEF TypeOK, FrameInv
  <1>5. /\ Len(RhsInput(jid)) \in Nat /\ DOMAIN RhsInput(jid) = 1..Len(RhsInput(jid))
        /\ \A i \in 1..Len(RhsInput(jid)) : IsTuple(RhsInput(jid)[i])
    <2>1. PICK s : s = RhsInput(jid)
      OBVIOUS
    <2>2. IsSequence(s) /\ Len(s) \in Nat /\ \A i \in 1..Len(s) : IsTuple(s[i])
      BY <1>2, <2>1, MemoryIs
    <2>3. DOMAIN s = 1..Len(s)
      BY <2>2 DEF IsSequence
    <2> QED
      BY <2>1, <2>2, <2>3
  <1>6. fr.cur_idx \in Nat /\ fr.max_idx \in Nat
    BY <1>2 DEF FrameType
  <1>7. fr.cur_idx + 1 \in 1..Len(RhsInput(jid))
    BY <1>4, <1>5, <1>6
  <1> QED
    BY <1>5, <1>7 DEF CurTp

\* The right-hand tuple that an outer join has loaded.
LEMMA TpIsTuple ==
  ASSUME InCall, IsJoin(Op), pc[3] \in {"rships", "ret"}
  PROVE  RegOf(0) \in DOMAIN env /\ IsTuple(Tp)
  <1>1. /\ pc[2] \in JoinsOf(pc[1]) /\ Here = <<pc[1], pc[2]>> /\ Here \in DOMAIN code
        /\ IsJoin(OpAt(Here))
    BY JoinFacts
  <1>2. EnvInv /\ phase = "run" /\ status = "ok"
    BY DEF InCall, TypeInv, TypeOK
  <1>3. <<pc[1], pc[2], 0>> \in DOMAIN env
    BY <1>1, <1>2 DEF EnvInv
  <1>4. Here[1] = pc[1] /\ Here[2] = pc[2]
    BY DEF Here
  <1>5. IsTuple(env[<<pc[1], pc[2], 0>>])
    BY <1>1, <1>2, <1>3, <1>4 DEF EnvInv
  <1> QED
    BY <1>3, <1>5 DEF RegOf, Tp

\* What the iteration of a join does to the shared allocas.
Iterates(f) == /\ f \in FrameType(Len(graph.node), RshipId)
               /\ f.it = fr.it /\ f.max_idx = fr.max_idx
               /\ f.cur_idx < f.max_idx => fr.cur_idx < fr.max_idx

\* The loops of a join change cur_idx and the flag.
LEMMA IteratesIs ==
  ASSUME InCall
  PROVE  /\ Iterates(fr) /\ Iterates([fr EXCEPT !.cur_idx = @ + 1])
         /\ \A d \in {0, 1} : Iterates([fr EXCEPT !.dangling = d])
  <1>1. fr \in FrameType(Len(graph.node), RshipId)
    BY FrameFacts
  <1> QED
    BY <1>1 DEF Iterates, FrameType

\* The registers of the right-hand side are read from a tuple that fits.
LEMMA ConcatTyped ==
  ASSUME InCall, IsJoin(Op), pc[3] # "entry", UNCHANGED <<call, memory>>,
         NEW t, IsTuple(t), Concat(t), NEW f, f = fr', Iterates(f)
  PROVE  TypeOK'
  <1> DEFINE values_ == [x \in {RegOf(i) : i \in {0} \cup DOMAIN Types} |->
                           IF x[3] = 0 THEN t ELSE t[x[3]]]
  <1>1. /\ UNCHANGED <<call, rhs_input_, fev, descs>> /\ f \in FrameType(Len(graph.node), RshipId)
        /\ f.it = fr.it /\ f.max_idx = fr.max_idx
        /\ f.cur_idx < f.max_idx => fr.cur_idx < fr.max_idx
        /\ \/ Fits(t) /\ Assign(values_) /\ Consume /\ UNCHANGED status
           \/ status' = "crashed" /\ UNCHANGED <<env, pc>>
    BY Zenon DEF Concat, memory, Iterates
  <1>2. PICK q, set, values : q = pc' /\ set = DOMAIN env' /\ values = values_
    OBVIOUS
  <1>3. /\ DOMAIN values = {RegOf(i) : i \in {0} \cup DOMAIN Types}
        /\ \A i \in {0} \cup DOMAIN Types : values[RegOf(i)] = IF i = 0 THEN t ELSE t[i]
    BY <1>2 DEF RegOf
  <1> HIDE DEF values_
  <1>4. CASE Fits(t) /\ Assign(values) /\ Consume /\ UNCHANGED status
    <2>1. ASSUME NEW i \in {0} \cup DOMAIN Types
          PROVE  /\ \A r \in Assigns(Here) : r.val = RegOf(i) /\ r.type # 7 =>
                      Typed(values[RegOf(i)], r.type, NodeValues, RshipValues)
                 /\ i = 0 => TypedTuple(values[RegOf(i)], NodeValues, RshipValues)
      <3>1. i = 0 => TypedTuple(values[RegOf(i)], NodeValues, RshipValues)
        BY <1>3, TypedIs
      <3>2. ASSUME NEW r \in Assigns(Here), r.val = RegOf(i), r.type # 7
            PROVE  Typed(values[RegOf(i)], r.type, NodeValues, RshipValues)
        <4>1. PICK j \in DOMAIN Types : r = [val |-> RegOf(j), type |-> Types[j]]
          BY <3>2, JoinFacts
        <4>2. j = i /\ j # 0 /\ Types[j] \in {0, 1} /\ r.type = Types[j]
          BY <3>2, <4>1, JoinFacts DEF RegOf
        <4>3. values[RegOf(i)] = t[j]
          BY <1>3, <4>2
        <4>4. j \in DOMAIN t /\ t[j][1] = IF Types[j] = 0 THEN "node" ELSE "rship"
          BY <1>4 DEF Fits
        <4>5. IsValue(t[j])
          BY <4>4 DEF IsTuple
        <4>6. IF Types[j] = 0 THEN t[j] \in NodeValues ELSE t[j] \in RshipValues
          BY <4>2, <4>4, <4>5 DEF IsValue
        <4> QED
          BY <4>2, <4>3, <4>6, TypedKinds
      <3> QED
        BY <3>1, <3>2
    <2>2. Writes(values, NodeValues, RshipValues)
      BY <1>3, <2>1 DEF Writes
    <2>3. EnvStep(NodeValues, RshipValues)
      BY <1>4, <2>2 DEF EnvStep
    <2>4. DOMAIN values \subseteq set
      BY <1>2, <1>4 DEF Assign
    <2>5. Vals(Assigns(Here)) \subseteq set /\ RegOf(0) \in set
      BY <1>3, <2>4, JoinFacts DEF Vals
    <2>6. ~IsLeaf(Op) /\ pc[2] \in Nat /\ pc[2] > 1 /\ Op.type # "foreach_rship"
      BY JoinFacts
    <2>7. Leads(q, set) /\ q[2] \in Nat /\ q[2] > pc[2]
      BY <1>2, <1>4, <2>5, <2>6, ConsumeLeads
    <2>8. FrameLeads(q, f)
      BY <1>1, <2>6, <2>7, FrameSame
    <2>9. status' \in {"ok", "crashed"}
      BY <1>4 DEF InCall
    <2> QED
      BY <1>1, <1>2, <2>3, <2>7, <2>8, <2>9, SameMemory
  <1>5. CASE status' = "crashed" /\ UNCHANGED <<env, pc>>
    <2>1. EnvStep(NodeValues, RshipValues)
      BY <1>5 DEF EnvStep
    <2> QED
      BY <1>1, <1>2, <1>5, <2>1, SameMemory
  <1> QED
    BY <1>1, <1>2, <1>4, <1>5

\* On to another block of the join.
LEMMA IterationTyped ==
  ASSUME InCall, IsJoin(Op), pc[3] # "entry", UNCHANGED <<call, memory>>, status' = status,
         EnvStep(NodeValues, RshipValues), NEW f, f = fr', Iterates(f),
         NEW name \in {"cond", "rships"}, pc' = <<pc[1], pc[2], name>>,
         name = "rships" => RegOf(0) \in DOMAIN env'
  PROVE  TypeOK'
  <1>1. /\ UNCHANGED <<call, rhs_input_, fev, descs>> /\ f \in FrameType(Len(graph.node), RshipId)
        /\ f.it = fr.it /\ f.max_idx = fr.max_idx
        /\ f.cur_idx < f.max_idx => fr.cur_idx < fr.max_idx
    BY DEF memory, Iterates
  <1>2. PICK q, set : q = pc' /\ set = DOMAIN env'
    OBVIOUS
  <1>3. pc[2] \in Nat /\ pc[2] > 1 /\ Op.type # "foreach_rship" /\ Here = <<pc[1], pc[2]>>
    BY JoinFacts
  <1>4. Leads(q, set) /\ ~(q[2] < pc[2])
    <2>1. q = Block(Here, name) /\ q[2] = pc[2]
      BY <1>2, <1>3 DEF Block
    <2>2. name \in BlockNames \ {"entry", "ret"} /\ (name = "rships" => RegOf(0) \in set)
      BY <1>2 DEF BlockNames
    <2> QED
      BY <1>3, <2>1, <2>2 DEF Leads
  <1>5. FrameLeads(q, f)
    BY <1>1, <1>3, <1>4, FrameSame
  <1>6. status' \in {"ok", "crashed"}
    BY DEF InCall
  <1> QED
    BY <1>1, <1>2, <1>4, <1>5, <1>6, SameMemory

\* A join is entered with the length of its own list.
LEMMA EnterJoinTyped ==
  ASSUME InCall, EnterJoin
  PROVE  TypeOK'
  <1> DEFINE max == Len(RhsInput(code[Here].jid))
  <1>1. /\ UNCHANGED <<call, rhs_input_, fev, descs>> /\ UNCHANGED <<status, env>>
        /\ fr' = [fr EXCEPT !.dangling = 1, !.cur_idx = 0, !.max_idx = max]
        /\ Goto("cond") /\ IsJoin(Op)
    BY DEF EnterJoin, Joining, In, memory, IsJoin
  <1>2. PICK q, f, set : q = pc' /\ f = fr' /\ set = DOMAIN env'
    OBVIOUS
  <1>3. fr \in FrameType(Len(graph.node), RshipId) /\ max \in Nat
    BY FrameFacts, MemoryIs
  <1> HIDE DEF max
  <1>4. f \in FrameType(Len(graph.node), RshipId) /\ f.it = fr.it /\ f.max_idx = max
    BY <1>1, <1>2, <1>3 DEF FrameType
  <1>5. pc[2] > 1 /\ Op.type # "foreach_rship" /\ Here = <<pc[1], pc[2]>>
    BY <1>1, JoinFacts
  <1>6. Leads(q, set) /\ q = Block(Here, "cond")
    BY <1>1, <1>2, GotoLeads DEF Goto, BlockNames
  <1>7. FrameLeads(q, f)
    BY <1>1, <1>4, <1>5, <1>6 DEF FrameLeads, max
  <1>8. EnvStep(NodeValues, RshipValues) /\ status' \in {"ok", "crashed"}
    BY <1>1 DEF EnvStep, InCall
  <1> QED
    BY <1>1, <1>2, <1>4, <1>6, <1>7, <1>8, SameMemory

\* It returns at the end of that list.
LEMMA JoinDoneTyped ==
  ASSUME InCall, JoinDone
  PROVE  TypeOK'
  <1>1. /\ UNCHANGED <<call, rhs_input_, fev, descs>> /\ UNCHANGED <<status, env, fr>>
        /\ fr.cur_idx >= fr.max_idx /\ Return /\ IsJoin(Op)
    BY DEF JoinDone, Joining, In, memory, IsJoin
  <1>2. PICK q, f, set : q = pc' /\ f = fr' /\ set = DOMAIN env'
    OBVIOUS
  <1>3. fr \in FrameType(Len(graph.node), RshipId) /\ f = fr
    BY <1>1, <1>2, FrameFacts
  <1>4. ~(f.cur_idx < f.max_idx) /\ f.it = fr.it
    BY <1>1, <1>3 DEF FrameType
  <1>5. pc[2] > 1 /\ Op.type # "foreach_rship"
    BY <1>1, JoinFacts
  <1>6. Leads(q, set)
    BY <1>1, <1>2, <1>5, ReturnLeads
  <1>7. FrameLeads(q, f)
    BY <1>4, <1>5 DEF FrameLeads
  <1>8. EnvStep(NodeValues, RshipValues) /\ status' \in {"ok", "crashed"}
    BY <1>1 DEF EnvStep, InCall
  <1> QED
    BY <1>1, <1>2, <1>3, <1>6, <1>7, <1>8, SameMemory

\* A cross join concatenates the tuple it is at.
LEMMA CrossNextTyped ==
  ASSUME InCall, CrossNext
  PROVE  TypeOK'
  <1>1. /\ IsJoin(Op) /\ pc[3] # "entry" /\ UNCHANGED <<call, memory>> /\ Concat(CurTp)
        /\ fr.cur_idx < fr.max_idx /\ fr' = [fr EXCEPT !.cur_idx = @ + 1]
    BY Zenon DEF CrossNext, In, IsJoin
  <1>2. PICK t, f : t = CurTp /\ f = fr'
    OBVIOUS
  <1>3. IsTuple(t) /\ Iterates(f)
    BY <1>1, <1>2, CurIsTuple, IteratesIs
  <1> QED
    BY <1>1, <1>2, <1>3, ConcatTyped

\* An outer join loads the tuple it is at.
LEMMA OuterBeginTyped ==
  ASSUME InCall, OuterBegin
  PROVE  TypeOK'
  <1> DEFINE first == FirstRship(LhsNode, "from")
  <1>1. /\ IsJoin(Op) /\ pc[3] # "entry" /\ UNCHANGED <<call, memory>> /\ BeginTuple
        /\ fr.cur_idx < fr.max_idx /\ Goto("rships") /\ fr' = fr /\ status' = status
    BY Zenon DEF OuterBegin, In, IsJoin
  <1>2. PICK t, n : t = CurTp /\ n = first
    OBVIOUS
  <1>3. PICK values : values = [x \in {RegOf(0), RegOf(-1)} |-> IF x[3] = 0 THEN t ELSE n]
    OBVIOUS
  <1>4. Assign(values)
    BY <1>1, <1>2, <1>3 DEF BeginTuple
  <1>5. DOMAIN values = {RegOf(0), RegOf(-1)} /\ values[RegOf(0)] = t /\ RegOf(-1) # RegOf(0)
    BY <1>3 DEF RegOf
  <1>6. IsTuple(t)
    BY <1>1, <1>2, CurIsTuple
  <1>7. ASSUME NEW i \in {0, -1}, NEW r \in Assigns(Here), r.type # 7 PROVE r.val # RegOf(i)
    <2>1. PICK j \in DOMAIN Types : r = [val |-> RegOf(j), type |-> Types[j]]
      BY <1>1, <1>7, JoinFacts
    <2>2. j \in Nat /\ j # 0
      BY <1>1, JoinFacts
    <2> QED
      BY <2>1, <2>2 DEF RegOf
  <1>8. Writes(values, NodeValues, RshipValues)
    <2>1. /\ \A r \in Assigns(Here) : r.val = RegOf(0) /\ r.type # 7 =>
                 Typed(values[RegOf(0)], r.type, NodeValues, RshipValues)
          /\ TypedTuple(values[RegOf(0)], NodeValues, RshipValues)
      BY <1>5, <1>6, <1>7, TypedIs
    <2>2. \A r \in Assigns(Here) : r.val = RegOf(-1) /\ r.type # 7 =>
                 Typed(values[RegOf(-1)], r.type, NodeValues, RshipValues)
      BY <1>7
    <2> QED
      BY <1>5, <2>1, <2>2 DEF Writes
  <1>9. EnvStep(NodeValues, RshipValues)
    BY <1>4, <1>8 DEF EnvStep
  <1>10. RegOf(0) \in DOMAIN env'
    BY <1>4, <1>5 DEF Assign
  <1>11. pc' = <<pc[1], pc[2], "rships">>
    BY <1>1, JoinFacts DEF Goto, Block, Here
  <1>12. PICK f : f = fr'
    OBVIOUS
  <1>13. Iterates(f)
    BY <1>1, <1>12, IteratesIs
  <1> QED
    BY <1>1, <1>9, <1>10, <1>11, <1>12, <1>13, IterationTyped

\* The register of the relationship at which an outer join is.
LEMMA RidxTyped ==
  ASSUME InCall, IsJoin(Op), pc[3] \in {"rships", "ret"}, NEW v, Set(RegOf(-1), v)
  PROVE  EnvStep(NodeValues, RshipValues) /\ RegOf(0) \in DOMAIN env'
  <1>1. RegOf(0) \in DOMAIN env
    BY TpIsTuple
  <1>2. EnvStep(NodeValues, RshipValues)
    BY SetOther
  <1> QED
    BY <1>1, <1>2 DEF Set, Assign

\* And compares it with the relationships of the left-hand node.
LEMMA OuterMatchTyped ==
  ASSUME InCall, OuterMatch
  PROVE  TypeOK'
  <1> DEFINE next == NextRship(Ridx, "from")
  <1>1. /\ IsJoin(Op) /\ pc[3] = "rships" /\ UNCHANGED <<call, memory>>
        /\ \/ fr' = [fr EXCEPT !.dangling = 0] /\ Concat(Tp)
           \/ Set(RegOf(-1), next) /\ UNCHANGED <<fr, pc, status>>
    BY Zenon DEF OuterMatch, In, IsJoin
  <1> HIDE DEF next
  <1>2. PICK t, f, v : t = Tp /\ f = fr' /\ v = next
    OBVIOUS
  <1>3. CASE fr' = [fr EXCEPT !.dangling = 0] /\ Concat(Tp)
    <2>1. IsTuple(t) /\ Iterates(f)
      BY <1>1, <1>2, <1>3, TpIsTuple, IteratesIs
    <2> QED
      BY <1>1, <1>2, <1>3, <2>1, ConcatTyped
  <1>4. CASE Set(RegOf(-1), next) /\ UNCHANGED <<fr, pc, status>>
    <2>1. EnvStep(NodeValues, RshipValues) /\ RegOf(0) \in DOMAIN env'
      BY <1>1, <1>4, RidxTyped
    <2>2. pc' = <<pc[1], pc[2], "rships">>
      BY <1>1, <1>4, HereFacts
    <2>3. Iterates(f)
      BY <1>2, <1>4, IteratesIs
    <2>4. pc[3] # "entry"
      BY <1>1
    <2> QED
      BY <1>1, <1>2, <1>4, <2>1, <2>2, <2>3, <2>4, IterationTyped
  <1> QED
    BY <1>1, <1>3, <1>4

\* Then it goes on to the next tuple.
LEMMA OuterIncrTyped ==
  ASSUME InCall, OuterIncr
  PROVE  TypeOK'
  <1>1. /\ IsJoin(Op) /\ pc[3] = "rships" /\ UNCHANGED <<call, memory>>
        /\ fr' = [fr EXCEPT !.cur_idx = @ + 1]
        /\ Concat(Tp) \/ (Goto("cond") /\ UNCHANGED <<env, status>>)
    BY Zenon DEF OuterIncr, In, IsJoin
  <1>2. PICK t, f : t = Tp /\ f = fr'
    OBVIOUS
  <1>3. IsTuple(t) /\ Iterates(f) /\ pc[3] # "entry"
    BY <1>1, <1>2, TpIsTuple, IteratesIs
  <1>4. CASE Concat(Tp)
    BY <1>1, <1>2, <1>3, <1>4, ConcatTyped
  <1>5. CASE Goto("cond") /\ UNCHANGED <<env, status>>
    <2>1. pc' = <<pc[1], pc[2], "cond">>
      BY <1>1, <1>5, JoinFacts DEF Goto, Block, Here
    <2>2. EnvStep(NodeValues, RshipValues)
      BY <1>5 DEF EnvStep
    <2> QED
      BY <1>1, <1>2, <1>3, <1>5, <2>1, <2>2, IterationTyped
  <1> QED
    BY <1>1, <1>4, <1>5

\* What is above it returns to the next relationship.
LEMMA OuterReturnTyped ==
  ASSUME InCall, OuterReturn
  PROVE  TypeOK'
  <1> DEFINE next == NextRship(Ridx, "from")
  <1>1. /\ IsJoin(Op) /\ pc[3] = "ret" /\ UNCHANGED <<call, memory>> /\ fr' = fr /\ status' = status
        /\ \/ Set(RegOf(-1), next) /\ Goto("rships")
           \/ Goto("cond") /\ UNCHANGED env
    BY Zenon DEF OuterReturn, In, IsJoin
  <1> HIDE DEF next
  <1>2. PICK f, v : f = fr' /\ v = next
    OBVIOUS
  <1>3. Iterates(f) /\ pc[3] # "entry" /\ \A name : Goto(name) => pc' = <<pc[1], pc[2], name>>
    BY <1>1, <1>2, IteratesIs DEF Goto, Block, Here
  <1>4. CASE Set(RegOf(-1), next) /\ Goto("rships")
    <2>1. EnvStep(NodeValues, RshipValues) /\ RegOf(0) \in DOMAIN env'
      BY <1>1, <1>4, RidxTyped
    <2>2. pc' = <<pc[1], pc[2], "rships">>
      BY <1>3, <1>4
    <2> QED
      BY <1>1, <1>2, <1>3, <2>1, <2>2, IterationTyped
  <1>5. CASE Goto("cond") /\ UNCHANGED env
    <2>1. EnvStep(NodeValues, RshipValues)
      BY <1>5 DEF EnvStep
    <2>2. pc' = <<pc[1], pc[2], "cond">>
      BY <1>3, <1>5
    <2> QED
      BY <1>1, <1>2, <1>3, <2>1, <2>2, IterationTyped
  <1> QED
    BY <1>1, <1>4, <1>5

-----------------------------------------------------------------------------
(***************************************************************************)
(* Every step, and the theorem.                                            *)
(***************************************************************************)

\* Every step of a call keeps the types.
LEMMA ExecuteTyped ==
  ASSUME TypeInv, Execute
  PROVE  TypeOK'
  <1>1. InCall
    <2>1. phase = "run" /\ status = "ok"
      <3>1. ReadMissingArg \/ EnterScan \/ EnterIndexScan \/ ScanCond \/ ScanNext \/ ScanEnd
              => phase = "run" /\ status = "ok"
        BY DEF ReadMissingArg, EnterScan, EnterIndexScan, ScanCond, ScanNext, ScanEnd, Entering, In
      <3>2. CreateTupleNode \/ CreateTupleRship \/ CreateEnd => phase = "run" /\ status = "ok"
        BY DEF CreateTupleNode, CreateTupleRship, CreateRshipFrom, CreateEnd, In
      <3>3. EnterForeach \/ ForeachCond \/ ForeachNext \/ EnterVariable \/ VariableHead
              => phase = "run" /\ status = "ok"
        BY DEF EnterForeach, ForeachCond, ForeachCondElse, ForeachNext, EnterVariable, VariableHead,
               VariableHeadThen, Entering, In
      <3>4. ExpandNode \/ FilterTuple \/ ProjectTuple \/ LimitTuples \/ CollectTuple \/ MaterializeTuple
              => phase = "run" /\ status = "ok"
        BY Zenon DEF ExpandNode, FilterTuple, ProjectTuple, LimitTuples, CollectTuple,
                     MaterializeTuple, Entering, In
      <3>5. EnterJoin \/ JoinDone \/ CrossNext => phase = "run" /\ status = "ok"
        BY Zenon DEF EnterJoin, JoinDone, CrossNext, Joining, In
      <3>6. OuterBegin \/ OuterMatch \/ OuterIncr \/ OuterReturn => phase = "run" /\ status = "ok"
        BY Zenon DEF OuterBegin, OuterMatch, OuterIncr, OuterReturn, In
      <3> QED
        BY <3>1, <3>2, <3>3, <3>4, <3>5, <3>6 DEF Execute
    <2> QED
      BY <2>1 DEF InCall
  <1>2. ReadMissingArg \/ EnterScan \/ EnterIndexScan \/ ScanCond \/ ScanNext \/ ScanEnd => TypeOK'
    BY <1>1, MissingArgTyped, EnterScanTyped, EnterIndexScanTyped, ScanCondTyped, ScanNextTyped,
       ScanEndTyped
  <1>3. CreateTupleNode \/ CreateTupleRship \/ CreateEnd => TypeOK'
    BY <1>1, CreateNodeTyped, CreateRshipTyped, ScanEndTyped
  <1>4. EnterForeach \/ ForeachCond \/ ForeachNext \/ EnterVariable \/ VariableHead => TypeOK'
    BY <1>1, ForeachTyped, EnterVariableTyped, VariableHeadTyped
  <1>5. ExpandNode \/ FilterTuple \/ ProjectTuple \/ LimitTuples \/ CollectTuple \/ MaterializeTuple
          => TypeOK'
    BY <1>1, ExpandTyped, FilterTyped, ProjectTyped, LimitTyped, CollectTyped, MaterializeTyped
  <1>6. EnterJoin \/ JoinDone \/ CrossNext => TypeOK'
    BY <1>1, EnterJoinTyped, JoinDoneTyped, CrossNextTyped
  <1>7. OuterBegin \/ OuterMatch \/ OuterIncr \/ OuterReturn => TypeOK'
    BY <1>1, OuterBeginTyped, OuterMatchTyped, OuterIncrTyped, OuterReturnTyped
  <1> QED
    BY <1>2, <1>3, <1>4, <1>5, <1>6, <1>7 DEF Execute

\* Steps outside a call.
LEMMA OutsideTyped ==
  ASSUME TypeOK, IInv', UNCHANGED <<fr, fev, descs>>, IsGraph(graph)',
         Len(graph.node)' = Len(graph.node), Len(graph.rship)' = Len(graph.rship),
         rhs_input_' \in {rhs_input_, NoTuples},
         base'[1] \in 0..Len(graph.node), base'[2] \in 0..Len(graph.rship),
         phase' \in {"codegen", "walk", "aborted", "idle", "run", "interpret"},
         status' \in {"ok", "crashed"}, calls' \in Nat,
         NEW q, q = pc',
         phase' = "run" => <<q[1], q[2]>> \in DOMAIN code' /\ q[3] \in BlockNames,
         phase' # "run" => q = Null,
         NodeValues' = NodeValues /\ RshipValues' = RshipValues => EnvInv', FrameInv'
  PROVE  TypeOK'
  <1>1. IsGraph(graph) /\ fr \in FrameType(Len(graph.node), RshipId)
        /\ MemoryType(rhs_input_, fev, descs, NodeValues, RshipValues, RshipId)
    BY MemoryIs DEF TypeOK
  <1>2. /\ DOMAIN graph.node = 1..Len(graph.node) /\ RshipId = 1..Len(graph.rship)
    BY <1>1, GraphFacts
  <1>3. /\ DOMAIN graph'.node = 1..Len(graph'.node) /\ RshipId' = 1..Len(graph'.rship)
    BY DEF IsGraph, IsSequence, RshipId
  <1>4. NodeValues' = NodeValues /\ RshipValues' = RshipValues /\ RshipId' = RshipId
    BY <1>2, <1>3 DEF NodeValues, RshipValues, Node, Rship
  <1>5. \A t : IsTuple(t) => IsTuple(t)'
    BY <1>4 DEF IsTuple, IsValue
  <1>6. /\ \A j \in DOMAIN rhs_input_' :
             IsSequence(rhs_input_'[j]) /\ \A i \in DOMAIN rhs_input_'[j] : IsTuple(rhs_input_[j][i])'
        /\ IsSequence(fev'.list) /\ Range(fev'.list) \subseteq RshipId'
        /\ fev'.iter \in 1..(Len(fev'.list) + 1) \/ fev'.list = <<>>
        /\ DOMAIN descs' \subseteq NodeValues' \cup RshipValues'
    <2>1. ASSUME NEW j \in DOMAIN rhs_input_', NEW i \in DOMAIN rhs_input_'[j]
          PROVE  IsSequence(rhs_input_'[j]) /\ IsTuple(rhs_input_[j][i])'
      <3>1. rhs_input_' = rhs_input_
        BY <2>1 DEF NoTuples
      <3>2. PICK t : t = rhs_input_[j][i]
        OBVIOUS
      <3>3. IsSequence(rhs_input_[j]) /\ IsTuple(t)
        BY <2>1, <3>1, <3>2 DEF TypeOK
      <3>4. IsTuple(t)'
        BY <1>5, <3>3
      <3> QED
        BY <3>1, <3>2, <3>3, <3>4 DEF IsTuple
    <2>2. ASSUME NEW j \in DOMAIN rhs_input_' PROVE IsSequence(rhs_input_'[j])
      <3>1. rhs_input_' = rhs_input_
        BY <2>2 DEF NoTuples
      <3> QED
        BY <2>2, <3>1 DEF TypeOK
    <2> QED
      BY <1>1, <1>4, <2>1, <2>2 DEF MemoryType
  <1>7. fr' \in [it : 1..(Len(graph'.node) + 1), lhs : RshipId' \cup {0, Unknown}, cur_idx : Nat,
                 max_idx : Nat, dangling : {0, 1}, res_counter : Nat]
    BY <1>1, <1>4 DEF FrameType
  <1>8. plan' \in Plans /\ at' \in Positions' /\ DOMAIN code' \subseteq Positions' /\ op_id' \in Nat
    BY DEF IInv, CodegenInv, CodegenType, OrderInv, FlowInv
  <1>9. IF phase' = "run"
        THEN <<pc'[1], pc'[2]>> \in DOMAIN code'
               /\ pc'[3] \in {"entry", "cond", "next", "head", "end", "rships", "ret"}
        ELSE pc' = Null
    BY DEF BlockNames
  <1>10. base'[1] \in 0..Len(graph'.node) /\ base'[2] \in 0..Len(graph'.rship)
    OBVIOUS
  <1> QED
    BY <1>4, <1>6, <1>7, <1>8, <1>9, <1>10 DEF TypeOK

\* Nothing is needed at the beginning of a pipeline.
LEMMA Beginning ==
  ASSUME plan \in Plans, NEW p \in DOMAIN plan
  PROVE  Available(<<p, 1>>) = {} /\ \A j \in JoinsOf(p) : j > 1 /\ j \in Nat
  <1>1. \A j \in JoinsOf(p) : j > 1 /\ j \in Nat
    BY PlanFacts DEF JoinsOf, IsJoin, OpAt
  <1> QED
    BY <1>1 DEF Available

\* Once the compilation has ended: the registers keep their values, also when a call begins.
LEMMA BetweenTyped ==
  ASSUME TypeOK, IInv', phase \in {"idle", "interpret"}, phase' \in {"idle", "run", "interpret"},
         UNCHANGED <<static, fr, env, fev, descs>>, IsGraph(graph)',
         Len(graph.node)' = Len(graph.node), Len(graph.rship)' = Len(graph.rship),
         rhs_input_' \in {rhs_input_, NoTuples},
         base'[1] \in 0..Len(graph.node), base'[2] \in 0..Len(graph.rship),
         status' \in {"ok", "crashed"}, calls' \in Nat,
         NEW q, q = pc',
         phase' = "run" => \E p \in DOMAIN plan : <<p, 1>> \in DOMAIN code /\ q = <<p, 1, "entry">>,
         phase' # "run" => q = Null
  PROVE  TypeOK'
  <1>1. plan' = plan /\ code' = code /\ env' = env /\ plan \in Plans /\ EnvInv
    BY DEF static, TypeOK
  <1>2. /\ \A y : OpAt(y)' = OpAt(y) /\ Assigns(y)' = Assigns(y) /\ Available(y)' = Available(y)
        /\ \A p : JoinsOf(p)' = JoinsOf(p)
    BY <1>1 DEF OpAt, Assigns, Available, JoinsOf
  <1>3. Here' = <<q[1], q[2]>>
    BY DEF Here
  <1>4. ASSUME phase' = "run"
        PROVE  /\ Available(<<q[1], q[2]>>) = {} /\ q[3] = "entry" /\ q[2] = 1
               /\ \A j \in JoinsOf(q[1]) : j > 1 /\ j \in Nat
               /\ <<q[1], q[2]>> \in DOMAIN code /\ q[3] \in BlockNames
    <2>1. PICK p \in DOMAIN plan : <<p, 1>> \in DOMAIN code /\ q = <<p, 1, "entry">>
      BY <1>4
    <2> QED
      BY <1>1, <2>1, Beginning DEF BlockNames
  <1>5. ASSUME NodeValues' = NodeValues, RshipValues' = RshipValues PROVE EnvInv'
    <2>1. /\ \A v, type : HasType(v, type)' = HasType(v, type)
          /\ \A t : IsTuple(t)' = IsTuple(t)
      BY <1>5 DEF HasType, IsTuple, IsValue
    <2>2. \A x \in DOMAIN code :
            /\ \A r \in Assigns(x) : r.type # 7 /\ r.val \in DOMAIN env => HasType(env[r.val], r.type)'
            /\ IsJoin(OpAt(x)) /\ <<x[1], x[2], 0>> \in DOMAIN env => IsTuple(env[<<x[1], x[2], 0>>])'
      <3>1. ASSUME NEW x \in DOMAIN code, NEW r \in Assigns(x), r.type # 7, r.val \in DOMAIN env
            PROVE  HasType(env[r.val], r.type)'
        <4>1. PICK v, type : v = env[r.val] /\ type = r.type
          OBVIOUS
        <4>2. HasType(v, type)
          BY <1>1, <3>1, <4>1 DEF EnvInv
        <4>3. HasType(v, type)'
          BY <2>1, <4>2
        <4> QED
          BY <1>1, <4>1, <4>3 DEF HasType
      <3>2. ASSUME NEW x \in DOMAIN code, IsJoin(OpAt(x)), <<x[1], x[2], 0>> \in DOMAIN env
            PROVE  IsTuple(env[<<x[1], x[2], 0>>])'
        <4>1. PICK t : t = env[<<x[1], x[2], 0>>]
          OBVIOUS
        <4>2. IsTuple(t)
          BY <1>1, <3>2, <4>1 DEF EnvInv
        <4>3. IsTuple(t)'
          BY <2>1, <4>2
        <4> QED
          BY <1>1, <4>1, <4>3 DEF IsTuple
      <3> QED
        BY <3>1, <3>2
    <2>3. phase' = "run" =>
            /\ \A r \in Available(<<q[1], q[2]>>) : r.type # 7 => r.val \in DOMAIN env
            /\ \A k \in JoinsOf(q[1]) : ~(k < q[2] \/ (k = q[2] /\ q[3] \in {"rships", "ret"}))
      BY <1>4
    <2> QED
      BY <1>1, <1>2, <1>3, <2>2, <2>3 DEF EnvInv
  <1>6. FrameInv'
    <2> SUFFICES ASSUME phase' = "run" PROVE FrameInv'
      BY DEF FrameInv
    <2>1. \A j \in JoinsOf(q[1]) : ~(j < q[2] \/ (j = q[2] /\ q[3] # "entry"))
      BY <1>4
    <2>2. \A j : Inside(j)' = (j < q[2] \/ (j = q[2] /\ q[3] # "entry"))
      BY DEF Inside
    <2>3. ~(q[2] > 1 \/ q[3] = "next") /\ q[3] # "cond"
      BY <1>4
    <2> QED
      BY <1>2, <2>1, <2>2, <2>3 DEF FrameInv
  <1>7. phase' = "run" => <<q[1], q[2]>> \in DOMAIN code' /\ q[3] \in BlockNames
    BY <1>1, <1>4
  <1> QED
    BY <1>5, <1>6, <1>7, OutsideTyped

\* A call begins with what an earlier one has left.
LEMMA CallTyped ==
  ASSUME TypeInv, IInv', phase \in {"idle", "interpret"}, NEW rs, CallStart(rs),
         status' \in {"ok", "crashed"}, calls' \in Nat
  PROVE  TypeOK'
  <1>1. /\ phase' = "run" /\ pc' = <<Head(cv.entry), 1, "entry">>
        /\ base' = <<Len(graph.node), Len(graph.rship)>>
        /\ UNCHANGED <<static, graph, fr, env, rhs_input_, fev, descs>>
    BY Zenon DEF CallStart
  <1>2. IInv /\ Settled /\ Compiled /\ IsGraph(graph) /\ TypeOK
    BY DEF TypeInv, TypeOK, Settled, Compiled
  <1>3. /\ Len(graph.node) \in Nat /\ Len(graph.rship) \in Nat
        /\ DOMAIN graph.node = 1..Len(graph.node) /\ RshipId = 1..Len(graph.rship)
    BY <1>2, GraphFacts
  <1>4. base'[1] \in 0..Len(graph.node) /\ base'[2] \in 0..Len(graph.rship)
    BY <1>1, <1>3
  <1>5. Head(cv.entry) \in Entered
    <2>1. CodegenType /\ plan \in Plans
      BY <1>2 DEF IInv, CodegenInv, OrderInv
    <2>2. 1 \in Entered
      BY <1>2, <2>1, PlanFacts, AllEntered
    <2>3. cv.entry # <<>> /\ cv.entry \in Seq(Nat)
      BY <2>1, <2>2 DEF CodegenType, Entered, Range
    <2> QED
      BY <2>3 DEF Entered, Range
  <1>6. PICK p : p = Head(cv.entry)
    OBVIOUS
  <1>7. <<p, 1>> \in DOMAIN code /\ p \in DOMAIN plan
    <2>1. <<p, 1>> \in DOMAIN code
      BY <1>2, <1>5, <1>6 DEF IInv, CodegenInv, FlowInv
    <2>2. <<p, 1>>[1] \in DOMAIN plan
      BY <1>2, <2>1, Linked
    <2> QED
      BY <2>1, <2>2
  <1>8. PICK q : q = pc'
    OBVIOUS
  <1>9. q = <<p, 1, "entry">>
    BY <1>1, <1>6, <1>8
  <1>10. IsGraph(graph)' /\ Len(graph.node)' = Len(graph.node) /\ Len(graph.rship)' = Len(graph.rship)
    BY <1>1, <1>2 DEF IsGraph
  <1> QED
    BY <1>1, <1>2, <1>4, <1>7, <1>8, <1>9, <1>10, BetweenTyped

\* A client's update.
LEMMA UpdateKeepsGraph ==
  ASSUME IsGraph(graph), NEW n, NEW value, n \in DOMAIN graph.node,
         graph' = [graph EXCEPT !.node[n].value = value]
  PROVE  IsGraph(graph)' /\ Len(graph.node)' = Len(graph.node) /\ Len(graph.rship)' = Len(graph.rship)
  <1>1. /\ IsSequence(graph.node) /\ IsSequence(graph.rship)
        /\ graph = [node |-> graph.node, rship |-> graph.rship]
        /\ \A r \in DOMAIN graph.rship :
             {graph.rship[r].src, graph.rship[r].dst} \subseteq DOMAIN graph.node
    BY DEF IsGraph
  <1>2. PICK s, g : s = graph'.node /\ g = graph'
    OBVIOUS
  <1>3. s = [graph.node EXCEPT ![n].value = value] /\ g = [node |-> s, rship |-> graph.rship]
    BY <1>1, <1>2
  <1>4. Len(graph.node) \in Nat /\ DOMAIN graph.node = 1..Len(graph.node)
    BY <1>1 DEF IsSequence
  <1>5. DOMAIN s = 1..Len(graph.node) /\ s = [i \in 1..Len(graph.node) |-> s[i]]
    BY <1>3, <1>4
  <1>6. s \in [1..Len(graph.node) -> Range(s)]
    BY <1>5 DEF Range
  <1>7. s \in Seq(Range(s)) /\ Len(s) = Len(graph.node)
    BY <1>4, <1>5, <1>6
  <1>8. IsSequence(s)
    BY <1>7, SeqAny
  <1>9. g.node = s /\ g.rship = graph.rship
    BY <1>3
  <1>10. IsGraph(g)
    BY <1>1, <1>3, <1>4, <1>5, <1>8, <1>9 DEF IsGraph
  <1> QED
    BY <1>2, <1>7, <1>9, <1>10

\* Every step of the system keeps the types.
LEMMA TypeStep ==
  ASSUME TypeInv, IInv', [InterpreterNext]_allVars
  PROVE  TypeOK'
  <1>t. /\ TypeOK /\ IsGraph(graph) /\ calls \in Nat /\ status \in {"ok", "crashed"}
        /\ phase # "run" => pc = Null
        /\ base[1] \in 0..Len(graph.node) /\ base[2] \in 0..Len(graph.rship)
        /\ phase \in {"codegen", "walk", "aborted", "idle", "run", "interpret"}
    BY DEF TypeInv, TypeOK
  \* Steps that leave everything but a few variables alone, between the calls.
  <1>b. ASSUME phase \in {"idle", "interpret"}, phase' \in {"idle", "interpret"},
               UNCHANGED <<static, pc, fr, env, fev, descs, base>>,
               IsGraph(graph)', Len(graph.node)' = Len(graph.node),
               Len(graph.rship)' = Len(graph.rship), rhs_input_' \in {rhs_input_, NoTuples},
               status' \in {"ok", "crashed"}, calls' \in Nat
        PROVE  TypeOK'
    <2>1. PICK q : q = pc'
      OBVIOUS
    <2>2. /\ phase' # "run" /\ q = Null /\ phase' \in {"idle", "run", "interpret"}
          /\ base'[1] \in 0..Len(graph.node) /\ base'[2] \in 0..Len(graph.rship)
      BY <1>t, <1>b, <2>1
    <2> QED
      BY <1>t, <1>b, <2>1, <2>2, BetweenTyped
  <1>g. graph' = graph => /\ IsGraph(graph)' /\ Len(graph.node)' = Len(graph.node)
                          /\ Len(graph.rship)' = Len(graph.rship)
    BY <1>t DEF IsGraph
  <1>1. CASE Compile /\ UNCHANGED runtime
    <2>1. phase \in {"codegen", "walk"} /\ phase' \in {"codegen", "walk", "aborted", "idle"}
      <3>1. CASE Visit
        <4>1. Advances \/ Joins \/ Leaves \/ Aborts
          BY <3>1, VisitKinds DEF TypeInv, IInv, CodegenInv, OrderInv
        <4> QED
          BY <4>1 DEF Advances, Joins, Leaves, Aborts, Ascend
      <3>2. CASE WalkStep \/ WalkEnd
        BY <3>2 DEF WalkStep, WalkEnd
      <3> QED
        BY <1>1, <3>1, <3>2 DEF Compile
    <2>2. UNCHANGED <<graph, status, calls, pc, fr, env, rhs_input_, fev, descs, base>>
      BY <1>1 DEF runtime
    <2>3. env' = <<>>
      BY <1>t, <2>1, <2>2 DEF TypeOK, EnvInv
    <2>4. EnvInv' /\ FrameInv'
      <3>1. DOMAIN env' = {}
        BY <2>3
      <3> QED
        BY <2>1, <2>3, <3>1 DEF EnvInv, FrameInv
    <2>5. PICK q : q = pc'
      OBVIOUS
    <2>6. /\ q = Null /\ phase' # "run"
          /\ phase' \in {"codegen", "walk", "aborted", "idle", "run", "interpret"}
          /\ base'[1] \in 0..Len(graph.node) /\ base'[2] \in 0..Len(graph.rship)
          /\ status' \in {"ok", "crashed"} /\ calls' \in Nat
      BY <1>t, <2>1, <2>2, <2>5
    <2> QED
      BY <1>t, <1>g, <2>2, <2>4, <2>5, <2>6, OutsideTyped
  <1>2. CASE Start
    <2>1. CallStart(<<>>) /\ phase = "idle" /\ calls' = calls + 1 /\ status' = status
      BY <1>2, Zenon DEF Start
    <2>2. calls' \in Nat /\ status' \in {"ok", "crashed"}
      BY <1>t, <2>1
    <2> QED
      BY <2>1, <2>2, CallTyped
  <1>3. CASE ClearRhs \/ Interpret \/ RunInterpreted
    <2>1. /\ phase \in {"idle", "interpret"} /\ phase' \in {"idle", "interpret"}
          /\ UNCHANGED <<static, pc, fr, env, fev, descs, base, graph, status>>
          /\ rhs_input_' \in {rhs_input_, NoTuples} /\ calls' \in {calls, calls + 1, 1}
      BY <1>3 DEF ClearRhs, Interpret, RunInterpreted, compiledCode
    <2> QED
      BY <1>b, <1>g, <1>t, <2>1
  <1>4. CASE SetProperty
    <2>1. /\ phase = "idle" /\ phase' = "idle"
          /\ UNCHANGED <<static, pc, fr, env, fev, descs, base, rhs_input_, status, calls>>
      BY <1>4 DEF SetProperty
    <2>2. PICK u \in Updates : u[1] \in DOMAIN graph.node
                               /\ graph' = [graph EXCEPT !.node[u[1]].value = u[2]]
      BY <1>4 DEF SetProperty
    <2>3. PICK n, value : n = u[1] /\ value = u[2]
      OBVIOUS
    <2>4. n \in DOMAIN graph.node /\ graph' = [graph EXCEPT !.node[n].value = value]
      BY <2>2, <2>3
    <2>5. IsGraph(graph)' /\ Len(graph.node)' = Len(graph.node) /\ Len(graph.rship)' = Len(graph.rship)
      BY <1>t, <2>4, UpdateKeepsGraph
    <2> QED
      BY <1>b, <1>t, <2>1, <2>5
  <1>5. CASE Execute
    BY <1>5, ExecuteTyped
  <1>6. CASE InterpretStep
    <2>s. phase = "interpret" /\ status' \in {"ok", "crashed"} /\ calls' = calls
      <3>1. InterpretWithoutQuery \/ InterpretJoin \/ InterpretCreate =>
              phase = "interpret" /\ status' \in {"ok", "crashed"} /\ calls' = calls
        BY DEF InterpretWithoutQuery, InterpretJoin, InterpretCreate, Interpreting, Quiet
      <3>2. InterpretScan \/ InterpretTraversal \/ InterpretProject \/ InterpretSortOrLimit
              \/ InterpretCollect =>
              phase = "interpret" /\ status' \in {"ok", "crashed"} /\ calls' = calls
        BY DEF InterpretScan, InterpretTraversal, InterpretProject, InterpretSortOrLimit,
               InterpretCollect, Extending, Interpreting, Quiet
      <3>3. InterpretFilter => phase = "interpret" /\ (status' = "crashed" \/ status' = status)
                               /\ status = "ok" /\ calls' = calls
        BY Zenon DEF InterpretFilter, Extending, Interpreting, Quiet
      <3>4. InterpretStart => phase = "interpret" /\ (status' = "crashed" \/ status' = status)
                              /\ status = "ok" /\ calls' = calls
        BY Zenon DEF InterpretStart, StartThen
      <3> QED
        BY <1>6, <3>1, <3>2, <3>3, <3>4 DEF InterpretStep
    <2>1. ASSUME UNCHANGED compiledCode, phase' \in {"idle", "interpret"} PROVE TypeOK'
      <3>1. UNCHANGED <<static, pc, fr, env, fev, descs, base, graph, rhs_input_>>
        BY <2>1 DEF compiledCode
      <3> QED
        BY <1>b, <1>g, <1>t, <2>1, <2>s, <3>1
    <2>2. CASE InterpretStart
      <3>1. CallStart(Delivered) \/ (UNCHANGED compiledCode /\ phase' \in {phase, "idle"})
        BY <2>2, Zenon DEF InterpretStart, StartThen
      <3>2. CASE CallStart(Delivered)
        BY <1>t, <2>s, <3>2, CallTyped
      <3> QED
        BY <2>1, <2>s, <3>1, <3>2
    <2>3. CASE ~InterpretStart
      <3>1. Quiet
        BY <1>6, <2>3, Zenon DEF InterpretStep, InterpretWithoutQuery, InterpretJoin,
           InterpretCreate, InterpretScan, InterpretTraversal, InterpretFilter, InterpretProject,
           InterpretSortOrLimit, InterpretCollect
      <3> QED
        BY <2>1, <2>s, <3>1 DEF Quiet
    <2> QED
      BY <2>2, <2>3
  <1>7. CASE UNCHANGED allVars
    <2>1. /\ UNCHANGED <<graph, status, calls, pc, fr, env, rhs_input_, fev, descs, base, phase>>
          /\ plan' = plan /\ code' = code
      BY <1>7 DEF allVars, vars, codegenVars
    <2>2. /\ \A y : OpAt(y)' = OpAt(y) /\ Assigns(y)' = Assigns(y) /\ Available(y)' = Available(y)
          /\ \A p : JoinsOf(p)' = JoinsOf(p)
          /\ Here' = Here /\ Op' = Op /\ \A j : Inside(j)' = Inside(j)
          /\ \A j : RhsInput(j)' = RhsInput(j)
          /\ \A v, type : HasType(v, type)' = HasType(v, type)
          /\ \A t : IsTuple(t)' = IsTuple(t)
      BY <2>1 DEF OpAt, Assigns, Available, JoinsOf, Here, Op, Inside, RhsInput, HasType, IsTuple,
                  IsValue, NodeValues, RshipValues, RshipId
    <2>3. EnvInv'
      <3>1. EnvInv
        BY <1>t DEF TypeOK
      <3> QED
        BY <2>1, <2>2, <3>1 DEF EnvInv
    <2>4. FrameInv'
      <3>1. FrameInv
        BY <1>t DEF TypeOK
      <3> QED
        BY <2>1, <2>2, <3>1 DEF FrameInv
    <2>5. PICK q : q = pc'
      OBVIOUS
    <2>6. /\ phase' = "run" => <<q[1], q[2]>> \in DOMAIN code' /\ q[3] \in BlockNames
          /\ phase' # "run" => q = Null
      BY <1>t, <2>1, <2>5 DEF TypeOK, BlockNames
    <2>7. /\ base'[1] \in 0..Len(graph.node) /\ base'[2] \in 0..Len(graph.rship)
          /\ phase' \in {"codegen", "walk", "aborted", "idle", "run", "interpret"}
          /\ status' \in {"ok", "crashed"} /\ calls' \in Nat
      BY <1>t, <2>1
    <2> QED
      BY <1>g, <1>t, <2>1, <2>3, <2>4, <2>5, <2>6, <2>7, OutsideTyped
  <1> QED
    BY <1>1, <1>2, <1>3, <1>4, <1>5, <1>6, <1>7 DEF InterpreterNext, CompileOrCall

\* They hold before the compilation.
LEMMA TypeInit == InterpreterInit => TypeOK
  <1> SUFFICES ASSUME InterpreterInit PROVE TypeOK
    OBVIOUS
  <1>1. /\ phase = "codegen" /\ code = <<>> /\ graph \in Graphs /\ status = "ok" /\ calls = 0
        /\ pc = Null /\ fr = NoFrame /\ env = <<>> /\ rhs_input_ = <<>>
        /\ fev = [list |-> <<>>, iter |-> 1] /\ descs = <<>> /\ base = <<0, 0>>
    BY DEF InterpreterInit, Init, CodegenInit, NoTuples
  <1>2. IInv
    BY InitInv DEF InterpreterInit, Init
  <1>3. plan \in Plans /\ at \in Positions /\ op_id \in Nat /\ DOMAIN code \subseteq Positions
    BY <1>2 DEF IInv, CodegenInv, CodegenType, OrderInv, FlowInv
  <1>4. IsGraph(graph)
    BY <1>1, GraphsAssumption
  <1>5. Len(graph.node) \in Nat /\ Len(graph.rship) \in Nat
    BY <1>4, GraphFacts
  <1>6. DOMAIN env = {} /\ DOMAIN rhs_input_ = {} /\ DOMAIN descs = {} /\ DOMAIN code = {}
    BY <1>1
  <1>7. IsSequence(fev.list) /\ Range(fev.list) \subseteq RshipId
    <2>1. <<>> \in Seq(RshipId)
      OBVIOUS
    <2>2. PICK s : s = <<>>
      OBVIOUS
    <2>3. IsSequence(s) /\ Range(s) \subseteq RshipId
      BY <2>1, <2>2, SeqAny
    <2> QED
      BY <1>1, <2>2, <2>3
  <1>8. fr \in [it : 1..(Len(graph.node) + 1), lhs : RshipId \cup {0, Unknown}, cur_idx : Nat,
                max_idx : Nat, dangling : {0, 1}, res_counter : Nat]
    BY <1>1, <1>5 DEF NoFrame
  <1>9. EnvInv /\ FrameInv
    BY <1>1, <1>6 DEF EnvInv, FrameInv
  <1>10. base[1] \in 0..Len(graph.node) /\ base[2] \in 0..Len(graph.rship)
    BY <1>1, <1>5
  <1> QED
    BY <1>1, <1>3, <1>4, <1>6, <1>7, <1>8, <1>9, <1>10 DEF TypeOK

\* Every register holds a value of the type that its visitor gave it, a call has assigned
\* the registers that the code it executes reads, the shared allocas are within the
\* bounds that the loops rely on, and relationships connect nodes that there are: for
\* plans of any shape, any graph and any sequence of calls, interpretations and updates.
THEOREM Typing == InterpreterSpec => []TypeOK
  <1>1. InterpreterInit => TypeOK
    BY TypeInit
  <1>2. (IInv /\ PcInv /\ LeavesListEmpty) /\ IInv' /\ TypeOK /\ [InterpreterNext]_allVars => TypeOK'
    BY TypeStep DEF TypeInv
  <1> QED
    BY <1>1, <1>2, ListInvariance, PTL DEF InterpreterSpec

-----------------------------------------------------------------------------
(***************************************************************************)
(* Why a call that finds its arguments does not crash.                     *)
(***************************************************************************)
\* Which plans are supported depends on the plan alone.
LEMMA SupportedSame ==
  ASSUME plan' = plan
  PROVE  Supported' = Supported /\ \A type : Creates(type)' = Creates(type)
  <1>1. /\ Positions' = Positions /\ \A x : OpAt(x)' = OpAt(x) /\ FoundTypes(x)' = FoundTypes(x)
        /\ \A p, k : FoundTypes(<<p, k>>)' = FoundTypes(<<p, k>>)
        /\ \A type : Creates(type)' = Creates(type)
        /\ \A p : /\ JoinsOf(p)' = JoinsOf(p) /\ Projects(p)' = Projects(p)
                  /\ Variable(p)' = Variable(p)
    BY DEF Positions, OpAt, FoundTypes, Creates, JoinsOf, Projects, Variable
  <1> QED
    BY <1>1 DEF Supported, OneJoinEach

\* What such a plan creates without creating relationships.
LEMMA OnlyNodes ==
  ASSUME plan \in Plans, Supported, Creates("rship") = {}, NEW x \in Positions,
         OpAt(x).type = "create"
  PROVE  OpAt(x).dir = "node" /\ x[1] = 1
  <1>1. OpAt(x).dir \in {"node", "rship"}
    <2>1. x[1] \in DOMAIN plan /\ x[2] \in DOMAIN plan[x[1]]
      BY PositionFacts
    <2> QED
      BY <2>1, PlansAssumption DEF IsPlan, OpAt
  <1>2. x \in Creates(OpAt(x).dir)
    BY DEF Creates
  <1>3. x \in Creates("node")
    BY <1>1, <1>2
  <1> QED
    BY <1>1, <1>2, <1>3 DEF Supported

\* Such a plan projects what the functions of the runtime write.
LEMMA SupportedStores ==
  ASSUME plan \in Plans, Supported, NEW x \in Positions, OpAt(x).type = "project",
         NEW i \in DOMAIN OpAt(x).prexpr, OpAt(x).prexpr[i].key # Keep
  PROVE  /\ i \in PvEntries /\ OpAt(x).prexpr[i].type # "double"
         /\ Stores(OpAt(x).prexpr[i], FoundTypes(x)[OpAt(x).prexpr[i].id + 1])
  <1>1. /\ x = <<x[1], x[2]>> /\ x[1] \in DOMAIN plan /\ x[2] \in DOMAIN plan[x[1]]
        /\ OpAt(x) = plan[x[1]][x[2]]
    BY PositionFacts DEF OpAt
  <1>2. x[2] \in Projects(x[1])
    BY <1>1 DEF Projects
  <1>3. \A k \in Projects(x[1]) : \A j \in DOMAIN plan[x[1]][k].prexpr :
          LET e == plan[x[1]][k].prexpr[j]
          IN e.key # Keep => j \in PvEntries /\ Stores(e, FoundTypes(<<x[1], k>>)[e.id + 1])
    BY <1>1 DEF Supported
  <1>4. i \in PvEntries /\ Stores(OpAt(x).prexpr[i], FoundTypes(x)[OpAt(x).prexpr[i].id + 1])
    BY <1>1, <1>2, <1>3
  <1> QED
    BY <1>4 DEF Stores

\* It is compiled.
LEMMA Compiles ==
  ASSUME IInv, Compile, Supported, Creates("rship") = {}
  PROVE  phase' # "aborted"
  <1>1. /\ plan \in Plans /\ at \in Positions /\ at = <<at[1], at[2]>> /\ at[1] \in DOMAIN plan
        /\ at[1] \in Nat /\ at[2] \in Nat /\ at[2] >= 1 /\ at[2] \in DOMAIN plan[at[1]]
        /\ at[2] = 1 => OpAt(at) = plan[at[1]][1]
        /\ plan[at[1]][1].type \in {"scan", "create"}
    BY PositionFacts, PlanFacts DEF IInv, CodegenInv, OrderInv, OpAt
  <1>2. \A x \in Positions : OpAt(x).type = "create" => OpAt(x).dir = "node" /\ x[1] = 1
    BY <1>1, OnlyNodes
  <1>3. phase = "codegen" /\ at[2] = 1 /\ OpAt(at).type = "create" => cv.entry = <<>>
    BY <1>1, <1>2 DEF IInv, CodegenInv, NamesInv
  <1>4. phase = "codegen" => Finds
    <2>1. CASE at[2] > 1
      BY <1>1, <2>1 DEF Finds, Supported, IInv, CodegenInv, TypesInv
    <2>2. CASE at[2] = 1
      <3>1. OpAt(at).type \in {"scan", "create"}
        BY <1>1, <2>2
      <3> QED
        BY <1>1, <1>2, <3>1 DEF Finds, Usable
    <2> QED
      BY <1>1, <2>1, <2>2
  \* A pipeline with a limit or a projection begins with a scan.
  <1>5. ASSUME OpAt(at).type \in {"limit", "project"}, phase = "codegen"
        PROVE  /\ cv.scan_nodes_end # Null
               /\ DOMAIN OpAt(at).prexpr \subseteq DOMAIN cv.project_string
    <2>1. at[2] > 1
      <3>1. at[2] # 1
        BY <1>1, <1>5
      <3> QED
        BY <1>1, <3>1
    <2>2. plan[at[1]][1].type = "scan"
      <3> SUFFICES ASSUME plan[at[1]][1].type = "create" PROVE FALSE
        BY <1>1
      <3>1. <<at[1], 1>> \in Positions /\ OpAt(<<at[1], 1>>).type = "create"
        <4>1. 1 \in DOMAIN plan[at[1]]
          BY <1>1, PlanFacts
        <4> QED
          BY <1>1, <4>1, PositionFacts DEF OpAt
      <3>2. at[1] = 1
        BY <1>2, <3>1
      <3> QED
        BY <1>1, <1>5, <3>2 DEF Supported, OpAt
    <2>3. OpAt(at) \in Range(plan[at[1]])
      BY <1>1 DEF OpAt, Range
    <2> QED
      BY <1>5, <2>1, <2>2, <2>3 DEF IInv, CodegenInv, NamesInv
  <1>6. CASE Visit
    <2>1. CASE VisitUnusable
      BY <1>4, <2>1 DEF VisitUnusable
    <2>2. VisitScan \/ VisitForeach \/ VisitExpand => phase = "codegen" /\ phase' = phase
      BY DEF VisitScan, VisitScanEntry, VisitForeach, VisitExpand, Visiting, Descend
    <2>3. CASE VisitFilter
      <3>1. PICK e : e = OpAt(at).fexpr
        OBVIOUS
      <3>2. phase = "codegen" /\ OpAt(at).type = "filter"
        BY <2>3 DEF VisitFilter, Visiting
      <3>3. Tests(e)
        BY <1>1, <3>1, <3>2 DEF Supported, OpAt
      <3>4. Tested(e) = at
        BY <3>3 DEF Tests, Tested
      <3>5. at # Null
        <4>1. at \in Nat \X Nat
          BY <1>1
        <4> QED
          BY <4>1, NullAssumption
      <3>6. Descend(1)
        BY <2>3, <3>1, <3>4, <3>5 DEF VisitFilter
      <3> QED
        BY <3>2, <3>6 DEF Descend
    <2>4. CASE VisitProject
      <3>1. OpAt(at).type = "project" /\ phase = "codegen"
        BY <2>4 DEF VisitProject, Visiting
      <3>2. DOMAIN OpAt(at).prexpr \subseteq DOMAIN cv.project_string
        BY <1>5, <3>1
      <3>4. \A i \in DOMAIN OpAt(at).prexpr :
              OpAt(at).prexpr[i].key = Keep \/ i \in PvEntries \cap DOMAIN cv.project_string
        BY <1>1, <3>1, <3>2, SupportedStores
      <3>3. Descend(0)
        BY <2>4, <3>4, Zenon DEF VisitProject
      <3> QED
        BY <3>1, <3>3 DEF Descend
    <2>5. VisitJoin => phase = "codegen" /\ phase' = phase
      BY DEF VisitJoin, VisitJoinQueueing, Descend
    <2>6. VisitSort => phase = "codegen" /\ phase' = phase
      BY DEF VisitSort, Visiting, Descend
    <2>7. CASE VisitLimit
      <3>1. OpAt(at).type = "limit" /\ phase = "codegen"
        BY <2>7 DEF VisitLimit, Visiting
      <3>2. Descend(1)
        BY <1>5, <2>7, <3>1 DEF VisitLimit
      <3> QED
        BY <3>1, <3>2 DEF Descend
    <2>8. CASE VisitCreate
      <3>1. OpAt(at).type = "create" /\ phase = "codegen"
        BY <2>8 DEF VisitCreate, Visiting
      <3>2. cv.entry = <<>> \/ at[2] > 1
        BY <1>1, <1>3, <3>1
      <3>3. Descend(2)
        BY <2>8, <3>2, Zenon DEF VisitCreate
      <3> QED
        BY <3>1, <3>3 DEF Descend
    <2>9. VisitCollect \/ VisitEnd => phase = "codegen" /\ phase' \in {phase, "walk"}
      BY DEF VisitCollect, VisitEnd, Visiting, Ascend
    <2> QED
      BY <1>6, <2>1, <2>2, <2>3, <2>4, <2>5, <2>6, <2>7, <2>8, <2>9 DEF Visit
  <1>7. CASE WalkStep
    BY <1>7 DEF WalkStep
  <1>8. CASE WalkEnd
    <2>1. \A x \in Positions : Calls(OpAt(x)) \subseteq Registered
      <3> SUFFICES ASSUME NEW x \in Positions PROVE Calls(OpAt(x)) \subseteq Registered
        OBVIOUS
      <3>1. OpAt(x).type = "create" => OpAt(x).dir = "node"
        BY <1>2
      <3> QED
        BY <3>1 DEF Calls, Registered, IsJoin
    <2>2. UNION {Calls(OpAt(x)) : x \in Positions} \subseteq Registered
      BY <2>1
    <2>3. Unresolved = {}
      BY <2>2 DEF Unresolved
    <2> QED
      BY <1>8, <2>3 DEF WalkEnd
  <1> QED
    BY <1>6, <1>7, <1>8 DEF Compile

\* What OpTypes and TypesAfter have in common.
LEMMA PlainAfter ==
  ASSUME NEW op, NEW found, NEW types, op.type \notin {"scan", "project", "create", "left_join"}
  PROVE  TypesAfter(op, found, types) = found \o OpTypes(op, types)
  BY DEF TypesAfter

\* The registers at the End of a right-hand side have the types that its join gives those
\* that it reads from the tuples.
LEMMA PlainTypes ==
  ASSUME plan \in Plans, Supported, NEW q \in DOMAIN plan, q > 1
  PROVE  FoundTypes(LeafOf(q)) = RhsTypes(plan)[q]
  <1> DEFINE types == RhsTypes(plan)
             seqs == [k \in DOMAIN plan[q] |-> OpTypes(plan[q][k], types)]
             n == Len(plan[q])
             B == TypesBelow(plan, q)
  <1>1. /\ n \in Nat /\ n >= 1 /\ DOMAIN plan[q] = 1..n /\ q \in Nat /\ q # 1
        /\ plan[q][1].type \in {"scan", "create"} /\ plan[q][n].type = "none"
    BY PlanFacts
  <1>2. \A k \in 1..n : /\ plan[q][k].type \notin {"project", "create", "left_join"}
                        /\ plan[q][k].type = "scan" => k = 1
    <2> SUFFICES ASSUME NEW k \in 1..n
                 PROVE  /\ plan[q][k].type \notin {"project", "create", "left_join"}
                        /\ plan[q][k].type = "scan" => k = 1
      OBVIOUS
    <2>1. <<q, k>> \in Positions /\ OpAt(<<q, k>>) = plan[q][k]
      BY <1>1, PositionFacts DEF OpAt
    <2>2. plan[q][k].type = "scan" => k = 1
      BY <2>1, PlanFacts
    <2>3. Projects(q) = {} /\ plan[q][k].type # "left_join"
      BY <1>1 DEF Supported
    <2>4. plan[q][k].type # "project"
      BY <1>1, <2>3 DEF Projects
    <2>5. ASSUME plan[q][k].type = "create" PROVE FALSE
      <3>1. plan[q][k].dir \in {"node", "rship"}
        BY <1>1, <2>5, PlansAssumption DEF IsPlan
      <3>2. <<q, k>> \in Creates("node") \cup Creates("rship")
        BY <2>1, <2>5, <3>1 DEF Creates
      <3>3. <<q, k>>[1] = 1
        BY <2>1, <3>2 DEF Supported
      <3> QED
        BY <1>1, <3>3
    <2> QED
      BY <2>2, <2>3, <2>4, <2>5
  <1>3. /\ B[0] = <<>>
        /\ \A k \in 1..n : B[k] = TypesAfter(plan[q][k], B[k - 1], types)
    BY BelowIs
  <1>4. types[q] = FlattenSeq(seqs)
    BY RhsTypesIs DEF TypesEq
  <1>5. \A k \in 1..n : seqs[k] = OpTypes(plan[q][k], types) /\ IsSequence(seqs[k])
    <2> SUFFICES ASSUME NEW k \in 1..n PROVE IsSequence(OpTypes(plan[q][k], types))
      BY <1>1
    <2>1. CASE IsJoin(plan[q][k])
      <3>1. plan[q][k].rhs \in DOMAIN plan
        BY <1>1, <2>1, PlansAssumption DEF IsPlan
      <3>2. types[plan[q][k].rhs] \in Seq({0, 1})
        BY <3>1, RhsTypesType
      <3> HIDE DEF types
      <3>3. IsSequence(types[plan[q][k].rhs])
        BY <3>2, SeqAny
      <3> QED
        BY <2>1, <3>3 DEF OpTypes, IsJoin
    <2>2. CASE ~IsJoin(plan[q][k])
      <3>1. IsSequence(<<0>>) /\ IsSequence(<<1>>) /\ IsSequence(<<>>)
        BY DEF IsSequence
      <3> QED
        BY <2>2, <3>1 DEF OpTypes
    <2> QED
      BY <2>1, <2>2
  <1>6. IsSequence(seqs) /\ Len(seqs) = n
    <2> HIDE DEF types
    <2> QED
      BY <1>1 DEF IsSequence
  <1> HIDE DEF seqs
  <1>7. PICK c : /\ c[1] = seqs[1]
                 /\ \A i \in 1..n : i # 1 => c[i] = c[i - 1] \o seqs[i]
                 /\ FlattenSeq(seqs) = c[n]
    <2>1. Len(seqs) # 0
      BY <1>1, <1>6
    <2>2. \E c : Flattens(c, seqs)
      BY <1>6, <2>1, FlattenIs
    <2> QED
      BY <1>6, <2>2 DEF Flattens
  <1> HIDE DEF types, B, n
  \* Step by step.
  <1> DEFINE T == {m \in Nat : m < n => B[m + 1] = c[m + 1] /\ IsSequence(c[m + 1])}
  <1>8. 0 \in T
    <2>1. plan[q][1].type = "scan" /\ 1 \in 1..n
      BY <1>1, <1>2
    <2>2. B[1] = TypesAfter(plan[q][1], B[0], types)
      BY <1>3, <2>1
    <2>3. B[1] = <<0>> /\ seqs[1] = <<0>>
      <3>1. B[1] = <<0>>
        BY <2>1, <2>2 DEF TypesAfter
      <3>2. OpTypes(plan[q][1], types) = <<0>>
        BY <2>1 DEF OpTypes, IsJoin
      <3> QED
        BY <1>5, <2>1, <3>1, <3>2
    <2>4. IsSequence(c[1]) /\ B[1] = c[1]
      BY <1>5, <1>7, <2>1, <2>3
    <2> QED
      BY <2>4
  <1>9. ASSUME NEW m \in Nat, m \in T PROVE m + 1 \in T
    <2> SUFFICES ASSUME m + 1 < n PROVE B[m + 2] = c[m + 2] /\ IsSequence(c[m + 2])
      OBVIOUS
    <2>1. m + 2 \in 1..n /\ m + 2 # 1 /\ m + 2 - 1 = m + 1 /\ m < n
      BY <1>1
    <2>2. B[m + 1] = c[m + 1] /\ IsSequence(c[m + 1])
      BY <1>9, <2>1
    <2>3. PICK k : k = m + 2 /\ k \in 1..n /\ k # 1 /\ k - 1 = m + 1
      BY <2>1
    <2>4. B[k] = TypesAfter(plan[q][k], c[m + 1], types)
      BY <1>3, <2>1, <2>2, <2>3
    <2>5. B[k] = c[m + 1] \o OpTypes(plan[q][k], types)
      BY <1>2, <2>1, <2>3, <2>4, PlainAfter
    <2>6. c[k] = c[m + 1] \o seqs[k]
      BY <1>7, <2>3
    <2>7. IsSequence(c[m + 1] \o seqs[k])
      BY <1>5, <2>1, <2>2, <2>3, ConcatAny
    <2> QED
      BY <1>5, <2>1, <2>3, <2>5, <2>6, <2>7
  <1>10. \A m \in Nat : m \in T
    <2> HIDE DEF T
    <2> QED
      BY <1>8, <1>9, SetInduction
  <1>11. n - 1 \in 1..n /\ n - 2 \in Nat /\ n - 2 + 1 = n - 1 /\ n \in 1..n /\ n # 1
    BY <1>1
  <1>12. B[n - 1] = c[n - 1] /\ IsSequence(c[n - 1])
    BY <1>10, <1>11
  <1>13. seqs[n] = <<>>
    BY <1>1, <1>5, <1>11 DEF OpTypes, IsJoin
  <1>14. c[n] = c[n - 1]
    <2>1. c[n] = c[n - 1] \o <<>>
      BY <1>7, <1>11, <1>13
    <2> QED
      BY <1>12, <2>1, ConcatEmpty
  <1>15. FoundTypes(LeafOf(q)) = B[n - 1]
    BY DEF FoundTypes, LeafOf, B, n
  <1> QED
    BY <1>4, <1>7, <1>12, <1>14, <1>15 DEF types

FitsTypes(t, types) ==
  \A i \in DOMAIN types : i \in DOMAIN t /\ t[i][1] = IF types[i] = 0 THEN "node" ELSE "rship"

\* Until the code is linked, no call has left anything behind.
BeforeCalls ==
  phase \in {"codegen", "walk", "aborted"} => status = "ok" /\ rhs_input_ = NoTuples

CompiledInv == Supported /\ Creates("rship") = {} => phase # "aborted"

\* A call of a plan that the code supports never goes on with a property that is not there.
DescsInv == Supported /\ status = "ok" => \A v \in DOMAIN descs : descs[v] # Null

\* A variable traversal has two blocks; above its head the iterator is in the list.
IteratorInv ==
  /\ phase = "run" /\ Op.variable => pc[3] \in {"entry", "head"}
  /\ Supported /\ phase = "run" /\ InTraversal => fev.iter \in 1..(Len(fev.list) + 1)

\* The tuples of a join, and the one that it is at, have the types of its right-hand side.
TuplesInv ==
  Supported /\ phase \in {"run", "idle", "interpret"} => \A x \in JoinPositions :
    /\ \A i \in DOMAIN RhsInput(code[x].jid) :
         FitsTypes(RhsInput(code[x].jid)[i], RhsTypes(plan)[RhsOf(x)])
    /\ <<x[1], x[2], 0>> \in DOMAIN env =>
         FitsTypes(env[<<x[1], x[2], 0>>], RhsTypes(plan)[RhsOf(x)])

CallInv == BeforeCalls /\ CompiledInv /\ DescsInv /\ IteratorInv /\ TuplesInv

\* What a call leaves alone, and what it leaves alone when it crashes.
LEMMA ExecuteStatus ==
  ASSUME Execute
  PROVE  /\ phase = "run" /\ status = "ok" /\ UNCHANGED <<args, base, clean, calls>>
         /\ status' = "ok" \/ (status' = "crashed" /\ graph' = graph /\ phase' = "run")
  <1> DEFINE G == /\ phase = "run" /\ status = "ok" /\ UNCHANGED <<args, base, clean, calls>>
                  /\ status' = "ok" \/ (status' = "crashed" /\ graph' = graph /\ phase' = "run")
  <1>1. ReadMissingArg => G
    BY DEF ReadMissingArg, Crash, call
  <1>2. EnterScan \/ EnterIndexScan \/ ScanCond \/ ScanNext => G
    BY DEF EnterScan, EnterIndexScan, ScanCond, ScanNext, Entering, In, call
  <1>3. ScanEnd \/ CreateEnd => G
    BY DEF ScanEnd, CreateEnd, In
  <1>4. CreateTupleNode \/ CreateTupleRship => G
    BY DEF CreateTupleNode, CreateTupleRship, CreateRshipFrom, CreateThen, In
  <1>5. EnterForeach \/ ForeachCond \/ ForeachNext \/ EnterVariable \/ VariableHead => G
    BY DEF EnterForeach, ForeachCond, ForeachCondElse, ForeachNext, EnterVariable, VariableHead,
           VariableHeadThen, Entering, In, call
  <1>6. ExpandNode => G
    BY DEF ExpandNode, Entering, In, call
  <1>7. FilterTuple => G
    BY Zenon DEF FilterTuple, Entering, In, call
  <1>8. ProjectTuple => G
    BY Zenon DEF ProjectTuple, Entering, In, call
  <1>9. LimitTuples \/ CollectTuple \/ MaterializeTuple => G
    BY DEF LimitTuples, CollectTuple, MaterializeTuple, Entering, In, call
  <1>c. ASSUME NEW t, Concat(t) PROVE status' = "crashed" \/ UNCHANGED status
    BY <1>c, Zenon DEF Concat
  <1>10. EnterJoin \/ JoinDone => G
    BY DEF EnterJoin, JoinDone, Joining, In, call
  <1>11. ASSUME CrossNext PROVE G
    <2>1. Concat(CurTp) /\ UNCHANGED call /\ phase = "run" /\ status = "ok"
      BY <1>11 DEF CrossNext, In
    <2>2. status' = "crashed" \/ UNCHANGED status
      BY <1>c, <2>1
    <2> QED
      BY <2>1, <2>2 DEF call
  <1>12. OuterBegin => G
    BY Zenon DEF OuterBegin, In, call
  <1>13. ASSUME OuterMatch \/ OuterIncr \/ OuterReturn PROVE G
    <2>1. (Concat(Tp) \/ UNCHANGED status) /\ UNCHANGED call /\ phase = "run" /\ status = "ok"
      BY <1>13 DEF OuterMatch, OuterIncr, OuterReturn, In
    <2>2. status' = "crashed" \/ UNCHANGED status
      BY <1>c, <2>1
    <2> QED
      BY <2>1, <2>2 DEF call
  <1> QED
    BY <1>1, <1>2, <1>3, <1>4, <1>5, <1>6, <1>7, <1>8, <1>9, <1>10, <1>11, <1>12, <1>13 DEF Execute

\* The blocks of a variable traversal.
LEMMA VariableSteps ==
  ASSUME Execute, Op.type = "foreach_rship", Op.variable, pc[3] \in {"entry", "head"}
  PROVE  ReadMissingArg \/ EnterVariable \/ VariableHead
  <1>1. ~(EnterScan \/ EnterIndexScan \/ ScanCond \/ ScanNext \/ ScanEnd \/ CreateEnd)
    BY DEF EnterScan, EnterIndexScan, ScanCond, ScanNext, ScanEnd, CreateEnd, Entering, In
  <1>2. ~(CreateTupleNode \/ CreateTupleRship)
    BY DEF CreateTupleNode, CreateTupleRship, CreateRshipFrom, In
  <1>3. ~(EnterForeach \/ ForeachCond \/ ForeachNext)
    BY DEF EnterForeach, ForeachCond, ForeachCondElse, ForeachNext, Entering, In
  <1>4. ~(ExpandNode \/ FilterTuple \/ ProjectTuple \/ LimitTuples \/ CollectTuple \/ MaterializeTuple)
    BY Zenon DEF ExpandNode, FilterTuple, ProjectTuple, LimitTuples, CollectTuple,
                 MaterializeTuple, Entering, In
  <1>5. ~(EnterJoin \/ JoinDone \/ CrossNext)
    BY DEF EnterJoin, JoinDone, CrossNext, Joining, In
  <1>6. ~(OuterBegin \/ OuterMatch \/ OuterIncr \/ OuterReturn)
    BY Zenon DEF OuterBegin, OuterMatch, OuterIncr, OuterReturn, In
  <1> QED
    BY <1>1, <1>2, <1>3, <1>4, <1>5, <1>6 DEF Execute

\* A step of a call keeps the iterator in the list while it is above the traversal: only
\* the traversal itself moves it.
LEMMA ExecuteKeepsIterator ==
  ASSUME IInv, PcInv, TypeOK, IteratorInv, Execute
  PROVE  IteratorInv'
  <1>1. /\ UNCHANGED <<plan, code, cv>> /\ Settled /\ phase = "run" /\ status = "ok"
        /\ Stays \/ Passes \/ Ends \/ Fills \/ Empties \/ Takes
    BY ExecuteKeeps, ExecuteKinds, ExecuteStatus DEF static
  <1>i. InCall
    BY <1>1 DEF InCall, TypeInv
  <1>2. PICK p, n, m : p = pc[1] /\ n = pc[2] /\ m = pc[3]
    OBVIOUS
  <1>3. PICK x : x = <<p, n>>
    OBVIOUS
  <1>4. /\ pc = <<p, n, m>> /\ Here = x /\ Op = OpAt(x) /\ x \in DOMAIN code /\ x[1] = p /\ x[2] = n
    BY <1>1, <1>2, <1>3 DEF PcInv, Here, Op
  <1>5. /\ x = <<p, n>> /\ p \in DOMAIN plan /\ n \in Nat /\ n >= 1
        /\ OpAt(x).type \notin {"scan", "create"} => n > 1
        /\ OpAt(x).variable => OpAt(x).type = "foreach_rship"
        /\ OpAt(x).type = "limit" => code[x].end = <<p, 1, "end">>
        /\ n > 1 => Innermost(code[x].ret, x)
        /\ \A y \in DOMAIN code : OpAt(y).variable => OpAt(y).type = "foreach_rship"
    <2>1. x \in DOMAIN code
      BY <1>4
    <2> QED
      BY <1>1, <1>4, <2>1, Linked
  <1>6. ~IsLeaf(OpAt(x)) => code[x].next \in DOMAIN code /\ Follows(x, code[x].next)
    <2>1. phase # "aborted" /\ phase # "codegen" /\ FlowInv
      BY <1>1 DEF IInv, CodegenInv
    <2> QED
      BY <1>4, <2>1 DEF FlowInv
  <1> DEFINE Above(q) == \E k \in Variable(q[1]) : q[2] > k \/ (q[2] = k /\ q[3] = "head")
             Good(q) == OpAt(<<q[1], q[2]>>).variable => q[3] \in {"entry", "head"}
             InList(f) == f.iter \in 1..(Len(f.list) + 1)
  <1>v. /\ plan \in Plans /\ n \in DOMAIN plan[p]
        /\ \A q \in DOMAIN plan : \A k \in Variable(q) :
             k \in Nat /\ k > 1 /\ plan[q][k].type = "foreach_rship" /\ plan[q][k].variable
    <2>1. plan \in Plans /\ x \in Positions
      BY <1>4 DEF IInv, CodegenInv, OrderInv, FlowInv
    <2>2. n \in DOMAIN plan[p]
      BY <1>4, <2>1, PositionFacts
    <2>3. ASSUME NEW q \in DOMAIN plan, NEW k \in Variable(q)
          PROVE  k \in Nat /\ k > 1 /\ plan[q][k].type = "foreach_rship" /\ plan[q][k].variable
      <3>1. k \in DOMAIN plan[q] /\ plan[q][k].variable
        BY <2>3 DEF Variable
      <3>2. plan[q][k].type = "foreach_rship"
        BY <2>1, <3>1, PlansAssumption DEF IsPlan
      <3>3. /\ Len(plan[q]) \in Nat /\ DOMAIN plan[q] = 1..Len(plan[q])
            /\ plan[q][1].type \in {"scan", "create"}
        BY <2>1, PlanFacts
      <3> QED
        BY <3>1, <3>2, <3>3
    <2> QED
      BY <2>1, <2>2, <2>3
  <1>7. ASSUME phase' = "run" => Good(pc'),
               Supported /\ phase' = "run" /\ Above(pc') => InList(fev')
        PROVE  IteratorInv'
    <2>1. /\ Op' = OpAt(<<pc'[1], pc'[2]>>) /\ Variable(pc[1])' = Variable(pc'[1])
          /\ Supported' = Supported
      BY <1>1, SupportedSame DEF OpAt, Variable, Op, Here
    <2>2. InTraversal' = Above(pc')
      BY <2>1 DEF InTraversal
    <2> QED
      BY <1>7, <2>1, <2>2 DEF IteratorInv
  <1>8. Good(pc) /\ (Supported /\ Above(pc) => InList(fev))
    <2>1. Good(pc)
      <3>1. OpAt(x).variable => pc[3] \in {"entry", "head"}
        BY <1>1, <1>4 DEF IteratorInv
      <3> QED
        BY <1>2, <1>3, <3>1
    <2>2. Above(pc) => InTraversal
      BY DEF InTraversal
    <2> QED
      BY <1>1, <2>1, <2>2 DEF IteratorInv
  \* Where a step leads.
  <1>c. ASSUME Consume, ~IsLeaf(OpAt(x))
        PROVE  /\ Good(pc') /\ pc'[1] = p /\ pc'[2] \in Nat /\ pc'[3] = "entry"
               /\ \A k \in Variable(p) : pc'[2] > k => n >= k
    <2>1. PICK y : y = code[x].next
      OBVIOUS
    <2>2. y \in DOMAIN code /\ Follows(x, y)
      BY <1>6, <1>c, <2>1
    <2>3. y = <<y[1], y[2]>> /\ y[2] \in Nat
      BY <1>1, <2>2, Linked
    <2>4. pc' = <<y[1], y[2], "entry">>
      BY <1>4, <1>c, <2>1 DEF Consume, Block
    <2>5. ASSUME NEW k \in Variable(p), y[2] > k, ~(n >= k) PROVE FALSE
      <3>1. k \in Nat /\ plan[p][k].type = "foreach_rship"
        BY <1>5, <1>v
      <3>2. k \in (n + 1)..(y[2] - 1)
        BY <1>5, <2>3, <2>5, <3>1
      <3>3. OpAt(<<p, k>>).type = "sort"
        BY <1>4, <2>2, <3>2 DEF Follows
      <3> QED
        BY <3>1, <3>3 DEF OpAt
    <2> QED
      BY <1>4, <2>2, <2>3, <2>4, <2>5 DEF Follows
  <1>r. ASSUME Return, n > 1
        PROVE  Good(pc') /\ pc'[1] = p /\ pc'[2] \in 1..(n - 1)
    <2>1. PICK b : b = code[x].ret
      OBVIOUS
    <2>2. Innermost(b, x)
      BY <1>5, <1>r, <2>1
    <2>3. PICK j \in 1..(n - 1) :
            <<p, j>> \in DOMAIN code /\ b = Block(<<p, j>>, LoopBlock(OpAt(<<p, j>>)))
      BY <1>4, <2>2 DEF Innermost
    <2>4. pc' = <<p, j, LoopBlock(OpAt(<<p, j>>))>>
      BY <1>4, <1>r, <2>1, <2>3 DEF Return, Block
    <2>5. OpAt(<<p, j>>).variable => LoopBlock(OpAt(<<p, j>>)) = "head"
      BY <1>5, <2>3 DEF LoopBlock
    <2> QED
      BY <2>4, <2>5
  <1>n. ASSUME NEW q \in DOMAIN plan, NEW name, name = "entry" \/ name = "end"
        PROVE  Good(<<q, 1, name>>) /\ ~Above(<<q, 1, name>>)
    <2>1. 1 \notin Variable(q) /\ \A k \in Variable(q) : ~(1 > k)
      BY <1>v
    <2>2. 1 \in DOMAIN plan[q]
      BY <1>v, PlanFacts
    <2> QED
      BY <2>1, <2>2 DEF Variable, OpAt
  <1>9. CASE Stays
    BY <1>7, <1>8, <1>9 DEF Stays
  <1>10. CASE OpAt(x).variable
    <2>1. m \in {"entry", "head"} /\ n \in Variable(p) /\ n > 1
      BY <1>2, <1>4, <1>5, <1>8, <1>10, <1>v DEF Variable, OpAt
    <2>2. ReadMissingArg \/ EnterVariable \/ VariableHead
      BY <1>2, <1>4, <1>5, <1>10, <2>1, VariableSteps
    <2>3. CASE ReadMissingArg
      BY <1>9, <2>3 DEF ReadMissingArg, Crash, Stays, call, memory
    <2>4. CASE EnterVariable
      <3>1. TypeOK'
        BY <1>i, <2>4, EnterVariableTyped
      <3>2. Len(fev.list)' \in Nat
        BY <3>1 DEF TypeOK, IsSequence
      <3>3. fev'.iter = 1 /\ pc' = <<p, n, "head">>
        BY <1>4, <2>4 DEF EnterVariable, Goto, Block
      <3> QED
        BY <1>7, <3>2, <3>3
    <2>5. CASE VariableHead
      <3>1. Len(fev.list) \in Nat /\ DOMAIN fev.list = 1..Len(fev.list)
        BY DEF TypeOK, IsSequence
      <3>2. fev = [list |-> fev.list, iter |-> fev.iter]
        BY DEF PcInv
      <3>3. CASE fev.iter = Len(fev.list) + 1
        <4>1. Return
          BY <2>5, <3>3 DEF VariableHead, VariableHeadThen
        <4>2. Good(pc') /\ pc'[1] = p /\ pc'[2] \in 1..(n - 1)
          BY <1>r, <2>1, <4>1
        <4>3. Supported => \A k \in Variable(p) : k = n
          BY <1>5, <2>1 DEF Supported
        <4>4. ~(pc'[2] > n) /\ pc'[2] # n
          BY <1>5, <4>2
        <4>5. Supported => ~Above(pc')
          BY <4>2, <4>3, <4>4
        <4> QED
          BY <1>7, <4>2, <4>5
      <3>4. CASE fev.iter # Len(fev.list) + 1 /\ fev.iter \in DOMAIN fev.list
        <4>1. Consume /\ fev' = [fev EXCEPT !.iter = @ + 1]
          BY <2>5, <3>4 DEF VariableHead, VariableHeadThen
        <4>2. fev'.list = fev.list /\ fev'.iter = fev.iter + 1
          BY <3>2, <4>1
        <4>3. InList(fev')
          BY <3>1, <3>4, <4>2
        <4>4. ~IsLeaf(OpAt(x))
          BY <1>5, <1>10 DEF IsLeaf
        <4> QED
          BY <1>7, <1>c, <4>1, <4>3, <4>4
      <3>5. CASE fev.iter # Len(fev.list) + 1 /\ fev.iter \notin DOMAIN fev.list
        <4>1. UNCHANGED <<fev, pc>>
          BY <2>5, <3>5 DEF VariableHead, VariableHeadThen
        <4> QED
          BY <1>7, <1>8, <4>1
      <3> QED
        BY <3>3, <3>4, <3>5
    <2> QED
      BY <2>2, <2>3, <2>4, <2>5
  <1>11. CASE ~OpAt(x).variable /\ ~Stays
    <2>1. n \notin Variable(p)
      BY <1>4, <1>11 DEF Variable, OpAt
    <2>2. fev' = fev /\ (Passes \/ Ends)
      BY <1>1, <1>4, <1>11 DEF Passes, Ends, Fills, Empties, Takes
    <2>3. \A k \in Variable(p) : k \in Nat /\ k # n /\ (n >= k => n > k)
      BY <1>5, <1>v, <2>1
    <2>4. CASE OpAt(x).type = "limit" /\ pc' = code[Here].end
      BY <1>4, <1>5, <1>7, <1>n, <2>4
    <2>5. CASE Consume /\ ~IsLeaf(OpAt(x))
      <3>1. /\ Good(pc') /\ pc'[1] = p /\ pc'[3] = "entry"
            /\ \A k \in Variable(p) : pc'[2] > k => n >= k
        BY <1>c, <2>5
      <3>2. Above(pc') => Above(pc)
        BY <1>4, <2>3, <3>1
      <3> QED
        BY <1>7, <1>8, <2>2, <3>1, <3>2
    <2>6. CASE Return /\ Op.type \notin {"scan", "create"}
      <3>1. Good(pc') /\ pc'[1] = p /\ pc'[2] \in 1..(n - 1)
        BY <1>4, <1>5, <1>r, <2>6
      <3>2. \A k \in Variable(p) : pc'[2] > k \/ pc'[2] = k => n > k
        BY <1>5, <2>3, <3>1
      <3>3. Above(pc') => Above(pc)
        BY <1>4, <3>1, <3>2
      <3> QED
        BY <1>7, <1>8, <2>2, <3>1, <3>3
    <2>7. ASSUME NEW name, pc' = Block(Here, name) PROVE IteratorInv'
      <3>1. pc' = <<p, n, name>>
        BY <1>4, <2>7 DEF Block
      <3>2. Good(pc')
        <4>1. pc'[1] = p /\ pc'[2] = n
          BY <3>1
        <4>2. <<pc'[1], pc'[2]>> = x
          BY <1>3, <4>1
        <4> QED
          BY <1>11, <4>2
      <3>3. Above(pc') => Above(pc)
        BY <1>4, <2>1, <3>1
      <3> QED
        BY <1>7, <1>8, <2>2, <3>2, <3>3
    <2>8. CASE Passes
      BY <1>4, <2>4, <2>5, <2>6, <2>7, <2>8 DEF Passes, Branches
    <2>9. CASE Ends
      <3>1. ASSUME NEW i \in DOMAIN cv.entry, pc' = <<cv.entry[i], 1, "entry">>
            PROVE  IteratorInv'
        <4>1. PICK q : q = cv.entry[i]
          OBVIOUS
        <4>2. q \in DOMAIN plan
          <5>1. <<q, 1>> \in DOMAIN code
            BY <4>1 DEF IInv, CodegenInv, FlowInv, Entered, Range
          <5>2. <<q, 1>>[1] \in DOMAIN plan
            BY <1>1, <5>1, Linked
          <5> QED
            BY <5>2
        <4> QED
          BY <1>7, <1>n, <3>1, <4>1, <4>2
      <3>2. CASE phase' = "idle"
        BY <1>7, <3>2
      <3> QED
        BY <2>9, <3>1, <3>2 DEF Ends
    <2> QED
      BY <2>2, <2>8, <2>9
  <1> QED
    BY <1>9, <1>10, <1>11

\* The steps of a call that change the graph, the descriptions and the tuples of the joins.
LEMMA ExecuteMemory ==
  ASSUME Execute
  PROVE  /\ graph' = graph \/ CreateTupleNode \/ CreateTupleRship
         /\ descs' = descs \/ ProjectTuple
         /\ rhs_input_' = rhs_input_ \/ MaterializeTuple
  <1> DEFINE G == /\ graph' = graph \/ CreateTupleNode \/ CreateTupleRship
                  /\ descs' = descs \/ ProjectTuple
                  /\ rhs_input_' = rhs_input_ \/ MaterializeTuple
  <1>1. ReadMissingArg => G
    BY DEF ReadMissingArg, Crash, call, memory
  <1>2. EnterScan \/ EnterIndexScan \/ ScanCond \/ ScanNext => G
    BY DEF EnterScan, EnterIndexScan, ScanCond, ScanNext, call, memory
  <1>3. ScanEnd \/ CreateEnd => G
    BY DEF ScanEnd, CreateEnd, memory
  <1>4. CreateTupleNode \/ CreateTupleRship => G
    BY DEF CreateTupleNode, CreateTupleRship, CreateRshipFrom, CreateThen, memory
  <1>5. EnterForeach \/ ForeachCond \/ ForeachNext \/ EnterVariable \/ VariableHead => G
    BY DEF EnterForeach, ForeachCond, ForeachCondElse, ForeachNext, EnterVariable, VariableHead,
           VariableHeadThen, call, memory
  <1>6. ExpandNode => G
    BY DEF ExpandNode, call, memory
  <1>7. FilterTuple => G
    BY Zenon DEF FilterTuple, call, memory
  <1>8. ProjectTuple => G
    BY Zenon DEF ProjectTuple, call
  <1>9. LimitTuples \/ CollectTuple \/ MaterializeTuple => G
    BY DEF LimitTuples, CollectTuple, MaterializeTuple, call, memory
  <1>10. EnterJoin \/ JoinDone \/ CrossNext => G
    BY DEF EnterJoin, JoinDone, CrossNext, call, memory
  <1>11. OuterBegin => G
    BY Zenon DEF OuterBegin, call, memory
  <1>12. OuterMatch \/ OuterIncr \/ OuterReturn => G
    BY DEF OuterMatch, OuterIncr, OuterReturn, call, memory
  <1> QED
    BY <1>1, <1>2, <1>3, <1>4, <1>5, <1>6, <1>7, <1>8, <1>9, <1>10, <1>11, <1>12 DEF Execute

\* What a create operator is given.
LEMMA CreateParameters ==
  ASSUME Op.type = "create"
  PROVE  {<<Slot(Here), Op.label>>, <<Slot(Here) + 1, Op.props>>} \subseteq Parameters(Here)
  BY DEF Parameters, ReadsSlot, Op

\* So the code does write every property that it reads.
LEMMA ProjectWrites ==
  ASSUME InCall, Supported, Op.type = "project",
         NEW i \in DOMAIN Op.prexpr, Op.prexpr[i].key # Keep
  PROVE  Stores(Op.prexpr[i], code[Here].regs[Op.prexpr[i].id + 1].type)
  <1>1. /\ plan \in Plans /\ Here \in DOMAIN code /\ Here \in Positions /\ Op = OpAt(Here)
        /\ Here = <<pc[1], pc[2]>> /\ pc[2] > 1
    BY HereFacts DEF IsJoin
  <1>2. TypesOf(code[Here].regs) = FoundTypes(Here)
    <2>1. Here[2] > 1
      BY <1>1
    <2> QED
      BY <1>1, <2>1 DEF InCall, TypeInv, IInv, CodegenInv, TypesInv
  <1>3. Usable(Op, TypesOf(code[Here].regs))
    BY <1>1 DEF InCall, TypeInv, IInv, CodegenInv, RegsInv
  <1>4. Op.prexpr[i].id + 1 \in DOMAIN TypesOf(code[Here].regs)
    BY <1>3 DEF Usable
  <1>5. TypesOf(code[Here].regs)[Op.prexpr[i].id + 1] = code[Here].regs[Op.prexpr[i].id + 1].type
    BY <1>4 DEF TypesOf
  <1> QED
    BY <1>1, <1>2, <1>5, SupportedStores

\* A call that goes on has described every property that it has projected.
LEMMA ExecuteKeepsDescs ==
  ASSUME InCall, DescsInv, Execute
  PROVE  DescsInv'
  <1>1. plan' = plan /\ status = "ok" /\ status' \in {"ok", "crashed"}
    <2>1. UNCHANGED static
      BY ExecuteKeeps
    <2> QED
      BY <2>1, ExecuteStatus DEF static
  <1>2. Supported' = Supported
    BY <1>1, SupportedSame
  <1>3. ASSUME Supported, status' = "ok"
        PROVE  \A v \in DOMAIN descs' : descs'[v] # Null
    <2>1. CASE descs' = descs
      BY <1>1, <1>3, <2>1 DEF DescsInv
    <2>2. CASE ProjectTuple
      <3> DEFINE read == {i \in DOMAIN Op.prexpr : Op.prexpr[i].key # Keep}
                 V(i) == Tuple[Op.prexpr[i].id + 1]
                 written == {i \in read : Stores(Op.prexpr[i], code[Here].regs[Op.prexpr[i].id + 1].type)}
                 descs_ == [v \in {V(i) : i \in read} \cup DOMAIN descs |->
                              IF v \in DOMAIN descs THEN descs[v] ELSE Description(v)]
      <3>1. /\ descs' = descs_ /\ Op.type = "project"
            /\ status' = "crashed" \/ \A i \in written : descs_[V(i)] # Null
        BY <2>2, Zenon DEF ProjectTuple, Entering, In
      <3>2. DOMAIN descs_ = {V(i) : i \in read} \cup DOMAIN descs
        OBVIOUS
      <3>3. \A v \in DOMAIN descs : descs_[v] = descs[v] /\ descs[v] # Null
        BY <1>1, <1>3 DEF DescsInv
      <3>4. \A i \in read : i \in written
        BY <1>3, <3>1, ProjectWrites
      <3> HIDE DEF descs_, V, read, written
      <3> QED
        BY <1>3, <3>1, <3>2, <3>3, <3>4
    <2> QED
      BY <2>1, <2>2, ExecuteMemory
  <1> QED
    BY <1>2, <1>3 DEF DescsInv

\* A register that is not assigned keeps its value.
EnvKeeps(v) == v \in DOMAIN env' => v \in DOMAIN env /\ env'[v] = env[v]

\* An assignment keeps what it does not name,
LEMMA AssignKeeps ==
  ASSUME NEW values, Assign(values), NEW v, v \notin DOMAIN values
  PROVE  EnvKeeps(v)
  BY DEF Assign, EnvKeeps

\* and so does that of one register.
LEMMA SetKeeps ==
  ASSUME NEW reg, NEW value, Set(reg, value), NEW v, v # reg
  PROVE  EnvKeeps(v)
  BY DEF Set, Assign, EnvKeeps

\* Register 0 of a join is assigned by nobody but the join, and with a tuple that fits or
\* the one that the loop is at.
LEMMA ExecuteKeepsTuple ==
  ASSUME InCall, Execute, NEW x \in JoinPositions
  PROVE  LET v == <<x[1], x[2], 0>>
         IN \/ EnvKeeps(v)
            \/ x = Here /\ v \in DOMAIN env' /\ Fits(env'[v])
            \/ x = Here /\ IsJoin(Op) /\ pc[3] # "entry" /\ fr.cur_idx < fr.max_idx
                 /\ env'[v] = CurTp
  <1>1. PICK v : v = <<x[1], x[2], 0>>
    OBVIOUS
  <1> DEFINE G == \/ EnvKeeps(v)
                  \/ x = Here /\ v \in DOMAIN env' /\ Fits(env'[v])
                  \/ x = Here /\ IsJoin(Op) /\ pc[3] # "entry" /\ fr.cur_idx < fr.max_idx
                       /\ env'[v] = CurTp
  <1>2. /\ x = <<x[1], x[2]>> /\ x[2] \in Nat /\ x[2] >= 1 /\ IsJoin(OpAt(x))
        /\ Here = <<pc[1], pc[2]>> /\ Op = OpAt(Here) /\ pc[2] \in Nat
    <2>1. plan \in Plans /\ x \in Positions /\ IsJoin(OpAt(x))
      BY HereFacts DEF JoinPositions
    <2>2. x[2] \in 1..Len(plan[x[1]]) /\ Len(plan[x[1]]) \in Nat
      BY <2>1, PlanFacts, PositionFacts
    <2> QED
      BY <2>1, <2>2, HereFacts, PositionFacts
  <1>3. \A i : v = RegOf(i) => i = 0 /\ x = Here
    BY <1>1, <1>2 DEF RegOf
  <1>4. \A i : v # RegOf(i) \/ (i = 0 /\ IsJoin(Op))
    BY <1>2, <1>3
  <1>5. env' = env => G
    BY DEF EnvKeeps
  <1>6. ASSUME NEW i \in {1, -1}, NEW value, Set(RegOf(i), value) PROVE G
    BY <1>4, <1>6, SetKeeps
  <1>7. ASSUME NEW t, Concat(t) PROVE G
    <2> DEFINE values_ == [y \in {RegOf(i) : i \in {0} \cup DOMAIN Types} |->
                             IF y[3] = 0 THEN t ELSE t[y[3]]]
    <2>1. UNCHANGED env \/ (Fits(t) /\ Assign(values_))
      BY <1>7, Zenon DEF Concat
    <2>2. PICK values : values = values_
      OBVIOUS
    <2>3. v \in DOMAIN values => x = Here /\ v = RegOf(0) /\ values[v] = t
      BY <1>3, <2>2 DEF RegOf
    <2> HIDE DEF values_
    <2>4. CASE Fits(t) /\ Assign(values) /\ v \in DOMAIN values
      <3>1. v \in DOMAIN env' /\ env'[v] = t
        BY <2>3, <2>4 DEF Assign
      <3> QED
        BY <2>3, <2>4, <3>1
    <2>5. CASE Assign(values) /\ v \notin DOMAIN values
      BY <2>5, AssignKeeps
    <2> QED
      BY <1>5, <2>1, <2>2, <2>4, <2>5
  <1>8. ReadMissingArg => G
    BY <1>5 DEF ReadMissingArg, Crash
  <1>9. EnterScan \/ ScanNext \/ ScanEnd \/ CreateEnd => G
    BY <1>5 DEF EnterScan, ScanNext, ScanEnd, CreateEnd
  <1>10. ASSUME EnterIndexScan PROVE G
    <2>1. env' = env \/ \E value : Set(RegOf(1), value)
      BY <1>10, Zenon DEF EnterIndexScan
    <2> QED
      BY <1>5, <1>6, <2>1
  <1>11. ASSUME ScanCond PROVE G
    <2>1. env' = env \/ \E value : Set(RegOf(1), value)
      BY <1>11, Zenon DEF ScanCond
    <2> QED
      BY <1>5, <1>6, <2>1
  <1>12. ASSUME CreateTupleNode \/ CreateTupleRship PROVE G
    <2>1. env' = env \/ \E value : Set(RegOf(1), value)
      BY <1>12 DEF CreateTupleNode, CreateTupleRship, CreateRshipFrom, CreateThen
    <2> QED
      BY <1>5, <1>6, <2>1
  <1>13. EnterForeach \/ ForeachNext \/ EnterVariable => G
    BY <1>5 DEF EnterForeach, ForeachNext, EnterVariable
  <1>14. ASSUME ForeachCond PROVE G
    <2>1. env' = env \/ \E value : Set(RegOf(1), value)
      BY <1>14, Zenon DEF ForeachCond, ForeachCondElse
    <2> QED
      BY <1>5, <1>6, <2>1
  <1>15. ASSUME VariableHead PROVE G
    <2>1. env' = env \/ \E value : Set(RegOf(1), value)
      BY <1>15, Zenon DEF VariableHead, VariableHeadThen
    <2> QED
      BY <1>5, <1>6, <2>1
  <1>16. ASSUME ExpandNode PROVE G
    <2>1. \E value : Set(RegOf(1), value)
      BY <1>16, Zenon DEF ExpandNode
    <2> QED
      BY <1>6, <2>1
  <1>17. ASSUME FilterTuple PROVE G
    <2>1. Op.type = "filter" /\ (env' = env \/ \E value : Set(RegOf(0), value))
      BY <1>17, Zenon DEF FilterTuple, Entering, In
    <2>2. v # RegOf(0)
      BY <1>4, <2>1 DEF IsJoin
    <2> QED
      BY <1>5, <2>1, <2>2, SetKeeps
  <1>18. ASSUME ProjectTuple PROVE G
    <2> DEFINE read == {i \in DOMAIN Op.prexpr : Op.prexpr[i].key # Keep}
               V(i) == Tuple[Op.prexpr[i].id + 1]
               descs_ == [y \in {V(i) : i \in read} \cup DOMAIN descs |->
                            IF y \in DOMAIN descs THEN descs[y] ELSE Description(y)]
               written == {i \in read : Stores(Op.prexpr[i], code[Here].regs[Op.prexpr[i].id + 1].type)}
               values_(held) == [y \in {<<pc[1], 0, i>> : i \in read} |->
                                   <<"prop", code[Here].keys[y[3]], V(y[3]),
                                     IF y[3] \in written THEN descs_[V(y[3])] ELSE held>>]
    <2>1. env' = env \/ \E held : Assign(values_(held))
      BY <1>18, Zenon DEF ProjectTuple
    <2>2. ASSUME NEW held, Assign(values_(held)) PROVE G
      <3>1. \A y \in DOMAIN values_(held) : \E i : y = <<pc[1], 0, i>>
        OBVIOUS
      <3>p. \A i : v # <<pc[1], 0, i>>
        BY <1>1, <1>2
      <3>2. v \notin DOMAIN values_(held)
        BY <3>1, <3>p, Zenon
      <3>3. PICK values : values = values_(held)
        OBVIOUS
      <3> HIDE DEF values_
      <3> QED
        BY <1>5, <2>2, <3>2, <3>3, AssignKeeps
    <2> HIDE DEF values_
    <2> QED
      BY <1>5, <2>1, <2>2
  <1>19. LimitTuples \/ CollectTuple \/ MaterializeTuple \/ EnterJoin \/ JoinDone => G
    BY <1>5 DEF LimitTuples, CollectTuple, MaterializeTuple, EnterJoin, JoinDone
  <1>20. CrossNext => G
    BY <1>7 DEF CrossNext
  <1>21. ASSUME OuterBegin PROVE G
    <2> DEFINE values_ == [y \in {RegOf(0), RegOf(-1)} |->
                             IF y[3] = 0 THEN CurTp ELSE FirstRship(LhsNode, "from")]
    <2>1. /\ Op.type = "left_join" /\ pc[3] = "cond" /\ fr.cur_idx < fr.max_idx
          /\ Assign(values_)
      BY <1>21, Zenon DEF OuterBegin, In, BeginTuple
    <2>2. PICK values : values = values_
      OBVIOUS
    <2>3. v \in DOMAIN values => x = Here /\ values[v] = CurTp
      BY <1>3, <2>2 DEF RegOf
    <2> HIDE DEF values_
    <2>4. CASE v \in DOMAIN values
      <3>1. env'[v] = CurTp
        BY <2>1, <2>2, <2>3, <2>4 DEF Assign
      <3> QED
        BY <2>1, <2>3, <2>4, <3>1 DEF IsJoin
    <2> QED
      BY <2>1, <2>2, <2>4, AssignKeeps
  <1>22. ASSUME OuterMatch PROVE G
    <2>1. Concat(Tp) \/ \E value : Set(RegOf(-1), value)
      BY <1>22, Zenon DEF OuterMatch
    <2> QED
      BY <1>6, <1>7, <2>1
  <1>23. ASSUME OuterIncr PROVE G
    <2>1. Concat(Tp) \/ env' = env
      BY <1>23, Zenon DEF OuterIncr
    <2> QED
      BY <1>5, <1>7, <2>1
  <1>24. ASSUME OuterReturn PROVE G
    <2>1. env' = env \/ \E value : Set(RegOf(-1), value)
      BY <1>24, Zenon DEF OuterReturn
    <2> QED
      BY <1>5, <1>6, <2>1
  <1> HIDE DEF G
  <1>25. G
    BY <1>8, <1>9, <1>10, <1>11, <1>12, <1>13, <1>14, <1>15, <1>16, <1>17, <1>18, <1>19, <1>20,
       <1>21, <1>22, <1>23, <1>24 DEF Execute
  <1> QED
    BY <1>1, <1>25 DEF G

\* The End of a right-hand side materialises into the list of its own join.
LEMMA EndFeeds ==
  ASSUME IInv, Settled, Supported, NEW e \in DOMAIN code, OpAt(e).type = "none",
         NEW x \in JoinPositions, code[x].jid = code[e].jid
  PROVE  RhsOf(x) = e[1] /\ e = LeafOf(e[1]) /\ e[1] \in DOMAIN plan /\ e[1] > 1
  <1>1. /\ plan \in Plans /\ Compiled /\ phase # "codegen" /\ phase # "aborted" /\ OneJoinEach
        /\ e \in Positions
    BY DEF IInv, CodegenInv, OrderInv, FlowInv, Settled, Compiled, Supported
  <1>2. /\ e = <<e[1], e[2]>> /\ e[1] \in DOMAIN plan /\ e[1] \in Nat /\ e[1] >= 1
        /\ e[2] = Len(plan[e[1]])
    BY <1>1, PositionFacts, PlanFacts DEF IsLeaf
  <1>3. e = LeafOf(e[1])
    BY <1>2 DEF LeafOf
  <1>4. e[1] # 1
    <2>1. OpAt(e) = plan[e[1]][Len(plan[e[1]])]
      BY <1>2 DEF OpAt
    <2> QED
      BY <1>1, <1>2, <2>1, PlanFacts
  <1>5. PICK y \in JoinPositions : RhsOf(y) = e[1]
    BY <1>1, <1>2, <1>4, PlanFacts
  <1>6. \A z \in JoinPositions : z \in DOMAIN code
    <2>1. \A z \in JoinPositions : Reached(z)
      BY <1>1, AllEntered
    <2> QED
      BY <1>1, <2>1 DEF IInv, CodegenInv, JidInv
  <1>7. code[y].jid = code[e].jid
    BY <1>1, <1>3, <1>5, ReadsOwn DEF JoinReadsOwnRhs, JoinPositions, RhsOf
  <1>8. x = y
    BY <1>5, <1>6, <1>7 DEF IInv, CodegenInv, NamesInv
  <1> QED
    BY <1>2, <1>3, <1>4, <1>5, <1>8

\* And tuples that its join can read.
LEMMA MaterializedFits ==
  ASSUME InCall, Supported, Op.type = "none", NEW x \in JoinPositions,
         code[x].jid = code[Here].jid
  PROVE  FitsTypes(Tuple, RhsTypes(plan)[RhsOf(x)])
  <1>1. IInv /\ Settled /\ Here \in DOMAIN code /\ Op = OpAt(Here) /\ plan \in Plans
    BY HereFacts DEF InCall, TypeInv
  <1>2. PICK e : e = Here
    OBVIOUS
  <1>3. RhsOf(x) = e[1] /\ e = LeafOf(e[1]) /\ e[1] \in DOMAIN plan /\ e[1] > 1
    BY <1>1, <1>2, EndFeeds
  <1>4. PICK regs, types : regs = code[Here].regs /\ types = RhsTypes(plan)[RhsOf(x)]
    OBVIOUS
  <1>5. TypesOf(regs) = types
    <2>1. e[2] > 1
      BY <1>1, <1>2, Linked
    <2>2. TypesOf(code[e].regs) = FoundTypes(e)
      BY <1>1, <1>2, <2>1 DEF IInv, CodegenInv, TypesInv
    <2>3. FoundTypes(e) = RhsTypes(plan)[e[1]]
      BY <1>1, <1>3, PlainTypes
    <2> QED
      BY <1>2, <1>3, <1>4, <2>2, <2>3
  <1>6. /\ DOMAIN Tuple = DOMAIN regs /\ DOMAIN types = DOMAIN regs
        /\ \A i \in DOMAIN regs :
             /\ types[i] = regs[i].type
             /\ regs[i].type = 0 => Tuple[i] \in NodeValues
             /\ regs[i].type = 1 => Tuple[i] \in RshipValues
    BY <1>1, <1>4, <1>5, ReadsTyped DEF InCall, TypeInv, TypeOK
  <1>7. \A i \in DOMAIN types : types[i] \in {0, 1}
    <2>1. types \in Seq({0, 1})
      BY <1>1, <1>3, <1>4, RhsTypesType
    <2> QED
      BY <2>1
  <1>8. (\A v \in NodeValues : v[1] = "node") /\ (\A v \in RshipValues : v[1] = "rship")
    BY HereFacts, GraphFacts
  <1>9. FitsTypes(Tuple, types)
    BY <1>6, <1>7, <1>8 DEF FitsTypes
  <1> QED
    BY <1>4, <1>9

\* The tuples that a join reads, and the one that it is at, keep to the types of its
\* right-hand side.
LEMMA ExecuteKeepsTuples ==
  ASSUME InCall, TuplesInv, Execute
  PROVE  TuplesInv'
  <1>1. /\ plan' = plan /\ code' = code /\ Settled /\ phase = "run"
    BY ExecuteKeeps, HereFacts DEF static, InCall
  <1>2. /\ Supported' = Supported /\ JoinPositions' = JoinPositions /\ RhsTypes(plan)' = RhsTypes(plan)
        /\ \A x : RhsOf(x)' = RhsOf(x)
    BY <1>1, SupportedSame DEF JoinPositions, Positions, OpAt, RhsOf
  <1> SUFFICES ASSUME Supported, NEW x \in JoinPositions
               PROVE  /\ \A i \in DOMAIN RhsInput(code[x].jid)' :
                           FitsTypes(RhsInput(code[x].jid)'[i], RhsTypes(plan)[RhsOf(x)])
                      /\ <<x[1], x[2], 0>> \in DOMAIN env' =>
                           FitsTypes(env'[<<x[1], x[2], 0>>], RhsTypes(plan)[RhsOf(x)])
    BY <1>1, <1>2 DEF TuplesInv
  <1>3. PICK types, jid, v : types = RhsTypes(plan)[RhsOf(x)] /\ jid = code[x].jid /\ v = <<x[1], x[2], 0>>
    OBVIOUS
  <1>4. /\ \A i \in DOMAIN RhsInput(jid) : FitsTypes(RhsInput(jid)[i], types)
        /\ v \in DOMAIN env => FitsTypes(env[v], types)
    BY <1>1, <1>3 DEF TuplesInv
  <1>5. RhsInput(jid)' = RhsInput(code[x].jid)'
    BY <1>1, <1>3
  <1>6. \A i \in DOMAIN RhsInput(jid)' : FitsTypes(RhsInput(jid)'[i], types)
    <2>1. CASE rhs_input_' = rhs_input_
      BY <1>4, <2>1 DEF RhsInput
    <2>2. CASE MaterializeTuple
      <3>1. PICK t, s, id : t = Tuple /\ id = code[Here].jid /\ s = RhsInput(id)
        OBVIOUS
      <3>2. /\ Op.type = "none"
            /\ rhs_input_' = [j \in DOMAIN rhs_input_ \cup {id} |->
                                IF j = id THEN Append(s, t) ELSE rhs_input_[j]]
        BY <2>2, <3>1 DEF MaterializeTuple, Entering, In
      <3>3. CASE jid = id
        <4>1. RhsInput(jid)' = Append(s, t)
          BY <3>2, <3>3 DEF RhsInput
        <4>2. FitsTypes(t, types)
          BY <1>3, <3>1, <3>2, <3>3, MaterializedFits
        <4>3. IsSequence(s) /\ Len(s) \in Nat
          BY <3>1, MemoryIs DEF InCall, TypeInv
        <4>4. /\ IsSequence(Append(s, t)) /\ Len(Append(s, t)) = Len(s) + 1
              /\ \A i \in 1..Len(s) : Append(s, t)[i] = s[i]
              /\ Append(s, t)[Len(s) + 1] = t
          BY <4>3, AppendAny
        <4>5. DOMAIN Append(s, t) = 1..(Len(s) + 1) /\ DOMAIN s = 1..Len(s)
          BY <4>3, <4>4 DEF IsSequence
        <4>6. \A i \in 1..Len(s) : FitsTypes(s[i], types)
          BY <1>4, <3>1, <3>3, <4>5
        <4>7. \A i \in 1..(Len(s) + 1) : i \in 1..Len(s) \/ i = Len(s) + 1
          BY <4>3
        <4> QED
          BY <4>1, <4>2, <4>4, <4>5, <4>6, <4>7
      <3>4. CASE jid # id
        <4>1. RhsInput(jid)' = RhsInput(jid)
          BY <3>2, <3>4 DEF RhsInput
        <4> QED
          BY <1>4, <4>1
      <3> QED
        BY <3>3, <3>4
    <2> QED
      BY <2>1, <2>2, ExecuteMemory
  <1>7. v \in DOMAIN env' => FitsTypes(env'[v], types)
    <2>1. \/ EnvKeeps(v)
          \/ x = Here /\ v \in DOMAIN env' /\ Fits(env'[v])
          \/ x = Here /\ IsJoin(Op) /\ pc[3] # "entry" /\ fr.cur_idx < fr.max_idx
               /\ env'[v] = CurTp
      BY <1>3, ExecuteKeepsTuple
    <2>2. CASE EnvKeeps(v)
      BY <1>4, <2>2 DEF EnvKeeps
    <2>3. CASE x = Here /\ Fits(env'[v])
      BY <1>3, <2>3 DEF Fits, Types, FitsTypes, RhsOf, Op
    <2>4. CASE x = Here /\ IsJoin(Op) /\ pc[3] # "entry" /\ fr.cur_idx < fr.max_idx
               /\ env'[v] = CurTp
      BY <1>3, <1>4, <2>4, CurIsTuple DEF CurTp
    <2> QED
      BY <2>1, <2>2, <2>3, <2>4
  <1> QED
    BY <1>3, <1>5, <1>6, <1>7

\* What an index scan is given.
LEMMA IndexBound ==
  ASSUME plan \in Plans, NEW x \in Positions, OpAt(x).type = "scan", OpAt(x).indexed,
         \A p \in Parameters(x) : args[p[1]] = p[2]
  PROVE  args[Slot(x)] = OpAt(x).label /\ <<args[Slot(x) - 2], args[Slot(x) - 1]>> = OpAt(x).props
  <1>1. {<<Slot(x), OpAt(x).label>>, <<Slot(x) - 2, OpAt(x).props[1]>>,
         <<Slot(x) - 1, OpAt(x).props[2]>>} \subseteq Parameters(x)
    BY DEF Parameters, ReadsSlot
  <1>2. \A a, b : <<a, b>> \in Parameters(x) => args[a] = b
    <2> TAKE a, b
    <2>1. PICK p : p = <<a, b>>
      OBVIOUS
    <2> QED
      BY <2>1
  <1>3. OpAt(x).props = <<OpAt(x).props[1], OpAt(x).props[2]>>
    BY PositionFacts, PlansAssumption DEF IsPlan, OpAt
  <1> QED
    BY <1>1, <1>2, <1>3

\* No operator of a supported plan finds a DOUBLE.
LEMMA NoDouble ==
  ASSUME plan \in Plans, Supported, DOMAIN code \subseteq Positions, NEW x, NEW r \in Available(x)
  PROVE  r.type # 3
  <1>1. PICK y \in DOMAIN code : r \in Assigns(y)
    BY AvailableKinds
  <1>2. CASE OpAt(y).type = "project"
    <2>1. PICK i \in DOMAIN OpAt(y).prexpr :
            OpAt(y).prexpr[i].key # Keep /\ r.type = ProjectedType(OpAt(y).prexpr[i])
      BY <1>1, <1>2 DEF Assigns
    <2>2. OpAt(y).prexpr[i].type # "double"
      BY <1>1, <1>2, <2>1, SupportedStores
    <2> QED
      BY <2>1, <2>2 DEF ProjectedType
  <1> QED
    BY <1>1, <1>2, AssignsKinds

\* A call of a plan that the code supports, with its arguments in their slots, and whose
\* lookups are found, does not crash.
LEMMA NoCrash ==
  ASSUME InCall, CallInv, Supported, ArgsBound, Found, Execute
  PROVE  status' = "ok"
  <1>1. /\ plan \in Plans /\ Here \in DOMAIN code /\ Here \in Positions /\ Op = OpAt(Here)
        /\ Here = <<pc[1], pc[2]>> /\ pc[1] \in DOMAIN plan /\ pc[2] \in DOMAIN plan[pc[1]]
        /\ plan[pc[1]][pc[2]] = Op /\ phase = "run" /\ status = "ok" /\ IsGraph(graph)
    <2>1. /\ plan \in Plans /\ Here \in DOMAIN code /\ Here \in Positions /\ Op = OpAt(Here)
          /\ Here = <<pc[1], pc[2]>> /\ phase = "run" /\ status = "ok" /\ IsGraph(graph)
      BY HereFacts DEF InCall
    <2>2. Here[1] \in DOMAIN plan /\ Here[2] \in DOMAIN plan[Here[1]]
      BY <2>1, PositionFacts
    <2>3. Here[1] = pc[1] /\ Here[2] = pc[2]
      BY <2>1
    <2> QED
      BY <2>1, <2>2, <2>3 DEF OpAt
  <1>2. Parameters(Here) \subseteq AllParameters
    BY <1>1 DEF AllParameters
  <1>3. \A p \in Parameters(Here) : p[1] \in DOMAIN args /\ args[p[1]] = p[2]
    BY <1>2 DEF ArgsBound
  <1>f. ASSUME NEW t, IsJoin(Op), FitsTypes(t, RhsTypes(plan)[RhsOf(Here)]), Concat(t)
        PROVE  status' = "ok"
    <2>1. Fits(t)
      BY <1>1, <1>f DEF Fits, FitsTypes, Types, RhsOf
    <2>2. UNCHANGED status
      BY <1>f, <2>1, Zenon DEF Concat
    <2> QED
      BY <1>1, <2>2
  <1>j. ASSUME IsJoin(Op)
        PROVE  /\ \A i \in DOMAIN RhsInput(code[Here].jid) :
                    FitsTypes(RhsInput(code[Here].jid)[i], RhsTypes(plan)[RhsOf(Here)])
               /\ RegOf(0) \in DOMAIN env => FitsTypes(Tp, RhsTypes(plan)[RhsOf(Here)])
    <2>1. Here \in JoinPositions /\ RegOf(0) = <<Here[1], Here[2], 0>>
      BY <1>1, <1>j DEF JoinPositions, RegOf
    <2>2. TuplesInv
      BY DEF CallInv
    <2> QED
      BY <1>1, <2>1, <2>2 DEF TuplesInv, Tp
  <1>s. UNCHANGED status => status' = "ok"
    BY <1>1
  <1>4. ~ReadMissingArg
    BY <1>3 DEF ReadMissingArg, Bound
  <1>5. ASSUME EnterIndexScan PROVE status' = "ok"
    <2>1. Op.type = "scan" /\ Op.indexed
      BY <1>5 DEF EnterIndexScan, Entering, In
    <2>2. pc[2] = 1
      BY <2>1, HereFacts
    <2>3. Indexed(Op.props, Op.label) # {}
      BY <1>1, <2>1, <2>2 DEF Found
    <2>4. Arg = Op.label /\ <<args[Slot(Here) - 2], args[Slot(Here) - 1]>> = Op.props
      BY <1>1, <1>3, <2>1, IndexBound DEF Arg
    <2>5. Indexed(<<args[Slot(Here) - 2], args[Slot(Here) - 1]>>, Arg) # {}
      BY <2>3, <2>4
    <2>6. UNCHANGED status
      BY <1>5, <2>4, <2>5, Zenon DEF EnterIndexScan
    <2> QED
      BY <1>s, <2>6
  <1>6. ASSUME CreateTupleNode \/ CreateTupleRship PROVE status' = "ok"
    <2>1. Op.type = "create" /\ \E g, v : CreateThen(g, v)
      BY <1>6 DEF CreateTupleNode, CreateTupleRship, CreateRshipFrom, In
    <2>2. PICK a : a = <<Slot(Here) + 1, Op.props>>
      OBVIOUS
    <2>3. a \in Parameters(Here)
      BY <2>1, <2>2, CreateParameters
    <2>4. args[Slot(Here) + 1] = Op.props
      BY <1>3, <2>2, <2>3
    <2>5. UNCHANGED status
      BY <2>1, <2>4 DEF CreateThen
    <2> QED
      BY <1>s, <2>5
  <1>7. ASSUME VariableHead PROVE status' = "ok"
    <2>1. pc[3] = "head" /\ Op.variable
      BY <1>7 DEF VariableHead, VariableHeadThen, In, InCall, TypeInv, PcInv
    <2>2. InTraversal
      <3>1. pc[2] \in Variable(pc[1])
        BY <1>1, <2>1 DEF Variable
      <3> QED
        BY <2>1, <3>1 DEF InTraversal
    <2>3. fev.iter \in 1..(Len(fev.list) + 1)
      BY <1>1, <2>2 DEF CallInv, IteratorInv
    <2>4. Len(fev.list) \in Nat /\ DOMAIN fev.list = 1..Len(fev.list)
      BY DEF InCall, TypeInv, TypeOK, IsSequence
    <2>5. fev.iter = Len(fev.list) + 1 \/ fev.iter \in DOMAIN fev.list
      BY <2>3, <2>4
    <2>6. UNCHANGED status
      BY <1>7, <2>5, Zenon DEF VariableHead, VariableHeadThen
    <2> QED
      BY <1>s, <2>6
  <1>8. ASSUME ProjectTuple PROVE status' = "ok"
    <2> DEFINE read == {i \in DOMAIN Op.prexpr : Op.prexpr[i].key # Keep}
               V(i) == Tuple[Op.prexpr[i].id + 1]
               descs_ == [v \in {V(i) : i \in read} \cup DOMAIN descs |->
                            IF v \in DOMAIN descs THEN descs[v] ELSE Description(v)]
    <2>1. Op.type = "project" /\ (UNCHANGED status \/ \E i \in read : descs_[V(i)] = Null)
      BY <1>8 DEF ProjectTuple, Entering, In
    <2>2. \A i \in read : V(i) \in NodeValues \cup RshipValues
      BY <1>1, <2>1, ReadsNodes DEF InCall, TypeInv, TypeOK
    <2>3. ASSUME NEW w \in NodeValues \cup RshipValues PROVE Description(w) # Null
      <3>1. CASE w \in NodeValues
        <4>1. w[1] = "node" /\ Id(w) \in DOMAIN graph.node
          BY <1>1, <3>1, GraphFacts
        <4>2. pc[2] \in Projects(pc[1])
          BY <1>1, <2>1 DEF Projects
        <4>3. \A n \in DOMAIN graph.node : graph.node[n].value # Null
          BY <1>1, <4>2 DEF Found
        <4> QED
          BY <4>1, <4>3 DEF Description, PropertyOf
      <3>2. CASE w \in RshipValues
        <4>1. w[1] = "rship" /\ Id(w) \in RshipId
          BY <1>1, <3>2, GraphFacts
        <4>2. pc[2] \in Projects(pc[1])
          BY <1>1, <2>1 DEF Projects
        <4>3. \A r \in RshipId : graph.rship[r].value # Null
          BY <1>1, <4>2 DEF Found
        <4> QED
          BY <4>1, <4>3 DEF Description
      <3> QED
        BY <3>1, <3>2
    <2>4. \A v \in DOMAIN descs : descs[v] # Null
      BY <1>1 DEF CallInv, DescsInv
    <2>5. ASSUME NEW i \in read PROVE descs_[V(i)] # Null
      <3>1. PICK w : w = V(i)
        OBVIOUS
      <3>2. w \in NodeValues \cup RshipValues /\ w \in {V(j) : j \in read} \cup DOMAIN descs
        BY <2>2, <3>1
      <3>3. descs_[w] = IF w \in DOMAIN descs THEN descs[w] ELSE Description(w)
        BY <3>2
      <3> HIDE DEF descs_
      <3>4. descs_[w] # Null
        BY <2>3, <2>4, <3>2, <3>3
      <3> QED
        BY <3>1, <3>4
    <2> HIDE DEF descs_, V, read
    <2> QED
      BY <1>s, <2>1, <2>5
  <1>9. ASSUME CrossNext PROVE status' = "ok"
    <2>1. /\ Op.type = "cross_join" /\ pc[3] = "cond" /\ fr.cur_idx < fr.max_idx
          /\ Concat(CurTp)
      BY <1>9 DEF CrossNext, In
    <2>2. IsJoin(Op) /\ pc[3] # "entry"
      BY <2>1 DEF IsJoin
    <2>3. FitsTypes(CurTp, RhsTypes(plan)[RhsOf(Here)])
      BY <1>j, <2>1, <2>2, CurIsTuple DEF CurTp
    <2> QED
      BY <1>f, <2>1, <2>2, <2>3
  <1>10. ASSUME OuterMatch \/ OuterIncr PROVE status' = "ok"
    <2>1. /\ Op.type = "left_join" /\ pc[3] = "rships" /\ (UNCHANGED status \/ Concat(Tp))
      BY <1>10 DEF OuterMatch, OuterIncr, In
    <2>2. IsJoin(Op) /\ pc[3] \in {"rships", "ret"}
      BY <2>1 DEF IsJoin
    <2>3. FitsTypes(Tp, RhsTypes(plan)[RhsOf(Here)])
      BY <1>j, <2>2, TpIsTuple
    <2> QED
      BY <1>f, <1>s, <2>1, <2>2, <2>3
  <1>11. EnterScan \/ ScanCond \/ ScanNext \/ ScanEnd \/ CreateEnd => UNCHANGED status
    BY DEF EnterScan, ScanCond, ScanNext, ScanEnd, CreateEnd
  <1>12. EnterForeach \/ ForeachCond \/ ForeachNext \/ EnterVariable => UNCHANGED status
    BY DEF EnterForeach, ForeachCond, ForeachCondElse, ForeachNext, EnterVariable
  <1>13. ExpandNode \/ LimitTuples \/ MaterializeTuple => UNCHANGED status
    BY Zenon DEF ExpandNode, LimitTuples, MaterializeTuple
  <1>16. EnterJoin \/ JoinDone \/ OuterReturn => UNCHANGED status
    BY Zenon DEF EnterJoin, JoinDone, OuterReturn
  <1>15. ASSUME CollectTuple PROVE status' = "ok"
    <2>1. Op.type = "collect"
      BY <1>15 DEF CollectTuple, Entering, In
    <2>2. ASSUME NEW i \in DOMAIN code[Here].regs PROVE code[Here].regs[i].type # 3
      <3>1. PICK r : r = code[Here].regs[i]
        OBVIOUS
      <3>2. Range(code[Here].regs) \subseteq Available(Here)
        BY <1>1, <2>1 DEF InCall, TypeInv, IInv, CodegenInv, RegsInv
      <3>3. r \in Available(Here)
        BY <3>1, <3>2 DEF Range
      <3>4. DOMAIN code \subseteq Positions
        BY HereFacts
      <3> QED
        BY <1>1, <3>1, <3>3, <3>4, NoDouble
    <2>3. UNCHANGED status
      BY <1>15, <2>2 DEF CollectTuple
    <2> QED
      BY <1>s, <2>3
  <1>14. FilterTuple \/ OuterBegin => UNCHANGED status
    BY Zenon DEF FilterTuple, OuterBegin
  <1> QED
    BY <1>4, <1>5, <1>6, <1>7, <1>8, <1>9, <1>10, <1>11, <1>12, <1>13, <1>14, <1>15, <1>16, <1>s
       DEF Execute

\* Between the calls nothing is added to what a call will read.
LEMMA BetweenKeeps ==
  ASSUME CallInv, UNCHANGED <<plan, code, env, descs>>,
         phase \in {"idle", "interpret"}, phase' \in {"idle", "run", "interpret"},
         rhs_input_' \in {rhs_input_, NoTuples},
         status = "ok", status' = "ok" \/ phase' = "interpret",
         phase' = "run" => IteratorInv'
  PROVE  CallInv' /\ NeverCrashes'
  <1>1. BeforeCalls' /\ CompiledInv' /\ DescsInv'
    BY SupportedSame DEF BeforeCalls, CompiledInv, CallInv, DescsInv
  <1>2. IteratorInv'
    BY DEF IteratorInv
  <1>3. TuplesInv'
    <2>1. /\ Supported' = Supported /\ JoinPositions' = JoinPositions
          /\ RhsTypes(plan)' = RhsTypes(plan) /\ \A x : RhsOf(x)' = RhsOf(x)
      BY SupportedSame DEF JoinPositions, Positions, OpAt, RhsOf
    <2>2. \A jid : RhsInput(jid)' = RhsInput(jid) \/ DOMAIN RhsInput(jid)' = {}
      BY DEF RhsInput, NoTuples
    <2>3. TuplesInv
      BY DEF CallInv
    <2> SUFFICES ASSUME Supported, NEW x \in JoinPositions
                 PROVE  /\ \A i \in DOMAIN RhsInput(code[x].jid)' :
                             FitsTypes(RhsInput(code[x].jid)'[i], RhsTypes(plan)[RhsOf(x)])
                        /\ <<x[1], x[2], 0>> \in DOMAIN env =>
                             FitsTypes(env[<<x[1], x[2], 0>>], RhsTypes(plan)[RhsOf(x)])
      BY <2>1 DEF TuplesInv
    <2>4. PICK jid : jid = code[x].jid
      OBVIOUS
    <2>5. RhsInput(jid)' = RhsInput(code[x].jid)'
      BY <2>4
    <2>6. /\ \A i \in DOMAIN RhsInput(jid) : FitsTypes(RhsInput(jid)[i], RhsTypes(plan)[RhsOf(x)])
          /\ <<x[1], x[2], 0>> \in DOMAIN env =>
               FitsTypes(env[<<x[1], x[2], 0>>], RhsTypes(plan)[RhsOf(x)])
      BY <2>3, <2>4 DEF TuplesInv
    <2>7. \A i \in DOMAIN RhsInput(jid)' : FitsTypes(RhsInput(jid)'[i], RhsTypes(plan)[RhsOf(x)])
      BY <2>2, <2>6
    <2> QED
      BY <2>5, <2>6, <2>7
  <1>4. NeverCrashes'
    BY DEF NeverCrashes
  <1> QED
    BY <1>1, <1>2, <1>3, <1>4 DEF CallInv

\* A call begins below every traversal.
LEMMA CallKeeps ==
  ASSUME IInv, PcInv', CallInv, phase \in {"idle", "interpret"}, status = "ok", status' = "ok",
         NEW rs, CallStart(rs)
  PROVE  CallInv' /\ NeverCrashes'
  <1>1. /\ phase' = "run" /\ pc' = <<Head(cv.entry), 1, "entry">>
        /\ UNCHANGED <<static, graph, fr, env, rhs_input_, fev, descs>>
    BY Zenon DEF CallStart
  <1>2. plan' = plan /\ code' = code /\ plan \in Plans /\ Settled
    BY <1>1 DEF static, IInv, CodegenInv, OrderInv, Settled
  <1>3. IteratorInv'
    <2>1. PICK p : p = Head(cv.entry)
      OBVIOUS
    <2>2. pc' = <<p, 1, "entry">> /\ Here' = <<p, 1>>
      BY <1>1, <2>1 DEF Here
    <2>3. <<p, 1>> \in DOMAIN code
      BY <1>1, <1>2, <2>2 DEF PcInv
    <2>4. <<p, 1>>[1] \in DOMAIN plan
      BY <1>2, <2>3, Linked
    <2>5. p \in DOMAIN plan
      BY <2>4
    <2>6. Variable(p)' = {k \in DOMAIN plan[p] : plan[p][k].variable}
      BY <1>2 DEF Variable
    <2>7. ASSUME NEW k \in DOMAIN plan[p], plan[p][k].variable, 1 > k \/ 1 = k PROVE FALSE
      <3>1. /\ Len(plan[p]) \in Nat /\ DOMAIN plan[p] = 1..Len(plan[p])
            /\ plan[p][1].type \in {"scan", "create"}
        BY <1>2, <2>5, PlanFacts
      <3>2. plan[p][k].type = "foreach_rship"
        BY <1>2, <2>5, <2>7, PlansAssumption DEF IsPlan
      <3> QED
        BY <2>7, <3>1, <3>2
    <2>8. ~InTraversal'
      <3>1. pc'[1] = p /\ pc'[2] = 1
        BY <2>2
      <3> QED
        BY <2>6, <2>7, <3>1 DEF InTraversal
    <2>9. pc'[3] = "entry"
      BY <2>2
    <2> QED
      BY <2>8, <2>9 DEF IteratorInv
  <1> QED
    BY <1>1, <1>2, <1>3, BetweenKeeps

\* Every step of the system.
LEMMA CallStep ==
  ASSUME TypeInv, PcInv', CallInv, NeverCrashes, [InterpreterNext]_allVars
  PROVE  CallInv' /\ NeverCrashes'
  <1>t. IInv /\ PcInv /\ TypeOK /\ DescsInv /\ TuplesInv /\ IteratorInv /\ BeforeCalls /\ CompiledInv
    BY DEF TypeInv, CallInv
  <1>b. ASSUME UNCHANGED <<plan, code, env, descs>>,
               phase \in {"idle", "interpret"}, phase' \in {"idle", "interpret"},
               rhs_input_' \in {rhs_input_, NoTuples},
               status = "ok", status' = "ok" \/ phase' = "interpret"
        PROVE  CallInv' /\ NeverCrashes'
    BY <1>b, BetweenKeeps
  <1>1. CASE Compile /\ UNCHANGED runtime
    <2>1. /\ phase \in {"codegen", "walk"} /\ phase' \in {"codegen", "walk", "aborted", "idle"}
          /\ plan' = plan
      <3>1. CASE Visit
        <4>1. Advances \/ Joins \/ Leaves \/ Aborts
          BY <1>t, <3>1, VisitKinds DEF IInv, CodegenInv, OrderInv
        <4> QED
          BY <4>1 DEF Advances, Joins, Leaves, Aborts, Ascend
      <3>2. CASE WalkStep \/ WalkEnd
        BY <3>2 DEF WalkStep, WalkEnd
      <3> QED
        BY <1>1, <3>1, <3>2 DEF Compile
    <2>2. UNCHANGED <<graph, status, pc, env, args, rhs_input_, fev, descs>>
      BY <1>1 DEF runtime
    <2>3. env' = <<>> /\ status' = "ok" /\ rhs_input_' = <<>>
      BY <1>t, <2>1, <2>2 DEF TypeOK, EnvInv, BeforeCalls, NoTuples
    <2>4. CompiledInv'
      <3>1. Supported' = Supported /\ Creates("rship")' = Creates("rship")
        BY <2>1, SupportedSame
      <3>2. Supported /\ Creates("rship") = {} => phase' # "aborted"
        BY <1>1, <1>t, Compiles
      <3> QED
        BY <3>1, <3>2 DEF CompiledInv
    <2>5. BeforeCalls' /\ DescsInv' /\ IteratorInv'
      BY <1>t, <2>1, <2>2, <2>3, SupportedSame DEF BeforeCalls, NoTuples, DescsInv, IteratorInv
    <2>6. TuplesInv'
      <3>1. DOMAIN env' = {} /\ DOMAIN rhs_input_' = {}
        BY <2>3
      <3>2. \A jid : RhsInput(jid)' = <<>>
        BY <3>1 DEF RhsInput
      <3>3. \A x : RhsInput(code[x].jid)' = <<>>
        <4> SUFFICES ASSUME NEW x PROVE RhsInput(code[x].jid)' = <<>>
          OBVIOUS
        <4> QED
          BY <3>1 DEF RhsInput
      <3>4. DOMAIN <<>> = {}
        OBVIOUS
      <3> QED
        BY <3>1, <3>3, <3>4 DEF TuplesInv
    <2> QED
      BY <2>3, <2>4, <2>5, <2>6 DEF CallInv, NeverCrashes, CompiledInv
  <1>2. CASE Start
    <2>1. CallStart(<<>>) /\ phase = "idle" /\ status = "ok" /\ status' = status
      BY <1>2, Zenon DEF Start
    <2> QED
      BY <1>t, <2>1, CallKeeps
  <1>3. CASE ClearRhs \/ Interpret \/ RunInterpreted
    <2>1. /\ phase \in {"idle", "interpret"} /\ phase' \in {"idle", "interpret"}
          /\ UNCHANGED <<static, env, descs, status>>
          /\ rhs_input_' \in {rhs_input_, NoTuples} /\ status = "ok"
      BY <1>3 DEF ClearRhs, Interpret, RunInterpreted, compiledCode
    <2> QED
      BY <1>b, <2>1 DEF static
  <1>4. CASE SetProperty
    <2>1. /\ phase = "idle" /\ phase' = "idle" /\ status = "ok" /\ status' = "ok"
          /\ UNCHANGED <<static, env, descs, rhs_input_>>
      BY <1>4 DEF SetProperty
    <2> QED
      BY <1>b, <2>1 DEF static
  <1>5. CASE Execute
    <2>1. /\ phase = "run" /\ status = "ok" /\ UNCHANGED <<args, base, clean, calls>>
          /\ status' = "ok" \/ (status' = "crashed" /\ graph' = graph /\ phase' = "run")
      BY <1>5, ExecuteStatus
    <2>2. InCall
      BY <2>1 DEF InCall
    <2>3. UNCHANGED static /\ Settled'
      BY <1>5, ExecuteKeeps
    <2>4. plan' = plan /\ code' = code /\ phase' \in {"run", "idle", "interpret"}
      BY <2>3 DEF static, Settled
    <2>5. DescsInv' /\ IteratorInv' /\ TuplesInv'
      BY <1>5, <1>t, <2>2, ExecuteKeepsDescs, ExecuteKeepsIterator, ExecuteKeepsTuples
    <2>6. BeforeCalls' /\ CompiledInv'
      BY <2>4 DEF BeforeCalls, CompiledInv
    <2>7. ASSUME Proper', Found' PROVE status' = "ok"
      <3> SUFFICES ASSUME graph' = graph PROVE status' = "ok"
        BY <2>1
      <3>1. Supported' = Supported
        BY <2>4, SupportedSame
      <3>2. ArgsBound' = ArgsBound
        <4>1. \A x : Parameters(x)' = Parameters(x)
          BY <2>4 DEF Parameters, OpAt, Slot
        <4>2. Positions' = Positions
          BY <2>4 DEF Positions
        <4>3. AllParameters' = AllParameters
          BY <4>1, <4>2 DEF AllParameters
        <4> QED
          BY <2>1, <4>3 DEF ArgsBound
      <3>3. Found' = Found
        BY <2>4 DEF Found, Projects, Indexed, NodeLabel, RshipId
      <3> QED
        BY <1>5, <2>2, <2>7, <3>1, <3>2, <3>3, NoCrash DEF Proper
    <2>8. NeverCrashes'
      BY <2>4, <2>7 DEF NeverCrashes
    <2> QED
      BY <2>5, <2>6, <2>8 DEF CallInv
  <1>6. CASE InterpretStep
    <2>s. phase = "interpret" /\ status = "ok"
      <3>1. InterpretWithoutQuery \/ InterpretJoin \/ InterpretCreate => phase = "interpret" /\ status = "ok"
        BY DEF InterpretWithoutQuery, InterpretJoin, InterpretCreate, Interpreting
      <3>2. InterpretScan \/ InterpretTraversal \/ InterpretProject \/ InterpretSortOrLimit
              \/ InterpretCollect => phase = "interpret" /\ status = "ok"
        BY DEF InterpretScan, InterpretTraversal, InterpretProject, InterpretSortOrLimit,
               InterpretCollect, Extending, Interpreting
      <3>3. InterpretFilter \/ InterpretStart => phase = "interpret" /\ status = "ok"
        BY Zenon DEF InterpretFilter, Extending, Interpreting, InterpretStart, StartThen
      <3> QED
        BY <1>6, <3>1, <3>2, <3>3 DEF InterpretStep
    <2>1. ASSUME UNCHANGED compiledCode, phase' \in {"idle", "interpret"},
                 status' = "ok" \/ phase' = "interpret"
          PROVE  CallInv' /\ NeverCrashes'
      <3>1. UNCHANGED <<static, env, descs, rhs_input_>>
        BY <2>1 DEF compiledCode
      <3> QED
        BY <1>b, <2>1, <2>s, <3>1 DEF static
    <2>2. CASE InterpretStart
      <3>1. \/ CallStart(Delivered) /\ status' = status
            \/ UNCHANGED compiledCode /\ phase' = phase
            \/ UNCHANGED compiledCode /\ phase' = "idle" /\ status' = status
        BY <2>2, Zenon DEF InterpretStart, StartThen
      <3>2. CASE CallStart(Delivered) /\ status' = status
        BY <1>t, <2>s, <3>2, CallKeeps
      <3> QED
        BY <2>1, <2>s, <3>1, <3>2
    <2>3. CASE ~InterpretStart
      <3>1. Quiet
        BY <1>6, <2>3, Zenon DEF InterpretStep, InterpretWithoutQuery, InterpretJoin,
           InterpretCreate, InterpretScan, InterpretTraversal, InterpretFilter, InterpretProject,
           InterpretSortOrLimit, InterpretCollect
      <3> QED
        BY <2>1, <2>s, <3>1 DEF Quiet
    <2> QED
      BY <2>2, <2>3
  <1>7. CASE UNCHANGED allVars
    <2>1. /\ UNCHANGED <<graph, status, calls, pc, env, args, rhs_input_, fev, descs, clean, phase>>
          /\ plan' = plan /\ code' = code
      BY <1>7 DEF allVars, vars, codegenVars
    <2>2. /\ Supported' = Supported /\ Creates("rship")' = Creates("rship")
          /\ JoinPositions' = JoinPositions
          /\ RhsTypes(plan)' = RhsTypes(plan) /\ \A x : RhsOf(x)' = RhsOf(x)
          /\ Op' = Op /\ InTraversal' = InTraversal
      BY <2>1, SupportedSame DEF JoinPositions, Positions, OpAt, RhsOf, Op, Here, InTraversal, Variable
    <2>3. BeforeCalls' /\ CompiledInv' /\ DescsInv' /\ IteratorInv'
      BY <1>t, <2>1, <2>2 DEF BeforeCalls, NoTuples, CompiledInv, DescsInv, IteratorInv
    <2>4. TuplesInv'
      BY <1>t, <2>1, <2>2 DEF TuplesInv, RhsInput
    <2>5. NeverCrashes'
      <3>1. ArgsBound' = ArgsBound
        <4>1. \A x : Parameters(x)' = Parameters(x)
          BY <2>1 DEF Parameters, OpAt, Slot
        <4>2. Positions' = Positions
          BY <2>1 DEF Positions
        <4>3. AllParameters' = AllParameters
          BY <4>1, <4>2 DEF AllParameters
        <4> QED
          BY <2>1, <4>3 DEF ArgsBound
      <3>2. Found' = Found
        BY <2>1 DEF Found, Projects, Indexed, NodeLabel, RshipId
      <3> QED
        BY <2>1, <2>2, <3>1, <3>2 DEF NeverCrashes, Proper
    <2> QED
      BY <2>3, <2>4, <2>5 DEF CallInv
  <1> QED
    BY <1>1, <1>2, <1>3, <1>4, <1>5, <1>6, <1>7 DEF InterpreterNext, CompileOrCall

\* Before the compilation.
LEMMA CallInit == InterpreterInit => CallInv /\ NeverCrashes
  <1> SUFFICES ASSUME InterpreterInit PROVE CallInv /\ NeverCrashes
    OBVIOUS
  <1>1. /\ phase = "codegen" /\ status = "ok"
        /\ rhs_input_ = NoTuples /\ descs = <<>>
    BY DEF InterpreterInit, Init, CodegenInit
  <1>2. DOMAIN descs = {}
    BY <1>1
  <1>3. DescsInv
    BY <1>2 DEF DescsInv
  <1>4. BeforeCalls /\ CompiledInv /\ IteratorInv /\ TuplesInv
    BY <1>1 DEF BeforeCalls, CompiledInv, IteratorInv, TuplesInv
  <1> QED
    BY <1>1, <1>3, <1>4 DEF CallInv, NeverCrashes

\* A plan that the code supports is compiled, unless it creates relationships, whose function
\* the JIT may not find; and a call that finds its arguments in their slots and nothing of an
\* earlier call reads no register, iterator or tuple that is not there, unless an index has no
\* entry or a node or relationship lacks a projected property: for plans of any shape, any
\* graph and any sequence of calls, interpretations and updates.
THEOREM NoCrashes == InterpreterSpec => []NeverCrashes
  <1>1. InterpreterInit => CallInv /\ NeverCrashes
    BY CallInit
  <1>2. (IInv /\ PcInv /\ LeavesListEmpty) /\ (IInv /\ PcInv /\ LeavesListEmpty)' /\ TypeOK
          /\ (CallInv /\ NeverCrashes) /\ [InterpreterNext]_allVars
          => (CallInv /\ NeverCrashes)'
    BY CallStep DEF TypeInv
  <1> QED
    BY <1>1, <1>2, ListInvariance, Typing, PTL DEF InterpreterSpec

-----------------------------------------------------------------------------
(***************************************************************************)
(* What a plan means, and what its interpretation delivers.                *)
(***************************************************************************)
RowFits(row, types) ==
  IsSequence(row) /\ Len(row) = Len(types) /\ \A i \in DOMAIN types : types[i] = 0 => row[i][1] = "node"
IsRows(rows, types) == IsSequence(rows) /\ \A i \in DOMAIN rows : RowFits(rows[i], types)

\* The elements at some positions of a sequence.
LEMMA KeptType ==
  ASSUME NEW S, NEW s \in Seq(S), NEW keep
  PROVE  Kept(s, keep) \in Seq(S)
  <1>1. PICK n : n = Len(s) /\ n \in Nat /\ \A i \in 1..n : s[i] \in S
    OBVIOUS
  <1> DEFINE Next1(f, k) ==
               IF k = 0 THEN <<>> ELSE IF k \in keep THEN Append(f[k - 1], s[k]) ELSE f[k - 1]
             Is(f, m) == f = [k \in 0..m |-> Next1(f, k)]
             T == {m \in Nat : \E f : Is(f, m)}
  <1>2. 0 \in T
    <2> DEFINE f == [k \in 0..0 |-> <<>>]
    <2>1. \A k \in 0..0 : k = 0
      OBVIOUS
    <2>2. f = [k \in 0..0 |-> Next1(f, k)]
      BY <2>1
    <2> HIDE DEF Next1, f
    <2> QED
      BY <2>2
  <1>3. ASSUME NEW m \in Nat, m \in T PROVE m + 1 \in T
    <2>1. PICK f : Is(f, m)
      BY <1>3
    <2>a. PICK v : v = IF m + 1 \in keep THEN Append(f[m], s[m + 1]) ELSE f[m]
      OBVIOUS
    <2> DEFINE g == [k \in 0..(m + 1) |-> IF k = m + 1 THEN v ELSE f[k]]
    <2>2. \A k \in 0..m : g[k] = f[k]
      OBVIOUS
    <2>3. g[m + 1] = v
      OBVIOUS
    <2>4. g = [k \in 0..(m + 1) |-> g[k]]
      OBVIOUS
    <2> HIDE DEF g
    <2>5. ASSUME NEW k \in 0..(m + 1) PROVE g[k] = Next1(g, k)
      <3>1. CASE k = m + 1
        <4>1. k # 0 /\ k - 1 = m /\ m \in 0..m
          BY <3>1
        <4>2. g[m] = f[m]
          BY <2>2, <4>1
        <4> QED
          BY <2>a, <2>3, <3>1, <4>1, <4>2
      <3>2. CASE k # m + 1
        <4>1. k \in 0..m /\ (k # 0 => k - 1 \in 0..m)
          BY <3>2
        <4>2. f[k] = Next1(f, k)
          <5> HIDE DEF Next1
          <5> QED
            BY <2>1, <4>1
        <4> QED
          BY <2>2, <4>1, <4>2
      <3> QED
        BY <3>1, <3>2
    <2>6. Is(g, m + 1)
      <3> HIDE DEF Next1
      <3> QED
        BY <2>4, <2>5
    <2> HIDE DEF Is
    <2> QED
      BY <2>6
  <1>4. \E f : Is(f, n)
    <2>1. \A m \in Nat : m \in T
      <3> HIDE DEF T
      <3> QED
        BY <1>2, <1>3, SetInduction
    <2> HIDE DEF Is
    <2> QED
      BY <1>1, <2>1
  <1> DEFINE h == CHOOSE f : Is(f, Len(s))
  <1>5. Kept(s, keep) = h[Len(s)]
    BY DEF Kept
  <1>6. Is(h, n)
    <2> HIDE DEF Is
    <2> QED
      BY <1>1, <1>4
  <1> HIDE DEF h
  <1>7. \A k \in 0..n : h[k] = Next1(h, k)
    <2> HIDE DEF Next1
    <2> QED
      BY <1>6
  <1> DEFINE V == {m \in Nat : m <= n => h[m] \in Seq(S)}
  <1>8. 0 \in V
    <2>1. 0 \in 0..n /\ <<>> \in Seq(S)
      BY <1>1
    <2> QED
      BY <1>7, <2>1
  <1>9. ASSUME NEW m \in Nat, m \in V PROVE m + 1 \in V
    <2> SUFFICES ASSUME m + 1 <= n PROVE h[m + 1] \in Seq(S)
      OBVIOUS
    <2>1. PICK k : k = m + 1
      OBVIOUS
    <2>2. k \in 0..n /\ k \in 1..n /\ k # 0 /\ k - 1 = m /\ m <= n
      BY <1>1, <2>1
    <2>3. h[k] = Next1(h, k)
      BY <1>7, <2>2
    <2>4. h[m] \in Seq(S) /\ s[k] \in S
      BY <1>1, <1>9, <2>2
    <2> QED
      BY <2>1, <2>2, <2>3, <2>4
  <1> QED
    <2>1. n \in V
      <3> HIDE DEF V
      <3> QED
        BY <1>1, <1>8, <1>9, SetInduction
    <2> QED
      BY <1>1, <1>5, <2>1

\* Tuples that are kept have the types of all of them,
LEMMA KeptRows ==
  ASSUME NEW types, NEW rows, IsRows(rows, types), NEW keep
  PROVE  IsRows(Kept(rows, keep), types)
  <1> DEFINE S == {rows[i] : i \in DOMAIN rows}
  <1>1. rows \in Seq(S)
    BY DEF IsRows, IsSequence
  <1>2. \A t \in S : RowFits(t, types)
    BY DEF IsRows
  <1> HIDE DEF S
  <1>3. Kept(rows, keep) \in Seq(S)
    BY <1>1, KeptType
  <1>4. PICK r : r = Kept(rows, keep)
    OBVIOUS
  <1>5. IsSequence(r) /\ \A i \in DOMAIN r : r[i] \in S
    BY <1>3, <1>4 DEF IsSequence
  <1> QED
    BY <1>2, <1>4, <1>5 DEF IsRows

\* and so have those of several sequences.
LEMMA FlatRows ==
  ASSUME NEW types, NEW seqs, IsSequence(seqs), \A i \in DOMAIN seqs : IsRows(seqs[i], types)
  PROVE  IsRows(FlattenSeq(seqs), types)
  <1> DEFINE S == UNION {{seqs[i][j] : j \in DOMAIN seqs[i]} : i \in DOMAIN seqs}
  <1>1. ASSUME NEW i \in DOMAIN seqs PROVE seqs[i] \in Seq(S)
    BY DEF IsRows, IsSequence
  <1>2. \A t \in S : RowFits(t, types)
    BY DEF IsRows
  <1> HIDE DEF S
  <1>3. FlattenSeq(seqs) \in Seq(S)
    BY <1>1, FlattenType
  <1>4. PICK r : r = FlattenSeq(seqs)
    OBVIOUS
  <1>5. IsSequence(r) /\ \A i \in DOMAIN r : r[i] \in S
    BY <1>3, <1>4 DEF IsSequence
  <1> QED
    BY <1>2, <1>4, <1>5 DEF IsRows

\* A query passes tuples from operator to operator,
LEMMA QueryRowsIs ==
  ASSUME NEW q, IsSequence(q)
  PROVE  \A k \in 1..Len(q) : QueryRows(q, k) =
           Process(q[k], IF k = 1 THEN <<>> ELSE QueryRows(q, k - 1))
  <1>1. PICK n : n = Len(q) /\ n \in Nat
    BY DEF IsSequence
  <1> DEFINE Next1(f, k) == IF k = 0 THEN <<>> ELSE Process(q[k], f[k - 1])
             Is(f, m) == f = [k \in 0..m |-> Next1(f, k)]
             T == {m \in Nat : \E f : Is(f, m)}
  <1>2. 0 \in T
    <2> DEFINE f == [k \in 0..0 |-> <<>>]
    <2>1. \A k \in 0..0 : k = 0
      OBVIOUS
    <2>2. f = [k \in 0..0 |-> Next1(f, k)]
      BY <2>1
    <2> HIDE DEF Next1, f
    <2> QED
      BY <2>2
  <1>3. ASSUME NEW m \in Nat, m \in T PROVE m + 1 \in T
    <2>1. PICK f : Is(f, m)
      BY <1>3
    <2>a. PICK v : v = Process(q[m + 1], f[m])
      OBVIOUS
    <2> DEFINE g == [k \in 0..(m + 1) |-> IF k = m + 1 THEN v ELSE f[k]]
    <2>2. \A k \in 0..m : g[k] = f[k]
      OBVIOUS
    <2>3. g[m + 1] = v
      OBVIOUS
    <2>4. g = [k \in 0..(m + 1) |-> g[k]]
      OBVIOUS
    <2> HIDE DEF g
    <2>5. ASSUME NEW k \in 0..(m + 1) PROVE g[k] = Next1(g, k)
      <3>1. CASE k = m + 1
        <4>1. k # 0 /\ k - 1 = m /\ m \in 0..m
          BY <3>1
        <4>2. g[m] = f[m]
          BY <2>2, <4>1
        <4> QED
          BY <2>a, <2>3, <3>1, <4>1, <4>2
      <3>2. CASE k # m + 1
        <4>1. k \in 0..m /\ (k # 0 => k - 1 \in 0..m)
          BY <3>2
        <4>2. f[k] = Next1(f, k)
          <5> HIDE DEF Next1
          <5> QED
            BY <2>1, <4>1
        <4> QED
          BY <2>2, <4>1, <4>2
      <3> QED
        BY <3>1, <3>2
    <2>6. Is(g, m + 1)
      <3> HIDE DEF Next1
      <3> QED
        BY <2>4, <2>5
    <2> HIDE DEF Is
    <2> QED
      BY <2>6
  <1>4. \E f : Is(f, n)
    <2>1. \A m \in Nat : m \in T
      <3> HIDE DEF T
      <3> QED
        BY <1>2, <1>3, SetInduction
    <2> HIDE DEF Is
    <2> QED
      BY <1>1, <2>1
  <1> DEFINE h == CHOOSE f : Is(f, Len(q))
  <1>5. \A k : QueryRows(q, k) = h[k]
    BY DEF QueryRows
  <1>6. Is(h, n)
    <2> HIDE DEF Is
    <2> QED
      BY <1>1, <1>4
  <1> HIDE DEF h
  <1>7. \A k \in 0..n : h[k] = Next1(h, k)
    <2> HIDE DEF Next1
    <2> QED
      BY <1>6
  <1> SUFFICES ASSUME NEW k \in 1..n
               PROVE  h[k] = Process(q[k], IF k = 1 THEN <<>> ELSE h[k - 1])
    BY <1>1, <1>5
  <1>8. k \in 0..n /\ k # 0 /\ 0 \in 0..n /\ (k = 1 => k - 1 = 0)
    BY <1>1
  <1>9. h[k] = Process(q[k], h[k - 1]) /\ h[0] = <<>>
    BY <1>7, <1>8
  <1> QED
    BY <1>8, <1>9

\* and so does a plan without joins.
LEMMA RowsIs ==
  ASSUME plan \in Plans, Len(plan) = 1
  PROVE  /\ Len(plan[1]) \in Nat /\ DOMAIN plan[1] = 1..Len(plan[1])
         /\ \A k \in DOMAIN plan[1] : ~IsJoin(plan[1][k])
         /\ Rows(1, 0) = <<<<>>>>
         /\ \A k \in 1..Len(plan[1]) : Rows(1, k) = Apply(plan[1][k], Rows(1, k - 1), <<>>)
  <1>p. DOMAIN plan = {1} /\ Len(plan[1]) \in Nat /\ DOMAIN plan[1] = 1..Len(plan[1])
    <2>1. IsPlan(plan)
      BY PlansAssumption
    <2>2. DOMAIN plan = {1}
      BY <2>1 DEF IsPlan, IsSequence
    <2> QED
      BY <2>1, <2>2 DEF IsPlan, IsSequence
  <1>1. PICK n : n = Len(plan[1]) /\ n \in Nat
    BY <1>p
  <1>j. \A k \in DOMAIN plan[1] : ~IsJoin(plan[1][k])
    BY <1>p, PlansAssumption DEF IsPlan
  <1> DEFINE Next1(f, k) == IF k = 0 THEN <<<<>>>> ELSE Apply(plan[1][k], f[k - 1], <<>>)
             Is(f, m) == f = [k \in 0..m |-> Next1(f, k)]
             T == {m \in Nat : \E f : Is(f, m)}
  <1>2. 0 \in T
    <2> DEFINE f == [k \in 0..0 |-> <<<<>>>>]
    <2>1. \A k \in 0..0 : k = 0
      OBVIOUS
    <2>2. f = [k \in 0..0 |-> Next1(f, k)]
      BY <2>1
    <2> HIDE DEF Next1, f
    <2> QED
      BY <2>2
  <1>3. ASSUME NEW m \in Nat, m \in T PROVE m + 1 \in T
    <2>1. PICK f : Is(f, m)
      BY <1>3
    <2>a. PICK v : v = Apply(plan[1][m + 1], f[m], <<>>)
      OBVIOUS
    <2> DEFINE g == [k \in 0..(m + 1) |-> IF k = m + 1 THEN v ELSE f[k]]
    <2>2. \A k \in 0..m : g[k] = f[k]
      OBVIOUS
    <2>3. g[m + 1] = v
      OBVIOUS
    <2>4. g = [k \in 0..(m + 1) |-> g[k]]
      OBVIOUS
    <2> HIDE DEF g
    <2>5. ASSUME NEW k \in 0..(m + 1) PROVE g[k] = Next1(g, k)
      <3>1. CASE k = m + 1
        <4>1. k # 0 /\ k - 1 = m /\ m \in 0..m
          BY <3>1
        <4>2. g[m] = f[m]
          BY <2>2, <4>1
        <4> QED
          BY <2>a, <2>3, <3>1, <4>1, <4>2
      <3>2. CASE k # m + 1
        <4>1. k \in 0..m /\ (k # 0 => k - 1 \in 0..m)
          BY <3>2
        <4>2. f[k] = Next1(f, k)
          <5> HIDE DEF Next1
          <5> QED
            BY <2>1, <4>1
        <4> QED
          BY <2>2, <4>1, <4>2
      <3> QED
        BY <3>1, <3>2
    <2>6. Is(g, m + 1)
      <3> HIDE DEF Next1
      <3> QED
        BY <2>4, <2>5
    <2> HIDE DEF Is
    <2> QED
      BY <2>6
  <1>4. \E f : Is(f, n)
    <2>1. \A m \in Nat : m \in T
      <3> HIDE DEF T
      <3> QED
        BY <1>2, <1>3, SetInduction
    <2> HIDE DEF Is
    <2> QED
      BY <1>1, <2>1
  <1> DEFINE D == UNION {{q} \X (0..Len(plan[q])) : q \in DOMAIN plan}
             Step(g, x) == IF x[2] = 0 THEN <<<<>>>>
               ELSE LET op == OpAt(x)
                    IN Apply(op, g[<<x[1], x[2] - 1>>],
                             IF IsJoin(op) THEN g[<<op.rhs, Len(plan[op.rhs])>>] ELSE <<>>)
             IsAll(g) == g = [x \in D |-> Step(g, x)]
             h == CHOOSE g : IsAll(g)
  <1>d. /\ \A x \in D : \E k \in 0..n : x = <<1, k>>
        /\ \A k \in 0..n : <<1, k>> \in D
    BY <1>p, <1>1
  <1>5. \A k : Rows(1, k) = h[<<1, k>>]
    BY DEF Rows
  <1>s. ASSUME NEW g, NEW k \in 0..n
        PROVE  Step(g, <<1, k>>) = IF k = 0 THEN <<<<>>>> ELSE Apply(plan[1][k], g[<<1, k - 1>>], <<>>)
    <2>1. k # 0 => k \in DOMAIN plan[1] /\ OpAt(<<1, k>>) = plan[1][k] /\ ~IsJoin(plan[1][k])
      BY <1>p, <1>1, <1>j DEF OpAt
    <2> QED
      BY <2>1
  <1>6. \E g : IsAll(g)
    <2>1. PICK f : Is(f, n)
      BY <1>4
    <2>2. \A k \in 0..n : f[k] = Next1(f, k)
      <3> HIDE DEF Next1
      <3> QED
        BY <2>1
    <2> DEFINE g == [x \in D |-> f[x[2]]]
    <2>3. g = [x \in D |-> g[x]]
      OBVIOUS
    <2>4. \A k \in 0..n : g[<<1, k>>] = f[k]
      <3> HIDE DEF D
      <3> QED
        BY <1>d
    <2> HIDE DEF g
    <2>5. ASSUME NEW x \in D PROVE g[x] = Step(g, x)
      <3>1. PICK k \in 0..n : x = <<1, k>>
        <4> HIDE DEF D
        <4> QED
          BY <1>d
      <3>2. Step(g, x) = IF k = 0 THEN <<<<>>>> ELSE Apply(plan[1][k], g[<<1, k - 1>>], <<>>)
        <4> HIDE DEF Step
        <4> QED
          BY <1>s, <3>1
      <3>3. k # 0 => g[<<1, k - 1>>] = f[k - 1]
        <4>1. k # 0 => k - 1 \in 0..n
          BY <1>1
        <4> QED
          BY <2>4, <4>1
      <3>4. g[x] = f[k] /\ f[k] = Next1(f, k)
        <4> HIDE DEF Next1
        <4> QED
          BY <2>2, <2>4, <3>1
      <3> HIDE DEF Step
      <3> QED
        BY <3>2, <3>3, <3>4
    <2>6. IsAll(g)
      <3> HIDE DEF Step, D
      <3> QED
        BY <2>3, <2>5
    <2> HIDE DEF IsAll
    <2> QED
      BY <2>6
  <1>7. IsAll(h)
    <2> HIDE DEF IsAll
    <2> QED
      BY <1>6
  <1> HIDE DEF h
  <1>8. \A k \in 0..n : h[<<1, k>>] = Step(h, <<1, k>>)
    <2> HIDE DEF Step, D
    <2> QED
      BY <1>d, <1>7
  <1>9. \A k \in 0..n :
          h[<<1, k>>] = IF k = 0 THEN <<<<>>>> ELSE Apply(plan[1][k], h[<<1, k - 1>>], <<>>)
    <2> HIDE DEF Step
    <2> QED
      BY <1>s, <1>8
  <1>10. 0 \in 0..n /\ \A k \in 1..n : k \in 0..n /\ k # 0
    BY <1>1
  <1>11. Rows(1, 0) = <<<<>>>>
    BY <1>5, <1>9, <1>10
  <1>12. ASSUME NEW k \in 1..n PROVE Rows(1, k) = Apply(plan[1][k], Rows(1, k - 1), <<>>)
    BY <1>5, <1>9, <1>10
  <1> QED
    BY <1>p, <1>1, <1>j, <1>11, <1>12

\* A tuple with one more component.
LEMMA AppendFits ==
  ASSUME NEW row, NEW types, IsSequence(types), RowFits(row, types), NEW v, NEW type,
         type = 0 => v[1] = "node"
  PROVE  RowFits(Append(row, v), types \o <<type>>)
  <1>1. PICK n : /\ n \in Nat /\ Len(row) = n /\ Len(types) = n /\ DOMAIN row = 1..n
                 /\ DOMAIN types = 1..n
    BY DEF RowFits, IsSequence
  <1>2. PICK t, ts : t = Append(row, v) /\ ts = types \o <<type>>
    OBVIOUS
  <1> DEFINE S == {row[i] : i \in 1..n} \cup {v}
             R == {types[i] : i \in 1..n} \cup {type}
  <1>3. row \in Seq(S) /\ v \in S /\ types \in Seq(R) /\ <<type>> \in Seq(R)
    BY <1>1 DEF RowFits, IsSequence
  <1> HIDE DEF S, R
  <1>4. /\ IsSequence(t) /\ Len(t) = n + 1 /\ t[n + 1] = v /\ \A i \in 1..n : t[i] = row[i]
    <2>1. t \in Seq(S) /\ Len(t) = n + 1 /\ t[n + 1] = v /\ \A i \in 1..n : t[i] = row[i]
      BY <1>1, <1>2, <1>3
    <2>2. IsSequence(t)
      BY <2>1 DEF IsSequence
    <2> QED
      BY <2>1, <2>2
  <1>5. /\ DOMAIN ts = 1..(n + 1) /\ Len(ts) = n + 1 /\ ts[n + 1] = type
        /\ \A i \in 1..n : ts[i] = types[i]
    BY <1>1, <1>2, <1>3
  <1>6. ASSUME NEW i \in DOMAIN ts, ts[i] = 0 PROVE t[i][1] = "node"
    BY <1>1, <1>4, <1>5, <1>6 DEF RowFits
  <1> QED
    BY <1>2, <1>4, <1>5, <1>6 DEF RowFits

\* An operator that finds tuples of the types of its registers leaves tuples of the types
\* that the next one finds.
LEMMA ApplyRows ==
  ASSUME IsGraph(graph), NEW op, NEW rows, NEW found, NEW types, IsRows(rows, found),
         IsSequence(found), IsSequence(op.prexpr), Usable(op, found), op.type # "limit",
         op.type # "create", ~IsJoin(op)
  PROVE  /\ IsSequence(TypesAfter(op, found, types))
         /\ IsRows(Apply(op, rows, <<>>), TypesAfter(op, found, types))
  <1>a. PICK after, result :
          after = TypesAfter(op, found, types) /\ result = Apply(op, rows, <<>>)
    OBVIOUS
  <1>s. SUFFICES IsSequence(after) /\ IsRows(result, after)
    BY <1>a
  <1>j. op.type # "cross_join" /\ op.type # "left_join"
    BY DEF IsJoin
  <1>f. found \o <<>> = found
    <2>1. found \in Seq({found[i] : i \in DOMAIN found})
      BY DEF IsSequence
    <2> QED
      BY <2>1
  <1>t. ASSUME NEW type PROVE IsSequence(found \o <<type>>)
    <2>1. found \in Seq({found[i] : i \in DOMAIN found} \cup {type})
      BY DEF IsSequence
    <2>2. <<type>> \in Seq({found[i] : i \in DOMAIN found} \cup {type})
      OBVIOUS
    <2>3. found \o <<type>> \in Seq({found[i] : i \in DOMAIN found} \cup {type})
      BY <2>1, <2>2
    <2> QED
      BY <2>3 DEF IsSequence
  <1>r. DOMAIN rows = 1..Len(rows) /\ Len(rows) \in Nat /\ \A i \in DOMAIN rows : RowFits(rows[i], found)
    BY DEF IsRows, IsSequence
  <1>1. CASE op.type = "scan"
    <2>1. after = <<0>>
      BY <1>1, <1>a DEF TypesAfter
    <2> DEFINE keep == IF op.indexed THEN Indexed(op.props, op.label)
                       ELSE {n \in DOMAIN graph.node : NodeLabel(n) = op.label}
               kept == Kept([n \in DOMAIN graph.node |-> n], keep)
    <2>2. result = [i \in DOMAIN kept |-> <<Node(kept[i])>>]
      BY <1>1, <1>a DEF Apply, Map
    <2>3. kept \in Seq(Nat)
      <3>1. [n \in DOMAIN graph.node |-> n] \in Seq(Nat)
        BY DEF IsGraph, IsSequence
      <3> QED
        BY <3>1, KeptType
    <2> HIDE DEF kept
    <2>4. IsSequence(result)
      BY <2>2, <2>3 DEF IsSequence
    <2>5. ASSUME NEW i \in DOMAIN result PROVE RowFits(result[i], after)
      BY <2>1, <2>2 DEF RowFits, IsSequence, Node
    <2> QED
      BY <2>1, <2>4, <2>5 DEF IsRows, IsSequence
  <1>2. CASE op.type = "foreach_rship"
    <2>1. after = found \o <<1>>
      BY <1>2, <1>a DEF TypesAfter, OpTypes
    <2> DEFINE rships(row) == IF op.variable THEN VarRships(Id(Last(row)), op.dir, op.label)
                              ELSE Rships(Id(Last(row)), op.dir, op.label)
               seqs == [i \in DOMAIN rows |->
                          [j \in DOMAIN rships(rows[i]) |-> Append(rows[i], Rship(rships(rows[i])[j]))]]
    <2>2. result = FlattenSeq(seqs)
      BY <1>2, <1>a DEF Apply, FlatMap, Map
    <2>3. \A row : rships(row) \in Seq(RshipId)
      BY RshipsIs, VarRshipsIs
    <2> HIDE DEF rships
    <2>4. ASSUME NEW i \in DOMAIN rows PROVE IsRows(seqs[i], after)
      <3>1. PICK rs : rs = rships(rows[i]) /\ rs \in Seq(RshipId)
        BY <2>3
      <3>2. PICK s : s = seqs[i] /\ s = [j \in DOMAIN rs |-> Append(rows[i], Rship(rs[j]))]
        BY <3>1
      <3>3. IsSequence(s) /\ DOMAIN s = DOMAIN rs
        BY <3>1, <3>2 DEF IsSequence
      <3>4. ASSUME NEW j \in DOMAIN s PROVE RowFits(s[j], after)
        <4>1. RowFits(Append(rows[i], Rship(rs[j])), found \o <<1>>)
          BY <1>r, AppendFits
        <4> QED
          BY <2>1, <3>2, <3>3, <4>1
      <3> QED
        BY <3>2, <3>3, <3>4 DEF IsRows
    <2>5. IsSequence(seqs)
      BY <1>r DEF IsSequence
    <2> HIDE DEF seqs
    <2>6. DOMAIN seqs = DOMAIN rows
      BY DEF seqs
    <2> QED
      BY <1>t, <2>1, <2>2, <2>4, <2>5, <2>6, FlatRows
  <1>3. CASE op.type = "expand"
    <2>1. after = found \o <<0>>
      BY <1>3, <1>a DEF TypesAfter, OpTypes
    <2> DEFINE ends == [i \in DOMAIN rows |-> Append(rows[i], Node(EndOf(Id(Last(rows[i])), op.dir)))]
               keep == {i \in DOMAIN ends : op.label = "" \/ NodeLabel(Id(Last(ends[i]))) = op.label}
    <2>2. result = Kept(ends, keep)
      BY <1>3, <1>a DEF Apply, Map
    <2>3. IsRows(ends, after)
      <3>1. IsSequence(ends)
        BY <1>r DEF IsSequence
      <3>2. ASSUME NEW i \in DOMAIN ends PROVE RowFits(ends[i], after)
        <4>0. PICK n, v : n = EndOf(Id(Last(rows[i])), op.dir) /\ v = Node(n)
          OBVIOUS
        <4>1. v = Node(EndOf(Id(Last(rows[i])), op.dir)) /\ v[1] = "node"
          BY <4>0 DEF Node
        <4>2. RowFits(Append(rows[i], v), found \o <<0>>)
          BY <1>r, <4>1, AppendFits
        <4> QED
          BY <2>1, <4>1, <4>2
      <3> HIDE DEF ends
      <3> QED
        BY <3>1, <3>2 DEF IsRows
    <2> HIDE DEF ends, keep
    <2> QED
      BY <1>t, <2>1, <2>2, <2>3, KeptRows
  <1>4. CASE op.type = "filter"
    <2>1. after = found
      BY <1>4, <1>a, <1>f DEF TypesAfter, OpTypes, IsJoin
    <2>2. \E keep : result = Kept(rows, keep)
      BY <1>4, <1>a, Zenon DEF Apply
    <2> QED
      BY <2>1, <2>2, KeptRows
  <1>5. CASE op.type = "project"
    <2>1. after = [i \in DOMAIN op.prexpr |->
                     IF op.prexpr[i].key = Keep THEN found[op.prexpr[i].id + 1]
                     ELSE ProjectedType(op.prexpr[i])]
      BY <1>5, <1>a DEF TypesAfter
    <2> DEFINE Projected(row, i) == LET v == row[op.prexpr[i].id + 1]
                                IN IF op.prexpr[i].key = Keep THEN v
                                   ELSE <<"prop", op.prexpr[i].key, v, DescriptionAfter(v)>>
    <2>2. result = [k \in DOMAIN rows |-> [i \in DOMAIN op.prexpr |-> Projected(rows[k], i)]]
      BY <1>5, <1>a DEF Apply, Map
    <2>3. \A row : \A i \in DOMAIN op.prexpr :
            op.prexpr[i].key = Keep => Projected(row, i) = row[op.prexpr[i].id + 1]
      OBVIOUS
    <2> HIDE DEF Projected
    <2>4. DOMAIN op.prexpr = 1..Len(op.prexpr) /\ Len(op.prexpr) \in Nat
      BY DEF IsSequence
    <2>5. DOMAIN after = DOMAIN op.prexpr /\ Len(after) = Len(op.prexpr) /\ IsSequence(after)
      BY <2>1, <2>4 DEF IsSequence
    <2>6. ASSUME NEW k \in DOMAIN rows PROVE RowFits(result[k], after)
      <3>1. PICK t : t = result[k] /\ t = [i \in DOMAIN op.prexpr |-> Projected(rows[k], i)]
        BY <2>2
      <3>2. IsSequence(t) /\ Len(t) = Len(after)
        BY <2>4, <2>5, <3>1 DEF IsSequence
      <3>3. ASSUME NEW i \in DOMAIN after, after[i] = 0 PROVE t[i][1] = "node"
        <4>1. i \in DOMAIN op.prexpr
          BY <2>5
        <4>2. op.prexpr[i].key = Keep /\ found[op.prexpr[i].id + 1] = 0
          BY <2>1, <3>3, <4>1 DEF ProjectedType
        <4>3. op.prexpr[i].id + 1 \in DOMAIN found
          BY <1>5, <4>1 DEF Usable
        <4>4. rows[k][op.prexpr[i].id + 1][1] = "node"
          BY <1>r, <4>2, <4>3 DEF RowFits
        <4> QED
          BY <2>3, <3>1, <4>1, <4>2, <4>4
      <3> QED
        BY <3>1, <3>2, <3>3 DEF RowFits
    <2>7. IsSequence(result) /\ DOMAIN result = DOMAIN rows
      BY <1>r, <2>2 DEF IsSequence
    <2> QED
      BY <2>5, <2>6, <2>7 DEF IsRows
  <1>6. CASE op.type \notin {"scan", "foreach_rship", "expand", "filter", "project"}
    <2>1. after = found
      BY <1>6, <1>a, <1>f, <1>j DEF TypesAfter, OpTypes, IsJoin
    <2>2. result = rows
      BY <1>6, <1>a, <1>j, Zenon DEF Apply
    <2> QED
      BY <2>1, <2>2
  <1> QED
    BY <1>1, <1>2, <1>3, <1>4, <1>5, <1>6

\* Nothing is created: what a node or relationship is described by is what it has.
LEMMA DescribedAs ==
  ASSUME Creates("node") = {}, Creates("rship") = {}, NEW v, v[1] \in {"node", "rship"}
  PROVE  DescriptionAfter(v) = Description(v)
  <1>1. Creates(v[1]) = {}
    OBVIOUS
  <1>2. {x \in Creates(v[1]) : Id(v) > base[IF v[1] = "node" THEN 1 ELSE 2]} = {}
    BY <1>1
  <1> QED
    BY <1>2 DEF DescriptionAfter

\* Descriptions depend on the graph alone, for a plan that creates nothing.
LEMMA DescribedSame ==
  ASSUME UNCHANGED <<plan, graph>>, \A type : Creates(type) = {}, NEW v
  PROVE  DescriptionAfter(v)' = DescriptionAfter(v)
  <1>1. Creates(v[1]) = {} /\ Creates(v[1])' = {}
    BY DEF Creates, Positions, OpAt
  <1>2. /\ {x \in Creates(v[1]) : Id(v) > base[IF v[1] = "node" THEN 1 ELSE 2]} = {}
        /\ {x \in Creates(v[1])' : Id(v) > base'[IF v[1] = "node" THEN 1 ELSE 2]} = {}
    BY <1>1
  <1>3. DescriptionAfter(v) = Description(v) /\ DescriptionAfter(v)' = Description(v)'
    BY <1>2 DEF DescriptionAfter, Id
  <1> QED
    BY <1>3 DEF Description, PropertyOf, Id

\* What an operator passes on depends on the graph alone.
LEMMA ApplySame ==
  ASSUME UNCHANGED <<plan, graph>>, \A type : Creates(type) = {}, NEW op, NEW rows, op.type # "create"
  PROVE  Apply(op, rows, <<>>)' = Apply(op, rows, <<>>)
  <1>r. \A n, d, l : Rships(n, d, l)' = Rships(n, d, l)
    BY DEF Rships, ListOf, RshipId
  <1>v. \A n, d, l : VarRships(n, d, l)' = VarRships(n, d, l)
    <2>1. \A r, d : FarEnd(r, d)' = FarEnd(r, d)
      BY DEF FarEnd
    <2> QED
      BY <1>r, <2>1, Zenon DEF VarRships
  <1>d. \A v : DescriptionAfter(v)' = DescriptionAfter(v)
    BY DescribedSame
  <1>1. CASE op.type = "scan"
    <2> DEFINE all == [n \in DOMAIN graph.node |-> n]
               keep == IF op.indexed THEN Indexed(op.props, op.label)
                       ELSE {n \in DOMAIN graph.node : NodeLabel(n) = op.label}
    <2>1. keep' = keep /\ all' = all
      BY DEF NodeLabel, Indexed
    <2>2. /\ Apply(op, rows, <<>>) = Map(LAMBDA n : <<Node(n)>>, Kept(all, keep))
          /\ Apply(op, rows, <<>>)' = Map(LAMBDA n : <<Node(n)>>, Kept(all', keep'))
      BY <1>1 DEF Apply, NodeLabel, Indexed, Node, Map
    <2> QED
      BY <2>1, <2>2
  <1>2. CASE op.type = "foreach_rship"
    <2> DEFINE rships(row) == IF op.variable THEN VarRships(Id(Last(row)), op.dir, op.label)
                              ELSE Rships(Id(Last(row)), op.dir, op.label)
               seqs == [i \in DOMAIN rows |->
                          [j \in DOMAIN rships(rows[i]) |-> Append(rows[i], Rship(rships(rows[i])[j]))]]
    <2>1. \A row : rships(row)' = rships(row)
      BY <1>r, <1>v DEF Id
    <2>2. Apply(op, rows, <<>>) = FlattenSeq(seqs) /\ Apply(op, rows, <<>>)' = FlattenSeq(seqs')
      BY <1>2 DEF Apply, FlatMap, Map
    <2>3. seqs' = seqs
      <3> HIDE DEF rships
      <3> QED
        BY <2>1 DEF Rship
    <2> QED
      BY <2>2, <2>3
  <1>3. CASE op.type = "expand"
    <2> DEFINE ends == [i \in DOMAIN rows |-> Append(rows[i], Node(EndOf(Id(Last(rows[i])), op.dir)))]
               keep(s) == {i \in DOMAIN s : op.label = "" \/ NodeLabel(Id(Last(s[i]))) = op.label}
    <2>1. ends' = ends
      BY DEF EndOf, Node, Id
    <2>2. \A s : keep(s)' = keep(s)
      BY DEF NodeLabel, Id
    <2>3. Apply(op, rows, <<>>) = Kept(ends, keep(ends))
      BY <1>3 DEF Apply, Map
    <2>4. Apply(op, rows, <<>>)' = Kept(ends, keep(ends))'
      BY <1>3 DEF Apply, Map
    <2>5. PICK s : s = ends
      OBVIOUS
    <2>6. Kept(ends, keep(ends))' = Kept(s, keep(s)')
      <3> HIDE DEF ends, keep
      <3> QED
        BY <2>1, <2>5
    <2> HIDE DEF ends, keep
    <2> QED
      BY <2>2, <2>3, <2>4, <2>5, <2>6
  <1>4. CASE op.type = "filter"
    <2> DEFINE tested == IF op.fexpr.kind = "fct" THEN 1 ELSE op.fexpr.qr_id + 1
               keep == {i \in DOMAIN rows : DescriptionAfter(rows[i][tested]) = op.fexpr.value}
    <2>1. keep' = keep
      BY <1>d
    <2>2. Apply(op, rows, <<>>) = Kept(rows, keep) /\ Apply(op, rows, <<>>)' = Kept(rows, keep')
      BY <1>4, Zenon DEF Apply
    <2> QED
      BY <2>1, <2>2
  <1>5. CASE op.type = "project"
    <2> DEFINE Val(row, i) == LET v == row[op.prexpr[i].id + 1]
                              IN IF op.prexpr[i].key = Keep THEN v
                                 ELSE <<"prop", op.prexpr[i].key, v, DescriptionAfter(v)>>
    <2>1. \A row, i : Val(row, i)' = Val(row, i)
      BY <1>d
    <2>2. /\ Apply(op, rows, <<>>) = [k \in DOMAIN rows |-> [i \in DOMAIN op.prexpr |-> Val(rows[k], i)]]
          /\ Apply(op, rows, <<>>)' = [k \in DOMAIN rows |-> [i \in DOMAIN op.prexpr |-> Val(rows[k], i)']]
      BY <1>5 DEF Apply, Map
    <2> HIDE DEF Val
    <2> QED
      BY <2>1, <2>2
  <1>6. CASE op.type = "limit"
    BY <1>6 DEF Apply
  <1>7. CASE op.type = "cross_join"
    BY <1>7 DEF Apply, FlatMap, Map
  <1>8. CASE op.type = "left_join"
    BY <1>8 DEF Apply, FlatMap, Map
  <1>9. CASE op.type \notin {"scan", "foreach_rship", "expand", "filter", "project", "limit",
                             "cross_join", "left_join"}
    BY <1>9, Zenon DEF Apply
  <1> QED
    BY <1>1, <1>2, <1>3, <1>4, <1>5, <1>6, <1>7, <1>8, <1>9

-----------------------------------------------------------------------------
(***************************************************************************)
(* The argument slots of a plan that the interpreter supports.             *)
(***************************************************************************)
TakesOne(op) == op.type \in {"scan", "foreach_rship", "expand", "filter"}
Simple ==
  /\ Len(plan) = 1
  /\ \A k \in DOMAIN plan[1] : plan[1][k].type \notin {"sort", "limit", "create"} /\ ~plan[1][k].indexed

\* Slots are counted from 1 on.
TakenBelow(k) == {j \in 1..(k - 1) : TakesOne(plan[1][j])}
ArgSlot(k) == Cardinality(TakenBelow(k)) + 1
Numbered(n) == \A k \in 1..n : <<1, k>> \in DOMAIN code /\ code[<<1, k>>].op_id = ArgSlot(k)

CountInv ==
  Simple =>
    /\ phase = "codegen" => \A k : k = at[2] => Numbered(k - 1) /\ op_id = ArgSlot(k)
    /\ phase \notin {"codegen", "aborted"} => Numbered(Len(plan[1]))

\* An operator that takes a slot has one below those of the operators above it.
LEMMA ArgSlots ==
  /\ ArgSlot(1) = 1
  /\ \A k \in Nat : k >= 1 =>
       /\ ArgSlot(k) \in Nat
       /\ ArgSlot(k + 1) = ArgSlot(k) + IF TakesOne(plan[1][k]) THEN 1 ELSE 0
       /\ \A j \in 1..(k - 1) : TakesOne(plan[1][j]) => ArgSlot(j) < ArgSlot(k)
  <1>1. \A k \in Nat : k >= 1 => IsFiniteSet(TakenBelow(k)) /\ Cardinality(TakenBelow(k)) \in Nat
    <2> SUFFICES ASSUME NEW k \in Nat, k >= 1
                 PROVE  IsFiniteSet(TakenBelow(k)) /\ Cardinality(TakenBelow(k)) \in Nat
      OBVIOUS
    <2>1. IsFiniteSet(1..(k - 1))
      BY FS_Interval
    <2>2. TakenBelow(k) \subseteq 1..(k - 1)
      BY DEF TakenBelow
    <2> QED
      BY <2>1, <2>2, FS_Subset, FS_CardinalityType
  <1>2. ArgSlot(1) = 1
    <2>1. TakenBelow(1) = {}
      BY DEF TakenBelow
    <2> QED
      BY <2>1, FS_EmptySet DEF ArgSlot
  <1>3. ASSUME NEW k \in Nat, k >= 1
        PROVE  ArgSlot(k + 1) = ArgSlot(k) + IF TakesOne(plan[1][k]) THEN 1 ELSE 0
    <2>1. TakenBelow(k + 1) = IF TakesOne(plan[1][k]) THEN TakenBelow(k) \cup {k} ELSE TakenBelow(k)
      BY <1>3 DEF TakenBelow
    <2>2. k \notin TakenBelow(k)
      BY <1>3 DEF TakenBelow
    <2>3. Cardinality(TakenBelow(k) \cup {k}) = Cardinality(TakenBelow(k)) + 1
      BY <1>1, <1>3, <2>2, FS_AddElement
    <2> QED
      BY <1>1, <1>3, <2>1, <2>3 DEF ArgSlot
  <1>4. ASSUME NEW k \in Nat, k >= 1, NEW j \in 1..(k - 1), TakesOne(plan[1][j])
        PROVE  ArgSlot(j) < ArgSlot(k)
    <2>1. j \in Nat /\ j >= 1 /\ j + 1 \in Nat /\ j + 1 >= 1
      BY <1>4
    <2>2. TakenBelow(j + 1) \subseteq TakenBelow(k)
      BY <1>4 DEF TakenBelow
    <2>3. Cardinality(TakenBelow(j + 1)) <= Cardinality(TakenBelow(k))
      BY <1>1, <1>4, <2>2, FS_Subset
    <2>4. ArgSlot(j + 1) = ArgSlot(j) + 1
      BY <1>3, <1>4, <2>1
    <2> QED
      BY <1>1, <1>4, <2>1, <2>3, <2>4 DEF ArgSlot
  <1> QED
    BY <1>1, <1>2, <1>3, <1>4 DEF ArgSlot

\* They depend on the plan alone.
LEMMA SlotSame ==
  ASSUME plan' = plan
  PROVE  Simple' = Simple /\ \A k : ArgSlot(k)' = ArgSlot(k)
  BY DEF Simple, ArgSlot, TakenBelow

\* The plan has one pipeline.
LEMMA OnePipeline ==
  ASSUME plan \in Plans, Len(plan) = 1
  PROVE  /\ DOMAIN plan = {1} /\ Len(plan[1]) \in Nat /\ DOMAIN plan[1] = 1..Len(plan[1])
         /\ \A x \in Positions : x = <<1, x[2]>> /\ x[2] \in 1..Len(plan[1]) /\ OpAt(x) = plan[1][x[2]]
         /\ \A k \in 1..Len(plan[1]) : <<1, k>> \in Positions /\ ~IsJoin(plan[1][k])
  <1>1. DOMAIN plan = {1}
    BY PlansAssumption DEF IsPlan, IsSequence
  <1>2. Len(plan[1]) \in Nat /\ DOMAIN plan[1] = 1..Len(plan[1])
    BY <1>1, PlanFacts
  <1>3. \A x \in Positions : x = <<1, x[2]>> /\ x[2] \in 1..Len(plan[1]) /\ OpAt(x) = plan[1][x[2]]
    BY <1>1, <1>2, PositionFacts DEF OpAt
  <1>4. \A k \in 1..Len(plan[1]) : <<1, k>> \in Positions /\ ~IsJoin(plan[1][k])
    BY <1>1, <1>2, PositionFacts, RowsIs
  <1> QED
    BY <1>1, <1>2, <1>3, <1>4

\* The visits of codegen number the operators so,
LEMMA CountNext ==
  ASSUME IInv, CountInv, Compile
  PROVE  CountInv'
  <1>1. plan \in Plans /\ at \in Positions /\ CodegenType /\ op_id \in Nat /\ todo \in Seq(Nat)
        /\ \A i \in DOMAIN todo : todo[i] \in DOMAIN plan /\ todo[i] > 1
    BY DEF IInv, CodegenInv, OrderInv, CodegenType
  <1>2. CASE WalkStep \/ WalkEnd
    <2>1. UNCHANGED <<plan, code>> /\ phase = "walk" /\ phase' # "codegen"
      BY <1>2 DEF WalkStep, WalkEnd
    <2>2. Simple => Numbered(Len(plan[1]))
      BY <2>1 DEF CountInv
    <2>3. PICK n : n = Len(plan[1])
      OBVIOUS
    <2>4. Simple => Numbered(n)'
      BY <2>1, <2>2, <2>3, SlotSame DEF Numbered
    <2>5. Simple' => Numbered(Len(plan[1]))'
      BY <2>1, <2>3, <2>4, SlotSame DEF Numbered
    <2> QED
      BY <2>1, <2>5 DEF CountInv
  <1>3. CASE Visit
    <2>1. Advances \/ Joins \/ Leaves \/ Aborts
      BY <1>1, <1>3, VisitKinds
    <2>2. phase = "codegen" /\ plan' = plan
      BY <2>1 DEF Advances, Joins, Leaves, Aborts, Ascend
    <2> SUFFICES ASSUME Simple', phase' # "aborted" PROVE
          /\ phase' = "codegen" => \A k : k = at'[2] => Numbered(k - 1)' /\ op_id' = ArgSlot(k)'
          /\ phase' # "codegen" => Numbered(Len(plan[1]))'
      BY DEF CountInv
    <2>3. Simple /\ \A k : ArgSlot(k)' = ArgSlot(k)
      BY <2>2, SlotSame
    <2>4. PICK n : n = at[2]
      OBVIOUS
    <2>5. /\ at = <<1, n>> /\ n \in 1..Len(plan[1]) /\ OpAt(at) = plan[1][n] /\ n \in Nat
          /\ ~IsJoin(OpAt(at)) /\ Len(plan[1]) \in Nat /\ DOMAIN plan = {1}
          /\ plan[1][n].type \notin {"sort", "limit", "create"} /\ ~plan[1][n].indexed
      BY <1>1, <2>3, <2>4, OnePipeline DEF Simple
    <2>6. Numbered(n - 1) /\ op_id = ArgSlot(n)
      BY <2>2, <2>3, <2>4 DEF CountInv
    <2>7. ASSUME NEW jid, Emitted(jid) PROVE Numbered(n)'
      <3> SUFFICES ASSUME NEW k \in 1..n
                   PROVE  <<1, k>> \in DOMAIN code' /\ code'[<<1, k>>].op_id = ArgSlot(k)
        BY <2>3 DEF Numbered
      <3>1. CASE k = n
        BY <2>5, <2>6, <2>7, <3>1 DEF Emitted
      <3>2. CASE k # n
        <4>1. k \in 1..(n - 1) /\ <<1, k>> # at
          BY <2>5, <3>2
        <4>2. <<1, k>> \in DOMAIN code /\ code[<<1, k>>].op_id = ArgSlot(k)
          BY <2>6, <4>1 DEF Numbered
        <4> QED
          BY <2>7, <4>1, <4>2 DEF Emitted
      <3> QED
        BY <3>1, <3>2
    <2>8. CASE Advances
      <3>1. /\ at' = Succ(at) /\ phase' = "codegen" /\ Emitted(Null)
            /\ ~TakesSlots(OpAt(at)) => op_id' = op_id + IF Labelled(OpAt(at)) THEN 1 ELSE 0
            /\ OpAt(at).type = "filter" => op_id' = op_id + 1
        BY <2>2, <2>5, <2>8 DEF Advances
      <3>2. op_id' = op_id + IF TakesOne(plan[1][n]) THEN 1 ELSE 0
        BY <2>5, <3>1 DEF TakesSlots, Labelled, TakesOne
      <3>3. op_id' = ArgSlot(n + 1)
        <4>1. n >= 1
          BY <2>5
        <4>2. ArgSlot(n + 1) = ArgSlot(n) + IF TakesOne(plan[1][n]) THEN 1 ELSE 0
          BY <2>5, <4>1, ArgSlots
        <4> QED
          BY <2>6, <3>2, <4>2
      <3>4. at'[2] = n + 1 /\ (n + 1) - 1 = n
        BY <2>5, <3>1 DEF Succ
      <3>5. Numbered(n)'
        BY <2>7, <3>1
      <3>6. ASSUME NEW k, k = at'[2] PROVE Numbered(k - 1)' /\ op_id' = ArgSlot(k)'
        <4>1. k = n + 1 /\ k - 1 = n
          BY <3>4, <3>6
        <4> QED
          BY <2>3, <3>3, <3>5, <4>1
      <3> QED
        BY <3>1, <3>6
    <2>9. CASE Leaves
      <3>1. todo = <<>>
        <4>1. \A i \in DOMAIN todo : FALSE
          BY <1>1, <2>5
        <4>2. DOMAIN todo = 1..Len(todo) /\ Len(todo) \in Nat
          BY <1>1
        <4>3. Len(todo) = 0
          BY <4>1, <4>2
        <4> QED
          BY <1>1, <4>3
      <3>2. phase' = "walk" /\ IsLeaf(OpAt(at)) /\ \E jid : Emitted(jid)
        BY <2>9, <3>1 DEF Leaves, Ascend
      <3>3. n = Len(plan[1])
        BY <1>1, <2>4, <2>5, <3>2, PlanFacts
      <3>4. Numbered(n)'
        BY <2>7, <3>2
      <3>5. Numbered(Len(plan[1]))'
        BY <2>2, <3>3, <3>4 DEF Numbered
      <3> QED
        BY <3>2, <3>5
    <2> QED
      BY <2>1, <2>5, <2>8, <2>9 DEF Joins, Aborts
  <1> QED
    BY <1>2, <1>3 DEF Compile

\* beginning with the first slot.
LEMMA CountInit == CodegenInit => CountInv
  <1> SUFFICES ASSUME CodegenInit, Simple PROVE CountInv
    BY DEF CountInv
  <1>1. phase = "codegen" /\ at[2] = 1 /\ op_id = 1
    BY DEF CodegenInit
  <1>2. Numbered(0) /\ op_id = ArgSlot(1)
    BY <1>1, ArgSlots DEF Numbered
  <1> QED
    BY <1>1, <1>2 DEF CountInv

\* Interpretable plans are of this kind.
LEMMA InterpretableIs ==
  ASSUME plan \in Plans, Interpretable
  PROVE  /\ Simple /\ \A type : Creates(type) = {}
         /\ plan[1][1].type = "scan" /\ 1 \in 1..Len(plan[1])
  <1>1. Simple
    BY DEF Interpretable, Simple
  <1>2. \A x \in Positions : OpAt(x).type # "create"
    BY <1>1, OnePipeline DEF Simple
  <1>3. \A type : Creates(type) = {}
    BY <1>2 DEF Creates
  <1>4. /\ DOMAIN plan[1] = 1..Len(plan[1]) /\ 1 \in 1..Len(plan[1])
        /\ plan[1][1].type \in {"scan", "create"}
    <2>1. 1 \in DOMAIN plan /\ Len(plan[1]) \in Nat /\ Len(plan[1]) >= 1
      BY PlanFacts
    <2> QED
      BY <2>1, PlanFacts
  <1> QED
    BY <1>1, <1>3, <1>4 DEF Simple

\* Each operator of a compiled plan finds registers that it can use,
LEMMA UsableBelow ==
  ASSUME IInv, CountInv, Settled, Simple, NEW k \in 1..Len(plan[1]), plan[1][1].type = "scan"
  PROVE  Usable(plan[1][k], TypesBelow(plan, 1)[k - 1])
  <1>1. plan \in Plans /\ Len(plan) = 1 /\ phase \notin {"codegen", "aborted"}
    BY DEF IInv, CodegenInv, OrderInv, Simple, Settled
  <1>2. /\ Len(plan[1]) \in Nat /\ <<1, k>> \in Positions /\ OpAt(<<1, k>>) = plan[1][k]
        /\ plan[1][k].type = "scan" => k = 1
    <2>1. Len(plan[1]) \in Nat /\ <<1, k>> \in Positions
      BY <1>1, OnePipeline
    <2>2. OpAt(<<1, k>>) = plan[1][k]
      BY DEF OpAt
    <2> QED
      BY <1>1, <2>1, <2>2, PlanFacts
  <1>3. <<1, k>> \in DOMAIN code
    BY <1>1 DEF CountInv, Numbered
  <1>4. CASE k = 1
    BY <1>4 DEF Usable
  <1>5. CASE k # 1
    <2>1. <<1, k>>[2] > 1 /\ <<1, k>>[1] = 1 /\ <<1, k>>[2] = k
      BY <1>2, <1>5
    <2>2. Usable(OpAt(<<1, k>>), TypesOf(code[<<1, k>>].regs))
      BY <1>2, <1>3, <1>5 DEF IInv, CodegenInv, RegsInv
    <2>3. TypesOf(code[<<1, k>>].regs) = FoundTypes(<<1, k>>)
      BY <1>3, <2>1 DEF IInv, CodegenInv, TypesInv
    <2>4. FoundTypes(<<1, k>>) = TypesBelow(plan, 1)[k - 1]
      BY <2>1 DEF FoundTypes
    <2> QED
      BY <1>2, <2>2, <2>3, <2>4
  <1> QED
    BY <1>4, <1>5

\* and tuples that fit them.
LEMMA PlanRows ==
  ASSUME IInv, CountInv, Settled, Simple, plan[1][1].type = "scan", IsGraph(graph)
  PROVE  \A k \in 0..Len(plan[1]) : IsRows(Rows(1, k), TypesBelow(plan, 1)[k])
  <1>1. plan \in Plans /\ Len(plan) = 1
    BY DEF IInv, CodegenInv, OrderInv, Simple
  <1>2. PICK n : n = Len(plan[1]) /\ n \in Nat /\ DOMAIN plan[1] = 1..n
    BY <1>1, OnePipeline
  <1> DEFINE types == TypesBelow(plan, 1)
             T == {k \in Nat : k <= n => IsSequence(types[k]) /\ IsRows(Rows(1, k), types[k])}
  <1>3. 0 \in T
    <2>1. types[0] = <<>> /\ Rows(1, 0) = <<<<>>>>
      BY <1>1, BelowIs, RowsIs, OnePipeline
    <2>2. IsSequence(<<>>) /\ IsSequence(<<<<>>>>) /\ RowFits(<<>>, <<>>)
      BY DEF IsSequence, RowFits
    <2>3. IsRows(<<<<>>>>, <<>>)
      BY <2>2 DEF IsRows
    <2> QED
      BY <2>1, <2>2, <2>3
  <1>4. ASSUME NEW k \in Nat, k \in T PROVE k + 1 \in T
    <2> SUFFICES ASSUME k + 1 <= n
                 PROVE  IsSequence(types[k + 1]) /\ IsRows(Rows(1, k + 1), types[k + 1])
      OBVIOUS
    <2>1. PICK m : m = k + 1
      OBVIOUS
    <2>2. m \in 1..Len(plan[1]) /\ m - 1 = k /\ k <= n
      BY <1>2, <2>1
    <2>3. PICK op, found, rows : op = plan[1][m] /\ found = types[k] /\ rows = Rows(1, k)
      OBVIOUS
    <2>4. types[m] = TypesAfter(op, found, RhsTypes(plan))
      BY <1>1, <2>2, <2>3, BelowIs, OnePipeline
    <2>5. Rows(1, m) = Apply(op, rows, <<>>)
      BY <1>1, <2>2, <2>3, RowsIs
    <2>6. Usable(op, found)
      BY <2>2, <2>3, UsableBelow
    <2>7. /\ op.type # "limit" /\ op.type # "create" /\ ~IsJoin(op) /\ IsSequence(op.prexpr)
      <3>1. m \in DOMAIN plan[1] /\ 1 \in DOMAIN plan
        BY <1>1, <1>2, <2>2, PlanFacts
      <3>2. IsSequence(op.prexpr)
        BY <1>1, <2>3, <3>1, PlansAssumption DEF IsPlan
      <3> QED
        BY <1>1, <2>2, <2>3, <3>1, <3>2, OnePipeline DEF Simple
    <2>8. IsSequence(found) /\ IsRows(rows, found)
      BY <1>4, <2>2, <2>3
    <2>9. IsSequence(types[m]) /\ IsRows(Rows(1, m), types[m])
      BY <2>4, <2>5, <2>6, <2>7, <2>8, ApplyRows
    <2> QED
      BY <2>1, <2>9
  <1>5. \A k \in Nat : k \in T
    <2> HIDE DEF T
    <2> QED
      BY <1>3, <1>4, SetInduction
  <1> QED
    BY <1>2, <1>5

\* The slot that an operator reads holds its own label: no other operator reads it.
LEMMA GivenIs ==
  ASSUME IInv, CountInv, Settled, Simple, iv.caller = "run_parallel",
         NEW k \in 1..Len(plan[1]), TakesOne(plan[1][k])
  PROVE  Given(ArgSlot(k)) = plan[1][k].label
  <1>1. plan \in Plans /\ Len(plan) = 1 /\ phase \notin {"codegen", "aborted"}
    BY DEF IInv, CodegenInv, OrderInv, Simple, Settled
  <1>2. PICK n : n = Len(plan[1]) /\ n \in Nat /\ DOMAIN plan[1] = 1..n
    BY <1>1, OnePipeline
  <1>3. \A j \in 1..n : Slot(<<1, j>>) = ArgSlot(j) /\ OpAt(<<1, j>>) = plan[1][j]
    <2> SUFFICES ASSUME NEW j \in 1..n
                 PROVE  Slot(<<1, j>>) = ArgSlot(j) /\ OpAt(<<1, j>>) = plan[1][j]
      OBVIOUS
    <2>1. code[<<1, j>>].op_id = ArgSlot(j) /\ ArgSlot(j) \in Nat
      BY <1>1, <1>2, ArgSlots DEF CountInv, Numbered
    <2>2. OpAt(<<1, j>>) = plan[1][j] /\ ~plan[1][j].indexed
      BY <1>2 DEF OpAt, Simple
    <2> QED
      BY <2>1, <2>2 DEF Slot
  <1>4. ASSUME NEW j \in 1..n
        PROVE  Parameters(<<1, j>>) = IF ReadsSlot(plan[1][j]) THEN {<<ArgSlot(j), plan[1][j].label>>} ELSE {}
    BY <1>2, <1>3 DEF Parameters, Simple
  <1>5. ASSUME NEW j \in 1..n, ReadsSlot(plan[1][j]), ArgSlot(j) = ArgSlot(k) PROVE j = k
    <2>1. TakesOne(plan[1][j])
      BY <1>2, <1>5 DEF ReadsSlot, TakesOne, Simple
    <2>2. j < k => ArgSlot(j) < ArgSlot(k)
      BY <1>2, <2>1, ArgSlots
    <2>3. k < j => ArgSlot(k) < ArgSlot(j)
      BY <1>2, ArgSlots
    <2>4. ArgSlot(k) \in Nat /\ j \in Nat /\ k \in Nat
      BY <1>2, ArgSlots
    <2> QED
      BY <1>5, <2>2, <2>3, <2>4
  <1>6. ASSUME NEW p \in AllParameters, p[1] = ArgSlot(k)
        PROVE  ReadsSlot(plan[1][k]) /\ p[2] = plan[1][k].label
    <2>1. PICK x \in Positions : p \in Parameters(x)
      BY DEF AllParameters
    <2>2. PICK j : j = x[2] /\ x = <<1, j>> /\ j \in 1..n
      BY <1>1, <1>2, OnePipeline
    <2>3. ReadsSlot(plan[1][j]) /\ p = <<ArgSlot(j), plan[1][j].label>>
      BY <1>4, <2>1, <2>2
    <2>4. j = k
      BY <1>5, <1>6, <2>2, <2>3
    <2> QED
      BY <2>3, <2>4
  <1>7. CASE ReadsSlot(plan[1][k])
    <2>1. PICK q : q = <<ArgSlot(k), plan[1][k].label>>
      OBVIOUS
    <2>2. q \in AllParameters /\ q[1] = ArgSlot(k)
      <3>1. <<1, k>> \in Positions /\ q \in Parameters(<<1, k>>)
        BY <1>1, <1>2, <1>4, <1>7, <2>1, OnePipeline
      <3> QED
        BY <2>1, <3>1 DEF AllParameters
    <2>3. ArgSlot(k) \in DOMAIN GivenArgs
      BY <2>2 DEF GivenArgs
    <2>4. GivenArgs[ArgSlot(k)] = (CHOOSE p \in AllParameters : p[1] = ArgSlot(k))[2]
      BY <2>2 DEF GivenArgs
    <2>5. PICK pair \in AllParameters : pair = (CHOOSE p \in AllParameters : p[1] = ArgSlot(k)) /\ pair[1] = ArgSlot(k)
      BY <2>2
    <2> QED
      BY <1>6, <2>3, <2>4, <2>5 DEF Given
  <1>8. CASE ~ReadsSlot(plan[1][k])
    <2>1. plan[1][k].label = ""
      BY <1>8 DEF ReadsSlot, TakesOne
    <2>2. ArgSlot(k) \notin DOMAIN GivenArgs
      BY <1>6, <1>8 DEF GivenArgs
    <2> QED
      BY <2>1, <2>2 DEF Given
  <1> QED
    BY <1>7, <1>8

\* The operator of a query that the visit of op adds.
Interpreted(op) ==
  CASE op.type = "scan"    -> Scan(op.label)
    [] op.type = "filter"  -> [op EXCEPT !.label = op.fexpr.operand]
    [] op.type = "collect" -> Collect
    [] op.type \in {"foreach_rship", "expand"} -> [op EXCEPT !.label = op.label]
    [] OTHER -> op

\* It has the fields that count.
LEMMA InterpretedIs ==
  ASSUME plan \in Plans, NEW p \in DOMAIN plan, NEW k \in DOMAIN plan[p],
         NEW op, op = plan[p][k], NEW q, q = Interpreted(op)
  PROVE  /\ q.type = op.type
         /\ op.type = "scan" => q.label = op.label /\ ~q.indexed
         /\ op.type \in {"foreach_rship", "expand"} =>
              q.label = op.label /\ q.dir = op.dir /\ q.variable = op.variable
         /\ op.type = "filter" => q.label = op.fexpr.operand /\ q.fexpr = op.fexpr
         /\ op.type = "project" => q = op
  <1>1. DOMAIN op = DOMAIN base_op
    BY PlansAssumption DEF IsPlan
  <1>2. {"type", "label", "dir", "variable", "fexpr"} \subseteq DOMAIN op
    BY <1>1 DEF base_op
  <1>3. CASE op.type = "scan"
    <2>1. q = Scan(op.label)
      BY <1>3 DEF Interpreted
    <2> QED
      BY <1>3, <2>1 DEF Scan, base_op
  <1>4. CASE op.type = "filter"
    <2>1. q = [op EXCEPT !.label = op.fexpr.operand]
      BY <1>4 DEF Interpreted
    <2> QED
      BY <1>2, <1>4, <2>1
  <1>5. CASE op.type = "collect"
    <2>1. q = Collect
      BY <1>5 DEF Interpreted
    <2> QED
      BY <1>5, <2>1 DEF Collect, base_op
  <1>6. CASE op.type \in {"foreach_rship", "expand"}
    <2>1. q = [op EXCEPT !.label = op.label]
      BY <1>6 DEF Interpreted
    <2> QED
      BY <1>2, <1>6, <2>1
  <1>7. CASE op.type \notin {"scan", "filter", "collect", "foreach_rship", "expand"}
    <2>1. q = op
      BY <1>7, Zenon DEF Interpreted
    <2> QED
      BY <1>7, <2>1
  <1> QED
    BY <1>3, <1>4, <1>5, <1>6, <1>7

\* Operators with the same fields pass on the same tuples.
LEMMA AppliesAlike ==
  ASSUME NEW op, NEW q, NEW rows, q.type = op.type,
         \/ op.type \in {"foreach_rship", "expand"} /\ q.label = op.label /\ q.dir = op.dir
              /\ q.variable = op.variable
         \/ op.type = "scan" /\ q.label = op.label /\ ~q.indexed /\ ~op.indexed
         \/ op.type = "collect" \/ q = op
  PROVE  Apply(q, rows, <<>>) = Apply(op, rows, <<>>)
  <1>1. CASE op.type = "foreach_rship"
    <2> DEFINE Ids(o, row) == IF o.variable THEN VarRships(Id(Last(row)), o.dir, o.label)
                              ELSE Rships(Id(Last(row)), o.dir, o.label)
               Seqs(o) == [i \in DOMAIN rows |->
                             [j \in DOMAIN Ids(o, rows[i]) |-> Append(rows[i], Rship(Ids(o, rows[i])[j]))]]
    <2>1. \A o : o.type = "foreach_rship" => Apply(o, rows, <<>>) = FlattenSeq(Seqs(o))
      BY DEF Apply, FlatMap, Map
    <2>2. \A row : Ids(q, row) = Ids(op, row)
      BY <1>1
    <2>3. Seqs(q) = Seqs(op)
      <3> HIDE DEF Ids
      <3> QED
        BY <2>2
    <2> HIDE DEF Seqs
    <2> QED
      BY <1>1, <2>1, <2>3
  <1>2. CASE op.type = "expand"
    <2> DEFINE EndsOf(o) == [i \in DOMAIN rows |-> Append(rows[i], Node(EndOf(Id(Last(rows[i])), o.dir)))]
               Keeps(o, s) == {i \in DOMAIN s : o.label = "" \/ NodeLabel(Id(Last(s[i]))) = o.label}
    <2>1. \A o : o.type = "expand" => Apply(o, rows, <<>>) = Kept(EndsOf(o), Keeps(o, EndsOf(o)))
      BY DEF Apply, Map
    <2>2. EndsOf(q) = EndsOf(op)
      BY <1>2
    <2>3. \A s : Keeps(q, s) = Keeps(op, s)
      BY <1>2
    <2> HIDE DEF EndsOf, Keeps
    <2> QED
      BY <1>2, <2>1, <2>2, <2>3
  <1>3. CASE op.type = "scan"
    <2> DEFINE Keeps(o) == IF o.indexed THEN Indexed(o.props, o.label)
                           ELSE {n \in DOMAIN graph.node : NodeLabel(n) = o.label}
    <2>1. \A o : o.type = "scan" =>
            Apply(o, rows, <<>>) = Map(LAMBDA n : <<Node(n)>>, Kept([n \in DOMAIN graph.node |-> n], Keeps(o)))
      BY DEF Apply
    <2>2. Keeps(q) = Keeps(op)
      BY <1>3
    <2> HIDE DEF Keeps
    <2> QED
      BY <1>3, <2>1, <2>2
  <1>4. CASE op.type = "collect"
    <2>1. \A o : o.type = "collect" => Apply(o, rows, <<>>) = rows
      BY DEF Apply
    <2> QED
      BY <1>4, <2>1
  <1> QED
    BY <1>1, <1>2, <1>3, <1>4

\* A scan starts anew.
LEMMA ScanApplies ==
  ASSUME NEW op, op.type = "scan", NEW rows, NEW others
  PROVE  Apply(op, rows, <<>>) = Apply(op, others, <<>>)
  BY DEF Apply

\* A filter of the last node of a tuple keeps the tuples that the plan's does.
LEMMA FilterAlike ==
  ASSUME \A type : Creates(type) = {}, NEW op, op.type = "filter", op.fexpr.kind = "eq",
         NEW types, NEW rows, IsRows(rows, types), Usable(op, types),
         op.fexpr.qr_id + 1 = Len(types),
         NEW q, q.type = "filter", Operand(q) = op.fexpr.value
  PROVE  Process(q, rows) = Apply(op, rows, <<>>)
  <1> DEFINE tested == op.fexpr.qr_id + 1
             mine == {i \in DOMAIN rows : PropertyOf(Last(rows[i])) = Operand(q)}
             plans == {i \in DOMAIN rows : DescriptionAfter(rows[i][tested]) = op.fexpr.value}
  <1>1. Process(q, rows) = Kept(rows, mine)
    BY DEF Process
  <1>2. Apply(op, rows, <<>>) = Kept(rows, plans)
    BY Zenon DEF Apply
  <1>3. op.fexpr.qr_id + 1 \in DOMAIN types /\ types[op.fexpr.qr_id + 1] = 0
    BY DEF Usable
  <1>4. ASSUME NEW i \in DOMAIN rows
        PROVE  PropertyOf(Last(rows[i])) = DescriptionAfter(rows[i][tested])
    <2>1. PICK row, v : row = rows[i] /\ v = row[tested]
      OBVIOUS
    <2>2. RowFits(row, types)
      BY <2>1 DEF IsRows
    <2>3. v[1] = "node"
      BY <1>3, <2>1, <2>2 DEF RowFits
    <2>4. Last(row) = v
      BY <2>1, <2>2 DEF RowFits, Last
    <2>5. DescriptionAfter(v) = PropertyOf(v)
      BY <2>3, DescribedAs DEF Description
    <2> QED
      BY <2>1, <2>4, <2>5
  <1>5. mine = plans
    <2> HIDE DEF tested
    <2> QED
      BY <1>4
  <1> QED
    BY <1>1, <1>2, <1>5

\* The query that the visits have built.
QueryUpTo(n) == [j \in 1..n |-> Interpreted(plan[1][j])]
Remembers(n) == \A k \in Strings : k <= n => iv.dict_value = plan[1][k].fexpr.value

\* Its operators, processed one after the other, leave the tuples that those of the plan describe.
LEMMA QueryDelivers ==
  ASSUME IInv, CountInv, Settled, IsGraph(graph), Interpretable, iv.caller = "run_parallel",
         NEW n, n = Len(plan[1]), Remembers(n)
  PROVE  \A k \in 1..n : QueryRows(QueryUpTo(n), k) = Rows(1, k)
  <1>1. plan \in Plans /\ Len(plan) = 1
    BY DEF IInv, CodegenInv, OrderInv, Interpretable
  <1>2. /\ Simple /\ \A type : Creates(type) = {} /\ plan[1][1].type = "scan"
        /\ n \in Nat /\ DOMAIN plan[1] = 1..n /\ 1 \in 1..n /\ 1 \in DOMAIN plan
    BY <1>1, InterpretableIs, OnePipeline, PlanFacts
  <1>3. PICK Q : Q = QueryUpTo(n) /\ IsSequence(Q) /\ Len(Q) = n
                 /\ \A k \in 1..n : Q[k] = Interpreted(plan[1][k])
    <2>1. PICK Q : Q = QueryUpTo(n)
      OBVIOUS
    <2>2. Q = [j \in 1..n |-> Q[j]] /\ \A k \in 1..n : Q[k] = Interpreted(plan[1][k])
      BY <2>1 DEF QueryUpTo
    <2>3. IsSequence(Q) /\ Len(Q) = n
      BY <1>2, <2>2, FunSeq
    <2> QED
      BY <2>1, <2>2, <2>3
  <1>4. \A k \in 1..n : QueryRows(Q, k) = Process(Q[k], IF k = 1 THEN <<>> ELSE QueryRows(Q, k - 1))
    BY <1>3, QueryRowsIs
  <1>5. \A k \in 1..n : Rows(1, k) = Apply(plan[1][k], Rows(1, k - 1), <<>>)
    BY <1>1, <1>2, RowsIs
  <1>6. ASSUME NEW k \in 1..n, NEW rows, k = 1 \/ rows = Rows(1, k - 1)
        PROVE  Process(Q[k], rows) = Rows(1, k)
    <2>1. PICK op, q, given : op = plan[1][k] /\ q = Q[k] /\ q = Interpreted(op) /\ given = Rows(1, k - 1)
      BY <1>3
    <2>2. Rows(1, k) = Apply(op, given, <<>>)
      BY <1>5, <2>1
    <2>3. k \in DOMAIN plan[1] /\ op.type \notin {"sort", "limit", "create"} /\ ~op.indexed
          /\ ~IsJoin(op)
      BY <1>1, <1>2, <2>1, OnePipeline DEF Simple
    <2>4. /\ q.type = op.type
          /\ op.type = "scan" => q.label = op.label /\ ~q.indexed
          /\ op.type \in {"foreach_rship", "expand"} =>
               q.label = op.label /\ q.dir = op.dir /\ q.variable = op.variable
          /\ op.type = "filter" => q.label = op.fexpr.operand /\ q.fexpr = op.fexpr
          /\ op.type = "project" => q = op
      BY <1>1, <1>2, <2>1, <2>3, InterpretedIs
    <2>5. op.type = "scan" \/ rows = given
      BY <1>2, <1>6, <2>1
    <2>6. CASE op.type # "filter"
      <3>1. Process(q, rows) = Apply(q, rows, <<>>)
        BY <2>4, <2>6 DEF Process
      <3>2. \/ op.type \in {"foreach_rship", "expand"} \/ op.type = "scan"
            \/ op.type = "collect" \/ q = op
        BY <2>1, <2>6, Zenon DEF Interpreted
      <3>3. Apply(q, rows, <<>>) = Apply(op, rows, <<>>)
        BY <2>3, <2>4, <3>2, AppliesAlike
      <3>4. Apply(op, rows, <<>>) = Apply(op, given, <<>>)
        BY <2>5, ScanApplies
      <3> QED
        BY <2>1, <2>2, <3>1, <3>3, <3>4
    <2>7. CASE op.type = "filter"
      <3>1. PICK types : types = TypesBelow(plan, 1)[k - 1]
        OBVIOUS
      <3>2. /\ op.fexpr.kind = "eq" /\ op.fexpr.qr_id + 1 = Len(FoundTypes(<<1, k>>))
            /\ op.fexpr.operand = "int" => k = 2
        BY <2>1, <2>3, <2>7 DEF Interpretable
      <3>3. FoundTypes(<<1, k>>) = types
        BY <3>1 DEF FoundTypes
      <3>4. IsRows(given, types)
        <4>1. k - 1 \in 0..n
          BY <1>2
        <4> QED
          BY <1>2, <2>1, <3>1, <4>1, PlanRows
      <3>5. Usable(op, types)
        BY <1>2, <2>1, <3>1, UsableBelow
      <3>6. op.label = op.fexpr.value /\ op.fexpr.operand \in {"int", "str"}
        BY <1>1, <1>2, <2>1, <2>3, <2>7, <3>2, PlansAssumption DEF IsPlan
      <3>7. Operand(q) = op.fexpr.value
        <4>1. CASE op.fexpr.operand = "int"
          <5>1. k = 2 /\ q.label = "int"
            BY <2>4, <2>7, <3>2, <4>1
          <5>2. TakesOne(plan[1][1]) /\ TakesOne(plan[1][2])
            BY <1>2, <2>1, <2>7, <5>1 DEF TakesOne
          <5>3. ArgSlot(2) = 2
            <6>1. ArgSlot(1 + 1) = ArgSlot(1) + 1 /\ ArgSlot(1) = 1
              BY <5>2, ArgSlots
            <6> QED
              BY <6>1
          <5>4. Given(ArgSlot(2)) = plan[1][2].label
            BY <1>2, <5>1, <5>2, GivenIs
          <5> QED
            BY <2>1, <3>6, <5>1, <5>3, <5>4 DEF Operand
        <4>2. CASE op.fexpr.operand = "str"
          <5>1. q.label = "str" /\ k \in Strings /\ k <= n
            BY <1>2, <2>1, <2>3, <2>4, <2>7, <3>2, <4>2 DEF Strings
          <5>2. iv.dict_value = op.fexpr.value
            BY <2>1, <5>1 DEF Remembers
          <5> QED
            BY <5>1, <5>2 DEF Operand
        <4> QED
          BY <3>6, <4>1, <4>2
      <3>8. Process(q, given) = Apply(op, given, <<>>)
        BY <1>2, <2>4, <2>7, <3>2, <3>3, <3>4, <3>5, <3>7, FilterAlike
      <3> QED
        BY <2>1, <2>2, <2>5, <2>7, <3>8
    <2> QED
      BY <2>6, <2>7
  <1> DEFINE T == {k \in Nat : k + 1 <= n => QueryRows(Q, k + 1) = Rows(1, k + 1)}
  <1>7. 0 \in T
    <2>1. QueryRows(Q, 1) = Rows(1, 1)
      BY <1>2, <1>4, <1>6
    <2> QED
      BY <2>1
  <1>8. ASSUME NEW k \in Nat, k \in T PROVE k + 1 \in T
    <2> SUFFICES ASSUME (k + 1) + 1 <= n PROVE QueryRows(Q, (k + 1) + 1) = Rows(1, (k + 1) + 1)
      OBVIOUS
    <2>1. PICK m : m = (k + 1) + 1
      OBVIOUS
    <2>2. m \in 1..n /\ m # 1 /\ m - 1 = k + 1 /\ k + 1 <= n
      BY <1>2, <2>1
    <2>3. QueryRows(Q, m - 1) = Rows(1, m - 1)
      BY <1>8, <2>2
    <2> QED
      BY <1>4, <1>6, <2>1, <2>2, <2>3
  <1>9. \A k \in Nat : k \in T
    <2> HIDE DEF T
    <2> QED
      BY <1>7, <1>8, SetInduction
  <1>10. ASSUME NEW k \in 1..n PROVE QueryRows(Q, k) = Rows(1, k)
    <2>1. k - 1 \in Nat /\ (k - 1) + 1 = k /\ k <= n
      BY <1>2
    <2> QED
      BY <1>9, <2>1
  <1> QED
    BY <1>3, <1>10

\* What such a plan means depends on the graph alone.
RowsRecur ==
  plan \in Plans /\ Len(plan) = 1 =>
    /\ Rows(1, 0) = <<<<>>>>
    /\ \A k \in 1..Len(plan[1]) : Rows(1, k) = Apply(plan[1][k], Rows(1, k - 1), <<>>)

LEMMA ResultSame ==
  ASSUME plan \in Plans, Interpretable, UNCHANGED <<plan, graph>>, RowsRecur, RowsRecur'
  PROVE  Result(1)' = Result(1)
  <1>1. /\ Simple /\ \A type : Creates(type) = {} /\ Len(plan) = 1
    BY InterpretableIs DEF Simple
  <1>2. PICK n : n = Len(plan[1]) /\ n \in Nat /\ DOMAIN plan[1] = 1..n
    BY <1>1, OnePipeline
  <1> DEFINE T == {k \in Nat : k <= n => Rows(1, k)' = Rows(1, k)}
  <1>3. 0 \in T
    BY <1>1 DEF RowsRecur
  <1>4. ASSUME NEW k \in Nat, k \in T PROVE k + 1 \in T
    <2> SUFFICES ASSUME k + 1 <= n PROVE Rows(1, k + 1)' = Rows(1, k + 1)
      OBVIOUS
    <2>1. PICK m : m = k + 1
      OBVIOUS
    <2>2. m \in 1..n /\ m - 1 = k /\ k <= n
      BY <1>2, <2>1
    <2>3. PICK op, rows : op = plan[1][m] /\ rows = Rows(1, k)
      OBVIOUS
    <2>4. Rows(1, m) = Apply(op, rows, <<>>)
      BY <1>1, <1>2, <2>2, <2>3 DEF RowsRecur
    <2>5. Rows(1, m)' = Apply(plan[1][m], Rows(1, m - 1), <<>>)'
      BY <1>1, <1>2, <2>2 DEF RowsRecur
    <2>6. plan[1][m]' = op /\ Rows(1, m - 1)' = rows
      BY <1>4, <2>2, <2>3
    <2>7. Rows(1, m)' = Apply(op, rows, <<>>)'
      BY <2>5, <2>6
    <2>8. op.type # "create"
      BY <1>1, <1>2, <2>2, <2>3 DEF Simple
    <2>9. Apply(op, rows, <<>>)' = Apply(op, rows, <<>>)
      BY <1>1, <2>8, ApplySame
    <2> QED
      BY <2>1, <2>4, <2>7, <2>9
  <1>5. \A k \in Nat : k \in T
    <2> HIDE DEF T
    <2> QED
      BY <1>3, <1>4, SetInduction
  <1>6. Rows(1, n)' = Rows(1, n)
    BY <1>2, <1>5
  <1>7. Result(1) = Rows(1, n) /\ Result(1)' = Rows(1, n)'
    BY <1>2 DEF Result
  <1> QED
    BY <1>6, <1>7

\* One query delivers what its last operator passes on.
LEMMA DeliveredIs ==
  ASSUME NEW Q, iv.queries = <<Q>>, NEW r, r = QueryRows(Q, Len(Q))
  PROVE  Delivered = r
  <1> DEFINE seqs == [i \in DOMAIN iv.queries |-> QueryRows(iv.queries[i], Len(iv.queries[i]))]
  <1>1. \A i \in {1} : iv.queries[i] = Q
    OBVIOUS
  <1>2. DOMAIN iv.queries = {1}
    OBVIOUS
  <1>3. seqs = [i \in 1..1 |-> r]
    BY <1>1, <1>2
  <1>4. IsSequence(seqs) /\ Len(seqs) = 1 /\ seqs[1] = r
    <2> HIDE DEF seqs
    <2>1. seqs = [i \in 1..1 |-> seqs[i]] /\ seqs[1] = r
      BY <1>3
    <2> QED
      BY <2>1, FunSeq
  <1>5. Delivered = FlattenSeq(seqs)
    BY DEF Delivered
  <1> HIDE DEF seqs
  <1>6. PICK c : Flattens(c, seqs)
    BY <1>4, FlattenIs
  <1> QED
    BY <1>4, <1>5, <1>6 DEF Flattens

-----------------------------------------------------------------------------
(***************************************************************************)
(* What the visits of the interpreter have built.                          *)
(***************************************************************************)
IsVisitor ==
  iv = [caller |-> iv.caller, at |-> iv.at, queries |-> iv.queries, val_type |-> iv.val_type,
        dict_value |-> iv.dict_value]

\* The slot counter is at the slot of the operator to be visited, the query has the operators
\* before it, and the visitor remembers the string that one of them compares with.
QueryInv ==
  phase = "interpret" /\ status = "ok" /\ iv.caller = "run_parallel" /\ Interpretable =>
    \A n : n = iv.at =>
      /\ n \in 1..(Len(plan[1]) + 1) /\ op_id_ = ArgSlot(n)
      /\ iv.queries = IF n = 1 THEN <<>> ELSE <<QueryUpTo(n - 1)>>
      /\ Remembers(n - 1)

\* Between the interpretations the counter is back, and what was interpreted is what the plan
\* describes, whatever has been called since.
InterpretInv ==
  /\ IsVisitor
  /\ IF phase = "interpret" THEN iv.caller \in {"run", "run_parallel"} ELSE op_id_ = 1
  /\ QueryInv
  /\ interpreted # Null /\ Interpretable => interpreted = Result(1)

\* What is interpretable, and the query for it, depend on the plan alone.
LEMMA InterpretableSame ==
  ASSUME plan' = plan
  PROVE  /\ Interpretable' = Interpretable /\ Strings' = Strings
         /\ \A n : QueryUpTo(n)' = QueryUpTo(n)
  <1>1. \A x : FoundTypes(x)' = FoundTypes(x)
    BY DEF FoundTypes
  <1>2. Strings' = Strings
    BY DEF Strings
  <1>3. Interpretable' = Interpretable
    BY <1>1, <1>2 DEF Interpretable
  <1>4. \A n : QueryUpTo(n)' = QueryUpTo(n)
    BY DEF QueryUpTo
  <1> QED
    BY <1>2, <1>3, <1>4

\* A step that changes neither the graph nor the result set interpreted last.
LEMMA ResultKept ==
  ASSUME plan \in Plans, RowsRecur, RowsRecur', UNCHANGED <<plan, graph, interpreted>>,
         interpreted # Null /\ Interpretable => interpreted = Result(1)
  PROVE  interpreted' # Null /\ Interpretable' => interpreted' = Result(1)'
  <1>1. Interpretable' = Interpretable
    BY InterpretableSame
  <1> QED
    BY <1>1, ResultSame

\* Steps outside an interpretation.
LEMMA OutsideInterprets ==
  ASSUME plan \in Plans, RowsRecur, RowsRecur', InterpretInv, UNCHANGED <<plan, graph>>,
         UNCHANGED ivars, phase # "interpret", phase' # "interpret"
  PROVE  InterpretInv'
  <1>1. iv' = iv /\ op_id_' = op_id_ /\ interpreted' = interpreted
    BY DEF ivars
  <1>2. interpreted' # Null /\ Interpretable' => interpreted' = Result(1)'
    BY <1>1, ResultKept DEF InterpretInv
  <1>3. IsVisitor' /\ QueryInv'
    BY <1>1 DEF InterpretInv, IsVisitor, QueryInv
  <1> QED
    BY <1>1, <1>2, <1>3 DEF InterpretInv

\* One more operator of the query.
LEMMA QueryExtends ==
  ASSUME NEW n \in Nat, n >= 1, NEW v, v = Interpreted(plan[1][n])
  PROVE  /\ n = 1 => Append(<<>>, <<v>>) = <<QueryUpTo(n)>>
         /\ n # 1 => Append(Front(<<QueryUpTo(n - 1)>>), Append(Last(<<QueryUpTo(n - 1)>>), v)) = <<QueryUpTo(n)>>
  <1> DEFINE first == Append(<<>>, <<v>>)
             further == Append(Front(<<QueryUpTo(n - 1)>>), Append(Last(<<QueryUpTo(n - 1)>>), v))
  <1>1. ASSUME n = 1 PROVE first = <<QueryUpTo(n)>>
    <2>1. <<v>> = QueryUpTo(n)
      BY <1>1 DEF QueryUpTo
    <2> QED
      BY <1>1, <2>1
  <1>2. ASSUME n # 1 PROVE further = <<QueryUpTo(n)>>
    <2>1. PICK q, Q : q = QueryUpTo(n - 1) /\ Q = QueryUpTo(n)
      OBVIOUS
    <2>2. Front(<<q>>) = <<>> /\ Last(<<q>>) = q
      BY DEF Front, Last
    <2>3. n - 1 \in Nat /\ q = [j \in 1..(n - 1) |-> Interpreted(plan[1][j])]
      BY <1>2, <2>1 DEF QueryUpTo
    <2>4. Len(q) = n - 1 /\ \A j \in 1..(n - 1) : q[j] = Interpreted(plan[1][j])
      <3>1. q = [j \in 1..(n - 1) |-> q[j]] /\ \A j \in 1..(n - 1) : q[j] = Interpreted(plan[1][j])
        BY <2>3
      <3> QED
        BY <2>3, <3>1, FunSeq
    <2>5. Append(q, v) = [j \in 1..n |-> IF j = n THEN v ELSE q[j]]
      <3>1. IsSequence(q)
        <4>1. q = [j \in 1..(n - 1) |-> q[j]]
          BY <2>3
        <4> QED
          BY <2>3, <4>1, FunSeq
      <3>2. q \in Seq({q[j] : j \in 1..(n - 1)} \cup {v}) /\ v \in {q[j] : j \in 1..(n - 1)} \cup {v}
        BY <2>3, <2>4, <3>1 DEF IsSequence
      <3>3. Append(q, v) = [j \in 1..(Len(q) + 1) |-> IF j = Len(q) + 1 THEN v ELSE q[j]]
        BY <3>2
      <3>4. Len(q) + 1 = n
        BY <2>4
      <3> QED
        BY <3>3, <3>4
    <2>6. Append(q, v) = Q
      <3>1. Q = [j \in 1..n |-> Interpreted(plan[1][j])]
        BY <2>1 DEF QueryUpTo
      <3>2. \A j \in 1..n : (IF j = n THEN v ELSE q[j]) = Interpreted(plan[1][j])
        <4> SUFFICES ASSUME NEW j \in 1..n PROVE (IF j = n THEN v ELSE q[j]) = Interpreted(plan[1][j])
          OBVIOUS
        <4>1. j # n => j \in 1..(n - 1)
          OBVIOUS
        <4> QED
          BY <2>4, <4>1
      <3> QED
        BY <2>5, <3>1, <3>2
    <2>7. further = Append(Front(<<q>>), Append(Last(<<q>>), v))
      BY <2>1
    <2>8. further = Append(<<>>, Q)
      <3> HIDE DEF further
      <3> QED
        BY <2>2, <2>6, <2>7
    <2>9. Append(<<>>, Q) = <<Q>>
      OBVIOUS
    <2> HIDE DEF further
    <2> QED
      BY <2>1, <2>8, <2>9
  <1> HIDE DEF first, further
  <1>3. /\ n = 1 => first = <<QueryUpTo(n)>>
        /\ n # 1 => further = <<QueryUpTo(n)>>
    BY <1>1, <1>2
  <1> QED
    BY <1>3 DEF first, further

\* What the visit of an operator adds.
Visited ==
  LET op == plan[1][iv.at]
  IN /\ iv'.queries = IF op.type = "scan" THEN Append(iv.queries, <<Interpreted(op)>>)
                      ELSE Extended(Interpreted(op))
     /\ op_id_' = op_id_ + IF TakesOne(op) THEN 1 ELSE 0
     /\ iv'.dict_value = IF iv.at \in Strings THEN op.fexpr.value ELSE iv.dict_value

\* A visit that does so keeps the invariant.
LEMMA VisitedKeeps ==
  ASSUME IInv, RowsRecur, RowsRecur', InterpretInv, phase = "interpret", status = "ok",
         phase' = "interpret", UNCHANGED <<plan, graph, interpreted>>, IsVisitor',
         iv'.caller = iv.caller, iv'.at = iv.at + 1, iv.at \in DOMAIN plan[1],
         Interpretable /\ iv.caller = "run_parallel" => Visited
  PROVE  InterpretInv'
  <1>1. plan \in Plans
    BY DEF IInv, CodegenInv, OrderInv
  <1>2. /\ Interpretable' = Interpretable /\ Strings' = Strings
        /\ \A n : QueryUpTo(n)' = QueryUpTo(n)
    BY InterpretableSame
  <1>3. interpreted' # Null /\ Interpretable' => interpreted' = Result(1)'
    BY <1>1, ResultKept DEF InterpretInv
  <1>4. iv'.caller \in {"run", "run_parallel"}
    BY DEF InterpretInv
  <1>5. QueryInv'
    <2> SUFFICES ASSUME iv.caller = "run_parallel", Interpretable, NEW m, m = iv'.at
                 PROVE  /\ m \in 1..(Len(plan[1]) + 1) /\ op_id_' = ArgSlot(m)'
                        /\ iv'.queries = IF m = 1 THEN <<>> ELSE <<QueryUpTo(m - 1)'>>
                        /\ Remembers(m - 1)'
      BY <1>2 DEF QueryInv
    <2>1. PICK n : n = iv.at
      OBVIOUS
    <2>2. /\ op_id_ = ArgSlot(n)
          /\ iv.queries = IF n = 1 THEN <<>> ELSE <<QueryUpTo(n - 1)>>
          /\ Remembers(n - 1)
      BY <2>1 DEF InterpretInv, QueryInv
    <2>3. /\ Simple /\ plan[1][1].type = "scan" /\ DOMAIN plan[1] = 1..Len(plan[1]) /\ Len(plan[1]) \in Nat
          /\ <<1, n>> \in Positions /\ OpAt(<<1, n>>) = plan[1][n]
      <3>1. Simple /\ plan[1][1].type = "scan"
        BY <1>1, InterpretableIs
      <3>2. DOMAIN plan[1] = 1..Len(plan[1]) /\ Len(plan[1]) \in Nat /\ <<1, n>> \in Positions
        BY <1>1, <2>1, <3>1, OnePipeline DEF Simple
      <3> QED
        BY <3>1, <3>2 DEF OpAt
    <2>4. n \in 1..Len(plan[1]) /\ n \in Nat /\ n >= 1 /\ m = n + 1 /\ m - 1 = n /\ m # 1
      BY <2>1, <2>3
    <2>5. plan[1][n].type = "scan" <=> n = 1
      BY <1>1, <2>3, PlanFacts
    <2>6. /\ iv'.queries = IF plan[1][n].type = "scan" THEN Append(iv.queries, <<Interpreted(plan[1][n])>>)
                           ELSE Extended(Interpreted(plan[1][n]))
          /\ op_id_' = op_id_ + IF TakesOne(plan[1][n]) THEN 1 ELSE 0
          /\ iv'.dict_value = IF n \in Strings THEN plan[1][n].fexpr.value ELSE iv.dict_value
      BY <2>1 DEF Visited
    <2>7. op_id_' = ArgSlot(m)'
      <3>1. op_id_' = ArgSlot(n + 1)
        BY <2>2, <2>4, <2>6, ArgSlots
      <3> QED
        BY <2>4, <3>1, SlotSame
    <2>8. iv'.queries = <<QueryUpTo(n)>>
      <3>1. PICK v : v = Interpreted(plan[1][n])
        OBVIOUS
      <3>2. /\ n = 1 => Append(<<>>, <<v>>) = <<QueryUpTo(n)>>
            /\ n # 1 => Append(Front(<<QueryUpTo(n - 1)>>), Append(Last(<<QueryUpTo(n - 1)>>), v)) = <<QueryUpTo(n)>>
        BY <2>4, <3>1, QueryExtends
      <3>3. CASE n = 1
        BY <2>2, <2>5, <2>6, <3>1, <3>2, <3>3
      <3>4. CASE n # 1
        <4>1. iv'.queries = Append(Front(iv.queries), Append(Last(iv.queries), v))
          BY <2>5, <2>6, <3>1, <3>4 DEF Extended
        <4>2. iv.queries = <<QueryUpTo(n - 1)>>
          BY <2>2, <3>4
        <4> QED
          BY <3>2, <3>4, <4>1, <4>2
      <3> QED
        BY <3>3, <3>4
    <2>9. Remembers(n)'
      <3> SUFFICES ASSUME NEW k \in Strings, k <= n PROVE iv'.dict_value = plan[1][k].fexpr.value
        BY <1>2 DEF Remembers
      <3>1. CASE k = n
        BY <2>6, <3>1
      <3>2. CASE k # n
        <4>1. n \notin Strings
          BY <3>2 DEF Interpretable
        <4>2. k <= n - 1
          BY <2>3, <2>4, <3>2 DEF Strings
        <4> QED
          BY <2>2, <2>6, <4>1, <4>2 DEF Remembers
      <3> QED
        BY <3>1, <3>2
    <2> QED
      BY <1>2, <2>4, <2>3, <2>7, <2>8, <2>9 DEF Remembers
  <1> QED
    BY <1>3, <1>4, <1>5 DEF InterpretInv

\* Steps that crash.
LEMMA CrashKeeps ==
  ASSUME IInv, RowsRecur, RowsRecur', InterpretInv, phase = "interpret", phase' = "interpret",
         UNCHANGED <<plan, graph, interpreted>>, IsVisitor', iv'.caller = iv.caller, status' = "crashed"
  PROVE  InterpretInv'
  <1>1. interpreted' # Null /\ Interpretable' => interpreted' = Result(1)'
    BY ResultKept DEF InterpretInv, IInv, CodegenInv, OrderInv
  <1> QED
    BY <1>1 DEF InterpretInv, QueryInv

\* The visits.
LEMMA VisitsInterpret ==
  ASSUME IInv, CountInv, RowsRecur, RowsRecur', InterpretInv, InterpretStep, ~InterpretStart
  PROVE  InterpretInv'
  <1>1. /\ phase = "interpret" /\ status = "ok" /\ iv.at \in DOMAIN plan[1]
        /\ Iop = plan[1][iv.at] /\ Quiet /\ UNCHANGED interpreted
    <2>1. InterpretWithoutQuery \/ InterpretJoin \/ InterpretCreate =>
            Interpreting({Iop.type}) /\ Quiet /\ UNCHANGED interpreted
      BY DEF InterpretWithoutQuery, InterpretJoin, InterpretCreate, Interpreting, ivars
    <2>2. InterpretScan \/ InterpretTraversal \/ InterpretProject \/ InterpretSortOrLimit
            \/ InterpretCollect => Interpreting({Iop.type}) /\ Quiet /\ UNCHANGED interpreted
      BY DEF InterpretScan, InterpretTraversal, InterpretProject, InterpretSortOrLimit,
             InterpretCollect, Extending, Interpreting
    <2>3. InterpretFilter => Interpreting({Iop.type}) /\ Quiet /\ UNCHANGED interpreted
      BY Zenon DEF InterpretFilter, Extending, Interpreting
    <2>4. Interpreting({Iop.type}) /\ Quiet /\ UNCHANGED interpreted
      BY <2>1, <2>2, <2>3 DEF InterpretStep
    <2> QED
      BY <2>4 DEF Interpreting, Iop, OpAt
  <1>2. UNCHANGED <<plan, graph, interpreted, phase>> /\ phase' = "interpret"
    BY <1>1 DEF Quiet, compiledCode, static
  <1>3. IsVisitor /\ plan \in Plans /\ Settled
    BY <1>1 DEF InterpretInv, IInv, CodegenInv, OrderInv, Settled
  <1>4. ASSUME IsVisitor', status' = "crashed", iv'.caller = iv.caller PROVE InterpretInv'
    BY <1>1, <1>2, <1>4, CrashKeeps
  <1>5. ASSUME IsVisitor', iv'.caller = iv.caller, iv'.at = iv.at + 1,
               Interpretable /\ iv.caller = "run_parallel" => Visited
        PROVE  InterpretInv'
    BY <1>1, <1>2, <1>5, VisitedKeeps
  <1>i. Interpretable => Simple /\ plan[1][1].type = "scan" /\ Iop.type \notin {"sort", "limit", "create"}
    BY <1>1, <1>3, InterpretableIs DEF Simple
  <1>s. iv.at \in Strings => Iop.type = "filter" /\ Iop.fexpr.kind = "eq" /\ Iop.fexpr.operand = "str"
    BY <1>1 DEF Strings
  \* The argument of the operator to be visited.
  <1>g. ASSUME Interpretable, iv.caller = "run_parallel", TakesOne(Iop) PROVE Given(op_id_) = Iop.label
    <2>1. op_id_ = ArgSlot(iv.at)
      BY <1>1, <1>g DEF InterpretInv, QueryInv
    <2>2. iv.at \in 1..Len(plan[1])
      BY <1>1, <1>3, <1>g, <1>i, OnePipeline DEF Simple
    <2> QED
      BY <1>1, <1>3, <1>g, <1>i, <2>1, <2>2, GivenIs
  <1>6. CASE InterpretWithoutQuery \/ InterpretJoin
    <2>1. iv' = iv /\ status' = "crashed"
      BY <1>6 DEF InterpretWithoutQuery, InterpretJoin, ivars
    <2> QED
      BY <1>3, <1>4, <2>1 DEF IsVisitor
  <1>7. CASE InterpretCreate \/ InterpretSortOrLimit
    <2>1. iv' = [iv EXCEPT !.at = @ + 1] /\ Iop.type \in {"create", "sort", "limit"}
      BY <1>7 DEF InterpretCreate, InterpretSortOrLimit, Interpreting
    <2>2. IsVisitor' /\ iv'.caller = iv.caller /\ iv'.at = iv.at + 1
      BY <1>3, <2>1 DEF IsVisitor
    <2> QED
      BY <1>5, <1>i, <2>1, <2>2
  <1>8. CASE InterpretScan
    <2>1. /\ iv' = [iv EXCEPT !.at = @ + 1, !.queries = Append(@, <<Scan(Given(op_id_))>>)]
          /\ Iop.type = "scan" /\ op_id_' = op_id_ + 1
      BY <1>8 DEF InterpretScan, Interpreting
    <2>2. /\ IsVisitor' /\ iv'.caller = iv.caller /\ iv'.at = iv.at + 1
          /\ iv'.queries = Append(iv.queries, <<Scan(Given(op_id_))>>) /\ iv'.dict_value = iv.dict_value
      BY <1>3, <2>1 DEF IsVisitor
    <2>3. ASSUME Interpretable, iv.caller = "run_parallel" PROVE Visited
      <3>1. TakesOne(Iop)
        BY <2>1 DEF TakesOne
      <3>2. Interpreted(Iop) = Scan(Given(op_id_))
        BY <1>g, <2>1, <2>3, <3>1 DEF Interpreted
      <3> QED
        BY <1>1, <1>s, <2>1, <2>2, <3>1, <3>2 DEF Visited
    <2> QED
      BY <1>5, <2>2, <2>3
  <1>9. CASE InterpretTraversal
    <2>1. /\ iv' = [iv EXCEPT !.at = @ + 1, !.queries = Extended([Iop EXCEPT !.label = Given(op_id_)])]
          /\ Iop.type \in {"foreach_rship", "expand"} /\ op_id_' = op_id_ + 1
      BY <1>9 DEF InterpretTraversal, Extending, Interpreting
    <2>2. /\ IsVisitor' /\ iv'.caller = iv.caller /\ iv'.at = iv.at + 1
          /\ iv'.queries = Extended([Iop EXCEPT !.label = Given(op_id_)]) /\ iv'.dict_value = iv.dict_value
      BY <1>3, <2>1 DEF IsVisitor
    <2>3. ASSUME Interpretable, iv.caller = "run_parallel" PROVE Visited
      <3>1. TakesOne(Iop)
        BY <2>1 DEF TakesOne
      <3>2. Interpreted(Iop) = [Iop EXCEPT !.label = Given(op_id_)]
        <4>1. Interpreted(Iop) = [Iop EXCEPT !.label = Iop.label]
          BY <2>1 DEF Interpreted
        <4> QED
          BY <1>g, <2>3, <3>1, <4>1
      <3> QED
        BY <1>1, <1>s, <2>1, <2>2, <3>1, <3>2 DEF Visited
    <2> QED
      BY <1>5, <2>2, <2>3
  <1>10. CASE InterpretProject
    <2>1. /\ iv' = [iv EXCEPT !.at = @ + 1, !.queries = Extended(Iop)]
          /\ Iop.type = "project" /\ op_id_' = op_id_
      BY <1>10 DEF InterpretProject, Extending, Interpreting
    <2>2. /\ IsVisitor' /\ iv'.caller = iv.caller /\ iv'.at = iv.at + 1
          /\ iv'.queries = Extended(Iop) /\ iv'.dict_value = iv.dict_value
      BY <1>3, <2>1 DEF IsVisitor
    <2>3. ASSUME Interpretable, iv.caller = "run_parallel" PROVE Visited
      <3>1. ~TakesOne(Iop) /\ Interpreted(Iop) = Iop
        BY <2>1 DEF TakesOne, Interpreted
      <3>2. op_id_' = op_id_ + 0
        <4>1. op_id_ = ArgSlot(iv.at) /\ iv.at \in 1..(Len(plan[1]) + 1)
          BY <1>1, <2>3 DEF InterpretInv, QueryInv
        <4>2. Len(plan[1]) \in Nat
          BY <1>3, <1>i, <2>3, OnePipeline DEF Simple
        <4>3. PICK n : n = iv.at /\ n \in Nat /\ n >= 1
          BY <4>1, <4>2
        <4>4. ArgSlot(n) \in Nat
          BY <4>3, ArgSlots
        <4> QED
          BY <2>1, <4>1, <4>3, <4>4
      <3> QED
        BY <1>1, <1>s, <2>1, <2>2, <3>1, <3>2 DEF Visited
    <2> QED
      BY <1>5, <2>2, <2>3
  <1>11. CASE InterpretCollect
    <2>1. /\ iv' = [iv EXCEPT !.at = @ + 1, !.queries = Extended(Collect)]
          /\ Iop.type = "collect" /\ op_id_' = op_id_
      BY <1>11 DEF InterpretCollect, Extending, Interpreting
    <2>2. /\ IsVisitor' /\ iv'.caller = iv.caller /\ iv'.at = iv.at + 1
          /\ iv'.queries = Extended(Collect) /\ iv'.dict_value = iv.dict_value
      BY <1>3, <2>1 DEF IsVisitor
    <2>3. ASSUME Interpretable, iv.caller = "run_parallel" PROVE Visited
      <3>1. ~TakesOne(Iop) /\ Interpreted(Iop) = Collect
        BY <2>1 DEF TakesOne, Interpreted
      <3>2. op_id_' = op_id_ + 0
        <4>1. op_id_ = ArgSlot(iv.at) /\ iv.at \in 1..(Len(plan[1]) + 1)
          BY <1>1, <2>3 DEF InterpretInv, QueryInv
        <4>2. Len(plan[1]) \in Nat
          BY <1>3, <1>i, <2>3, OnePipeline DEF Simple
        <4>3. PICK n : n = iv.at /\ n \in Nat /\ n >= 1
          BY <4>1, <4>2
        <4>4. ArgSlot(n) \in Nat
          BY <4>3, ArgSlots
        <4> QED
          BY <2>1, <4>1, <4>3, <4>4
      <3> QED
        BY <1>1, <1>s, <2>1, <2>2, <3>1, <3>2 DEF Visited
    <2> QED
      BY <1>5, <2>2, <2>3
  <1>12. CASE InterpretFilter
    <2> DEFINE e == Iop.fexpr
               last == IF e.kind \in {"and", "or"} THEN e.right ELSE e
               type == IF last.kind = "eq" THEN last.operand ELSE iv.val_type
               value == IF last.kind = "eq" /\ type = "str" THEN last.value ELSE iv.dict_value
    <2>1. /\ Iop.type = "filter" /\ op_id_' = op_id_ + 1
          /\ \/ iv' = iv /\ status' = "crashed"
             \/ iv' = [iv EXCEPT !.at = @ + 1, !.queries = Extended([Iop EXCEPT !.label = type]),
                                 !.val_type = type,
                                 !.dict_value = IF last.kind = "eq" /\ type = "str" THEN last.value ELSE @]
      BY <1>12, Zenon DEF InterpretFilter, Extending, Interpreting
    <2>2. CASE iv' = iv /\ status' = "crashed"
      BY <1>3, <1>4, <2>2 DEF IsVisitor
    <2>3. CASE ~(iv' = iv /\ status' = "crashed")
      <3>1. PICK t, v, ext : t = type /\ v = value /\ ext = Extended([Iop EXCEPT !.label = type])
        OBVIOUS
      <3>2. iv' = [iv EXCEPT !.at = iv.at + 1, !.queries = ext, !.val_type = t, !.dict_value = v]
        BY <2>1, <2>3, <3>1, <1>3 DEF IsVisitor
      <3>3. /\ IsVisitor' /\ iv'.caller = iv.caller /\ iv'.at = iv.at + 1
            /\ iv'.queries = ext /\ iv'.dict_value = v
        BY <1>3, <3>2 DEF IsVisitor
      <3>4. ASSUME Interpretable, iv.caller = "run_parallel" PROVE Visited
        <4>1. e.kind = "eq"
          BY <1>1, <2>1, <3>4 DEF Interpretable
        <4>2. t = e.operand /\ v = IF e.operand = "str" THEN e.value ELSE iv.dict_value
          BY <3>1, <4>1
        <4>3. Interpreted(Iop) = [Iop EXCEPT !.label = t] /\ TakesOne(Iop)
          BY <2>1, <4>2 DEF Interpreted, TakesOne
        <4>4. ext = Extended(Interpreted(Iop))
          BY <3>1, <4>3
        <4>5. iv.at \in Strings <=> e.operand = "str"
          BY <1>1, <2>1, <4>1 DEF Strings
        <4> QED
          BY <1>1, <2>1, <3>3, <4>2, <4>3, <4>4, <4>5 DEF Visited
      <3> QED
        BY <1>5, <3>3, <3>4
    <2> QED
      BY <2>2, <2>3
  <1> QED
    BY <1>6, <1>7, <1>8, <1>9, <1>10, <1>11, <1>12 DEF InterpretStep

\* A call of the compiled code leaves what was interpreted as it is: a plan whose calls change
\* the graph is not one that the interpreter supports.
LEMMA ExecuteInterprets ==
  ASSUME TypeInv, RowsRecur, RowsRecur', InterpretInv, Execute, UNCHANGED ivars
  PROVE  InterpretInv'
  <1>1. UNCHANGED static /\ phase = "run" /\ status = "ok" /\ IInv /\ PcInv /\ plan \in Plans
    BY ExecuteKeeps, ExecuteStatus DEF TypeInv, IInv, CodegenInv, OrderInv
  <1>2. plan' = plan /\ phase' # "interpret" /\ InCall
    <2>1. Stays \/ Passes \/ Ends \/ Fills \/ Empties \/ Takes
      BY <1>1, ExecuteKinds
    <2>2. phase' \in {"run", "idle"}
      BY <1>1, <2>1 DEF Stays, Passes, Ends, Fills, Empties, Takes
    <2> QED
      BY <1>1, <2>2 DEF static, InCall
  <1>3. CASE graph' = graph
    BY <1>1, <1>2, <1>3, OutsideInterprets
  <1>4. CASE graph' # graph
    <2>1. CreateTupleNode \/ CreateTupleRship
      BY <1>4, ExecuteMemory
    <2>2. Op.type = "create"
      BY <2>1 DEF CreateTupleNode, CreateTupleRship, CreateRshipFrom, In
    <2>3. Here \in Positions /\ OpAt(Here).type = "create"
      BY <1>2, <2>2, HereFacts
    <2>4. ~Simple
      BY <1>1, <2>3, OnePipeline DEF Simple
    <2>5. ~Interpretable /\ Interpretable' = Interpretable
      BY <1>1, <1>2, <2>4, InterpretableIs, InterpretableSame
    <2>6. iv' = iv /\ op_id_' = op_id_
      BY DEF ivars
    <2> QED
      BY <1>1, <1>2, <2>5, <2>6 DEF InterpretInv, IsVisitor, QueryInv
  <1> QED
    BY <1>3, <1>4

\* The last visit has completed the query, whose result set is the plan's.
LEMMA StartInterprets ==
  ASSUME TypeInv, CountInv, RowsRecur, RowsRecur', InterpretInv, InterpretStart
  PROVE  InterpretInv'
  <1>1. /\ phase = "interpret" /\ status = "ok" /\ iv.at > Len(plan[1]) /\ iv' = iv
        /\ \/ status' = "crashed" /\ UNCHANGED <<compiledCode, interpreted, op_id_, phase>>
           \/ /\ op_id_' = 1 /\ status' = status
              /\ \/ iv.caller = "run" /\ CallStart(Delivered) /\ interpreted' = interpreted
                 \/ iv.caller # "run" /\ interpreted' = Delivered /\ phase' = "idle" /\ UNCHANGED compiledCode
    BY Zenon DEF InterpretStart, StartThen
  <1>2. IInv /\ IsGraph(graph) /\ plan \in Plans /\ Settled /\ IsVisitor /\ IsVisitor'
    BY <1>1 DEF TypeInv, TypeOK, IInv, CodegenInv, OrderInv, Settled, InterpretInv, IsVisitor
  <1>3. CASE status' = "crashed"
    <2>1. UNCHANGED <<plan, graph, interpreted>> /\ phase' = "interpret" /\ iv'.caller = iv.caller
      BY <1>1, <1>3 DEF compiledCode, static
    <2> QED
      BY <1>1, <1>2, <1>3, <2>1, CrashKeeps
  <1>4. CASE op_id_' = 1 /\ iv.caller = "run" /\ CallStart(Delivered) /\ interpreted' = interpreted
    <2>1. UNCHANGED <<plan, graph, interpreted>> /\ phase' = "run"
      BY <1>4 DEF CallStart, static
    <2>2. interpreted' # Null /\ Interpretable' => interpreted' = Result(1)'
      BY <1>2, <2>1, ResultKept DEF InterpretInv
    <2> QED
      BY <1>2, <1>4, <2>1, <2>2 DEF InterpretInv, QueryInv
  <1>5. CASE /\ op_id_' = 1 /\ iv.caller # "run" /\ interpreted' = Delivered /\ phase' = "idle"
             /\ UNCHANGED compiledCode
    <2>1. UNCHANGED <<plan, graph>>
      BY <1>5 DEF compiledCode, static
    <2>2. ASSUME Interpretable PROVE interpreted' = Result(1)'
      <3>1. iv.caller = "run_parallel"
        BY <1>1, <1>5 DEF InterpretInv
      <3>2. PICK n : n = Len(plan[1])
        OBVIOUS
      <3>3. /\ Simple /\ 1 \in 1..n /\ n \in Nat
        BY <1>2, <2>2, <3>2, InterpretableIs, OnePipeline DEF Simple
      <3>4. \A m : m = iv.at => /\ m \in 1..(n + 1)
                                /\ iv.queries = IF m = 1 THEN <<>> ELSE <<QueryUpTo(m - 1)>>
                                /\ Remembers(m - 1)
        BY <1>1, <2>2, <3>1, <3>2 DEF InterpretInv, QueryInv
      <3>5. PICK m : m = iv.at /\ m = n + 1 /\ m - 1 = n /\ m # 1
        <4>1. PICK m : m = iv.at
          OBVIOUS
        <4>2. m \in 1..(n + 1) /\ m > n
          BY <1>1, <3>2, <3>4, <4>1
        <4>3. m = n + 1 /\ m - 1 = n /\ m # 1
          BY <3>3, <4>2
        <4> QED
          BY <4>1, <4>3
      <3>6. PICK Q : Q = QueryUpTo(n) /\ iv.queries = <<Q>> /\ Remembers(n)
        BY <3>4, <3>5
      <3>7. Len(Q) = n
        <4>1. Q = [j \in 1..n |-> Q[j]]
          BY <3>6 DEF QueryUpTo
        <4> QED
          BY <3>3, <4>1, FunSeq
      <3>8. QueryRows(Q, n) = Rows(1, n)
        <4>1. n \in 1..n
          BY <3>3
        <4> QED
          BY <1>2, <2>2, <3>1, <3>2, <3>6, <4>1, QueryDelivers
      <3>9. PICK r : r = QueryRows(Q, Len(Q)) /\ r = Rows(1, n)
        BY <3>7, <3>8
      <3>10. Delivered = r
        BY <3>6, <3>9, DeliveredIs
      <3>11. Result(1) = r
        BY <3>2, <3>9 DEF Result
      <3>12. Result(1)' = Result(1)
        BY <1>2, <2>1, <2>2, ResultSame
      <3> QED
        BY <1>5, <3>10, <3>11, <3>12
    <2>3. Interpretable' = Interpretable
      BY <2>1, InterpretableSame
    <2> QED
      BY <1>2, <1>5, <2>2, <2>3 DEF InterpretInv, QueryInv
  <1> QED
    BY <1>1, <1>3, <1>4, <1>5

\* An interpretation begins without a query and with the counter at the first slot.
LEMMA BeginInterprets ==
  ASSUME TypeInv, RowsRecur, RowsRecur', InterpretInv, Interpret \/ RunInterpreted
  PROVE  InterpretInv'
  <1>1. /\ \E caller \in {"run", "run_parallel"} : iv' = interprete_visitor(caller)
        /\ UNCHANGED compiledCode /\ op_id_' = op_id_ /\ interpreted' = interpreted
        /\ phase = "idle" /\ phase' = "interpret" /\ plan \in Plans
    BY DEF Interpret, RunInterpreted, TypeInv, IInv, CodegenInv, OrderInv
  <1>2. UNCHANGED <<plan, graph>> /\ op_id_ = 1
    BY <1>1 DEF compiledCode, static, InterpretInv
  <1>3. /\ IsVisitor' /\ iv'.caller \in {"run", "run_parallel"} /\ iv'.at = 1 /\ iv'.queries = <<>>
    BY <1>1 DEF interprete_visitor, IsVisitor
  <1>4. interpreted' # Null /\ Interpretable' => interpreted' = Result(1)'
    BY <1>1, <1>2, ResultKept DEF InterpretInv
  <1>5. QueryInv'
    <2> SUFFICES ASSUME Interpretable, NEW n, n = 1
                 PROVE  /\ n \in 1..(Len(plan[1]) + 1) /\ op_id_' = ArgSlot(n)'
                        /\ iv'.queries = IF n = 1 THEN <<>> ELSE <<QueryUpTo(n - 1)'>>
                        /\ Remembers(n - 1)'
      BY <1>2, <1>3, InterpretableSame DEF QueryInv
    <2>1. Simple /\ 1 \in 1..Len(plan[1]) /\ Len(plan[1]) \in Nat /\ DOMAIN plan[1] = 1..Len(plan[1])
      BY <1>1, InterpretableIs, OnePipeline DEF Simple
    <2>2. op_id_' = ArgSlot(1)'
      BY <1>1, <1>2, ArgSlots, SlotSame
    <2>3. Remembers(0)'
      <3>1. \A k \in Strings : ~(k <= 0)
        BY <2>1 DEF Strings
      <3>2. Strings' = Strings
        BY <1>2, InterpretableSame
      <3> QED
        BY <3>1, <3>2 DEF Remembers
    <2> QED
      BY <1>3, <2>1, <2>2, <2>3
  <1> QED
    BY <1>1, <1>3, <1>4, <1>5 DEF InterpretInv

\* So every step keeps what the interpretations have left.
LEMMA InterpretedStep ==
  ASSUME TypeInv, CountInv, RowsRecur, RowsRecur', InterpretInv, [InterpreterNext]_allVars
  PROVE  InterpretInv'
  <1>t. IInv /\ plan \in Plans /\ IsGraph(graph) /\ graph = [node |-> graph.node, rship |-> graph.rship]
    BY DEF TypeInv, TypeOK, IsGraph, IInv, CodegenInv, OrderInv
  <1>1. CASE Compile /\ UNCHANGED runtime /\ UNCHANGED ivars
    <2>1. phase # "interpret" /\ phase' # "interpret" /\ plan' = plan
      <3>1. CASE Visit
        <4>1. Advances \/ Joins \/ Leaves \/ Aborts
          BY <1>t, <3>1, VisitKinds DEF IInv, CodegenInv, OrderInv
        <4> QED
          BY <4>1 DEF Advances, Joins, Leaves, Aborts, Ascend
      <3>2. CASE WalkStep \/ WalkEnd
        BY <3>2 DEF WalkStep, WalkEnd
      <3> QED
        BY <1>1, <3>1, <3>2 DEF Compile
    <2>2. graph' = graph
      BY <1>1 DEF runtime
    <2> QED
      BY <1>t, <1>1, <2>1, <2>2, OutsideInterprets
  <1>2. CASE (Start \/ ClearRhs) /\ UNCHANGED ivars
    <2>1. phase # "interpret" /\ phase' # "interpret" /\ UNCHANGED <<plan, graph>>
      BY <1>2 DEF Start, CallStart, ClearRhs, static
    <2> QED
      BY <1>t, <1>2, <2>1, OutsideInterprets
  <1>3. CASE Execute /\ UNCHANGED ivars
    BY <1>3, ExecuteInterprets
  <1>4. CASE SetProperty /\ interpreted' = Null /\ UNCHANGED <<op_id_, iv>>
    <2>1. phase = "idle" /\ phase' = "idle"
      BY <1>4 DEF SetProperty
    <2> QED
      BY <1>4, <2>1 DEF InterpretInv, IsVisitor, QueryInv
  <1>5. CASE Interpret \/ RunInterpreted
    BY <1>5, BeginInterprets
  <1>6. CASE InterpretStep
    BY <1>t, <1>6, StartInterprets, VisitsInterpret
  <1>7. CASE UNCHANGED allVars
    <2>1. UNCHANGED <<plan, graph, code, phase, status, iv, op_id_, interpreted>>
      BY <1>7 DEF allVars, vars, codegenVars, ivars
    <2>2. interpreted' # Null /\ Interpretable' => interpreted' = Result(1)'
      BY <1>t, <2>1, ResultKept DEF InterpretInv
    <2>3. /\ Interpretable' = Interpretable /\ Strings' = Strings
          /\ \A n : QueryUpTo(n)' = QueryUpTo(n) /\ ArgSlot(n)' = ArgSlot(n)
      BY <2>1, InterpretableSame, SlotSame
    <2>4. \A n : Remembers(n)' = Remembers(n)
      BY <2>1, <2>3 DEF Remembers
    <2>5. QueryInv'
      BY <2>1, <2>3, <2>4 DEF InterpretInv, QueryInv
    <2>6. IsVisitor'
      BY <2>1 DEF InterpretInv, IsVisitor
    <2> QED
      BY <2>1, <2>2, <2>5, <2>6 DEF InterpretInv
  <1> QED
    BY <1>1, <1>2, <1>3, <1>4, <1>5, <1>6, <1>7 DEF InterpreterNext, CompileOrCall

\* Every step keeps the slots of the emitted code.
LEMMA CountStep ==
  ASSUME IInv, CountInv, [InterpreterNext]_allVars
  PROVE  CountInv'
  <1>1. ASSUME UNCHANGED <<plan, at, op_id, code>>, phase' = phase \/ (Settled /\ Settled') PROVE CountInv'
    <2>1. Simple' = Simple /\ \A k : ArgSlot(k)' = ArgSlot(k)
      BY <1>1, SlotSame
    <2>2. \A n : Numbered(n)' = Numbered(n)
      BY <1>1, <2>1 DEF Numbered
    <2> QED
      BY <1>1, <2>1, <2>2 DEF CountInv, Settled
  <1>2. CASE UNCHANGED static /\ Settled /\ Settled'
    BY <1>1, <1>2 DEF static
  <1>3. CASE UNCHANGED allVars
    BY <1>1, <1>3 DEF allVars, vars, codegenVars
  <1> QED
    BY <1>2, <1>3, CountNext, StepKinds

\* Before the compilation.
LEMMA InterpretInit == InterpreterInit => InterpretInv /\ CountInv
  <1> SUFFICES ASSUME InterpreterInit PROVE InterpretInv /\ CountInv
    OBVIOUS
  <1>1. phase = "codegen" /\ op_id_ = 1 /\ iv = interprete_visitor(Null) /\ interpreted = Null /\ CountInv
    BY CountInit DEF InterpreterInit, Init, CodegenInit
  <1> QED
    BY <1>1 DEF InterpretInv, IsVisitor, QueryInv, interprete_visitor

\* The meaning of a plan is what RowsRecur says.
LEMMA RowsAre == RowsRecur
  BY RowsIs DEF RowsRecur

\* An interpretation delivers the tuples that the plan describes, for every plan that the
\* interpreter supports and any graph, whatever calls of the compiled code, interpretations and
\* updates there have been before.
THEOREM Interprets == InterpreterSpec => []InterpretsPlan
  <1>1. InterpreterInit => InterpretInv /\ CountInv
    BY InterpretInit
  <1>2. (IInv /\ PcInv /\ LeavesListEmpty) /\ TypeOK /\ RowsRecur /\ RowsRecur'
          /\ (InterpretInv /\ CountInv) /\ [InterpreterNext]_allVars
          => (InterpretInv /\ CountInv)'
    BY InterpretedStep, CountStep DEF TypeInv
  <1>3. InterpretInv => InterpretsPlan
    BY DEF InterpretInv, InterpretsPlan
  <1>4. []RowsRecur
    BY RowsAre, PTL
  <1> QED
    BY <1>1, <1>2, <1>3, <1>4, ListInvariance, Typing, PTL DEF InterpreterSpec
=============================================================================
