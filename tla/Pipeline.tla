------------------------------ MODULE Pipeline ------------------------------
(***************************************************************************)
(* Execution of the code that PlanCodegen emits for a plan, called by one  *)
(* thread any number of times.  A block is <<pipeline, position, name>>;   *)
(* an action executes the blocks of an operator up to the branch to        *)
(* another operator, or one iteration of its loop.                         *)
(*                                                                         *)
(* The allocas of a pipeline are shared by its operators and are the       *)
(* record fr; registers (env) keep their value until they are assigned     *)
(* again.  The list of variable-length relationships is thread-local and   *)
(* joiner::rhs_input_ static, and so is the memory of the projections:     *)
(* descs, the descriptions of nodes and relationships by identifier        *)
(* (rdescs, too).  All of them outlive a call.                             *)
(*                                                                         *)
(* The graph database is external: nodes and relationships have a label    *)
(* and the value of one property, or none; relationships are in the list   *)
(* of their source and in the list of their destination, in the order of   *)
(* their identifiers; an index covers the nodes of one label.              *)
(* Labels and property values are compared as such; a variable traversal   *)
(* has one or two hops.  What is created gets the next identifier; a scan  *)
(* covers the chunks there are when the call begins.                       *)
(***************************************************************************)
EXTENDS PlanCodegen, TLC

CONSTANTS
  Graphs,   \* records of node: Seq([label, value]), rship: Seq([src, dst, label, value])
  Updates,  \* <<n, value>>: what a client may set the property of node n to
  ChunkSize,\* nodes of a chunk
  MaxCall   \* bound: calls of the compiled code

\* Relationships connect nodes that there are.
IsGraph(graph_) ==
  /\ graph_ = [node |-> graph_.node, rship |-> graph_.rship]
  /\ IsSequence(graph_.node) /\ IsSequence(graph_.rship)
  /\ \A r \in DOMAIN graph_.rship :
       {graph_.rship[r].src, graph_.rship[r].dst} \subseteq DOMAIN graph_.node

ASSUME GraphsAssumption == \A graph_ \in Graphs : IsGraph(graph_)

VARIABLES
  graph,
  status,      \* "ok", or "crashed": exception or undefined behaviour
  calls,       \* number of calls
  pc,          \* the block to execute
  fr,          \* allocas of the current pipeline, and its node iterator
  env,         \* values of the registers
  args,        \* queryArgs of the current call, by slot
  rhs_input_,  \* joiner::rhs_input_: the tuples of the joins that have any
  fev,         \* fev_rship_list and fev_list_iter
  descs,       \* thread-local: descriptions of nodes and relationships
  out,         \* the result set of the current or last call
  base,        \* number of nodes and of relationships when the call began
  clean        \* the call found fev empty, rhs_input_ cleared and descs up to
               \* date, and no property has changed since

vars == <<codegenVars, graph, status, calls, pc, fr, env, args, rhs_input_, fev, descs,
          out, base, clean>>
static == <<plan, at, todo, op_id, cv, code, walk>>

NoTuples == <<>>
RhsInput(jid) == IF jid \in DOMAIN rhs_input_ THEN rhs_input_[jid] ELSE <<>>
NoFrame == [it |-> 1, lhs |-> 0, cur_idx |-> 0, max_idx |-> 0, dangling |-> 0, res_counter |-> 0]

Init ==
  /\ CodegenInit
  /\ graph \in Graphs
  /\ status = "ok" /\ calls = 0 /\ pc = Null
  /\ fr = NoFrame /\ env = <<>> /\ args = <<>>
  /\ rhs_input_ = NoTuples
  /\ fev = [list |-> <<>>, iter |-> 1]
  /\ descs = <<>>
  /\ out = <<>> /\ base = <<0, 0>> /\ clean = FALSE

-----------------------------------------------------------------------------
(***************************************************************************)
(* The graph.                                                              *)
(***************************************************************************)
Node(n) == <<"node", n>>
Rship(r) == <<"rship", r>>
Id(v) == v[2]
RshipId == DOMAIN graph.rship
Unknown == 99

ListOf(n, dir) ==
  {r \in RshipId : n = IF dir = "from" THEN graph.rship[r].src ELSE graph.rship[r].dst}
FirstOf(S) == IF S = {} THEN Unknown ELSE CHOOSE r \in S : \A s \in S : r <= s
FirstRship(n, dir) == FirstOf(ListOf(n, dir))
NextRship(r, dir) ==
  LET n == IF dir = "from" THEN graph.rship[r].src ELSE graph.rship[r].dst
  IN FirstOf({s \in ListOf(n, dir) : s > r})
Rships(n, dir, label) ==
  LET rships[r \in 0..Len(graph.rship)] ==
        IF r = 0 THEN <<>>
        ELSE IF r \in ListOf(n, dir) /\ graph.rship[r].label = label THEN Append(rships[r - 1], r)
        ELSE rships[r - 1]
  IN rships[Len(graph.rship)]
\* foreach_variable_from_relationship_of_node and foreach_variable_to_...
FarEnd(r, dir) == IF dir = "from" THEN graph.rship[r].dst ELSE graph.rship[r].src
VarRships(n, dir, label) ==
  LET first == Rships(n, dir, label)
  IN first \o FlattenSeq([i \in DOMAIN first |-> Rships(FarEnd(first[i], dir), dir, label)])
EndOf(r, exp) == IF exp = "out" THEN graph.rship[r].dst ELSE graph.rship[r].src
NodeLabel(n) == graph.node[n].label
PropertyOf(v) == graph.node[Id(v)].value
Description(v) == IF v[1] = "node" THEN PropertyOf(v) ELSE graph.rship[Id(v)].value
LastSlot == ((base[1] + ChunkSize - 1) \div ChunkSize) * ChunkSize

-----------------------------------------------------------------------------
(***************************************************************************)
(* Calls.                                                                  *)
(***************************************************************************)
ReadsSlot(op) ==
  \/ op.type \in {"scan", "foreach_rship", "filter", "create"}
  \/ op.type = "expand" /\ op.label # ""
Slot(x) == code[x].op_id + IF OpAt(x).indexed THEN 2 ELSE 0

\* What the operator at x reads, by slot: an index scan the label and the property
\* of its index, then the value, a create its label, then its properties.
Parameters(x) ==
  LET op == OpAt(x)
  IN IF ~ReadsSlot(op) THEN {}
     ELSE {<<Slot(x), op.label>>}
            \cup IF op.type = "create" THEN {<<Slot(x) + 1, op.props>>} ELSE {}
            \cup IF op.indexed THEN {<<Slot(x) - 2, op.props[1]>>, <<Slot(x) - 1, op.props[2]>>}
                 ELSE {}
AllParameters == UNION {Parameters(x) : x \in Positions}

\* The arguments of the repository's programs: each in the slot its operator
\* reads.
GivenArgs ==
  [s \in {p[1] : p \in AllParameters} |-> (CHOOSE p \in AllParameters : p[1] = s)[2]]

\* Call of the compiled code with what the result set already holds, by a client
\* that passes its own arguments or those the walk extracted.
CallStart(rs) ==
  /\ args' \in {GivenArgs, walk.args}
  /\ phase' = "run"
  /\ pc' = <<Head(cv.entry), 1, "entry">>
  /\ out' = rs
  /\ base' = <<Len(graph.node), Len(graph.rship)>>
  /\ clean' = (/\ rhs_input_ = NoTuples /\ fev.list = <<>>
               /\ \A v \in DOMAIN descs : descs[v] = Description(v))
  /\ UNCHANGED <<static, graph, fr, env, rhs_input_, fev, descs>>

Start ==
  /\ phase = "idle" /\ status = "ok" /\ calls < MaxCall
  /\ calls' = calls + 1
  /\ CallStart(<<>>)
  /\ UNCHANGED status

ClearRhs ==
  /\ phase = "idle" /\ status = "ok"
  /\ rhs_input_' = NoTuples
  /\ UNCHANGED <<static, graph, phase, status, calls, pc, fr, env, args, fev, descs, out,
                 base, clean>>

\* A client updates a property between the calls.
SetProperty ==
  /\ phase = "idle" /\ status = "ok"
  /\ \E u \in Updates :
       /\ u[1] \in DOMAIN graph.node /\ graph.node[u[1]].value # u[2]
       /\ graph' = [graph EXCEPT !.node[u[1]].value = u[2]]
  /\ clean' = FALSE
  /\ UNCHANGED <<static, phase, status, calls, pc, fr, env, args, rhs_input_, fev, descs, out,
                 base>>

-----------------------------------------------------------------------------
(***************************************************************************)
(* Blocks.                                                                 *)
(***************************************************************************)
Here == <<pc[1], pc[2]>>
Op == OpAt(Here)
Arg == args[Slot(Here)]
Bound == \A p \in Parameters(Here) : p[1] \in DOMAIN args
In(type, name) == phase = "run" /\ status = "ok" /\ Op.type = type /\ pc[3] = name
Entering(type) == In(type, "entry") /\ Bound

Goto(name) == pc' = Block(Here, name)
Consume == pc' = Block(code[Here].next, "entry")
Return == pc' = code[Here].ret
ConsumeIf(cond) == IF cond THEN Consume ELSE Return

RegOf(i) == <<pc[1], pc[2], i>>
Assign(values) ==
  env' = [x \in DOMAIN values \cup DOMAIN env |-> IF x \in DOMAIN values THEN values[x] ELSE env[x]]
Set(reg, v) == Assign([x \in {reg} |-> v])
Value(r) == IF r.type = 7 THEN <<"flag", fr.dangling>> ELSE env[r.val]
Tuple == [i \in DOMAIN code[Here].regs |-> Value(code[Here].regs[i])]
LastValue == Id(Value(Last(code[Here].regs)))

call == <<static, graph, phase, calls, args, base, clean>>
memory == <<rhs_input_, fev, descs, out>>
Crash == status' = "crashed" /\ UNCHANGED <<call, memory, pc, fr, env>>

\* A slot that nobody has filled holds no pointer.
ReadMissingArg ==
  /\ phase = "run" /\ status = "ok" /\ pc[3] = "entry" /\ ~Bound
  /\ Crash

-----------------------------------------------------------------------------
\* The entry block of a pipeline: init_function.
EnterScan ==
  /\ Entering("scan") /\ ~Op.indexed
  /\ fr' = NoFrame
  /\ Goto("cond")
  /\ UNCHANGED <<call, memory, status, env>>

\* The nodes that an index has under a value.
Indexed(index, value) ==
  {n \in DOMAIN graph.node : NodeLabel(n) = index[1] /\ graph.node[n].value = value}

\* get_index throws for an index that there is not.  index_get_node returns an
\* uninitialised pointer when it finds nothing.
EnterIndexScan ==
  /\ Entering("scan") /\ Op.indexed
  /\ fr' = NoFrame
  /\ LET index == <<args[Slot(Here) - 2], args[Slot(Here) - 1]>>
         found == Indexed(index, Arg)
     IN IF index # Op.props
        THEN status' = "crashed" /\ UNCHANGED <<env, pc>>
        ELSE IF found # {}
        THEN Set(RegOf(1), Node(CHOOSE n \in found : TRUE)) /\ Consume /\ UNCHANGED status
        ELSE Goto("end") /\ status' \in {"ok", "crashed"} /\ UNCHANGED env
  /\ UNCHANGED <<call, memory>>

ScanCond ==
  /\ In("scan", "cond")
  /\ IF fr.it > Len(graph.node) \/ fr.it > LastSlot THEN Goto("end") /\ UNCHANGED env
     ELSE /\ Set(RegOf(1), Node(fr.it))
          /\ IF NodeLabel(fr.it) = Arg THEN Consume ELSE Goto("next")
  /\ UNCHANGED <<call, memory, status, fr>>

ScanNext ==
  /\ In("scan", "next")
  /\ fr' = [fr EXCEPT !.it = @ + 1]
  /\ Goto("cond")
  /\ UNCHANGED <<call, memory, status, env>>

\* The order of the client's predicate.
Before(s, t) == s[1][2] > t[1][2]
SortRows(rows) == SortSeq(rows, Before)

\* scan_nodes_end: on to the pipeline visited before, from the root's to the
\* finish function and back to the caller.
ScanEnd ==
  /\ In("scan", "end")
  /\ LET i == CHOOSE j \in DOMAIN cv.entry : cv.entry[j] = pc[1]
     IN IF i < Len(cv.entry)
        THEN pc' = <<cv.entry[i + 1], 1, "entry">> /\ UNCHANGED <<phase, out>>
        ELSE /\ phase' = "idle" /\ pc' = Null
             /\ out' = IF walk.finish # Null THEN SortRows(out) ELSE out
  /\ UNCHANGED <<static, graph, calls, args, base, clean, rhs_input_, fev, descs, status, fr, env>>

\* The end of a create that is the access path: no finish function is called.
CreateEnd ==
  /\ In("create", "end")
  /\ phase' = "idle" /\ pc' = Null
  /\ UNCHANGED <<static, graph, calls, args, base, clean, memory, status, fr, env>>

-----------------------------------------------------------------------------
EnterForeach ==
  /\ Entering("foreach_rship") /\ ~Op.variable
  /\ fr' = [fr EXCEPT !.lhs = FirstRship(LastValue, Op.dir)]
  /\ Goto("cond")
  /\ UNCHANGED <<call, memory, status, env>>

ForeachCondElse(other) ==
  /\ In("foreach_rship", "cond")
  /\ IF fr.lhs < Unknown
     THEN /\ Set(RegOf(1), Rship(fr.lhs))
          /\ IF graph.rship[fr.lhs].label = Arg THEN Consume ELSE Goto(other)
     ELSE Return /\ UNCHANGED env
  /\ UNCHANGED <<call, memory, status, fr>>

\* (Mutant: a relationship with another label leads back to the condition.)
ForeachCondAgain == ForeachCondElse("cond")

ForeachCond == ForeachCondElse("next")

\* (Mutant: the next relationship is taken from lhs_alloca.)
ForeachNextShared ==
  /\ In("foreach_rship", "next")
  /\ fr' = [fr EXCEPT !.lhs = IF @ < Unknown THEN NextRship(@, Op.dir) ELSE @]
  /\ Goto("cond")
  /\ UNCHANGED <<call, memory, status, env>>

\* The next relationship is taken from the register: lhs_alloca may be another
\* loop's by now.
ForeachNext ==
  /\ In("foreach_rship", "next")
  /\ fr' = [fr EXCEPT !.lhs = NextRship(Id(env[RegOf(1)]), Op.dir)]
  /\ Goto("cond")
  /\ UNCHANGED <<call, memory, status, env>>

\* (Mutant: the iterator is not set back to the beginning.)
EnterVariableNoReset ==
  /\ Entering("foreach_rship") /\ Op.variable
  /\ fev' = [fev EXCEPT !.list = @ \o VarRships(LastValue, "from", Arg)]
  /\ Goto("head")
  /\ UNCHANGED <<call, rhs_input_, descs, out, status, fr, env>>

\* The direction is ignored.
EnterVariable ==
  /\ Entering("foreach_rship") /\ Op.variable
  /\ fev' = [list |-> fev.list \o VarRships(LastValue, "from", Arg), iter |-> 1]
  /\ Goto("head")
  /\ UNCHANGED <<call, rhs_input_, descs, out, status, fr, env>>

VariableHeadThen(cleared) ==
  /\ In("foreach_rship", "head")
  /\ IF fev.iter = Len(fev.list) + 1
     THEN /\ fev' = [fev EXCEPT !.list = cleared]
          /\ Return
          /\ UNCHANGED <<env, status>>
     ELSE IF fev.iter \in DOMAIN fev.list
     THEN /\ fev' = [fev EXCEPT !.iter = @ + 1]
          /\ Set(RegOf(1), Rship(fev.list[fev.iter]))
          /\ Consume
          /\ UNCHANGED status
     ELSE status' = "crashed" /\ UNCHANGED <<fev, env, pc>>
  /\ UNCHANGED <<call, rhs_input_, descs, out, fr>>

\* (Mutant: fev_list_end does not clear the list.)
VariableHeadKeeps == VariableHeadThen(fev.list)

VariableHead == VariableHeadThen(<<>>)

-----------------------------------------------------------------------------
ExpandNode ==
  /\ Entering("expand")
  /\ LET n == EndOf(LastValue, Op.dir)
     IN Set(RegOf(1), Node(n)) /\ ConsumeIf(Op.label = "" \/ NodeLabel(n) = Arg)
  /\ UNCHANGED <<call, memory, status, fr>>

\* A comparison of a property of the register the key names with the argument,
\* or a call with the first register.  The branch tests the register that
\* VisitFilter has chosen.
FilterTuple ==
  /\ Entering("filter")
  /\ LET e == Op.fexpr
         holds == IF e.kind = "fct" THEN PropertyOf(Tuple[1]) = e.value
                  ELSE PropertyOf(Tuple[e.qr_id + 1]) = Arg
         own == code[Here].cmp = Here
     IN /\ IF own THEN Set(RegOf(0), <<"bool", holds>>) ELSE UNCHANGED env
        /\ ConsumeIf(IF own THEN holds ELSE env[Append(code[Here].cmp, 0)][2])
  /\ UNCHANGED <<call, memory, status, fr>>

\* Expression i uses key i of the keys of all projections visited so far.  The
\* property is read from the description that the thread made when it first met
\* the node or relationship; the value of one that it lacks throws.  What is not
\* written is whatever the alloca holds, the number of any value projected so far.
ProjectTuple ==
  /\ Entering("project")
  /\ LET read == {i \in DOMAIN Op.prexpr : Op.prexpr[i].key # Keep}
         V(i) == Tuple[Op.prexpr[i].id + 1]
         written == {i \in read : Stores(Op.prexpr[i], code[Here].regs[Op.prexpr[i].id + 1].type)}
         descs_ == [v \in {V(i) : i \in read} \cup DOMAIN descs |->
                      IF v \in DOMAIN descs THEN descs[v] ELSE Description(v)]
     IN /\ descs' = descs_
        /\ \/ /\ \E i \in written : descs_[V(i)] = Null
              /\ status' = "crashed" /\ UNCHANGED <<env, pc>>
           \/ /\ \A i \in written : descs_[V(i)] # Null
              /\ \E held \in {Null} \cup {descs_[v] : v \in DOMAIN descs_} :
                   Assign([x \in {<<pc[1], 0, i>> : i \in read} |->
                            <<"prop", code[Here].keys[x[3]], V(x[3]),
                              IF x[3] \in written THEN descs_[V(x[3])] ELSE held>>])
              /\ Consume
              /\ UNCHANGED status
  /\ UNCHANGED <<call, rhs_input_, fev, out, fr>>

LimitTuples ==
  /\ Entering("limit")
  /\ IF fr.res_counter = Op.limit
     THEN pc' = code[Here].end /\ UNCHANGED fr
     ELSE fr' = [fr EXCEPT !.res_counter = @ + 1] /\ Consume
  /\ UNCHANGED <<call, memory, status, env>>

\* The second slot of a create holds the properties.
CreateThen(graph_, v) ==
  /\ Entering("create")
  /\ IF args[Slot(Here) + 1] # Op.props
     THEN status' = "crashed" /\ UNCHANGED <<graph, fr, env, pc>>
     ELSE /\ graph' = graph_
          /\ fr' = IF pc[2] = 1 THEN NoFrame ELSE fr
          /\ Set(RegOf(1), v)
          /\ Consume
          /\ UNCHANGED status
  /\ UNCHANGED <<static, phase, calls, args, base, clean, memory>>

CreateTupleNode ==
  /\ In("create", "entry") /\ Op.dir = "node"
  /\ CreateThen([graph EXCEPT !.node = Append(@, [label |-> Arg, value |-> Op.props])],
                Node(Len(graph.node) + 1))

CreateRshipFrom(n1, n2) ==
  /\ In("create", "entry") /\ Op.dir = "rship"
  /\ CreateThen([graph EXCEPT !.rship = Append(@, [src |-> Id(n1), dst |-> Id(n2), label |-> Arg,
                                                    value |-> Op.props])],
                Rship(Len(graph.rship) + 1))

\* (Mutant: the positions of src_des_ are counted from the last register.)
CreateTupleRshipLast ==
  CreateRshipFrom(Tuple[Len(Tuple) - Op.pos[1]], Tuple[Len(Tuple) - Op.pos[2]])

CreateTupleRship == CreateRshipFrom(Tuple[Op.pos[1] + 1], Tuple[Op.pos[2] + 1])

\* con_map has no function for a register of type 3, and the call throws.
CollectTuple ==
  /\ Entering("collect")
  /\ \/ /\ \A i \in DOMAIN code[Here].regs : code[Here].regs[i].type # 3
        /\ out' = Append(out, Tuple)
        /\ Return
        /\ UNCHANGED status
     \/ /\ \E i \in DOMAIN code[Here].regs : code[Here].regs[i].type = 3
        /\ status' = "crashed" /\ UNCHANGED <<out, pc>>
  /\ UNCHANGED <<call, rhs_input_, fev, descs, fr, env>>

MaterializeTuple ==
  /\ Entering("none")
  /\ LET jid == code[Here].jid
     IN rhs_input_' = [j \in DOMAIN rhs_input_ \cup {jid} |->
                         IF j = jid THEN Append(RhsInput(jid), Tuple) ELSE rhs_input_[j]]
  /\ Return
  /\ UNCHANGED <<call, fev, descs, out, status, fr, env>>

-----------------------------------------------------------------------------
(***************************************************************************)
(* Joins.  Registers 0 and -1 of a join are tp, the right-hand tuple, and  *)
(* ridx, the relationship at which a left outer join is.                   *)
(***************************************************************************)
Joining(name) == (In("cross_join", name) \/ In("left_join", name)) /\ Bound
Tp == env[RegOf(0)]
Ridx == env[RegOf(-1)]
LhsNode == Id(Tuple[Op.pos[1] + 1])
RhsNode == Id(Tp[Op.pos[2] + 1])

\* The registers of the right-hand side are read from tuple t; one of another
\* length or type throws.
Types == RhsTypes(plan)[Op.rhs]
Fits(t) == \A i \in DOMAIN Types :
             i \in DOMAIN t /\ t[i][1] = IF Types[i] = 0 THEN "node" ELSE "rship"
Concat(t) ==
  IF Fits(t)
  THEN /\ Assign([x \in {RegOf(i) : i \in {0} \cup DOMAIN Types} |-> IF x[3] = 0 THEN t ELSE t[x[3]]])
       /\ Consume
       /\ UNCHANGED status
  ELSE status' = "crashed" /\ UNCHANGED <<env, pc>>

EnterJoin ==
  /\ Joining("entry")
  /\ fr' = [fr EXCEPT !.dangling = 1, !.cur_idx = 0,
                      !.max_idx = Len(RhsInput(code[Here].jid))]
  /\ Goto("cond")
  /\ UNCHANGED <<call, memory, status, env>>

JoinDone ==
  /\ Joining("cond") /\ fr.cur_idx >= fr.max_idx
  /\ Return
  /\ UNCHANGED <<call, memory, status, fr, env>>

\* cur_idx is an index of the list whenever it is below max_idx.
CurTp == RhsInput(code[Here].jid)[fr.cur_idx + 1]

CrossNext ==
  /\ In("cross_join", "cond") /\ fr.cur_idx < fr.max_idx
  /\ Concat(CurTp)
  /\ fr' = [fr EXCEPT !.cur_idx = @ + 1]
  /\ UNCHANGED <<call, memory>>

BeginTuple ==
  Assign([x \in {RegOf(0), RegOf(-1)} |-> IF x[3] = 0 THEN CurTp ELSE FirstRship(LhsNode, "from")])

\* (Mutant: the flag is raised for every right-hand tuple.)
OuterBeginRaises ==
  /\ In("left_join", "cond") /\ fr.cur_idx < fr.max_idx
  /\ BeginTuple
  /\ fr' = [fr EXCEPT !.dangling = 1]
  /\ Goto("rships")
  /\ UNCHANGED <<call, memory, status>>

OuterBegin ==
  /\ In("left_join", "cond") /\ fr.cur_idx < fr.max_idx
  /\ BeginTuple
  /\ Goto("rships")
  /\ UNCHANGED <<call, memory, fr, status>>

\* The relationships of the left-hand node, compared with the right-hand one.
OuterMatch ==
  /\ In("left_join", "rships") /\ Ridx < Unknown
  /\ IF graph.rship[Ridx].dst = RhsNode
     THEN fr' = [fr EXCEPT !.dangling = 0] /\ Concat(Tp)
     ELSE /\ Set(RegOf(-1), NextRship(Ridx, "from"))
          /\ UNCHANGED <<fr, pc, status>>
  /\ UNCHANGED <<call, memory>>

\* incr_loop: no more relationships.
OuterIncr ==
  /\ In("left_join", "rships") /\ Ridx >= Unknown
  /\ fr' = [fr EXCEPT !.cur_idx = @ + 1]
  /\ IF fr.dangling = 1 THEN Concat(Tp) ELSE Goto("cond") /\ UNCHANGED <<env, status>>
  /\ UNCHANGED <<call, memory>>

\* handle_ret: what the operators above a left outer join return to.
OuterReturn ==
  /\ In("left_join", "ret")
  /\ IF Ridx < Unknown
     THEN Set(RegOf(-1), NextRship(Ridx, "from")) /\ Goto("rships")
     ELSE Goto("cond") /\ UNCHANGED env
  /\ UNCHANGED <<call, memory, status, fr>>

-----------------------------------------------------------------------------
Execute ==
  \/ ReadMissingArg
  \/ EnterScan \/ EnterIndexScan \/ ScanCond \/ ScanNext \/ ScanEnd
  \/ CreateTupleNode \/ CreateTupleRship \/ CreateEnd
  \/ EnterForeach \/ ForeachCond \/ ForeachNext \/ EnterVariable \/ VariableHead
  \/ ExpandNode \/ FilterTuple \/ ProjectTuple \/ LimitTuples
  \/ CollectTuple \/ MaterializeTuple
  \/ EnterJoin \/ JoinDone \/ CrossNext
  \/ OuterBegin \/ OuterMatch \/ OuterIncr \/ OuterReturn

runtime == <<graph, status, calls, pc, fr, env, args, rhs_input_, fev, descs, out, base, clean>>

CompileOrCall ==
  \/ Compile /\ UNCHANGED runtime
  \/ Start \/ ClearRhs
  \/ Execute
Next == CompileOrCall \/ SetProperty

\* The compiling and the executing thread run; the client need not call.
Spec == Init /\ [][Next]_vars
        /\ WF_vars(Compile /\ UNCHANGED runtime) /\ WF_vars(Execute)
-----------------------------------------------------------------------------
(***************************************************************************)
(* What a plan means: the tuples of a pipeline, operator by operator.  For *)
(* a left outer join, the pairs that match; Sort changes only the order.   *)
(***************************************************************************)
Map(F(_), s) == [i \in DOMAIN s |-> F(s[i])]
FlatMap(F(_), s) == FlattenSeq(Map(F, s))
\* The elements of s at the positions in keep (SelectSeq, for proofs: a set instead
\* of an operator).
Kept(s, keep) ==
  LET kept[i \in 0..Len(s)] ==
        IF i = 0 THEN <<>>
        ELSE IF i \in keep THEN Append(kept[i - 1], s[i]) ELSE kept[i - 1]
  IN kept[Len(s)]

Matches(row, t, pos) ==
  SelectSeq(SetToSortSeq(ListOf(Id(row[pos[1] + 1]), "from"), <),
            LAMBDA r : graph.rship[r].dst = Id(t[pos[2] + 1]))

\* The description of what the call creates is the plan's.
DescriptionAfter(v) ==
  LET new == {x \in Creates(v[1]) : Id(v) > base[IF v[1] = "node" THEN 1 ELSE 2]}
  IN IF new = {} THEN Description(v)
     ELSE LET op == OpAt(CHOOSE x \in new : TRUE) IN op.props

Apply(op, rows, rhs) ==
  CASE op.type = "scan" ->
         Map(LAMBDA n : <<Node(n)>>,
             Kept([n \in DOMAIN graph.node |-> n],
                  IF op.indexed THEN Indexed(op.props, op.label)
                  ELSE {n \in DOMAIN graph.node : NodeLabel(n) = op.label}))
    [] op.type = "foreach_rship" ->
         FlatMap(LAMBDA row : Map(LAMBDA r : Append(row, Rship(r)),
                   IF op.variable THEN VarRships(Id(Last(row)), op.dir, op.label)
                   ELSE Rships(Id(Last(row)), op.dir, op.label)), rows)
    [] op.type = "expand" ->
         LET ends == Map(LAMBDA row : Append(row, Node(EndOf(Id(Last(row)), op.dir))), rows)
         IN Kept(ends, {i \in DOMAIN ends :
                          op.label = "" \/ NodeLabel(Id(Last(ends[i]))) = op.label})
    [] op.type = "filter" ->
         LET tested == IF op.fexpr.kind = "fct" THEN 1 ELSE op.fexpr.qr_id + 1
         IN Kept(rows, {i \in DOMAIN rows : DescriptionAfter(rows[i][tested]) = op.fexpr.value})
    [] op.type = "project" ->
         Map(LAMBDA row : [i \in DOMAIN op.prexpr |->
               LET v == row[op.prexpr[i].id + 1]
               IN IF op.prexpr[i].key = Keep THEN v
                  ELSE <<"prop", op.prexpr[i].key, v, DescriptionAfter(v)>>], rows)
    [] op.type = "create" ->
         [i \in DOMAIN rows |->
            Append(rows[i], IF op.dir = "node" THEN Node(base[1] + i) ELSE Rship(base[2] + i))]
    [] op.type = "limit" -> SubSeq(rows, 1, IF Len(rows) < op.limit THEN Len(rows) ELSE op.limit)
    [] op.type = "cross_join" ->
         FlatMap(LAMBDA row : Map(LAMBDA t : row \o t, rhs), rows)
    [] op.type = "left_join" ->
         FlatMap(LAMBDA row : FlatMap(LAMBDA t :
                   Map(LAMBDA r : row \o t \o <<<<"flag", 0>>>>, Matches(row, t, op.pos)), rhs), rows)
    [] OTHER -> rows

\* The tuples that operator k of pipeline p passes on.
Rows(p, k) ==
  LET rows[x \in UNION {{q} \X (0..Len(plan[q])) : q \in DOMAIN plan}] ==
        IF x[2] = 0 THEN <<<<>>>>
        ELSE LET op == OpAt(x)
             IN Apply(op, rows[<<x[1], x[2] - 1>>],
                      IF IsJoin(op) THEN rows[<<op.rhs, Len(plan[op.rhs])>>] ELSE <<>>)
  IN rows[<<p, k>>]
Result(p) == Rows(p, Len(plan[p]))

Dangles(row) == \E i \in DOMAIN row : row[i] = <<"flag", 1>>
Matched(rows) == SelectSeq(rows, LAMBDA row : ~Dangles(row))

-----------------------------------------------------------------------------
\* What registers of a type hold: nodes and relationships that there are.
NodeValues == {Node(n) : n \in DOMAIN graph.node}
RshipValues == {Rship(r) : r \in RshipId}
IsValue(v) == (v[1] = "node" => v \in NodeValues) /\ (v[1] = "rship" => v \in RshipValues)
IsTuple(t) == IsSequence(t) /\ \A i \in DOMAIN t : IsValue(t[i])
HasType(v, type) ==
  CASE type = 0 -> v \in NodeValues [] type = 1 -> v \in RshipValues
    [] type \in {3, 4} -> v[1] = "prop"

\* Whatever an operator has assigned is of the type that its register was given by the
\* visitor; and a call has assigned every register below where it is, whichever loops
\* it has gone back through, and the right-hand tuples of the joins.
EnvInv ==
  /\ phase \in {"codegen", "walk", "aborted"} => env = <<>>
  /\ \A x \in DOMAIN code :
       /\ \A r \in Assigns(x) : r.type # 7 /\ r.val \in DOMAIN env => HasType(env[r.val], r.type)
       /\ IsJoin(OpAt(x)) /\ <<x[1], x[2], 0>> \in DOMAIN env => IsTuple(env[<<x[1], x[2], 0>>])
  /\ phase = "run" /\ status = "ok" =>
       /\ \A r \in Available(Here) : r.type # 7 => r.val \in DOMAIN env
       /\ \A k \in JoinsOf(pc[1]) :
            k < pc[2] \/ (k = pc[2] /\ pc[3] \in {"rships", "ret"}) => <<pc[1], k, 0>> \in DOMAIN env

\* Pipelines share their allocas.  The joins of a pipeline share cur_idx, which is
\* an index into the list of the last one that was entered.
Inside(j) == j < pc[2] \/ (j = pc[2] /\ pc[3] # "entry")
FrameInv ==
  phase = "run" /\ status = "ok" =>
    /\ OpAt(<<pc[1], 1>>).type = "scan" /\ (pc[2] > 1 \/ pc[3] = "next") => fr.it <= Len(graph.node)
    /\ Op.type = "foreach_rship" /\ pc[3] = "cond" => fr.lhs # 0
    /\ fr.cur_idx < fr.max_idx =>
         \A j \in JoinsOf(pc[1]) :
           Inside(j) /\ (\A k \in JoinsOf(pc[1]) : Inside(k) => k <= j)
           => fr.max_idx <= Len(RhsInput(code[<<pc[1], j>>].jid))

\* Types; and the iterator of the list of variable-length relationships stays within
\* the list while it is not empty.
TypeOK ==
  /\ plan \in Plans /\ IsGraph(graph)
  /\ base[1] \in 0..Len(graph.node) /\ base[2] \in 0..Len(graph.rship)
  /\ phase \in {"codegen", "walk", "aborted", "idle", "run", "interpret"}
  /\ status \in {"ok", "crashed"}
  /\ at \in Positions /\ DOMAIN code \subseteq Positions
  /\ op_id \in Nat /\ calls \in Nat
  /\ IF phase = "run"
     THEN <<pc[1], pc[2]>> \in DOMAIN code
            /\ pc[3] \in {"entry", "cond", "next", "head", "end", "rships", "ret"}
     ELSE pc = Null
  /\ fr \in [it : 1..(Len(graph.node) + 1), lhs : RshipId \cup {0, Unknown}, cur_idx : Nat,
              max_idx : Nat, dangling : {0, 1}, res_counter : Nat]
  /\ \A j \in DOMAIN rhs_input_ :
       IsSequence(rhs_input_[j]) /\ \A i \in DOMAIN rhs_input_[j] : IsTuple(rhs_input_[j][i])
  /\ IsSequence(fev.list) /\ Range(fev.list) \subseteq RshipId
  /\ fev.iter \in 1..(Len(fev.list) + 1) \/ fev.list = <<>>
  /\ DOMAIN descs \subseteq NodeValues \cup RshipValues
  /\ EnvInv
  /\ FrameInv

Tests(e) == e.kind = "fct" \/ (e.kind = "eq" /\ e.operand = "int")
Projects(p) == {k \in DOMAIN plan[p] : plan[p][k].type = "project"}
Variable(p) == {k \in DOMAIN plan[p] : plan[p][k].variable}

\* What the code supports: one join per pipeline; one projection and left outer
\* joins in the root's pipeline only; one variable traversal per pipeline, and
\* that from its source.  No limit follows a left outer join, whose dangling
\* tuples it would count.  A filter compares with a number or calls a function.  A
\* projection has no more than eleven properties, no DOUBLE, and no UINT64 of a
\* relationship.
\* The root's pipeline creates nodes and relationships by one operator each, under
\* labels that no operator of the plan matches; a pipeline whose access path creates
\* has no limit and no projection.  And every operator finds registers of the types it
\* takes them for.
Supported ==
  /\ \A x \in Positions : Usable(OpAt(x), FoundTypes(x))
  /\ OneJoinEach
  /\ \A x, y \in Creates("node") : x = y
  /\ \A x, y \in Creates("rship") : x = y
  /\ plan[1][1].type = "create" =>
       \A k \in DOMAIN plan[1] : plan[1][k].type \notin {"limit", "project"}
  /\ \A x \in Creates("node") \cup Creates("rship"), y \in Positions :
       /\ x[1] = 1
       /\ Labelled(OpAt(y)) => OpAt(y).label # OpAt(x).label /\ ~OpAt(y).indexed
       /\ OpAt(x).dir = "rship" => OpAt(y).type # "left_join"
  /\ \A p \in DOMAIN plan :
       /\ p > 1 => Projects(p) = {} /\ \A k \in DOMAIN plan[p] : plan[p][k].type # "left_join"
       /\ \A j, k \in Projects(p) : j = k
       /\ \A k \in Projects(p) : \A i \in DOMAIN plan[p][k].prexpr :
            LET e == plan[p][k].prexpr[i]
            IN e.key # Keep => i \in PvEntries /\ Stores(e, FoundTypes(<<p, k>>)[e.id + 1])
       /\ \A j, k \in Variable(p) : j = k
       /\ \A k \in Variable(p) : plan[p][k].dir = "from"
       /\ \A k \in DOMAIN plan[p] : plan[p][k].type = "filter" => Tests(plan[p][k].fexpr)
       /\ \A j, k \in DOMAIN plan[p] :
            j < k /\ plan[p][j].type = "left_join" => plan[p][k].type # "limit"

ArgsBound == \A p \in AllParameters : p[1] \in DOMAIN args /\ args[p[1]] = p[2]

Proper == calls > 0 /\ Supported /\ clean /\ ArgsBound

\* Only the last block of a scan calls the finish function.
Finishes == walk.finish # Null /\ OpAt(<<1, 1>>).type = "scan"

\* A call that finds its arguments in their slots and nothing of an earlier call
\* (no tuples, no description that is out of date) delivers the tuples the plan
\* describes, in order and each once (of a left outer join, those flagged as
\* matching), sorted at the end if the plan has a Sort.
DeliversResult ==
  Proper =>
    /\ phase = "run" => IsPrefix(Matched(out), Result(1))
    /\ phase = "idle" => Matched(out) = IF Finishes THEN SortRows(Result(1)) ELSE Result(1)

\* What the create operator k of the root's pipeline describes, and what the
\* call has created by it.
Described(k) ==
  LET op == plan[1][k]
  IN Map(LAMBDA row : IF op.dir = "node" THEN [label |-> op.label, value |-> op.props]
                      ELSE [src |-> Id(row[op.pos[1] + 1]), dst |-> Id(row[op.pos[2] + 1]),
                            label |-> op.label, value |-> op.props],
         Rows(1, k - 1))
Created(k) ==
  IF plan[1][k].dir = "node" THEN SubSeq(graph.node, base[1] + 1, Len(graph.node))
  ELSE SubSeq(graph.rship, base[2] + 1, Len(graph.rship))

\* Such a call creates one node, or one relationship between the nodes the tuple
\* names, for every tuple that reaches a create operator, also where a join
\* above it multiplies the tuples; an operator behind it that cuts the tuples off
\* cannot take more than one creation back.
CreatesOnce ==
  Proper /\ phase \in {"run", "idle"} => \A k \in {x[2] : x \in Creates("node") \cup Creates("rship")} :
    LET limits == {j \in DOMAIN plan[1] : plan[1][j].type = "limit" /\ j > k}
    IN /\ IsPrefix(Created(k), Described(k))
       /\ phase = "idle" /\ limits = {} => Created(k) = Described(k)

\* A join is entered only once its right-hand side is materialised completely,
\* and no tuple is added to it while it is probed.
ProbesWholeRhs ==
  Proper /\ phase = "run" /\ IsJoin(Op) =>
    Matched(RhsInput(code[Here].jid)) = Result(Op.rhs)

\* An index scan looks up what the index has, a projection finds its property.
Found == \A p \in DOMAIN plan :
  /\ plan[p][1].indexed => Indexed(plan[p][1].props, plan[p][1].label) # {}
  /\ Projects(p) # {} =>
       /\ \A n \in DOMAIN graph.node : graph.node[n].value # Null
       /\ \A r \in RshipId : graph.rship[r].value # Null

\* Such a call neither throws nor reads through a bad iterator or register,
\* unless an index has no entry or a node or relationship lacks a projected
\* property; and a plan
\* the code supports is compiled, if it creates no relationships.
NeverCrashes ==
  /\ Supported /\ Creates("rship") = {} => phase # "aborted"
  /\ Proper /\ phase # "interpret" /\ Found => status = "ok"

\* The operators above a variable-length traversal, and its own head, which
\* takes the next relationship from the list.
InTraversal ==
  \E k \in Variable(pc[1]) : pc[2] > k \/ (pc[2] = k /\ pc[3] = "head")

\* A call that is not cut off by a limit leaves the list of variable-length
\* relationships as the next call needs it, wherever in the plan it was filled
\* and however often: only the operators above the traversal ever see it filled.
LeavesListEmpty ==
  clean /\ (\A x \in Positions : OpAt(x).type # "limit")
  => fev.list = <<>> \/ (phase = "run" /\ InTraversal)

\* The tuples of a left outer join that have the same left-hand side.
SameLhs(s, t) ==
  \E k \in JoinsOf(1) :
    \A i \in DOMAIN code[<<1, k>>].regs : s[i] = t[i]

\* Once a left-hand tuple has matched, none of its tuples is flagged as dangling
\* any more.
FlagStaysDown ==
  Proper /\ Projects(1) = {} => \A i, j \in DOMAIN out :
    i < j /\ Dangles(out[j]) /\ SameLhs(out[i], out[j]) => Dangles(out[i])

\* A call of the compiled code returns.
Returns == phase = "run" ~> (phase = "idle" \/ status # "ok")

-----------------------------------------------------------------------------
(***************************************************************************)
(* A promise of the repository's comments that the code does not keep.     *)
(***************************************************************************)

\* codegen_inline.hpp, line 193: the flag indicates that the tuple is
\* dangling.  A tuple compared before the first match carries it too.
DanglingMeansNoMatch ==
  Proper /\ phase = "idle" /\ Projects(1) = {} => \A i, j \in DOMAIN out :
    Dangles(out[i]) /\ ~Dangles(out[j]) => ~SameLhs(out[i], out[j])
=============================================================================
