----------------------------- MODULE PlanCodegen -----------------------------
(***************************************************************************)
(* Compilation of a plan (codegen_inline.cpp, qoperator.cpp and step 3 of  *)
(* compile_task).  base_op::codegen visits the operators of a plan in a    *)
(* fixed order; the visits communicate only through members of the         *)
(* codegen_inline_visitor: the block that the next operator is linked to,  *)
(* the block that it returns to, the registers, the projection keys, the   *)
(* join identifiers.  A visit emits blocks; what they refer to is fixed at *)
(* that time and recorded in code[<<p, k>>].                               *)
(*                                                                         *)
(* A plan is a sequence of pipelines, the root's first.  A pipeline is the *)
(* path from a scan along inputs_[0] to its Collect or End; a join names   *)
(* the pipeline of its inputs_[1].                                         *)
(***************************************************************************)
EXTENDS Integers, SequencesExt

CONSTANTS
  Plans,  \* the plans to compile
  Keep,   \* the key of a projection expression of type BOOLEAN
  Null

(***************************************************************************)
(* Operators (qoperator.hpp).                                              *)
(***************************************************************************)
base_op == [type |-> "none", label |-> "", indexed |-> FALSE, dir |-> "from",
            variable |-> FALSE, prexpr |-> <<>>, pos |-> <<0, 0>>, rhs |-> 0,
            limit |-> 0, fexpr |-> Null, props |-> Null]

Scan(label) == [base_op EXCEPT !.type = "scan", !.label = label]
\* The index, <<label, property>>, and the value are those that the client passes.
IndexScan(index, value) == [Scan(value) EXCEPT !.indexed = TRUE, !.props = index]
ForeachRship(dir, variable, label) ==
  [base_op EXCEPT !.type = "foreach_rship", !.label = label, !.dir = dir,
                  !.variable = variable]
Expand(exp, label) ==
  [base_op EXCEPT !.type = "expand", !.label = label, !.dir = exp]
\* An expression: a register, a key and the type of the property, "double", "uint64"
\* or any other; BOOLEAN has the key Keep.
Project(prexpr) == [base_op EXCEPT !.type = "project", !.prexpr = prexpr]
Join(type, pos, rhs) ==
  [base_op EXCEPT !.type = type, !.pos = pos, !.rhs = rhs]
\* The label of a filter stands for the number that its client passes.
Filter(fexpr) ==
  [base_op EXCEPT !.type = "filter", !.fexpr = fexpr, !.label = fexpr.value]
Sort == [base_op EXCEPT !.type = "sort"]
Limit(n) == [base_op EXCEPT !.type = "limit", !.limit = n]
\* The label and the properties are those that the client passes.
Create(type, src_des, label, props) ==
  [base_op EXCEPT !.type = "create", !.dir = type, !.pos = src_des,
                  !.label = label, !.props = props]
CreateNode(label, props) == Create("node", <<0, 0>>, label, props)
CreateRship(src_des, label, props) == Create("rship", src_des, label, props)
Collect == [base_op EXCEPT !.type = "collect"]
End == base_op

\* Filter expressions: a property of register qr_id compared with a number or
\* a string ("int", "str"); a function of the first register; "and", "or".
Eq(qr_id, operand, value) ==
  [kind |-> "eq", qr_id |-> qr_id, operand |-> operand, value |-> value]
Fct(value) == [kind |-> "fct", value |-> value]
Bool(kind, left, right) ==
  [kind |-> kind, left |-> left, right |-> right, value |-> right.value]

IsLeaf(op) == op.type \in {"collect", "none"}
IsJoin(op) == op.type \in {"cross_join", "left_join"}
Labelled(op) == op.type \in {"scan", "foreach_rship", "expand"}

\* What qoperator's constructors and connect build: a tree, its pipelines numbered
\* from the root on.  Each begins with an access path and ends with the only leaf.
IsSequence(s) == Len(s) \in Nat /\ s = [i \in 1..Len(s) |-> s[i]]
IsPlan(plan_) ==
  /\ IsSequence(plan_) /\ 1 \in DOMAIN plan_
  /\ \A p \in DOMAIN plan_ :
       /\ p \in Nat /\ p >= 1
       /\ IsSequence(plan_[p]) /\ plan_[p] # <<>>
       /\ plan_[p][1].type \in {"scan", "create"}
       /\ plan_[p][Len(plan_[p])].type = IF p = 1 THEN "collect" ELSE "none"
       /\ \A k \in DOMAIN plan_[p] :
            /\ DOMAIN plan_[p][k] = DOMAIN base_op
            /\ IsLeaf(plan_[p][k]) => k = Len(plan_[p])
            /\ plan_[p][k].type = "scan" => k = 1
            /\ plan_[p][k].variable => plan_[p][k].type = "foreach_rship"
            /\ plan_[p][k].indexed =>
                 plan_[p][k].props = <<plan_[p][k].props[1], plan_[p][k].props[2]>>
            /\ plan_[p][k].type = "create" => plan_[p][k].dir \in {"node", "rship"}
            /\ plan_[p][k].type = "filter" =>
                 LET e == plan_[p][k].fexpr
                 IN plan_[p][k].label = e.value /\ (e.kind = "eq" => e.operand \in {"int", "str"})
            /\ IsSequence(plan_[p][k].prexpr)
            /\ IsJoin(plan_[p][k]) => plan_[p][k].rhs \in DOMAIN plan_ /\ p < plan_[p][k].rhs
       /\ p # 1 => \E q \in DOMAIN plan_ : q < p /\ \E k \in DOMAIN plan_[q] :
                     IsJoin(plan_[q][k]) /\ plan_[q][k].rhs = p

ASSUME PlansAssumption == \A plan_ \in Plans : IsPlan(plan_)
ASSUME NullAssumption == Null \notin (Nat \X Nat) \cup (Nat \X Nat \X {"end"})

VARIABLES
  plan,   \* the plan being compiled
  phase,  \* "codegen", "walk" or "aborted", then "idle" and "run" (module Pipeline)
  at,     \* <<pipeline, position>> of the operator to be visited
  todo,   \* right-hand pipelines still to be visited, the next one last
  op_id,  \* the operator counter that codegen passes by reference
  cv,     \* the visitor's members
  code,   \* per visited operator: what its blocks refer to
  walk    \* compile_task's walk: cur_op, recur_list, query_args, finish_name

codegenVars == <<plan, phase, at, todo, op_id, cv, code, walk>>

Positions == UNION {{p} \X DOMAIN plan[p] : p \in DOMAIN plan}
OpAt(x) == plan[x[1]][x[2]]
Succ(x) == <<x[1], x[2] + 1>>
Block(x, name) == <<x[1], x[2], name>>

\* get_rhs_type: the types of the registers of pipeline p, nodes (0) and
\* relationships (1); it overlooks what is created.
OpTypes(op, types) ==
  CASE op.type \in {"scan", "expand"} -> <<0>>
    [] op.type = "foreach_rship"      -> <<1>>
    [] IsJoin(op)                     -> types[op.rhs]
    [] OTHER                          -> <<>>
RhsTypes(plan_) ==
  LET types[p \in DOMAIN plan_] ==
        FlattenSeq([k \in DOMAIN plan_[p] |-> OpTypes(plan_[p][k], types)])
  IN types

\* An operator finds registers of these types, the last of them or by identifier,
\* where it reads one.  The types are not checked: it would take anything else for
\* what it expects.  A projection may keep any register.
Usable(op, types) ==
  LET Holds(id, allowed) == id + 1 \in DOMAIN types /\ types[id + 1] \in allowed
  IN CASE op.type = "foreach_rship" -> Holds(Len(types) - 1, {0})
       [] op.type = "expand"        -> Holds(Len(types) - 1, {1})
       [] op.type = "filter"        ->
            LET e == op.fexpr
            IN e.kind \in {"eq", "fct"} => Holds(IF e.kind = "eq" THEN e.qr_id ELSE 0, {0})
       [] op.type = "project"       ->
            \A i \in DOMAIN op.prexpr :
              Holds(op.prexpr[i].id, IF op.prexpr[i].key = Keep THEN {0, 1, 3, 4, 7} ELSE {0, 1})
       [] op.type = "left_join"     -> Holds(op.pos[1], {0})
       [] op.type = "create"        ->
            op.dir # "node" => Holds(op.pos[1], {0}) /\ Holds(op.pos[2], {0})
       [] OTHER                     -> TRUE

\* The type of a projected register: 3 for DOUBLE; the others (2, 4, 5, 6 and 8) are
\* the ones that are collected, and are 4 here.
ProjectedType(e) == IF e.type = "double" THEN 3 ELSE 4

\* What the functions of the runtime do write to the alloca: no DOUBLE, and a UINT64 of
\* a node only.
Stores(e, type) == e.type # "double" /\ (e.type = "uint64" => type = 0)

\* pv has twelve entries, of which the first is not used.
PvEntries == 1..11

CodegenInit ==
  /\ plan \in Plans
  /\ phase = "codegen"
  /\ at = <<1, 1>>
  /\ todo = <<>>
  /\ op_id = 1
  /\ cv = [main_return |-> Null, prev_bb |-> Null, scan_nodes_end |-> Null,
           regs |-> <<>>, project_string |-> <<>>, jids |-> <<>>,
           query_id_inline |-> 0, entry |-> <<>>, expr_register |-> Null]
  /\ code = <<>>
  /\ walk = [cur |-> <<1, 1>>, recur |-> <<>>, args |-> <<>>, finish |-> Null]

-----------------------------------------------------------------------------
(***************************************************************************)
(* The visits.  Reg(i, type) is register i of the visited operator.  The   *)
(* allocas of a pipeline are registers of position 0.                      *)
(***************************************************************************)
TypesOf(regs) == [i \in DOMAIN regs |-> regs[i].type]
Finds == Usable(OpAt(at), TypesOf(cv.regs))
Visiting(type) == phase = "codegen" /\ OpAt(at).type = type /\ Finds
Reg(i, type) == [val |-> <<at[1], at[2], i>>, type |-> type]
Alloca(i, type) == [val |-> <<at[1], 0, i>>, type |-> type]

\* The visited operator's blocks, linked with those of the previous one.
EmitTest(prev, jid, cmp) ==
  code' = [x \in DOMAIN code \cup {at} |->
             IF x = at
             THEN [op_id |-> op_id, ret |-> cv.main_return, regs |-> cv.regs,
                   keys |-> cv.project_string, end |-> cv.scan_nodes_end,
                   jid |-> jid, cmp |-> cmp, next |-> Null]
             ELSE IF x = prev THEN [code[x] EXCEPT !.next = at] ELSE code[x]]
Emit(prev, jid) == EmitTest(prev, jid, Null)

\* The visitor uses a register that does not exist or is of another type, or a
\* block that does not exist.
Abort == phase' = "aborted" /\ UNCHANGED <<plan, at, op_id, cv, code, walk>>

\* codegen of the operator in inputs_[0].
Descend(width) ==
  /\ op_id' = op_id + width
  /\ at' = Succ(at)
  /\ UNCHANGED <<plan, phase, walk>>

\* A leaf returns to the innermost join whose inputs_[1] is not yet visited.
Ascend ==
  /\ IF todo = <<>>
     THEN phase' = "walk" /\ UNCHANGED <<at, todo>>
     ELSE at' = <<Last(todo), 1>> /\ todo' = Front(todo) /\ UNCHANGED phase
  /\ UNCHANGED <<plan, op_id, walk>>

VisitScanEntry(entry) ==
  /\ Visiting("scan")
  /\ LET keys == FlattenSeq([k \in DOMAIN plan[at[1]] |->
                   LET es == plan[at[1]][k].prexpr IN [i \in DOMAIN es |-> es[i].key]])
     IN cv' = [cv EXCEPT !.regs = <<Reg(1, 0)>>,
                         !.main_return = Block(at, IF OpAt(at).indexed THEN "end" ELSE "next"),
                         !.scan_nodes_end = Block(at, "end"),
                         !.prev_bb = at,
                         !.project_string = @ \o keys,
                         !.entry = entry]
  /\ Emit(Null, Null)
  /\ Descend(IF OpAt(at).indexed THEN 3 ELSE 1)
  /\ UNCHANGED todo

\* (Mutant: the entry block of a later access path is put last.)
VisitScanLast == VisitScanEntry(Append(cv.entry, at[1]))

\* The entry block of a later access path is put before the earlier ones, and
\* its last block branches to them.
VisitScan == VisitScanEntry(<<at[1]>> \o cv.entry)

\* The operators above go back to the step to the next relationship.
VisitForeach ==
  /\ Visiting("foreach_rship")
  /\ cv' = [cv EXCEPT !.regs = Append(@, Reg(1, 1)), !.prev_bb = at,
                      !.main_return = Block(at, IF OpAt(at).variable THEN "head" ELSE "next")]
  /\ Emit(cv.prev_bb, Null)
  /\ Descend(1)
  /\ UNCHANGED todo

VisitExpand ==
  /\ Visiting("expand")
  /\ cv' = [cv EXCEPT !.regs = Append(@, Reg(1, 0)), !.prev_bb = at]
  /\ Emit(cv.prev_bb, Null)
  /\ Descend(1)
  /\ UNCHANGED todo

\* The register that the filter's branch tests.  expr_register is global and the
\* comparison with a number writes it; the one with a string does not, and its
\* branch tests what an earlier filter has left there.  and and or look their
\* operands up in gen_vals_, which nothing has filled.
Tested(e) ==
  IF e.kind = "fct" \/ (e.kind = "eq" /\ e.operand = "int") THEN at
  ELSE IF e.kind = "eq" THEN cv.expr_register ELSE Null

VisitFilter ==
  /\ Visiting("filter")
  /\ LET e == OpAt(at).fexpr
         cmp == Tested(e)
         usable == cmp # Null /\ cmp[1] = at[1]
     IN \/ /\ usable
           /\ cv' = [cv EXCEPT !.prev_bb = at,
                               !.expr_register = IF e.kind = "eq" THEN cmp ELSE @]
           /\ EmitTest(cv.prev_bb, Null, cmp)
           /\ Descend(1)
        \/ \* no value, or one of another pipeline
           /\ ~usable
           /\ Abort
  /\ UNCHANGED todo

\* The projected registers replace the others; their allocas, pv, belong to the
\* pipeline, whose scan has made them, and the keys' too.
VisitProject ==
  /\ Visiting("project")
  /\ LET es == OpAt(at).prexpr
         keyed == \A i \in DOMAIN es :
                    es[i].key = Keep \/ i \in PvEntries \cap DOMAIN cv.project_string
     IN \/ /\ keyed
           /\ cv' = [cv EXCEPT !.regs = [i \in DOMAIN es |->
                                  IF es[i].key = Keep THEN cv.regs[es[i].id + 1]
                                  ELSE Alloca(i, ProjectedType(es[i]))],
                               !.prev_bb = at]
           /\ Emit(cv.prev_bb, Null)
           /\ Descend(0)
        \/ ~keyed /\ Abort
  /\ UNCHANGED todo

VisitJoinQueueing(jid) ==
  /\ phase = "codegen" /\ IsJoin(OpAt(at)) /\ Finds
  /\ LET op == OpAt(at)
         types == RhsTypes(plan)[op.rhs]
         outer == op.type = "left_join"
     IN /\ cv' = [cv EXCEPT !.regs = @ \o [i \in DOMAIN types |-> Reg(i, types[i])]
                                       \o IF outer THEN <<Alloca(0, 7)>> ELSE <<>>,
                            !.main_return = Block(at, IF outer THEN "ret" ELSE "cond"),
                            !.prev_bb = at,
                            !.jids = Append(@, jid),
                            !.query_id_inline = @ + 1]
        /\ todo' = Append(todo, op.rhs)
  /\ Emit(cv.prev_bb, cv.query_id_inline)
  /\ Descend(0)

\* (Mutant: the identifier is advanced before it is queued.)
VisitJoinAdvanced == VisitJoinQueueing(cv.query_id_inline + 1)

\* The join's identifier waits in jids for the End of its right-hand side.
VisitJoin == VisitJoinQueueing(cv.query_id_inline)

\* A function of its own; the pipeline passes it by.
VisitSort ==
  /\ Visiting("sort")
  /\ Descend(1)
  /\ UNCHANGED <<cv, code, todo>>

\* Only a scan sets the block that a limit branches to.
VisitLimit ==
  /\ Visiting("limit")
  /\ \/ /\ cv.scan_nodes_end # Null
        /\ cv' = [cv EXCEPT !.prev_bb = at]
        /\ Emit(cv.prev_bb, Null)
        /\ Descend(1)
     \/ cv.scan_nodes_end = Null /\ Abort
  /\ UNCHANGED todo

\* The first access path, which has a block of its own to return to and no finish
\* function, or linked with the operator before it, but not with another
\* pipeline's.
VisitCreate ==
  /\ Visiting("create")
  /\ LET op == OpAt(at)
         access == cv.entry = <<>>
         linked == access \/ at[2] > 1
     IN \/ /\ linked
           /\ cv' = [cv EXCEPT !.regs = Append(@, Reg(1, IF op.dir = "node" THEN 0 ELSE 1)),
                               !.main_return = IF access THEN Block(at, "end") ELSE @,
                               !.entry = IF access THEN <<at[1]>> ELSE @,
                               !.prev_bb = at]
           /\ Emit(IF access THEN Null ELSE cv.prev_bb, Null)
           /\ Descend(2)
        \/ ~linked /\ Abort
  /\ UNCHANGED todo

VisitCollect ==
  /\ Visiting("collect")
  /\ Emit(cv.prev_bb, Null)
  /\ Ascend
  /\ UNCHANGED cv

\* (Mutant: the identifier queued last is taken.)
VisitEndLast ==
  /\ Visiting("none")
  /\ Emit(cv.prev_bb, Last(cv.jids))
  /\ cv' = [cv EXCEPT !.jids = Front(@)]
  /\ Ascend

\* Materialises into the list of the identifier queued first.
VisitEnd ==
  /\ Visiting("none")
  /\ Emit(cv.prev_bb, Head(cv.jids))
  /\ cv' = [cv EXCEPT !.jids = Tail(@)]
  /\ Ascend

VisitUnusable ==
  /\ phase = "codegen" /\ ~Finds
  /\ Abort
  /\ UNCHANGED todo

Visit ==
  \/ VisitUnusable
  \/ VisitScan \/ VisitForeach \/ VisitExpand \/ VisitFilter \/ VisitProject
  \/ VisitJoin \/ VisitSort \/ VisitLimit \/ VisitCreate \/ VisitCollect \/ VisitEnd
-----------------------------------------------------------------------------
(***************************************************************************)
(* The walk that collects the labels and the name of the finish function.  *)
(* From a leaf it goes on at the last right-hand scan, without extracting  *)
(* that scan's label.                                                      *)
(***************************************************************************)
\* (Mutant: expand has no label.)
ExtractArgNoExpand(args, op) ==
  IF op.type \in {"scan", "foreach_rship"} THEN Append(args, op.label) ELSE args

\* An index scan's label is empty: the value it looks up, the label field here,
\* is left for later ("TODO").
ExtractArg(args, op) == IF Labelled(op) THEN Append(args, IF op.indexed THEN "" ELSE op.label) ELSE args

WalkStep ==
  /\ phase = "walk"
  /\ ~IsLeaf(OpAt(walk.cur)) \/ walk.recur # <<>>
  /\ LET leaf == IsLeaf(OpAt(walk.cur))
         cur == IF leaf THEN <<Last(walk.recur), 1>> ELSE walk.cur
         recur == IF leaf THEN Front(walk.recur) ELSE walk.recur
     IN walk' = [cur |-> Succ(cur),
                 recur |-> IF IsJoin(OpAt(cur)) THEN Append(recur, OpAt(cur).rhs) ELSE recur,
                 args |-> ExtractArg(walk.args, OpAt(walk.cur)),
                 finish |-> IF OpAt(cur).type = "sort" THEN cur ELSE walk.finish]
  /\ UNCHANGED <<plan, phase, at, todo, op_id, cv, code>>

Creates(type) == {x \in Positions : OpAt(x).type = "create" /\ OpAt(x).dir = type}

\* The functions of the runtime interface that an operator's blocks call.
Calls(op) ==
  CASE op.type = "scan" ->
         IF op.indexed THEN {"index_get_node"}
         ELSE {"gdb_get_nodes", "dict_lookup_label", "get_vec_begin", "get_vec_next",
               "vec_end_reached", "get_node_from_it", "get_valid_node"}
    [] op.type = "foreach_rship" ->
         {"dict_lookup_label"} \cup
           IF op.variable THEN {"foreach_from_variable_rship", "fev_list_end", "get_next_rship_fev"}
           ELSE {"rship_by_id"}
    [] op.type = "expand" -> {"node_by_id"} \cup IF op.label = "" THEN {} ELSE {"dict_lookup_label"}
    [] op.type = "filter" -> IF op.fexpr.kind = "fct" THEN {} ELSE {"pset_get_item_at"}
    [] op.type = "project" -> {"apply_pexpr_node", "apply_pexpr_rship"}
    [] IsJoin(op) ->
         {"get_mat_res_size", "get_join_tp_at", "get_node_res_at", "get_rship_res_at"} \cup
           IF op.type = "left_join" THEN {"rship_by_id"} ELSE {}
    [] op.type = "create" -> IF op.dir = "node" THEN {"create_node"} ELSE {"create_rship"}
    [] op.type = "collect" -> {"mat_reg_value", "collect_tuple"}
    [] op.type = "none" -> {"obtain_mat_tuple", "mat_node", "mat_rship", "collect_tuple_join"}
    [] OTHER -> {}

\* The names that the JIT resolves.
Registered ==
  {"vec_end_reached", "get_vec_begin", "get_vec_next", "dict_lookup_label", "gdb_get_nodes",
   "node_by_id", "get_node_from_it", "gdb_get_rships", "get_rship_from_it", "get_vec_begin_r",
   "get_vec_next_r", "vec_end_reached_r", "rship_by_id", "gdb_get_dcode", "pset_get_item_at",
   "get_tx", "get_valid_node", "apply_pexpr", "dict_lookup_dcode", "create_node", "create_ship",
   "foreach_variable_from", "mat_reg_value", "collect_tuple", "obtain_mat_tuple", "mat_node",
   "mat_rship", "collect_tuple_join", "get_join_tp_at", "get_node_res_at", "get_rship_res_at",
   "get_mat_res_size", "index_get_node", "apply_pexpr_node", "apply_pexpr_rship",
   "retrieve_fev_queue", "insert_fev_rship", "foreach_from_variable_rship",
   "get_next_rship_fev", "fev_list_end"}
Unresolved == (UNION {Calls(OpAt(x)) : x \in Positions}) \ Registered

\* The code is linked.  What is not registered is searched in the process, and is
\* found only if the build exports it.
WalkEnd ==
  /\ phase = "walk"
  /\ IsLeaf(OpAt(walk.cur)) /\ walk.recur = <<>>
  /\ phase' \in IF Unresolved = {} THEN {"idle"} ELSE {"idle", "aborted"}
  /\ UNCHANGED <<plan, at, todo, op_id, cv, code, walk>>

Compile == Visit \/ WalkStep \/ WalkEnd
-----------------------------------------------------------------------------
Compiled == phase \notin {"codegen", "walk", "aborted"}
JoinsOf(p) == {k \in DOMAIN plan[p] : IsJoin(OpAt(<<p, k>>))}
LeafOf(p) == <<p, Len(plan[p])>>

\* A pipeline has at most one join; joins may be nested through right-hand
\* sides.
OneJoinEach == \A p \in DOMAIN plan : \A j, k \in JoinsOf(p) : j = k

\* The list a join reads is the list its own right-hand side is materialised
\* into, although identifiers are handed over through a queue.  (With two joins in a
\* pipeline the queue hands them over in the wrong order.)
JoinReadsOwnRhs ==
  Compiled /\ OneJoinEach =>
    \A x \in Positions : IsJoin(OpAt(x)) => code[x].jid = code[LeafOf(OpAt(x).rhs)].jid

\* Every right-hand side executes before the pipeline that probes it.
RhsExecutesFirst ==
  Compiled => \A x \in Positions : IsJoin(OpAt(x)) =>
    \E i, j \in DOMAIN cv.entry :
      i < j /\ cv.entry[i] = OpAt(x).rhs /\ cv.entry[j] = x[1]

\* Up to the first operator that takes argument slots without having a label, the
\* labels the walk extracts are in the slots the compiled code reads.
BindsLabels ==
  Compiled => \A k \in DOMAIN plan[1] :
    /\ Labelled(plan[1][k]) /\ ~plan[1][k].indexed
    /\ \A j \in 1..(k - 1) :
         plan[1][j].type \notin {"filter", "sort", "limit", "create"} /\ ~plan[1][j].indexed
    => LET slot == code[<<1, k>>].op_id
       IN slot \in DOMAIN walk.args /\ walk.args[slot] = plan[1][k].label
-----------------------------------------------------------------------------
(***************************************************************************)
(* Why they hold: an inductive invariant of the compilation.               *)
(***************************************************************************)
JoinPositions == {x \in Positions : IsJoin(OpAt(x))}
RhsOf(x) == OpAt(x).rhs
Entered == Range(cv.entry)
Reached(x) == IF x[1] = at[1] THEN x[2] < at[2] ELSE x[1] \in Entered
Precedes(p, q) == \E i, j \in DOMAIN cv.entry : i < j /\ cv.entry[i] = p /\ cv.entry[j] = q

\* The right-hand side of a visited join waits to be visited, is about to be, or
\* its entry block was put before that of the join's pipeline.  As many identifiers
\* are queued as there are right-hand sides whose End is to be visited.
OrderInv ==
  /\ plan \in Plans /\ at \in Positions
  /\ \A i \in DOMAIN todo : todo[i] \in DOMAIN plan /\ todo[i] > 1
  /\ phase = "codegen" => Len(cv.jids) = Len(todo) + IF at[1] = 1 THEN 0 ELSE 1
  /\ 1 \in Entered \/ at = <<1, 1>>
  /\ at[1] \in Entered \/ at[2] = 1
  /\ \A x \in JoinPositions : Reached(x) =>
       \/ RhsOf(x) \in Range(todo)
       \/ at = <<RhsOf(x), 1>>
       \/ Precedes(RhsOf(x), x[1])
  /\ phase \notin {"codegen", "aborted"} => todo = <<>> /\ at[2] = Len(plan[at[1]]) /\ at[1] \in Entered

\* Where the identifier of a visited join is: queued last, next to be taken, or taken
\* by the End of the join's right-hand side.
Joined == \E j \in JoinsOf(at[1]) : j < at[2]
Handed(x) ==
  IF x[1] = at[1]
  THEN phase = "codegen" /\ Last(todo) = RhsOf(x) /\ Last(cv.jids) = code[x].jid
  ELSE IF RhsOf(x) = at[1] /\ phase = "codegen" THEN cv.jids[1] = code[x].jid
  ELSE /\ RhsOf(x) \in Entered /\ LeafOf(RhsOf(x)) \in DOMAIN code
       /\ code[x].jid = code[LeafOf(RhsOf(x))].jid

\* With one join in a pipeline, its right-hand side is the only one that waits.
JidInv ==
  OneJoinEach =>
    /\ \A q \in Entered : q <= at[1] /\ (q = at[1] => at[2] > 1)
    /\ phase = "codegen" => Len(todo) = IF Joined THEN 1 ELSE 0
    /\ phase # "aborted" =>
         \A x \in JoinPositions : Reached(x) => x \in DOMAIN code /\ Handed(x)

\* No operator before position k takes argument slots without having a label.
Plain(k) == \A j \in 1..(k - 1) :
  plan[1][j].type \notin {"filter", "sort", "limit", "create"} /\ ~plan[1][j].indexed
Width(k) == IF Labelled(plan[1][k]) THEN 1 ELSE 0
SlotAfter(k) == IF k = 0 THEN 1 ELSE code[<<1, k>>].op_id + Width(k)
InSlot(k) ==
  Labelled(plan[1][k]) /\ ~plan[1][k].indexed =>
    LET slot == code[<<1, k>>].op_id
    IN slot \in DOMAIN walk.args /\ walk.args[slot] = plan[1][k].label

SlotsUpTo(n) ==
  \A k \in DOMAIN plan[1] :
    Plain(k) /\ plan[1][k].type # "sort" /\ k <= n =>
      <<1, k>> \in DOMAIN code /\ code[<<1, k>>].op_id = SlotAfter(k - 1)

\* Both walks count the labels alike: the slots of the compiled code, then the
\* arguments.
SlotInv ==
  /\ SlotsUpTo(IF at[1] = 1 /\ phase \in {"codegen", "aborted"} THEN at[2] - 1 ELSE Len(plan[1]))
  /\ at[1] = 1 /\ phase = "codegen" /\ Plain(at[2]) => op_id = SlotAfter(at[2] - 1)
  /\ phase = "codegen" => walk.cur = <<1, 1>> /\ walk.recur = <<>> /\ walk.args = <<>>
  /\ phase = "walk" =>
       /\ walk.cur \in Positions
       /\ \A i \in DOMAIN walk.recur : walk.recur[i] \in DOMAIN plan /\ walk.recur[i] > 1
       /\ walk.cur[1] = 1 /\ Plain(walk.cur[2]) => Len(walk.args) + 1 = SlotAfter(walk.cur[2] - 1)
       /\ \A k \in DOMAIN plan[1] :
            Plain(k) /\ (walk.cur[1] # 1 \/ k < walk.cur[2]) => InSlot(k)
  /\ Compiled => \A k \in DOMAIN plan[1] : Plain(k) => InSlot(k)

\* Where the loops of a pipeline go on.  A create is one only as the access path.
IsLoop(x) == x[2] = 1 \/ OpAt(x).type = "foreach_rship" \/ IsJoin(OpAt(x))
LoopBlock(op) ==
  CASE op.type = "scan" -> IF op.indexed THEN "end" ELSE "next"
    [] op.type = "foreach_rship" -> IF op.variable THEN "head" ELSE "next"
    [] op.type = "cross_join" -> "cond"
    [] op.type = "left_join" -> "ret"
    [] OTHER -> "end"

\* b is where the innermost loop around x goes on.
Innermost(b, x) ==
  \E j \in 1..(x[2] - 1) :
    /\ <<x[1], j>> \in DOMAIN code
    /\ IsLoop(<<x[1], j>>) /\ \A k \in (j + 1)..(x[2] - 1) : ~IsLoop(<<x[1], k>>)
    /\ b = Block(<<x[1], j>>, LoopBlock(OpAt(<<x[1], j>>)))

\* Only sorts are between x and y.
Follows(x, y) ==
  /\ x[1] = y[1] /\ x[2] < y[2]
  /\ \A k \in (x[2] + 1)..(y[2] - 1) : OpAt(<<x[1], k>>).type = "sort"

\* An operator's blocks are linked with those of the next one, and return to the
\* innermost loop around it, although every visit overwrites where that is.
FlowInv ==
  /\ \A x \in DOMAIN code :
       /\ x \in Positions /\ OpAt(x).type # "sort"
       /\ x[2] > 1 => Innermost(code[x].ret, x)
       /\ OpAt(x).type = "limit" => code[x].end = <<x[1], 1, "end">>
       /\ ~IsLeaf(OpAt(x)) /\ phase # "aborted" =>
            \/ code[x].next \in DOMAIN code /\ Follows(x, code[x].next)
            \/ phase = "codegen" /\ at[2] > 1 /\ x = cv.prev_bb
  /\ phase = "codegen" /\ at[2] > 1 =>
       /\ Innermost(cv.main_return, at)
       /\ cv.scan_nodes_end \in {Null, <<at[1], 1, "end">>}
       /\ cv.prev_bb \in DOMAIN code /\ Follows(cv.prev_bb, at)
  /\ \A p \in Entered : <<p, 1>> \in DOMAIN code
  /\ phase = "codegen" /\ cv.entry = <<>> => cv.scan_nodes_end = Null

\* The registers that the operator at x assigns.
Assigns(x) ==
  LET op == OpAt(x)
      Own(i, type) == [val |-> <<x[1], x[2], i>>, type |-> type]
      Shared(i, type) == [val |-> <<x[1], 0, i>>, type |-> type]
      types == RhsTypes(plan)[op.rhs]
  IN CASE op.type \in {"scan", "expand"} -> {Own(1, 0)}
       [] op.type = "foreach_rship"      -> {Own(1, 1)}
       [] op.type = "create"             -> {Own(1, IF op.dir = "node" THEN 0 ELSE 1)}
       [] op.type = "cross_join"         -> {Own(i, types[i]) : i \in DOMAIN types}
       [] op.type = "left_join"          -> {Own(i, types[i]) : i \in DOMAIN types} \cup {Shared(0, 7)}
       [] op.type = "project"            ->
            {Shared(i, ProjectedType(op.prexpr[i])) :
               i \in {j \in DOMAIN op.prexpr : op.prexpr[j].key # Keep}}
       [] OTHER                          -> {}

\* Those that the operators below x in its pipeline assign.
Available(x) == UNION {Assigns(<<x[1], j>>) : j \in {k \in 1..(x[2] - 1) : <<x[1], k>> \in DOMAIN code}}

\* A scan clears the registers.  The code of any other operator uses registers that
\* operators below it in the same pipeline assign, and of the types it takes them for.
RegsInv ==
  /\ \A x \in DOMAIN code : OpAt(x).type # "scan" =>
       /\ IsSequence(code[x].regs) /\ Range(code[x].regs) \subseteq Available(x)
       /\ Usable(OpAt(x), TypesOf(code[x].regs))
  /\ phase = "codegen" /\ at[2] > 1 => IsSequence(cv.regs) /\ Range(cv.regs) \subseteq Available(at)
  /\ phase = "codegen" /\ cv.entry = <<>> => cv.regs = <<>>

\* The types of the registers that an operator leaves, given those that it finds, and
\* so those that the operator at x finds.
TypesAfter(op, found, types) ==
  CASE op.type = "scan"      -> <<0>>
    [] op.type = "project"   ->
         [i \in DOMAIN op.prexpr |-> IF op.prexpr[i].key = Keep THEN found[op.prexpr[i].id + 1]
                                     ELSE ProjectedType(op.prexpr[i])]
    [] op.type = "create"    -> Append(found, IF op.dir = "node" THEN 0 ELSE 1)
    [] op.type = "left_join" -> Append(found \o OpTypes(op, types), 7)
    [] OTHER                 -> found \o OpTypes(op, types)
TypesBelow(plan_, p) ==
  LET types == RhsTypes(plan_)
      below[k \in 0..Len(plan_[p])] ==
        IF k = 0 THEN <<>> ELSE TypesAfter(plan_[p][k], below[k - 1], types)
  IN below
FoundTypes(x) == TypesBelow(plan, x[1])[x[2] - 1]

\* Whatever the order of the visits, the registers have the types that the plan says.
TypesInv ==
  /\ \A x \in DOMAIN code : x[2] > 1 => TypesOf(code[x].regs) = FoundTypes(x)
  /\ phase = "codegen" /\ at[2] > 1 => TypesOf(cv.regs) = FoundTypes(at)

\* Joins have identifiers of their own, and a pipeline that begins with a scan has a
\* block for its limits and keys for its projections.
NamesInv ==
  /\ \A x, y \in JoinPositions \cap DOMAIN code :
       code[x].jid \in 0..(cv.query_id_inline - 1) /\ (code[x].jid = code[y].jid => x = y)
  /\ phase = "codegen" /\ at = <<1, 1>> => cv.entry = <<>>
  /\ IsSequence(cv.project_string)
  /\ phase = "codegen" /\ at[2] > 1 /\ plan[at[1]][1].type = "scan" =>
       /\ cv.scan_nodes_end # Null
       /\ \A op \in Range(plan[at[1]]) : DOMAIN op.prexpr \subseteq DOMAIN cv.project_string

CodegenInv == OrderInv /\ JidInv /\ SlotInv /\ FlowInv /\ RegsInv /\ TypesInv /\ NamesInv
=============================================================================
